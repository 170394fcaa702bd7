---------------------------- MODULE AnalysisProofs ----------------------------
(***************************************************************************)
(* Proofs about a run as the analyzer sees it: the samples of the three    *)
(* source-time methods are nested, for any number of series and any order  *)
(* of source times, and the report counts the drops of the measurement.    *)
(***************************************************************************)
EXTENDS Analysis, Sums

\* What makes Nested inductive: no series is ahead of the feed, and the feed
\* is never behind a sample of the global method.
Ordered(m) ==
    /\ \A s \in Series : m.lastBySeries[s] <= m.lastGlobal
    /\ \A i \in DOMAIN m.global : m.global[i].time <= m.lastGlobal

MInv(m) == m \in Methods /\ Ordered(m) /\ Nested(m)

-----------------------------------------------------------------------------
(* Sequences of samples.                                                   *)

\* The elements of a sequence, by position.
LEMMA ElementsAre ==
    ASSUME NEW S, NEW q \in Seq(S)
    PROVE  /\ Len(q) \in Nat /\ DOMAIN q = 1..Len(q)
           /\ \A i \in DOMAIN q : q[i] \in S
  OBVIOUS

\* Appending adds one element.
LEMMA AppendElements ==
    ASSUME NEW S, NEW q \in Seq(S), NEW x \in S
    PROVE  /\ Elements(Append(q, x)) = Elements(q) \cup {x}
           /\ Append(q, x) \in Seq(S)
           /\ Len(Append(q, x)) = Len(q) + 1
           /\ DOMAIN Append(q, x) = DOMAIN q \cup {Len(q) + 1}
           /\ \A i \in DOMAIN q : Append(q, x)[i] = q[i]
           /\ Append(q, x)[Len(q) + 1] = x
  <1> DEFINE r == Append(q, x)
  <1>1. /\ r \in Seq(S) /\ Len(r) = Len(q) + 1
        /\ DOMAIN r = DOMAIN q \cup {Len(q) + 1}
        /\ \A i \in DOMAIN q : r[i] = q[i]
        /\ r[Len(q) + 1] = x
    OBVIOUS
  <1> HIDE DEF r
  <1>2. Elements(r) = Elements(q) \cup {x}
    BY <1>1 DEF Elements
  <1>3. QED
    BY <1>1, <1>2 DEF r

\* A sample is counted once, as selected or as rejected.
LEMMA SelectIfElements ==
    ASSUME NEW S, NEW q \in Seq(S), NEW x \in S, NEW b \in BOOLEAN
    PROVE  /\ SelectIf(b, q, x) \in Seq(S)
           /\ Elements(SelectIf(b, q, x)) =
                Elements(q) \cup (IF b THEN {x} ELSE {})
           /\ Len(SelectIf(b, q, x)) + One(~b) = Len(q) + 1
           /\ One(b) \in {0, 1} /\ One(~b) \in {0, 1}
  <1>1. /\ Append(q, x) \in Seq(S) /\ Len(Append(q, x)) = Len(q) + 1
        /\ Elements(Append(q, x)) = Elements(q) \cup {x}
    BY AppendElements
  <1>2. Len(q) \in Nat
    OBVIOUS
  <1>3. CASE b = TRUE
    <2>1. SelectIf(b, q, x) = Append(q, x) /\ One(b) = 1 /\ One(~b) = 0
      BY <1>3 DEF SelectIf, One
    <2>2. QED
      BY <1>1, <1>2, <1>3, <2>1
  <1>4. CASE b = FALSE
    <2>1. SelectIf(b, q, x) = q /\ One(b) = 0 /\ One(~b) = 1
      BY <1>4 DEF SelectIf, One
    <2>2. QED
      BY <1>2, <1>4, <2>1
  <1>5. QED
    BY <1>3, <1>4

-----------------------------------------------------------------------------
(* The operations.                                                         *)

\* The three methods are nested when they start.
LEMMA ResetNested == MInv(Reset)
  <1>1. /\ Reset.all = <<>> /\ Reset.perSeries = <<>> /\ Reset.global = <<>>
        /\ Reset.perSeriesRejected = 0 /\ Reset.globalRejected = 0
        /\ Reset.negativeAll = 0 /\ Reset.negativePerSeries = 0
        /\ Reset.negativeGlobal = 0 /\ Reset.lastGlobal = 0
        /\ \A s \in Series : Reset.lastBySeries[s] = 0
    BY DEF Reset, NoSourceTime
  <1>2. <<>> \in Seq(Sample) /\ [s \in Series |-> 0] \in [Series -> Nat]
    OBVIOUS
  <1>3. Reset \in Methods
    BY <1>2 DEF Reset, Methods, NoSourceTime
  <1>4. Ordered(Reset) /\ Nested(Reset)
    <2> DEFINE r == Reset
    <2>1. DOMAIN r.global = {} /\ Elements(r.global) = {}
          /\ Elements(r.perSeries) = {} /\ Elements(r.all) = {}
      BY <1>1 DEF Elements
    <2> HIDE DEF r
    <2>2. Ordered(r)
      BY <1>1, <2>1 DEF Ordered, r
    <2>3. Len(r.all) = 0 /\ Len(r.perSeries) = 0 /\ Len(r.global) = 0
      BY <1>1 DEF r
    <2>4. Nested(r)
      BY <1>1, <2>1, <2>3 DEF Nested, r
    <2>5. QED
      BY <2>2, <2>4 DEF r
  <1>5. QED
    BY <1>3, <1>4 DEF MInv

\* observe with a source time: an event that the global method selects is
\* newer than the last one of its series as well.
LEMMA ObserveNested ==
    ASSUME NEW m, MInv(m), NEW series \in Series, NEW time \in Int,
           NEW observed \in Nat
    PROVE  MInv(Observe(m, series, time, observed))
  <1>1. CASE time <= 0
    BY <1>1 DEF Observe
  <1>2. CASE time > 0
    <2> DEFINE latency == observed \div Milli - time
               sample == [series |-> series, time |-> time,
                          latency |-> IF latency > 0 THEN latency ELSE 0]
               newer == time > m.lastBySeries[series]
               newest == time > m.lastGlobal
               all == Append(m.all, sample)
               perSeries == SelectIf(newer, m.perSeries, sample)
               global == SelectIf(newest, m.global, sample)
               lastBySeries == [m.lastBySeries EXCEPT ![series] =
                                  IF time > @ THEN time ELSE @]
               lastGlobal == IF time > m.lastGlobal THEN time ELSE m.lastGlobal
               n == Observe(m, series, time, observed)
    <2>1. m \in Methods /\ Ordered(m) /\ Nested(m)
      BY DEF MInv
    <2>2. /\ m.all \in Seq(Sample) /\ m.perSeries \in Seq(Sample)
          /\ m.global \in Seq(Sample) /\ m.lastBySeries \in [Series -> Nat]
          /\ m.lastGlobal \in Nat
          /\ m.perSeriesRejected \in Nat /\ m.globalRejected \in Nat
          /\ m.negativeAll \in Nat /\ m.negativePerSeries \in Nat
          /\ m.negativeGlobal \in Nat
      BY <2>1 DEF Methods
    <2>3. n = [all |-> all, perSeries |-> perSeries, global |-> global,
               perSeriesRejected |-> m.perSeriesRejected + One(~newer),
               globalRejected |-> m.globalRejected + One(~newest),
               negativeAll |-> m.negativeAll + One(latency < 0),
               negativePerSeries |->
                 m.negativePerSeries + One(newer /\ latency < 0),
               negativeGlobal |-> m.negativeGlobal + One(newest /\ latency < 0),
               lastBySeries |-> lastBySeries, lastGlobal |-> lastGlobal]
      <3> DEFINE t == Select(m, series, time, observed)
      <3>1. t = [m EXCEPT
                   !.all = all, !.perSeries = perSeries, !.global = global,
                   !.perSeriesRejected = m.perSeriesRejected + One(~newer),
                   !.globalRejected = m.globalRejected + One(~newest),
                   !.negativeAll = m.negativeAll + One(latency < 0),
                   !.negativePerSeries =
                     m.negativePerSeries + One(newer /\ latency < 0),
                   !.negativeGlobal =
                     m.negativeGlobal + One(newest /\ latency < 0)]
        BY <2>1 DEF Select, Methods
      <3>2. n = [t EXCEPT
                   !.lastBySeries[series] = IF time > @ THEN time ELSE @,
                   !.lastGlobal = IF time > @ THEN time ELSE @]
        BY <1>2 DEF Observe
      <3> HIDE DEF t, n, all, perSeries, global, newer, newest, latency
      <3>3. /\ t.lastBySeries = m.lastBySeries /\ t.lastGlobal = m.lastGlobal
            /\ t \in [all : {all}, perSeries : {perSeries}, global : {global},
                      perSeriesRejected :
                        {m.perSeriesRejected + One(~newer)},
                      globalRejected : {m.globalRejected + One(~newest)},
                      negativeAll : {m.negativeAll + One(latency < 0)},
                      negativePerSeries :
                        {m.negativePerSeries + One(newer /\ latency < 0)},
                      negativeGlobal :
                        {m.negativeGlobal + One(newest /\ latency < 0)},
                      lastBySeries : {m.lastBySeries},
                      lastGlobal : {m.lastGlobal}]
        BY <2>1, <3>1 DEF Methods
      <3>4. QED
        BY <3>2, <3>3
    <2>4. latency \in Int
      BY SourceTimeAssumption
    <2>5. sample \in Sample /\ sample.time = time
      BY <1>2, <2>4 DEF Sample
    <2>6. newer \in BOOLEAN /\ newest \in BOOLEAN /\ (newest => newer)
      BY <2>1, <2>2 DEF Ordered
    <2>7. lastGlobal \in Nat /\ lastGlobal >= m.lastGlobal /\ lastGlobal >= time
      BY <1>2, <2>2
    <2>8. /\ lastBySeries \in [Series -> Nat]
          /\ \A s \in Series : lastBySeries[s] <= lastGlobal
      BY <1>2, <2>1, <2>2, <2>7 DEF Ordered
    <2>9. /\ all \in Seq(Sample) /\ perSeries \in Seq(Sample)
          /\ global \in Seq(Sample)
          /\ Elements(all) = Elements(m.all) \cup {sample}
          /\ Elements(perSeries) =
               Elements(m.perSeries) \cup (IF newer THEN {sample} ELSE {})
          /\ Elements(global) =
               Elements(m.global) \cup (IF newest THEN {sample} ELSE {})
          /\ Len(all) = Len(m.all) + 1
          /\ Len(perSeries) + One(~newer) = Len(m.perSeries) + 1
          /\ Len(global) + One(~newest) = Len(m.global) + 1
      <3> HIDE DEF newer, newest, sample, latency
      <3>1. /\ Append(m.all, sample) \in Seq(Sample)
            /\ Elements(Append(m.all, sample)) = Elements(m.all) \cup {sample}
            /\ Len(Append(m.all, sample)) = Len(m.all) + 1
        BY <2>2, <2>5, AppendElements
      <3>2. \A q \in Seq(Sample), b \in BOOLEAN :
              /\ SelectIf(b, q, sample) \in Seq(Sample)
              /\ Elements(SelectIf(b, q, sample)) =
                   Elements(q) \cup (IF b THEN {sample} ELSE {})
              /\ Len(SelectIf(b, q, sample)) + One(~b) = Len(q) + 1
        BY <2>5, SelectIfElements
      <3>3. /\ m.perSeries \in Seq(Sample) /\ m.global \in Seq(Sample)
        BY <2>2
      <3>4. /\ SelectIf(newer, m.perSeries, sample) \in Seq(Sample)
            /\ Elements(SelectIf(newer, m.perSeries, sample)) =
                 Elements(m.perSeries) \cup (IF newer THEN {sample} ELSE {})
            /\ Len(SelectIf(newer, m.perSeries, sample)) + One(~newer) =
                 Len(m.perSeries) + 1
        BY Zenon, <2>6, <3>2, <3>3
      <3>5. /\ SelectIf(newest, m.global, sample) \in Seq(Sample)
            /\ Elements(SelectIf(newest, m.global, sample)) =
                 Elements(m.global) \cup (IF newest THEN {sample} ELSE {})
            /\ Len(SelectIf(newest, m.global, sample)) + One(~newest) =
                 Len(m.global) + 1
        BY Zenon, <2>6, <3>2, <3>3
      <3>6. QED
        BY <3>1, <3>4, <3>5
    <2>10. /\ \A i \in DOMAIN global : global[i].time <= lastGlobal
           /\ \A i, j \in DOMAIN global :
                i < j => global[i].time < global[j].time
      <3>1. CASE newest
        <4>1. /\ global = Append(m.global, sample)
              /\ DOMAIN global = DOMAIN m.global \cup {Len(m.global) + 1}
              /\ \A i \in DOMAIN m.global : global[i] = m.global[i]
              /\ global[Len(m.global) + 1] = sample
              /\ DOMAIN m.global = 1..Len(m.global) /\ Len(m.global) \in Nat
          <5> HIDE DEF sample, newest
          <5>1. global = Append(m.global, sample)
            BY <3>1 DEF SelectIf
          <5>2. /\ DOMAIN Append(m.global, sample) =
                     DOMAIN m.global \cup {Len(m.global) + 1}
                /\ \A i \in DOMAIN m.global :
                     Append(m.global, sample)[i] = m.global[i]
                /\ Append(m.global, sample)[Len(m.global) + 1] = sample
            <6>1. m.global \in Seq(Sample)
              BY <2>2
            <6>2. QED
              BY <2>5, <6>1, AppendElements, SMTT(20)
          <5>3. DOMAIN m.global = 1..Len(m.global) /\ Len(m.global) \in Nat
            BY <2>2, ElementsAre
          <5> HIDE DEF global
          <5>4. QED
            BY <5>1, <5>2, <5>3
        <4>2. \A i \in DOMAIN m.global : m.global[i].time <= m.lastGlobal
          BY <2>1 DEF Ordered
        <4>3. \A i \in DOMAIN m.global : m.global[i].time \in Int
          <5>1. \A i \in DOMAIN m.global : m.global[i] \in Sample
            BY <2>2, ElementsAre
          <5>2. \A x \in Sample : x.time \in Int
            BY DEF Sample
          <5>3. QED
            BY <5>1, <5>2
        <4>4. \A i, j \in DOMAIN m.global :
                i < j => m.global[i].time < m.global[j].time
          BY <2>1 DEF Nested
        <4>5. time > m.lastGlobal
          BY <3>1
        <4> HIDE DEF sample, newest, global, lastGlobal
        <4>6. QED
          <5>1. /\ \A i \in DOMAIN m.global : global[i].time = m.global[i].time
                /\ global[Len(m.global) + 1].time = time
            <6>1. sample.time = time
              BY <2>5
            <6>2. QED
              BY <4>1, <6>1
          <5>2. \A i \in DOMAIN m.global : global[i].time < time
            <6> SUFFICES ASSUME NEW i \in DOMAIN m.global
                         PROVE  global[i].time < time
              OBVIOUS
            <6> DEFINE x == m.global[i].time
                       y == m.lastGlobal
            <6>1. x \in Int /\ y \in Int /\ x <= y /\ time > y
              BY <2>2, <4>2, <4>3, <4>5
            <6> HIDE DEF x, y
            <6>2. x < time
              BY <6>1
            <6>3. QED
              BY <5>1, <6>2 DEF x
          <5>3. \A i \in DOMAIN m.global : i \in Nat /\ i < Len(m.global) + 1
            BY <4>1
          <5>4. \A i \in DOMAIN global : global[i].time <= lastGlobal
            <6>1. \A i \in DOMAIN m.global : global[i].time <= lastGlobal
              <7> SUFFICES ASSUME NEW i \in DOMAIN m.global
                           PROVE  global[i].time <= lastGlobal
                OBVIOUS
              <7> DEFINE x == m.global[i].time
                         y == m.lastGlobal
              <7>1. /\ x \in Int /\ y \in Int /\ lastGlobal \in Int
                    /\ x <= y /\ y <= lastGlobal
                BY <2>2, <2>7, <4>2, <4>3
              <7> HIDE DEF x, y
              <7>2. x <= lastGlobal
                BY <7>1
              <7>3. QED
                BY <5>1, <7>2 DEF x
            <6>2. global[Len(m.global) + 1].time <= lastGlobal
              BY <2>7, <5>1
            <6>3. QED
              BY <4>1, <6>1, <6>2
          <5>5. \A i, j \in DOMAIN global :
                  i < j => global[i].time < global[j].time
            <6> SUFFICES ASSUME NEW i \in DOMAIN global,
                                NEW j \in DOMAIN global, i < j
                         PROVE  global[i].time < global[j].time
              OBVIOUS
            <6>1. i \in DOMAIN m.global
              BY <4>1, <5>3
            <6>2. CASE j \in DOMAIN m.global
              BY <4>4, <5>1, <6>1, <6>2
            <6>3. CASE j = Len(m.global) + 1
              BY <5>1, <5>2, <6>1, <6>3
            <6>4. QED
              BY <4>1, <6>2, <6>3
          <5>6. QED
            BY <5>4, <5>5
      <3>2. CASE ~newest
        <4>1. global = m.global
          BY <3>2 DEF SelectIf
        <4>2. \A i \in DOMAIN m.global :
                m.global[i].time <= m.lastGlobal /\ m.global[i].time \in Int
          <5>1. \A i \in DOMAIN m.global : m.global[i] \in Sample
            BY <2>2, ElementsAre
          <5>2. \A x \in Sample : x.time \in Int
            BY DEF Sample
          <5>3. QED
            BY <2>1, <5>1, <5>2 DEF Ordered
        <4> HIDE DEF global, lastGlobal, newest
        <4>3. QED
          <5>1. \A i, j \in DOMAIN m.global :
                  i < j => m.global[i].time < m.global[j].time
            BY <2>1 DEF Nested
          <5>2. \A i \in DOMAIN m.global : m.global[i].time <= lastGlobal
            BY <2>2, <2>7, <4>2
          <5>3. QED
            BY <4>1, <5>1, <5>2
      <3>3. QED
        BY <3>1, <3>2
    <2>11. /\ One(latency < 0) \in {0, 1}
           /\ One(newer /\ latency < 0) \in {0, 1}
           /\ One(newest /\ latency < 0) \in {0, 1}
           /\ One(~newer) \in {0, 1} /\ One(~newest) \in {0, 1}
           /\ One(newest /\ latency < 0) <= One(newer /\ latency < 0)
           /\ One(newer /\ latency < 0) <= One(latency < 0)
           /\ One(~newest) >= One(~newer)
      <3> DEFINE negative == latency < 0
      <3>1. negative \in BOOLEAN
        BY <2>4
      <3> HIDE DEF negative, newer, newest
      <3>2. /\ \A b \in BOOLEAN : One(b) \in {0, 1}
            /\ One(TRUE) = 1 /\ One(FALSE) = 0
        BY DEF One
      <3>3. /\ (newer /\ negative) \in BOOLEAN
            /\ (newest /\ negative) \in BOOLEAN
            /\ (~newer) \in BOOLEAN /\ (~newest) \in BOOLEAN
        OBVIOUS
      <3>4. One(newest /\ negative) <= One(newer /\ negative)
        BY <2>6, <3>1 DEF One
      <3>5. One(newer /\ negative) <= One(negative)
        BY <2>6, <3>1 DEF One
      <3>6. One(~newest) >= One(~newer)
        BY <2>6 DEF One
      <3>7. QED
        BY <3>1, <3>2, <3>3, <3>4, <3>5, <3>6 DEF negative
    <2> HIDE DEF latency, sample, newer, newest, all, perSeries, global,
                 lastBySeries, lastGlobal, n
    <2>12. n \in Methods
      <3>1. /\ m.perSeriesRejected + One(~newer) \in Nat
            /\ m.globalRejected + One(~newest) \in Nat
            /\ m.negativeAll + One(latency < 0) \in Nat
            /\ m.negativePerSeries + One(newer /\ latency < 0) \in Nat
            /\ m.negativeGlobal + One(newest /\ latency < 0) \in Nat
        <4>1. \A x \in Nat, y \in {0, 1} : x + y \in Nat
          OBVIOUS
        <4>2. QED
          BY <2>2, <2>11, <4>1, Zenon
      <3>2. QED
        BY <2>3, <2>7, <2>8, <2>9, <3>1 DEF Methods
    <2>13. Ordered(n)
      BY <2>3, <2>8, <2>10 DEF Ordered
    <2>14. /\ Len(m.all) = Len(m.perSeries) + m.perSeriesRejected
           /\ Len(m.all) = Len(m.global) + m.globalRejected
           /\ Elements(m.global) \subseteq Elements(m.perSeries)
           /\ Elements(m.perSeries) \subseteq Elements(m.all)
           /\ m.globalRejected >= m.perSeriesRejected
           /\ m.negativeGlobal <= m.negativePerSeries
           /\ m.negativePerSeries <= m.negativeAll
      BY <2>1 DEF Nested
    <2>15. /\ Elements(global) \subseteq Elements(perSeries)
           /\ Elements(perSeries) \subseteq Elements(all)
      BY <2>6, <2>9, <2>14
    <2>16. /\ Len(all) = Len(perSeries)
                + (m.perSeriesRejected + One(~newer))
           /\ Len(all) = Len(global) + (m.globalRejected + One(~newest))
      <3>1. /\ Len(m.all) \in Nat /\ Len(m.perSeries) \in Nat
            /\ Len(m.global) \in Nat /\ Len(all) \in Nat
            /\ Len(perSeries) \in Nat /\ Len(global) \in Nat
        BY <2>2, <2>9, ElementsAre
      <3>2. QED
        <4> DEFINE a == Len(m.all)
                   a1 == Len(all)
                   p == Len(m.perSeries)
                   p1 == Len(perSeries)
                   g == Len(m.global)
                   g1 == Len(global)
                   r1 == m.perSeriesRejected
                   r2 == m.globalRejected
                   o1 == One(~newer)
                   o2 == One(~newest)
        <4>1. /\ a \in Nat /\ a1 \in Nat /\ p \in Nat /\ p1 \in Nat
              /\ g \in Nat /\ g1 \in Nat /\ r1 \in Nat /\ r2 \in Nat
              /\ o1 \in Nat /\ o2 \in Nat
          BY <2>2, <2>11, <3>1
        <4>2. a = p + r1 /\ a = g + r2
          BY <2>14
        <4>3. a1 = a + 1 /\ p1 + o1 = p + 1 /\ g1 + o2 = g + 1
          BY <2>9
        <4> HIDE DEF a, a1, p, p1, g, g1, r1, r2, o1, o2
        <4>4. a1 = p1 + (r1 + o1)
          BY <4>1, <4>2, <4>3
        <4>5. a1 = g1 + (r2 + o2)
          BY <4>1, <4>2, <4>3
        <4>6. QED
          BY <4>4, <4>5 DEF a1, p1, g1, r1, r2, o1, o2
    <2>17. Nested(n)
      <3>1. /\ n.all = all /\ n.perSeries = perSeries /\ n.global = global
            /\ n.perSeriesRejected = m.perSeriesRejected + One(~newer)
            /\ n.globalRejected = m.globalRejected + One(~newest)
            /\ n.negativeAll = m.negativeAll + One(latency < 0)
            /\ n.negativePerSeries =
                 m.negativePerSeries + One(newer /\ latency < 0)
            /\ n.negativeGlobal =
                 m.negativeGlobal + One(newest /\ latency < 0)
        BY <2>3
      <3>2. n.globalRejected >= n.perSeriesRejected
        BY <2>2, <2>11, <2>14, <3>1
      <3>3. /\ n.negativeGlobal <= n.negativePerSeries
            /\ n.negativePerSeries <= n.negativeAll
        <4>1. \A x, y \in Nat, u, v \in {0, 1} :
                 x <= y /\ u <= v => x + u <= y + v
          OBVIOUS
        <4>2. QED
          BY <2>2, <2>11, <2>14, <3>1, <4>1, SMTT(20)
      <3>4. /\ Len(n.all) = Len(n.perSeries) + n.perSeriesRejected
            /\ Len(n.all) = Len(n.global) + n.globalRejected
        BY <2>16, <3>1
      <3>5. /\ Elements(n.global) \subseteq Elements(n.perSeries)
            /\ Elements(n.perSeries) \subseteq Elements(n.all)
        BY <2>15, <3>1
      <3>6. \A i, j \in DOMAIN n.global :
              i < j => n.global[i].time < n.global[j].time
        BY <2>10, <3>1
      <3>7. QED
        BY <3>2, <3>3, <3>4, <3>5, <3>6 DEF Nested
    <2>18. QED
      BY <2>12, <2>13, <2>17 DEF MInv, n
  <1>3. QED
    BY <1>1, <1>2

-----------------------------------------------------------------------------

Inv == now \in Nat /\ MInv(methods)

\* The comparison belongs to one measurement: it starts empty, and a Trade is
\* all that adds to it.
THEOREM MethodsStayNested == Spec => []MethodsNested
  <1>1. Init => Inv
    BY ResetNested DEF Init, Inv
  <1>2. Inv /\ [Next]_vars => Inv'
    <2> SUFFICES ASSUME Inv, [Next]_vars PROVE Inv'
      OBVIOUS
    <2>1. CASE Trade
      <3>1. PICK series \in Series, time \in SourceTimes, observed \in 0..now :
              methods' = Observe(methods, series, time, observed)
        BY <2>1 DEF Trade
      <3>2. time \in Int /\ observed \in Nat
        BY AnalysisAssumption DEF Inv
      <3>3. MInv(methods')
        BY <3>1, <3>2, ObserveNested DEF Inv
      <3>4. now' = now
        BY <2>1 DEF Trade
      <3>5. QED
        BY <3>3, <3>4 DEF Inv
    <2>2. CASE Begin
      BY <2>2, ResetNested DEF Begin, Inv
    <2>3. CASE Tick
      BY <2>3 DEF Tick, Inv
    <2>4. CASE \/ Drop \/ Record \/ Window \/ End \/ Analyze \/ Analyzed
               \/ UNCHANGED vars
      BY <2>4 DEF Drop, Record, Window, End, Analyze, Analyzed, vars, Inv
    <2>5. QED
      BY <2>1, <2>2, <2>3, <2>4 DEF Next
  <1>3. Inv => MethodsNested
    BY DEF Inv, MInv, MethodsNested
  <1>4. QED
    BY <1>1, <1>2, <1>3, PTL DEF Spec
-----------------------------------------------------------------------------
(* The drop report.  Every drop belongs to the record that was written     *)
(* after it, or to the next one: owner names it.  The counters count the   *)
(* drops they own, and a drop lies between the record before its owner and *)
(* its owner.                                                              *)

LogRecord == [end : Nat, dropped : Nat]

AnyRow == [kind : {"event" \o "", "batch" \o "", "event" \o "-total",
                   "batch" \o "-total"},
           start : Nat, end : Nat]

\* Types.
AnalysisTypes ==
    /\ now \in Nat /\ dropped \in Nat
    /\ windowStart \in Nat /\ windowStart <= now
    /\ rows \in Seq(AnyRow) /\ log \in Seq(LogRecord) /\ drops \in Seq(Nat)

\* No row ends in the future.
RowsInPast == \A i \in 1 .. Len(rows) : rows[i].end <= now

\* Records are written one after the other, the first after a period.
LogRises ==
    /\ \A i \in 1 .. Len(log) : Period <= log[i].end /\ log[i].end <= now
    /\ \A i, j \in 1 .. Len(log) : i < j => log[i].end < log[j].end

Owned(owner, i) == { k \in 1 .. Len(drops) : owner[k] = i }

\* A drop lies in the interval of its owner.
DropPlaced(owner, k) ==
    /\ owner[k] \in 1 .. Len(log) + 1
    /\ owner[k] > 1 => log[owner[k] - 1].end <= drops[k]
    /\ owner[k] <= Len(log) => drops[k] <= log[owner[k]].end

\* The counters are those of the drops.
Owns(owner) ==
    /\ \A k \in 1 .. Len(drops) : DropPlaced(owner, k)
    /\ \A i \in 1 .. Len(log) : log[i].dropped = Cardinality(Owned(owner, i))
    /\ dropped = Cardinality(Owned(owner, Len(log) + 1))

DropsOwned ==
    /\ \A k \in 1 .. Len(drops) : drops[k] <= now
    /\ \E owner \in [1 .. Len(drops) -> Nat] : Owns(owner)

\* The analyzer reads what is there, and nothing is written after it.
AnalysisIsSum ==
    stage = "analyzed" =>
        analysis = IF Measurement(rows) = None \/ log = <<>> THEN None
                   ELSE DroppedSum(log, Period, Measurement(rows))

DropInv ==
    AnalysisTypes /\ RowsInPast /\ LogRises /\ DropsOwned /\ AnalysisIsSum

\* Facts about sequences of numbers and records.
LEMMA AppendFacts ==
    ASSUME NEW S
    PROVE  \A q \in Seq(S), x \in S :
              /\ Append(q, x) \in Seq(S) /\ Len(Append(q, x)) = Len(q) + 1
              /\ \A i \in 1 .. Len(q) : Append(q, x)[i] = q[i]
              /\ Append(q, x)[Len(q) + 1] = x
  OBVIOUS

\* ConcatFacts: what is where in a concatenation.
LEMMA ConcatFacts ==
    ASSUME NEW S
    PROVE  \A p, q \in Seq(S) :
              /\ p \o q \in Seq(S) /\ Len(p \o q) = Len(p) + Len(q)
              /\ \A i \in 1 .. Len(p) : (p \o q)[i] = p[i]
              /\ \A i \in Len(p) + 1 .. Len(p) + Len(q) :
                    (p \o q)[i] = q[i - Len(p)]
  OBVIOUS

\* OneOrTwo: what there is in a pair of rows.
LEMMA OneOrTwo == \A i \in 1 .. 2 : i = 1 \/ i = 2
  OBVIOUS

\* PairFacts: the two elements of a pair.
LEMMA PairFacts ==
    ASSUME NEW S
    PROVE  \A a, b \in S :
              /\ <<a, b>> \in Seq(S) /\ Len(<<a, b>>) = 2
              /\ <<a, b>>[1] = a /\ <<a, b>>[2] = b
  OBVIOUS

\* The numbers that the files and the history hold.
LEMMA Numbers ==
    ASSUME AnalysisTypes
    PROVE  /\ Len(log) \in Nat /\ Len(drops) \in Nat /\ Len(rows) \in Nat
           /\ \A i \in 1 .. Len(log) : log[i].end \in Nat
           /\ \A k \in 1 .. Len(drops) : drops[k] \in Nat
           /\ \A i \in 1 .. Len(rows) : rows[i].start \in Nat /\ rows[i].end \in Nat
           /\ now \in Nat /\ dropped \in Nat
  <1>1. log \in Seq(LogRecord) /\ drops \in Seq(Nat) /\ rows \in Seq(AnyRow)
    BY DEF AnalysisTypes
  <1>2. \A i \in 1 .. Len(log) : log[i] \in LogRecord
    BY <1>1
  <1>3. \A i \in 1 .. Len(rows) : rows[i] \in AnyRow
    BY <1>1
  <1>4. \A r \in LogRecord : r.end \in Nat
    BY DEF LogRecord
  <1>5. \A r \in AnyRow : r.start \in Nat /\ r.end \in Nat
    BY DEF AnyRow
  <1>6. \A k \in 1 .. Len(drops) : drops[k] \in Nat
    BY <1>1
  <1> QED
    BY <1>1, <1>2, <1>3, <1>4, <1>5, <1>6 DEF AnalysisTypes

\* DropsStay: a step that touches neither log nor drops keeps their part.
LEMMA DropsStay ==
    ASSUME AnalysisTypes, LogRises, DropsOwned, UNCHANGED monitored,
           now' \in Nat, now <= now'
    PROVE  LogRises' /\ DropsOwned'
  <1>1. log' = log /\ drops' = drops /\ dropped' = dropped
    BY DEF monitored
  <1>2. LogRises'
    <2>1. \A i \in 1 .. Len(log) : log[i].end \in Nat
      BY Numbers
    <2> QED
      BY <1>1, <2>1 DEF LogRises, AnalysisTypes
  <1>3. \A k \in 1 .. Len(drops) : drops[k] <= now'
    <2>1. \A k \in 1 .. Len(drops) : drops[k] \in Nat
      BY DEF AnalysisTypes
    <2> QED
      BY <2>1 DEF DropsOwned, AnalysisTypes
  <1>4. PICK owner \in [1 .. Len(drops) -> Nat] : Owns(owner)
    BY DEF DropsOwned
  <1>5. Owns(owner)'
    BY <1>1, <1>4 DEF Owns, DropPlaced, Owned
  <1> QED
    BY <1>1, <1>2, <1>3, <1>5 DEF DropsOwned

\* RowsAppended: rows of the past that are appended are rows of the past.
LEMMA RowsAppended ==
    ASSUME AnalysisTypes, RowsInPast, NEW new \in Seq(AnyRow),
           \A i \in 1 .. Len(new) : new[i].end <= now
    PROVE  /\ rows \o new \in Seq(AnyRow)
           /\ \A i \in 1 .. Len(rows \o new) : (rows \o new)[i].end <= now
  <1>1. /\ rows \o new \in Seq(AnyRow)
        /\ Len(rows \o new) = Len(rows) + Len(new)
        /\ \A i \in 1 .. Len(rows) : (rows \o new)[i] = rows[i]
        /\ \A i \in Len(rows) + 1 .. Len(rows) + Len(new) :
              (rows \o new)[i] = new[i - Len(rows)]
    BY ConcatFacts DEF AnalysisTypes
  <1>2. Len(rows) \in Nat /\ Len(new) \in Nat
    BY DEF AnalysisTypes
  <1>3. ASSUME NEW i \in 1 .. Len(rows \o new) PROVE (rows \o new)[i].end <= now
    <2>1. CASE i <= Len(rows)
      BY <1>1, <1>2, <2>1 DEF RowsInPast
    <2>2. CASE i > Len(rows)
      <3>1. i - Len(rows) \in 1 .. Len(new)
        BY <1>1, <1>2, <2>2
      <3>2. (rows \o new)[i] = new[i - Len(rows)]
        BY <1>1, <1>2, <2>2
      <3> QED
        BY <3>1, <3>2
    <2> QED
      BY <1>2, <2>1, <2>2
  <1> QED
    BY <1>1, <1>3

\* The rows of a window or of the run.
LEMMA RowsTyped ==
    ASSUME NEW suffix \in {"", "-total"}, NEW s \in Nat, NEW e \in Nat
    PROVE  /\ Rows(suffix, s, e) \in Seq(AnyRow)
           /\ Len(Rows(suffix, s, e)) = 2
           /\ \A i \in 1 .. 2 : Rows(suffix, s, e)[i].end = e
  <1> DEFINE a == Row("event" \o suffix, s, e)
             b == Row("batch" \o suffix, s, e)
  <1>1. a \in AnyRow /\ b \in AnyRow /\ a.end = e /\ b.end = e
    BY DEF Row, AnyRow
  <1>2. Rows(suffix, s, e) = <<a, b>>
    BY DEF Rows
  <1> HIDE DEF a, b
  <1>3. <<a, b>> \in Seq(AnyRow) /\ Len(<<a, b>>) = 2
        /\ <<a, b>>[1] = a /\ <<a, b>>[2] = b
    BY <1>1, PairFacts, Zenon
  <1>4. \A i \in 1 .. 2 : <<a, b>>[i].end = e
    BY <1>1, <1>3, OneOrTwo, Zenon
  <1>5. Rows(suffix, s, e) \in Seq(AnyRow) /\ Len(Rows(suffix, s, e)) = 2
    BY <1>2, <1>3
  <1> QED
    BY <1>2, <1>4, <1>5, Zenon

\* DropKept: a drop is owned by the record to come.
LEMMA DropKept ==
    ASSUME DropInv, Drop
    PROVE  DropInv'
  <1> USE DEF DropInv
  <1>1. /\ drops' = Append(drops, now) /\ dropped' = dropped + 1
        /\ log' = log /\ now' = now /\ stage # "analyzed" /\ stage' = stage
        /\ rows' = rows /\ windowStart' = windowStart
    BY DEF Drop, measured
  <1>2. /\ drops' \in Seq(Nat) /\ Len(drops') = Len(drops) + 1
        /\ \A k \in 1 .. Len(drops) : drops'[k] = drops[k]
        /\ drops'[Len(drops) + 1] = now /\ Len(drops) \in Nat
        /\ now \in Nat /\ Len(log) \in Nat
    BY <1>1, AppendFacts DEF AnalysisTypes
  <1>3. AnalysisTypes' /\ RowsInPast' /\ LogRises' /\ AnalysisIsSum'
    BY <1>1, <1>2 DEF AnalysisTypes, RowsInPast, LogRises, AnalysisIsSum
  <1>4. \A k \in 1 .. Len(drops') : k \in 1 .. Len(drops) \/ k = Len(drops) + 1
    BY <1>2
  <1>5. \A k \in 1 .. Len(drops') : drops'[k] <= now
    BY <1>2, <1>4 DEF DropsOwned
  <1>6. PICK owner \in [1 .. Len(drops) -> Nat] : Owns(owner)
    BY DEF DropsOwned
  <1> PICK n \in Nat, d \in Nat : n = Len(log) /\ d = Len(drops)
    BY <1>2
  <1>7. PICK next \in [1 .. d + 1 -> Nat] :
               /\ \A k \in 1 .. d : next[k] = owner[k]
               /\ next[d + 1] = n + 1
    <2> DEFINE f == [k \in 1 .. d + 1 |-> IF k = d + 1 THEN n + 1 ELSE owner[k]]
    <2>1. f \in [1 .. d + 1 -> Nat]
      OBVIOUS
    <2>2. (\A k \in 1 .. d : f[k] = owner[k]) /\ f[d + 1] = n + 1
      OBVIOUS
    <2> QED
      BY <2>1, <2>2
  <1>8. ASSUME NEW k \in 1 .. Len(drops') PROVE DropPlaced(next, k)'
    <2>1. CASE k \in 1 .. d
      <3>1. DropPlaced(owner, k)
        BY <1>6, <2>1 DEF Owns
      <3>2. next[k] = owner[k] /\ drops'[k] = drops[k]
        BY <1>2, <1>7, <2>1
      <3> QED
        BY <1>1, <3>1, <3>2 DEF DropPlaced
    <2>2. CASE k = d + 1
      <3>1. n > 0 => log[n].end <= now
        BY <1>2 DEF LogRises
      <3>2. next[k] = n + 1 /\ drops'[k] = now
        BY <1>2, <1>7, <2>2
      <3>3. /\ n + 1 \in 1 .. n + 1 /\ n + 1 - 1 = n /\ ~ (n + 1 <= n)
            /\ n + 1 > 1 => n > 0
        BY <1>2
      <3> QED
        BY <1>1, <3>1, <3>2, <3>3 DEF DropPlaced
    <2> QED
      BY <1>4, <2>1, <2>2
  <1>9. ASSUME NEW i \in 1 .. n PROVE Owned(next, i)' = Owned(owner, i)
    <2>1. i # n + 1 /\ n \in Nat
      BY <1>2
    <2>2. 1 .. d \subseteq 1 .. Len(drops')
      BY <1>2
    <2>3. \A k \in 1 .. Len(drops') :
             next[k] = i <=> k \in 1 .. d /\ owner[k] = i
      BY <1>2, <1>4, <1>7, <2>1
    <2> QED
      BY <2>2, <2>3 DEF Owned
  <1>10. Owned(next, n + 1)' = Owned(owner, n + 1) \cup {d + 1}
    <2>1. 1 .. d \subseteq 1 .. Len(drops') /\ d + 1 \in 1 .. Len(drops')
      BY <1>2
    <2>2. \A k \in 1 .. Len(drops') :
             next[k] = n + 1 <=> k = d + 1 \/ (k \in 1 .. d /\ owner[k] = n + 1)
      BY <1>2, <1>4, <1>7
    <2> QED
      BY <2>1, <2>2 DEF Owned
  <1>11. /\ IsFiniteSet(Owned(owner, n + 1)) /\ d + 1 \notin Owned(owner, n + 1)
         /\ Owned(owner, n + 1) \subseteq 1 .. d
    <2>1. Owned(owner, n + 1) \subseteq 1 .. d
      BY DEF Owned
    <2>2. IsFiniteSet(1 .. d)
      BY FS_Interval
    <2>3. d + 1 \notin 1 .. d
      OBVIOUS
    <2> QED
      BY <2>1, <2>2, <2>3, FS_Subset
  <1>12. dropped' = Cardinality(Owned(next, n + 1)')
    <2>1. Cardinality(Owned(owner, n + 1) \cup {d + 1}) =
             Cardinality(Owned(owner, n + 1)) + 1
      BY <1>11, FS_AddElement
    <2>2. dropped = Cardinality(Owned(owner, n + 1))
      BY <1>6 DEF Owns
    <2> QED
      BY <1>1, <1>10, <2>1, <2>2
  <1>13. Owns(next)'
    <2>1. \A i \in 1 .. n : log'[i].dropped = Cardinality(Owned(next, i)')
      BY <1>1, <1>6, <1>9 DEF Owns
    <2> QED
      BY <1>1, <1>8, <1>12, <2>1 DEF Owns
  <1>14. DropsOwned'
    <2>1. \A k \in 1 .. Len(drops') : drops'[k] <= now'
      BY <1>1, <1>5
    <2>2. \E o \in [1 .. Len(drops') -> Nat] : Owns(o)'
      BY <1>2, <1>13
    <2> QED
      BY <2>1, <2>2 DEF DropsOwned
  <1> QED
    BY <1>3, <1>14

\* RecordKept: a record owns what the counter counted, and the counter starts
\* over for the next one.
LEMMA RecordKept ==
    ASSUME DropInv, Record
    PROVE  DropInv'
  <1> USE DEF DropInv
  <1> DEFINE new == [end |-> now, dropped |-> dropped]
             n == Len(log)
  <1>1. /\ log' = Append(log, new) /\ dropped' = 0
        /\ drops' = drops /\ now' = now /\ stage # "analyzed" /\ stage' = stage
        /\ rows' = rows /\ windowStart' = windowStart
        /\ now - LastRecord >= Period
    BY DEF Record, measured
  <1>2. new \in LogRecord /\ new.end = now /\ new.dropped = dropped
    BY DEF AnalysisTypes, LogRecord
  <1> HIDE DEF new
  <1>3. /\ log' \in Seq(LogRecord) /\ Len(log') = n + 1 /\ n \in Nat
        /\ \A i \in 1 .. n : log'[i] = log[i] /\ log[i].end \in Nat
        /\ log'[n + 1] = new
        /\ now \in Nat /\ Len(drops) \in Nat /\ dropped \in Nat
    <2>1. log \in Seq(LogRecord)
      BY DEF AnalysisTypes
    <2>2. /\ Append(log, new) \in Seq(LogRecord)
          /\ Len(Append(log, new)) = n + 1
          /\ \A i \in 1 .. n : Append(log, new)[i] = log[i]
          /\ Append(log, new)[n + 1] = new
      <3>1. \A q \in Seq(LogRecord), x \in LogRecord :
               /\ Append(q, x) \in Seq(LogRecord)
               /\ Len(Append(q, x)) = Len(q) + 1
               /\ \A i \in 1 .. Len(q) : Append(q, x)[i] = q[i]
               /\ Append(q, x)[Len(q) + 1] = x
        BY AppendFacts
      <3> QED
        BY <1>2, <2>1, <3>1, Zenon
    <2> QED
      BY <1>1, <2>2, Numbers
  <1>4. Period \in Nat /\ Period > 0
    BY AnalysisAssumption
  <1>5. AnalysisTypes' /\ RowsInPast' /\ AnalysisIsSum'
    BY <1>1, <1>3 DEF AnalysisTypes, RowsInPast, AnalysisIsSum
  <1>6. \A i \in 1 .. n + 1 : i \in 1 .. n \/ i = n + 1
    BY <1>3
  <1>7. /\ Period <= now
        /\ \A i \in 1 .. n : log[i].end < now
    <2>1. CASE log = <<>>
      <3>1. n = 0 /\ LastRecord = 0
        BY <2>1 DEF LastRecord
      <3> QED
        BY <1>1, <1>3, <1>4, <3>1
    <2>2. CASE log # <<>>
      <3>1. n > 0 /\ n \in 1 .. n
        BY <1>3, <2>2 DEF AnalysisTypes
      <3>2. log[n].end + Period <= now /\ log[n].end \in Nat
        BY <1>1, <1>3, <1>4, <2>2, <3>1 DEF LastRecord
      <3>3. \A i \in 1 .. n : log[i].end <= log[n].end
        <4>1. \A i \in 1 .. n : i < n \/ i = n
          BY <1>3
        <4> QED
          BY <1>3, <3>1, <4>1 DEF LogRises
      <3> QED
        BY <1>3, <1>4, <3>2, <3>3
    <2> QED
      BY <2>1, <2>2
  <1>8. LogRises'
    <2>1. \A i \in 1 .. n + 1 : Period <= log'[i].end /\ log'[i].end <= now
      BY <1>2, <1>3, <1>6, <1>7 DEF LogRises
    <2>2. ASSUME NEW i \in 1 .. n + 1, NEW j \in 1 .. n + 1, i < j
          PROVE  log'[i].end < log'[j].end
      <3>1. i \in 1 .. n
        BY <1>3, <1>6, <2>2
      <3> QED
        BY <1>2, <1>3, <1>6, <1>7, <2>2, <3>1 DEF LogRises
    <2> QED
      BY <1>1, <1>3, <2>1, <2>2 DEF LogRises
  <1>9. PICK owner \in [1 .. Len(drops) -> Nat] : Owns(owner)
    BY DEF DropsOwned
  <1>10. \A i : Owned(owner, i)' = Owned(owner, i)
    BY <1>1 DEF Owned
  <1>11. ASSUME NEW k \in 1 .. Len(drops) PROVE DropPlaced(owner, k)'
    <2>1. DropPlaced(owner, k)
      BY <1>9 DEF Owns
    <2>2. drops[k] <= now
      BY DEF DropsOwned
    <2>3. owner[k] \in 1 .. n + 1
      BY <2>1 DEF DropPlaced
    <2>4. owner[k] > 1 => owner[k] - 1 \in 1 .. n
      BY <1>3, <2>3
    <2> QED
      BY <1>1, <1>2, <1>3, <1>6, <2>1, <2>2, <2>3, <2>4 DEF DropPlaced
  <1>12. \A i \in 1 .. n + 1 : log'[i].dropped = Cardinality(Owned(owner, i))
    BY <1>2, <1>3, <1>6, <1>9 DEF Owns
  <1>13. Owned(owner, n + 2) = {}
    <2>1. \A k \in 1 .. Len(drops) : owner[k] \in 1 .. n + 1
      BY <1>9 DEF Owns, DropPlaced
    <2> QED
      BY <1>3, <2>1 DEF Owned
  <1>14. Owns(owner)'
    <2>1. Cardinality(Owned(owner, n + 2)) = 0
      BY <1>13, FS_EmptySet
    <2>2. Len(log') + 1 = n + 2
      BY <1>3
    <2> QED
      BY <1>1, <1>3, <1>10, <1>11, <1>12, <2>1, <2>2 DEF Owns
  <1> QED
    BY <1>1, <1>5, <1>8, <1>14 DEF DropsOwned

\* RowsKept: a step that appends rows, or none, and leaves the log alone.
LEMMA RowsKept ==
    ASSUME DropInv, UNCHANGED monitored, now' \in Nat, now <= now',
           rows' = rows \/ (now' = now /\ \E new \in Seq(AnyRow) :
                              /\ rows' = rows \o new
                              /\ \A i \in 1 .. Len(new) : new[i].end <= now),
           windowStart' \in Nat, windowStart' <= now', AnalysisIsSum'
    PROVE  DropInv'
  <1> USE DEF DropInv
  <1>1. LogRises' /\ DropsOwned'
    BY DropsStay
  <1>2. rows' \in Seq(AnyRow) /\ RowsInPast'
    <2>1. CASE rows' = rows
      <3>1. \A i \in 1 .. Len(rows) : rows[i].end <= now'
        BY Numbers DEF RowsInPast
      <3> QED
        BY <2>1, <3>1 DEF RowsInPast, AnalysisTypes
    <2>2. CASE rows' # rows
      <3>1. PICK new \in Seq(AnyRow) :
                   /\ rows' = rows \o new /\ now' = now
                   /\ \A i \in 1 .. Len(new) : new[i].end <= now
        BY <2>2
      <3> QED
        BY <3>1, RowsAppended DEF RowsInPast
    <2> QED
      BY <2>1, <2>2
  <1>3. AnalysisTypes'
    BY <1>2 DEF AnalysisTypes, monitored
  <1> QED
    BY <1>1, <1>2, <1>3

\* EndKept: the last window and the totals are rows of the past.
LEMMA EndKept ==
    ASSUME DropInv, End
    PROVE  DropInv'
  <1>0. /\ now \in Nat /\ windowStart \in Nat /\ windowStart <= now
        /\ rows \in Seq(AnyRow) /\ AnalysisTypes /\ RowsInPast
    BY DEF DropInv, AnalysisTypes
  <1> DEFINE s == IF rows = <<>> THEN windowStart ELSE rows[1].start
             t == Rows("-total", s, now)
             w == Rows("", windowStart, now)
  <1>1. /\ UNCHANGED monitored /\ now' = now /\ stage' = "closed"
        /\ windowStart' = windowStart
        /\ rows' = rows \o t \/ rows' = rows \o w \o t
    BY DEF End
  <1>2. s \in Nat
    <2>1. rows # <<>> => 1 \in 1 .. Len(rows)
      BY <1>0
    <2> QED
      BY <1>0, <2>1, Numbers
  <1>3. /\ t \in Seq(AnyRow) /\ \A i \in 1 .. Len(t) : t[i].end <= now
        /\ w \in Seq(AnyRow) /\ \A i \in 1 .. Len(w) : w[i].end <= now
    <2> HIDE DEF s
    <2>1. /\ t \in Seq(AnyRow) /\ Len(t) = 2 /\ \A i \in 1 .. 2 : t[i].end = now
          /\ w \in Seq(AnyRow) /\ Len(w) = 2 /\ \A i \in 1 .. 2 : w[i].end = now
      BY <1>0, <1>2, RowsTyped
    <2> HIDE DEF t, w
    <2> QED
      BY <1>0, <2>1
  <1> HIDE DEF t, w
  <1>4. AnalysisIsSum'
    BY <1>1 DEF AnalysisIsSum
  <1> DEFINE Appended == \E new \in Seq(AnyRow) :
                            /\ rows' = rows \o new
                            /\ \A i \in 1 .. Len(new) : new[i].end <= now
  <1>7. ASSUME Appended PROVE DropInv'
    <2>1. now' \in Nat /\ now <= now'
      BY <1>0, <1>1
    <2>2. windowStart' \in Nat /\ windowStart' <= now'
      BY <1>0, <1>1
    <2>3. rows' = rows \/ (now' = now /\ Appended)
      BY <1>1, <1>7
    <2>4. UNCHANGED monitored /\ AnalysisIsSum'
      BY <1>1, <1>4
    <2> QED
      BY <2>1, <2>2, <2>3, <2>4, RowsKept, Zenon
  <1>5. CASE rows' = rows \o t
    <2>1. Appended
      BY <1>3, <1>5, Zenon
    <2> QED
      BY <1>7, <2>1
  <1>6. CASE rows' = rows \o w \o t
    <2>1. /\ w \o t \in Seq(AnyRow) /\ Len(w \o t) = Len(w) + Len(t)
          /\ \A i \in 1 .. Len(w) : (w \o t)[i] = w[i]
          /\ \A i \in Len(w) + 1 .. Len(w) + Len(t) :
                (w \o t)[i] = t[i - Len(w)]
      BY <1>3, ConcatFacts
    <2>2. Len(w) \in Nat /\ Len(t) \in Nat
      BY <1>3
    <2>3. ASSUME NEW i \in 1 .. Len(w \o t) PROVE (w \o t)[i].end <= now
      <3>1. CASE i <= Len(w)
        BY <1>3, <2>1, <2>2, <3>1
      <3>2. CASE i > Len(w)
        <4>1. i - Len(w) \in 1 .. Len(t) /\ (w \o t)[i] = t[i - Len(w)]
          BY <2>1, <2>2, <3>2
        <4> QED
          BY <1>3, <4>1
      <3> QED
        BY <2>2, <3>1, <3>2
    <2>4. rows \o w \o t = rows \o (w \o t)
      <3>1. \A p, q, r \in Seq(AnyRow) : p \o q \o r = p \o (q \o r)
        OBVIOUS
      <3> QED
        BY <1>0, <1>3, <3>1
    <2>5. Appended
      BY <1>6, <2>1, <2>3, <2>4, Zenon
    <2> QED
      BY <1>7, <2>5
  <1> QED
    BY <1>1, <1>5, <1>6

\* The invariant of the drop report.
LEMMA DropInvariant == Spec => []DropInv
  <1>1. Init => DropInv
    <2> SUFFICES ASSUME Init PROVE DropInv
      OBVIOUS
    <2>1. /\ now = 0 /\ windowStart = 0 /\ dropped = 0 /\ rows = <<>>
          /\ log = <<>> /\ drops = <<>> /\ stage = "warmup"
      BY DEF Init
    <2>2. AnalysisTypes
      BY <2>1 DEF AnalysisTypes
    <2>3. RowsInPast /\ LogRises /\ AnalysisIsSum
      BY <2>1 DEF RowsInPast, LogRises, AnalysisIsSum
    <2>4. PICK owner : owner = [k \in 1 .. Len(drops) |-> 0]
      OBVIOUS
    <2>5. 1 .. Len(drops) = {} /\ 1 .. Len(log) = {}
      BY <2>1
    <2>6. Owned(owner, Len(log) + 1) = {}
      BY <2>5 DEF Owned
    <2>7. Owns(owner)
      BY <2>1, <2>5, <2>6, FS_EmptySet DEF Owns
    <2>8. owner \in [1 .. Len(drops) -> Nat]
      BY <2>4
    <2> QED
      BY <2>2, <2>3, <2>5, <2>7, <2>8 DEF DropInv, DropsOwned
  <1>2. DropInv /\ [Next]_vars => DropInv'
    <2> SUFFICES ASSUME DropInv, [Next]_vars PROVE DropInv'
      OBVIOUS
    <2>0. /\ now \in Nat /\ windowStart \in Nat /\ windowStart <= now
          /\ rows \in Seq(AnyRow) /\ AnalysisIsSum
      BY DEF DropInv, AnalysisTypes
    <2>1. CASE Tick
      <3>1. /\ UNCHANGED monitored /\ rows' = rows /\ windowStart' = windowStart
            /\ now' = now + 1 /\ stage' = stage /\ stage # "analyzed"
        BY <2>1 DEF Tick, measured
      <3>2. AnalysisIsSum'
        BY <3>1 DEF AnalysisIsSum
      <3> QED
        BY <2>0, <3>1, <3>2, RowsKept
    <2>2. CASE Trade
      <3>1. /\ UNCHANGED monitored /\ rows' = rows /\ windowStart' = windowStart
            /\ now' = now /\ stage' = "measuring"
        BY <2>2 DEF Trade, measured
      <3>2. AnalysisIsSum'
        BY <3>1 DEF AnalysisIsSum
      <3> QED
        BY <2>0, <3>1, <3>2, RowsKept
    <2>3. CASE Drop
      BY <2>3, DropKept
    <2>4. CASE Record
      BY <2>4, RecordKept
    <2>5. CASE Begin
      <3>1. /\ UNCHANGED monitored /\ rows' = rows /\ windowStart' = now
            /\ now' = now /\ stage' = "measuring"
        BY <2>5 DEF Begin
      <3>2. AnalysisIsSum'
        BY <3>1 DEF AnalysisIsSum
      <3> QED
        BY <2>0, <3>1, <3>2, RowsKept
    <2>6. CASE Window
      <3>1. /\ UNCHANGED monitored /\ rows' = rows \o Rows("", windowStart, now)
            /\ now' = now /\ stage' = "measuring" /\ windowStart' = now
        BY <2>6 DEF Window
      <3>2. AnalysisIsSum'
        BY <3>1 DEF AnalysisIsSum
      <3>3. /\ Rows("", windowStart, now) \in Seq(AnyRow)
            /\ Len(Rows("", windowStart, now)) = 2
            /\ \A i \in 1 .. 2 : Rows("", windowStart, now)[i].end = now
        BY <2>0, RowsTyped
      <3>4. PICK new \in Seq(AnyRow) :
                   new = Rows("", windowStart, now)
        BY <3>3
      <3>5. \A i \in 1 .. Len(new) : new[i].end <= now
        <4>1. Len(new) = 2 /\ \A i \in 1 .. 2 : new[i].end = now
          BY <3>3, <3>4, Zenon
        <4> QED
          BY <2>0, <4>1
      <3>6. rows' = rows \o new
        BY <3>1, <3>4, Zenon
      <3>7. \E q \in Seq(AnyRow) :
               /\ rows' = rows \o q /\ \A i \in 1 .. Len(q) : q[i].end <= now
        BY <3>5, <3>6, Zenon
      <3>8. UNCHANGED monitored /\ now' = now /\ windowStart' = now
        BY <3>1
      <3>9. /\ now' \in Nat /\ now <= now'
            /\ windowStart' \in Nat /\ windowStart' <= now'
        BY <2>0, <3>8
      <3> QED
        BY <3>2, <3>7, <3>8, <3>9, RowsKept
    <2>7. CASE End
      BY <2>0, <2>7, EndKept
    <2>8. CASE Analyze
      <3>1. /\ UNCHANGED monitored /\ rows' = rows /\ windowStart' = windowStart
            /\ now' = now
            /\ analysis' = IF Measurement(rows) = None \/ log = <<>> THEN None
                           ELSE DroppedSum(log, Period, Measurement(rows))
        BY <2>8 DEF Analyze
      <3>2. log' = log
        BY <3>1 DEF monitored
      <3>3. AnalysisIsSum'
        BY <3>1, <3>2 DEF AnalysisIsSum
      <3> QED
        BY <2>0, <3>1, <3>3, RowsKept
    <2>9. CASE Analyzed \/ UNCHANGED vars
      <3>1. /\ UNCHANGED monitored /\ rows' = rows /\ windowStart' = windowStart
            /\ now' = now /\ stage' = stage /\ analysis' = analysis /\ log' = log
        BY <2>9 DEF Analyzed, vars, measured, monitored
      <3>2. AnalysisIsSum'
        BY <2>0, <3>1 DEF AnalysisIsSum
      <3> QED
        BY <2>0, <3>1, <3>2, RowsKept
    <2> QED
      BY <2>1, <2>2, <2>3, <2>4, <2>5, <2>6, <2>7, <2>8, <2>9 DEF Next
  <1> QED
    BY <1>1, <1>2, PTL DEF Spec
-----------------------------------------------------------------------------
(* Smallest and largest numbers, and the gap.                              *)

\* ExtremesExist: a finite set of integers has a smallest and a largest element.
LEMMA ExtremesExist ==
    ASSUME NEW S \in SUBSET Int, IsFiniteSet(S), S # {}
    PROVE  /\ \E x \in S : \A y \in S : x <= y
           /\ \E x \in S : \A y \in S : x >= y
  <1> DEFINE Low(T) == \E x \in T : \A y \in T : x <= y
             High(T) == \E x \in T : \A y \in T : x >= y
             P == { T \in SUBSET S : T = {} \/ (Low(T) /\ High(T)) }
  <1>1. ASSUME NEW T \in SUBSET S,
               \A U \in SUBSET S : Cardinality(U) < Cardinality(T) => U \in P
        PROVE  T \in P
    <2>1. SUFFICES ASSUME T # {} PROVE Low(T) /\ High(T)
      OBVIOUS
    <2>2. PICK e \in T : TRUE
      BY <2>1
    <2> DEFINE R == T \ {e}
    <2>3. R \in P
      <3>1. IsFiniteSet(T)
        BY FS_Subset
      <3>2. Cardinality(R) < Cardinality(T)
        BY <2>2, <3>1, SmallerSet
      <3> QED
        BY <1>1, <3>2
    <2>4. CASE R = {}
      <3>1. \A y \in T : y = e
        BY <2>4
      <3>2. e <= e /\ e >= e
        BY <2>2
      <3> QED
        BY <2>2, <3>1, <3>2
    <2>5. CASE R # {}
      <3>1. PICK x \in R : \A y \in R : x <= y
        BY <2>3, <2>5
      <3>2. PICK z \in R : \A y \in R : z >= y
        BY <2>3, <2>5
      <3>3. Low(T)
        <4>1. CASE x <= e
          <5>1. \A y \in T : y = e \/ y \in R
            OBVIOUS
          <5> QED
            BY <3>1, <4>1, <5>1
        <4>2. CASE ~ (x <= e)
          <5>1. \A y \in T : y \in Int /\ (y = e \/ y \in R)
            OBVIOUS
          <5>2. e \in Int /\ x \in Int /\ e <= x
            BY <4>2, <5>1
          <5>3. \A y \in T : e <= y
            BY <3>1, <5>1, <5>2
          <5> QED
            BY <5>3
        <4> QED
          BY <4>1, <4>2
      <3>4. High(T)
        <4>1. CASE z >= e
          <5>1. \A y \in T : y = e \/ y \in R
            OBVIOUS
          <5> QED
            BY <3>2, <4>1, <5>1
        <4>2. CASE ~ (z >= e)
          <5>1. \A y \in T : y \in Int /\ (y = e \/ y \in R)
            OBVIOUS
          <5>2. e \in Int /\ z \in Int /\ e >= z
            BY <4>2, <5>1
          <5>3. \A y \in T : e >= y
            BY <3>2, <5>1, <5>2
          <5> QED
            BY <5>3
        <4> QED
          BY <4>1, <4>2
      <3> QED
        BY <3>3, <3>4
    <2> QED
      BY <2>4, <2>5
  <1> HIDE DEF P
  <1>2. SUBSET S \subseteq P
    BY <1>1, SubsetInduction
  <1>3. S \in P
    BY <1>2
  <1> QED
    BY <1>3 DEF P

\* ExtremesAre: Min and Max choose them.
LEMMA ExtremesAre ==
    ASSUME NEW S \in SUBSET Int, IsFiniteSet(S), S # {}
    PROVE  /\ Min(S) \in S /\ \A y \in S : Min(S) <= y
           /\ Max(S) \in S /\ \A y \in S : Max(S) >= y
  <1>1. /\ \E x \in S : \A y \in S : x <= y
        /\ \E x \in S : \A y \in S : x >= y
    BY ExtremesExist
  <1>2. Min(S) \in S /\ \A y \in S : Min(S) <= y
    BY <1>1, Zenon DEF Min
  <1>3. Max(S) \in S /\ \A y \in S : Max(S) >= y
    BY <1>1, Zenon DEF Max
  <1> QED
    BY <1>2, <1>3

\* The instants Gap looks at.
Marks == {0, now} \cup { log[i].end : i \in DOMAIN log }

Later(a) == { b \in Marks : b > a }

\* GapCovers: no two instants with no mark between them are further apart.
LEMMA GapCovers ==
    ASSUME AnalysisTypes, LogRises
    PROVE  /\ Gap \in Nat
           /\ \A a, b \in Marks :
                a < b /\ (\A c \in Marks : a < c => b <= c) => b - a <= Gap
  <1>1. /\ Marks \in SUBSET Int /\ IsFiniteSet(Marks)
        /\ now \in Marks /\ \A a \in Marks : a <= now
    <2> DEFINE Ends == { log[i].end : i \in DOMAIN log }
    <2>1. DOMAIN log = 1 .. Len(log) /\ Len(log) \in Nat
      BY DEF AnalysisTypes
    <2>2. IsFiniteSet(DOMAIN log)
      BY <2>1, FS_Interval
    <2>3. IsFiniteSet(Ends)
      <3> DEFINE f == [i \in DOMAIN log |-> log[i].end]
      <3>1. Ends = { f[i] : i \in DOMAIN log }
        OBVIOUS
      <3> HIDE DEF f, Ends
      <3> QED
        BY <2>2, <3>1, ImageFinite
    <2>4. IsFiniteSet({0, now})
      <3>1. IsFiniteSet({0} \cup {now})
        BY FS_AddElement, FS_Singleton
      <3>2. {0} \cup {now} = {0, now}
        OBVIOUS
      <3> QED
        BY <3>1, <3>2
    <2>5. IsFiniteSet(Marks)
      BY <2>3, <2>4, FS_Union DEF Marks
    <2>6. \A a \in Marks : a \in Nat /\ a <= now
      BY <2>1, Numbers DEF Marks, LogRises
    <2>7. now \in Marks
      BY DEF Marks
    <2>8. Marks \in SUBSET Int
      BY <2>6
    <2> QED
      BY <2>5, <2>6, <2>7, <2>8
  <1> DEFINE Gaps == {0} \cup { Min(Later(a)) - a : a \in Marks \ {now} }
  <1>2. Gap = Max(Gaps)
    BY DEF Gap, Marks, Later
  <1>3. ASSUME NEW a \in Marks \ {now}
        PROVE  Min(Later(a)) \in Later(a) /\ \A y \in Later(a) : Min(Later(a)) <= y
    <2>1. Later(a) \in SUBSET Int /\ IsFiniteSet(Later(a))
      BY <1>1, FS_Subset DEF Later
    <2>2. now \in Later(a)
      BY <1>1 DEF Later
    <2> QED
      BY <2>1, <2>2, ExtremesAre
  <1>4. Gaps \in SUBSET Int /\ IsFiniteSet(Gaps)
    <2>1. IsFiniteSet(Marks \ {now})
      BY <1>1, FS_Subset
    <2>2. IsFiniteSet({ Min(Later(a)) - a : a \in Marks \ {now} })
      <3> DEFINE f == [a \in Marks \ {now} |-> Min(Later(a)) - a]
      <3>1. { Min(Later(a)) - a : a \in Marks \ {now} } =
               { f[a] : a \in Marks \ {now} }
        OBVIOUS
      <3> HIDE DEF f
      <3> QED
        BY <2>1, <3>1, ImageFinite
    <2>3. IsFiniteSet({0})
      BY FS_Singleton
    <2>4. IsFiniteSet(Gaps)
      BY <2>2, <2>3, FS_Union
    <2>5. \A a \in Marks \ {now} : Min(Later(a)) - a \in Int
      <3>1. ASSUME NEW a \in Marks \ {now} PROVE Min(Later(a)) - a \in Int
        <4>1. Min(Later(a)) \in Later(a)
          BY <1>3
        <4>2. Min(Later(a)) \in Int /\ a \in Int
          BY <1>1, <4>1, Later(a) \subseteq Marks DEF Later
        <4> QED
          BY <4>2
      <3> QED
        BY <3>1
    <2> QED
      BY <2>4, <2>5
  <1>5. Gap \in Gaps /\ \A y \in Gaps : Gap >= y
    BY <1>2, <1>4, ExtremesAre
  <1>6. Gap \in Nat
    BY <1>4, <1>5
  <1>7. ASSUME NEW a \in Marks, NEW b \in Marks, a < b,
               \A c \in Marks : a < c => b <= c
        PROVE  b - a <= Gap
    <2>1. a \in Int /\ b \in Int /\ a # now
      BY <1>1, <1>7
    <2>2. Min(Later(a)) \in Later(a) /\ \A y \in Later(a) : Min(Later(a)) <= y
      BY <1>3, <2>1
    <2>3. b \in Later(a) /\ \A c \in Later(a) : c \in Int /\ b <= c
      BY <1>1, <1>7 DEF Later
    <2>4. Min(Later(a)) = b
      <3>1. PICK m : m = Min(Later(a))
        OBVIOUS
      <3>2. m \in Later(a) /\ m <= b
        BY <2>2, <2>3, <3>1
      <3>3. m \in Int /\ b <= m
        BY <2>3, <3>2
      <3>4. m = b
        BY <2>1, <3>2, <3>3
      <3> QED
        BY <3>1, <3>4
    <2>5. Min(Later(a)) - a \in Gaps
      BY <2>1
    <2> QED
      BY <1>5, <2>4, <2>5
  <1> QED
    BY <1>6, <1>7

-----------------------------------------------------------------------------
(* The drop report counts the drops of the measurement.                    *)

\* MeasurementIs: it lasts from the start of a row to the end of one.
LEMMA MeasurementIs ==
    ASSUME AnalysisTypes, RowsInPast, Measurement(rows) # None
    PROVE  /\ Measurement(rows).start \in Nat
           /\ Measurement(rows).end \in Nat /\ Measurement(rows).end <= now
  <1> DEFINE events == { i \in DOMAIN rows : rows[i].kind = "event" }
  <1>1. DOMAIN rows = 1 .. Len(rows) /\ Len(rows) \in Nat
    BY DEF AnalysisTypes
  <1>2. IsFiniteSet(1 .. Len(rows)) /\ 1 .. Len(rows) \in SUBSET Int
    BY <1>1, FS_Interval
  <1>3. events \in SUBSET Int /\ IsFiniteSet(events)
    BY <1>1, <1>2, FS_Subset
  <1>4. Measurement(rows) = IF events = {} THEN None
           ELSE [start |-> rows[Min(events)].start, end |-> rows[Max(events)].end]
    BY DEF Measurement
  <1>5. events \subseteq 1 .. Len(rows)
    BY <1>1
  <1> HIDE DEF events
  <1>6. events # {}
    BY <1>4
  <1>7. Min(events) \in 1 .. Len(rows) /\ Max(events) \in 1 .. Len(rows)
    BY <1>3, <1>5, <1>6, ExtremesAre
  <1>8. /\ Measurement(rows).start = rows[Min(events)].start
        /\ Measurement(rows).end = rows[Max(events)].end
    BY <1>4, <1>6
  <1> QED
    BY <1>7, <1>8, Numbers DEF RowsInPast

\* SumIsOwned: the sum over records is the number of the drops they own.
LEMMA SumIsOwned ==
    ASSUME AnalysisTypes, NEW owner, Owns(owner), NEW inner \in SUBSET DOMAIN log
    PROVE  SumFunctionOnSet([i \in DOMAIN log |-> log[i].dropped], inner) =
               Cardinality({ k \in 1 .. Len(drops) : owner[k] \in inner })
  <1> DEFINE f == [i \in DOMAIN log |-> log[i].dropped]
             D == 1 .. Len(drops)
  <1>1. DOMAIN log = 1 .. Len(log) /\ Len(log) \in Nat /\ Len(drops) \in Nat
    BY DEF AnalysisTypes
  <1>2. IsFiniteSet(DOMAIN log) /\ IsFiniteSet(D)
    BY <1>1, FS_Interval
  <1>3. IsFiniteSet(inner)
    BY <1>2, FS_Subset
  <1>4. \A i \in inner : f[i] = Cardinality(Part(D, owner, {i}))
    <2>1. \A i \in inner : Owned(owner, i) = Part(D, owner, {i})
      BY DEF Owned, Part
    <2>2. \A i \in inner : f[i] = Cardinality(Owned(owner, i))
      BY <1>1 DEF Owns
    <2> QED
      BY <2>1, <2>2
  <1> HIDE DEF f, D
  <1>5. SumFunctionOnSet(f, inner) = Cardinality(Part(D, owner, inner))
    BY <1>2, <1>3, <1>4, SumOfFibres
  <1> QED
    BY <1>5 DEF f, D, Part

\* DropsWithin: the drops the records of the measurement own are drops of the
\* measurement, if the guess about the first record is right.
LEMMA DropsWithin ==
    ASSUME DropInv, NEW owner, Owns(owner), NEW s \in Nat, NEW e \in Nat,
           log # <<>>, log[1].end = Period,
           NEW k \in 1 .. Len(drops),
           owner[k] \in InnerRecords(log, Period, [start |-> s, end |-> e])
    PROVE  s <= drops[k] /\ drops[k] <= e
  <1>1. PICK i \in DOMAIN log :
               /\ owner[k] = i /\ IntervalStart(log, i, Period) >= s
               /\ log[i].end <= e
    BY DEF InnerRecords, InMeasurement
  <1>2. /\ i \in 1 .. Len(log) /\ Len(log) \in Nat /\ log[i].end \in Nat
        /\ drops[k] \in Nat
    BY Numbers DEF DropInv, AnalysisTypes
  <1>3. /\ i > 1 => log[i - 1].end <= drops[k]
        /\ drops[k] <= log[i].end
    BY <1>1, <1>2 DEF Owns, DropPlaced
  <1>4. s <= drops[k]
    <2>1. CASE i = 1
      <3>1. Period \in Nat /\ log[1].end - Period >= s
        BY <1>1, <2>1, AnalysisAssumption DEF IntervalStart
      <3> QED
        BY <1>2, <3>1
    <2>2. CASE i # 1
      <3>1. log[i - 1].end >= s /\ i > 1 /\ i - 1 \in 1 .. Len(log)
        BY <1>1, <1>2, <2>2 DEF IntervalStart
      <3>2. log[i - 1].end \in Nat
        BY <3>1, Numbers DEF DropInv
      <3> QED
        BY <1>2, <1>3, <3>1, <3>2
    <2> QED
      BY <2>1, <2>2
  <1> QED
    BY <1>1, <1>2, <1>3, <1>4

\* DropsInside: a drop further from both ends of the measurement than the gap
\* is owned by one of its records.
LEMMA DropsInside ==
    ASSUME DropInv, NEW owner, Owns(owner), NEW s \in Nat, NEW e \in Nat,
           e <= now, log # <<>>, NEW k \in 1 .. Len(drops),
           s + Gap <= drops[k], drops[k] <= e - Gap - 1
    PROVE  owner[k] \in InnerRecords(log, Period, [start |-> s, end |-> e])
  <1> DEFINE i == owner[k]
             n == Len(log)
  <1>1. /\ n \in Nat /\ n > 0 /\ DOMAIN log = 1 .. n
        /\ \A j \in 1 .. n : log[j].end \in Nat /\ log[j].end <= now
        /\ drops[k] \in Nat /\ now \in Nat
        /\ AnalysisTypes /\ LogRises
    BY Numbers DEF DropInv, AnalysisTypes, LogRises
  <1>2. /\ i \in 1 .. n + 1
        /\ i > 1 => log[i - 1].end <= drops[k]
        /\ i <= n => drops[k] <= log[i].end
    BY DEF Owns, DropPlaced
  <1>3. Period \in Nat /\ Period > 0
    BY AnalysisAssumption
  <1>4. Gap \in Nat
    BY <1>1, GapCovers
  <1>5. /\ 0 \in Marks /\ now \in Marks
        /\ \A j \in 1 .. n : log[j].end \in Marks
        /\ \A c \in Marks : c = 0 \/ c = now \/ \E j \in 1 .. n : c = log[j].end
    BY <1>1 DEF Marks
  <1>6. \A a, b \in Marks :
           a < b /\ (\A c \in Marks : a < c => b <= c) => b - a <= Gap
    BY <1>1, GapCovers
  <1>7. \A j, l \in 1 .. n : j < l => log[j].end < log[l].end
    BY <1>1 DEF LogRises
  <1> HIDE DEF i, n
  <1>8. i # n + 1
    <2> SUFFICES ASSUME i = n + 1 PROVE FALSE
      OBVIOUS
    <2>1. PICK a \in Nat : a = log[n].end /\ a \in Marks /\ a <= now
      BY <1>1, <1>5
    <2>2. i > 1 /\ i - 1 = n
      BY <1>1
    <2>3. a <= drops[k]
      BY <1>2, <2>1, <2>2
    <2>4. CASE a = now
      BY <1>1, <1>4, <2>3, <2>4
    <2>5. CASE a < now
      <3>1. \A c \in Marks : a < c => now <= c
        <4>1. \A j \in 1 .. n : log[j].end <= a
          <5>1. \A j \in 1 .. n : j = n \/ j < n
            BY <1>1
          <5>2. n \in 1 .. n
            BY <1>1
          <5> QED
            BY <1>1, <1>7, <2>1, <5>1, <5>2
        <4> QED
          BY <1>1, <1>5, <2>1, <4>1
      <3>2. now - a <= Gap
        BY <1>5, <1>6, <2>1, <2>5, <3>1
      <3> QED
        BY <1>1, <1>4, <2>1, <2>3, <3>2
    <2> QED
      BY <1>1, <2>1, <2>4, <2>5
  <1>9. i \in 1 .. n
    BY <1>1, <1>2, <1>8
  <1>10. PICK b \in Nat : b = log[i].end /\ b \in Marks /\ b <= now
    BY <1>1, <1>5, <1>9
  <1>11. drops[k] <= b /\ \A j \in 1 .. n : i <= j => b <= log[j].end
    <2>1. \A j \in 1 .. n : i <= j => i = j \/ i < j
      BY <1>1, <1>9
    <2> QED
      BY <1>1, <1>2, <1>7, <1>9, <1>10, <2>1
  <1>12. CASE i = 1
    <2>1. 0 < b
      BY <1>1, <1>3, <1>9, <1>10, <1>12 DEF LogRises
    <2>2. \A c \in Marks : 0 < c => b <= c
      BY <1>1, <1>5, <1>10, <1>11, <1>12
    <2>3. b - 0 <= Gap
      BY <1>5, <1>6, <1>10, <2>1, <2>2
    <2>4. Period <= b
      BY <1>1, <1>9, <1>10 DEF LogRises
    <2>5. IntervalStart(log, i, Period) = b - Period
      BY <1>10, <1>12 DEF IntervalStart
    <2>6. b - Period >= s /\ b <= e
      BY <1>1, <1>3, <1>4, <1>11, <2>3, <2>4
    <2> QED
      BY <1>1, <1>9, <1>10, <2>5, <2>6 DEF InnerRecords, InMeasurement, i
  <1>13. CASE i # 1
    <2>1. i > 1 /\ i - 1 \in 1 .. n /\ i - 1 < i
      BY <1>1, <1>9, <1>13
    <2>2. PICK a \in Nat : a = log[i - 1].end /\ a \in Marks
      BY <1>1, <1>5, <2>1
    <2>3. a <= drops[k] /\ a < b
      BY <1>2, <1>7, <1>9, <1>10, <2>1, <2>2
    <2>4. \A c \in Marks : a < c => b <= c
      <3>1. \A j \in 1 .. n : i <= j \/ log[j].end <= a
        <4>1. \A j \in 1 .. n : i <= j \/ j = i - 1 \/ j < i - 1
          BY <1>1, <1>9
        <4>2. \A j \in 1 .. n : j < i - 1 => log[j].end < log[i - 1].end
          BY <1>1, <1>7, <2>1
        <4>3. \A j \in 1 .. n : log[j].end \in Nat
          BY <1>1
        <4> QED
          BY <2>2, <4>1, <4>2, <4>3
      <3>2. ASSUME NEW c \in Marks, a < c PROVE b <= c
        <4>1. CASE c = 0 \/ c = now
          BY <1>10, <2>2, <3>2, <4>1
        <4>2. CASE \E j \in 1 .. n : c = log[j].end
          <5>1. PICK j \in 1 .. n : c = log[j].end
            BY <4>2
          <5>2. c \in Nat /\ ~ (c <= a)
            BY <1>1, <2>2, <3>2, <5>1
          <5> QED
            BY <1>11, <3>1, <5>1, <5>2
        <4> QED
          BY <1>5, <4>1, <4>2
      <3> QED
        BY <3>2
    <2>5. b - a <= Gap
      BY <1>6, <1>10, <2>2, <2>3, <2>4
    <2>6. IntervalStart(log, i, Period) = a
      BY <1>13, <2>2 DEF IntervalStart
    <2>7. a >= s /\ b <= e
      <3>1. PICK d \in Nat, g \in Nat : d = drops[k] /\ g = Gap
        BY <1>1, <1>4
      <3>2. /\ a <= d /\ d <= b /\ b - a <= g
            /\ s + g <= d /\ d <= e - g - 1
        BY <1>11, <2>3, <2>5, <3>1
      <3> QED
        BY <3>2
    <2> QED
      BY <1>1, <1>9, <1>10, <2>6, <2>7 DEF InnerRecords, InMeasurement, i
  <1> QED
    BY <1>12, <1>13
\* SumIsSum: an aggregate is not the absent one.
LEMMA SumIsSum == ASSUME NEW n PROVE [sum |-> n] # None
  <1>1. DOMAIN [sum |-> n] = {"sum"} /\ DOMAIN None = {"none"}
    BY DEF None
  <1>2. "sum" # "none"
    OBVIOUS
  <1> QED
    BY <1>1, <1>2

\* What the analyzer says, a missing sum being none.
Reported == IF analysis = None THEN 0 ELSE analysis.sum

\* ReportIsOwned: what it says is the number of drops the records own.
LEMMA ReportIsOwned ==
    ASSUME DropInv, stage = "analyzed", Measurement(rows) # None, log # <<>>,
           NEW owner, Owns(owner)
    PROVE  Reported = Cardinality({ k \in 1 .. Len(drops) : owner[k] \in
                          InnerRecords(log, Period, Measurement(rows)) })
  <1> DEFINE inner == InnerRecords(log, Period, Measurement(rows))
             f == [i \in DOMAIN log |-> log[i].dropped]
  <1>1. analysis = DroppedSum(log, Period, Measurement(rows))
    BY DEF DropInv, AnalysisIsSum
  <1>2. analysis = IF inner = {} THEN None
                   ELSE [sum |-> SumFunctionOnSet(f, inner)]
    BY <1>1 DEF DroppedSum
  <1>3. inner \in SUBSET DOMAIN log
    BY DEF InnerRecords
  <1> HIDE DEF inner, f
  <1>4. Reported = IF inner = {} THEN 0 ELSE SumFunctionOnSet(f, inner)
    BY <1>2, SumIsSum DEF Reported
  <1>5. Reported = SumFunctionOnSet(f, inner)
    BY <1>4, SumEmpty
  <1>6. SumFunctionOnSet(f, inner) =
           Cardinality({ k \in 1 .. Len(drops) : owner[k] \in inner })
    BY <1>3, SumIsOwned DEF f, DropInv
  <1> QED
    BY <1>5, <1>6 DEF inner

\* DropsCounted: whatever the log's timer does, and wherever the windows of the
\* client begin and end, the drops the analyzer reports lie between two counts:
\* it reports no drop from outside of the measurement, and misses none that is
\* further inside than the longest interval between two records.
THEOREM DropsCounted == Spec => []DroppedInMeasurement
  <1>1. DropInv => DroppedInMeasurement
    <2> DEFINE m == Measurement(rows)
    <2> SUFFICES ASSUME DropInv, stage = "analyzed", m # None, log # <<>>
                 PROVE  /\ log[1].end = Period =>
                             Reported <= DropsBetween(m.start, m.end)
                        /\ Reported >=
                             DropsBetween(m.start + Gap, m.end - Gap - 1)
      BY DEF DroppedInMeasurement, Reported
    <2>1. PICK owner \in [1 .. Len(drops) -> Nat] : Owns(owner)
      BY DEF DropInv, DropsOwned
    <2>2. /\ m.start \in Nat /\ m.end \in Nat /\ m.end <= now
      BY MeasurementIs DEF DropInv
    <2>3. DOMAIN drops = 1 .. Len(drops) /\ Len(drops) \in Nat
      BY DEF DropInv, AnalysisTypes
    <2> DEFINE inner == InnerRecords(log, Period, m)
               Counted == { k \in 1 .. Len(drops) : owner[k] \in inner }
               Within(a, b) == { k \in 1 .. Len(drops) :
                                   a <= drops[k] /\ drops[k] <= b }
    <2>4. Reported = Cardinality(Counted)
      BY <2>1, ReportIsOwned
    <2>5. /\ IsFiniteSet(Counted)
          /\ \A a, b : /\ IsFiniteSet(Within(a, b))
                       /\ DropsBetween(a, b) = Cardinality(Within(a, b))
      <3>1. IsFiniteSet(1 .. Len(drops))
        BY <2>3, FS_Interval
      <3>2. \A a, b : DropsBetween(a, b) = Cardinality(Within(a, b))
        BY <2>3 DEF DropsBetween
      <3> QED
        BY <3>1, <3>2, FS_Subset
    <2>6. inner = InnerRecords(log, Period, [start |-> m.start, end |-> m.end])
      BY DEF InnerRecords, InMeasurement
    <2> HIDE DEF m, inner
    <2>7. ASSUME log[1].end = Period
          PROVE  Reported <= DropsBetween(m.start, m.end)
      <3>1. Counted \subseteq Within(m.start, m.end)
        BY <2>1, <2>2, <2>6, <2>7, DropsWithin
      <3> HIDE DEF Counted, Within
      <3>2. Cardinality(Counted) <= Cardinality(Within(m.start, m.end))
        BY <2>5, <3>1, FS_Subset
      <3> QED
        BY <2>4, <2>5, <3>2
    <2>8. Reported >= DropsBetween(m.start + Gap, m.end - Gap - 1)
      <3>1. Within(m.start + Gap, m.end - Gap - 1) \subseteq Counted
        BY <2>1, <2>2, <2>6, DropsInside
      <3> HIDE DEF Counted, Within
      <3>2. /\ Cardinality(Within(m.start + Gap, m.end - Gap - 1))
                  <= Cardinality(Counted)
            /\ Cardinality(Counted) \in Nat
            /\ Cardinality(Within(m.start + Gap, m.end - Gap - 1)) \in Nat
        BY <2>5, <3>1, FS_Subset, FS_CardinalityType
      <3> QED
        BY <2>4, <2>5, <3>2
    <2> QED
      BY <2>7, <2>8
  <1> QED
    BY <1>1, DropInvariant, PTL
===============================================================================
