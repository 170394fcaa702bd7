---------------------------- MODULE SessionProofs ----------------------------
(***************************************************************************)
(* Proofs about Session for every setting of the options and every delay of *)
(* main().  The invariant has three layers: types, the rows written so far, *)
(* and what the stages behind main() have established for its exit code.    *)
(***************************************************************************)
EXTENDS Session, TLAPS

RowRecord == [name : {"before", "during", "after", "window"}, from : Nat, to : Nat]

\* The stages before the measurement.
Early == {"starting", "profiles", "prefill", "snapshot", "warmup"}

\* The stages after the last phase or window of the measurement.
Late == {"stop", "drain"}

-----------------------------------------------------------------------------
(* Layer 1: types.                                                         *)

Types ==
    /\ mode \in Modes
    /\ now \in Nat
    /\ subscribedAt \in Nat
    /\ completedAt \in Nat
    /\ deadline \in Nat
    /\ start \in Nat
    /\ nextWindow \in Nat
    /\ windowStart \in Nat
    /\ interrupted \in BOOLEAN
    /\ profiled \in BOOLEAN
    /\ timedOut \in BOOLEAN
    /\ snapshot \in {"none", "requested", "complete"}
    /\ stage \in {"starting", "profiles", "prefill", "snapshot", "warmup",
                  "overlap", "phase", "flush", "windows", "window", "stop",
                  "drain", "final", "returned"}
    /\ phase \in {"before", "during", "after"}
    /\ result \in {Running, 0, 1, 130}
    /\ rows \in Seq(RowRecord)

\* The task symbol is removed first.
Symbols ==
    /\ control \subseteq {"task", "marker"}
    /\ "task" \in control => "marker" \in control
    /\ stage \in {"drain", "final"} => "task" \notin control

\* The total is written once, by the drain.
Total ==
    /\ total = <<>> \/ \E t \in Nat : total = <<Row("total", start, t)>>
    /\ stage = "final" => total # <<>>
    /\ stage \notin {"final", "returned"} => total = <<>>

TypeInv == Types /\ Symbols /\ Total

\* A row is appended with type.
LEMMA AppendRow ==
    ASSUME NEW s \in Seq(RowRecord), NEW f \in Nat, NEW t \in Nat,
           NEW n \in {"before", "during", "after", "window"}
    PROVE  Append(s, Row(n, f, t)) \in Seq(RowRecord)
  <1>1. Row(n, f, t) \in RowRecord
    BY DEF Row, RowRecord
  <1> QED
    BY <1>1

\* The options, one by one.
LEMMA Options ==
    /\ StartupTimeout \in Nat
    /\ Prefill \in Nat
    /\ Warmup \in Nat
    /\ Duration \in Nat
    /\ Window \in Nat
    /\ SubscribeAfter \in Nat
    /\ BatchTimeout \in Nat
    /\ MaxLate \in Nat
  <1>1. {StartupTimeout, Prefill, Warmup, Duration, Window, SubscribeAfter,
         BatchTimeout, MaxLate} \subseteq Nat
    BY SessionAssumption
  <1> QED
    BY <1>1, Zenon

\* The types hold when main() starts.
LEMMA TypeInit == Init => TypeInv
  <1> USE DEF Init, Running
  <1>1. Init => Types
    <2> SUFFICES ASSUME Init
                 PROVE  Types
      OBVIOUS
    <2>1. rows \in Seq(RowRecord)
      OBVIOUS
    <2>2. -1 \in Int /\ 0 \in Nat
      OBVIOUS
    <2> QED
      BY <2>1, <2>2, Zenon DEF Types
  <1>2. Init => Symbols
    BY DEF Symbols
  <1>3. Init => Total
    BY DEF Total
  <1> QED
    BY <1>1, <1>2, <1>3 DEF TypeInv

\* Every step keeps the types.
LEMMA TypesStep == Types /\ [Next]_vars => Types'
  <1> SUFFICES ASSUME Types, [Next]_vars
               PROVE  Types'
    OBVIOUS
  <1> USE Options
      DEF Types, Running, events, tracker, measurement, report, main
  <1>1. CASE Clock
    BY <1>1 DEF Clock
  <1>2. CASE OnSignal
    BY <1>2 DEF OnSignal
  <1>3. CASE ProfilesArrive
    BY <1>3 DEF ProfilesArrive
  <1>4. CASE SnapshotCompletes
    BY <1>4 DEF SnapshotCompletes
  <1>5. CASE Connect
    BY <1>5 DEF Connect, Goto, Return
  <1>6. CASE WaitForProfiles
    BY <1>6 DEF WaitForProfiles, WaitFor, GiveUp, Return, Goto
  <1>7. CASE WaitForPrefill
    BY <1>7 DEF WaitForPrefill, WaitFor, GiveUp, Return, Goto, RequestSnapshot
  <1>8. CASE WaitForSnapshot
    BY <1>8 DEF WaitForSnapshot, WaitFor, GiveUp, Return, Goto
  <1>9. CASE WaitForWarmup
    BY <1>9 DEF WaitForWarmup, WaitFor, GiveUp, Return, Goto
  <1>10. CASE OverlapTest
    BY <1>10 DEF OverlapTest, Goto
  <1>11. CASE Overlap
    <2> USE DEF Overlap, Goto
    <2>1. CASE Before
      BY <1>11, <2>1, AppendRow DEF Before, Flush, RequestSnapshot
    <2>2. CASE During
      BY <1>11, <2>2, AppendRow DEF During, Flush
    <2>3. CASE SnapshotTimeout
      BY <1>11, <2>3 DEF SnapshotTimeout
    <2>4. CASE Sleep
      BY <1>11, <2>4 DEF Sleep
    <2> QED
      BY <1>11, <2>1, <2>2, <2>3, <2>4
  <1>12. CASE FlushPhase
    BY <1>12, AppendRow DEF FlushPhase, Flush, Goto
  <1>13. CASE WindowsTest
    BY <1>13 DEF WindowsTest, Goto
  <1>14. CASE TakeWindow
    BY <1>14, AppendRow, SMTT(20) DEF TakeWindow, Flush, Goto
  <1>15. CASE StopPublisher
    BY <1>15 DEF StopPublisher, Goto
  <1>16. CASE Drain
    BY <1>16, AppendRow DEF Drain, Goto
  <1>17. CASE Finish
    BY <1>17 DEF Finish, Return, Goto, ExitCode
  <1>18. CASE Returned \/ UNCHANGED vars
    BY <1>18, SMTT(20) DEF Returned, vars
  <1> QED
    BY <1>1, <1>2, <1>3, <1>4, <1>5, <1>6, <1>7, <1>8, <1>9, <1>10, <1>11,
       <1>12, <1>13, <1>14, <1>15, <1>16, <1>17, <1>18 DEF Next, Main

\* Every step keeps the marker subscribed as long as the task.
LEMMA SymbolsStep == Types /\ Symbols /\ [Next]_vars => Symbols'
  <1> SUFFICES ASSUME Types /\ Symbols, [Next]_vars
               PROVE  Symbols'
    OBVIOUS
  <1> USE Options
      DEF Types, Symbols, events, tracker, measurement, report, main
  <1>1. CASE Clock
    BY <1>1 DEF Clock
  <1>2. CASE OnSignal
    BY <1>2 DEF OnSignal
  <1>3. CASE ProfilesArrive
    BY <1>3 DEF ProfilesArrive
  <1>4. CASE SnapshotCompletes
    BY <1>4 DEF SnapshotCompletes
  <1>5. CASE Connect
    BY <1>5 DEF Connect, Goto, Return
  <1>6. CASE WaitForProfiles
    BY <1>6 DEF WaitForProfiles, WaitFor, GiveUp, Return, Goto
  <1>7. CASE WaitForPrefill
    BY <1>7 DEF WaitForPrefill, WaitFor, GiveUp, Return, Goto, RequestSnapshot
  <1>8. CASE WaitForSnapshot
    BY <1>8 DEF WaitForSnapshot, WaitFor, GiveUp, Return, Goto
  <1>9. CASE WaitForWarmup
    BY <1>9 DEF WaitForWarmup, WaitFor, GiveUp, Return, Goto
  <1>10. CASE OverlapTest
    BY <1>10 DEF OverlapTest, Goto
  <1>11. CASE Overlap
    <2> USE DEF Overlap, Goto
    <2>1. CASE Before
      BY <1>11, <2>1 DEF Before, Flush, RequestSnapshot
    <2>2. CASE During
      BY <1>11, <2>2 DEF During, Flush
    <2>3. CASE SnapshotTimeout
      BY <1>11, <2>3 DEF SnapshotTimeout
    <2>4. CASE Sleep
      BY <1>11, <2>4 DEF Sleep
    <2> QED
      BY <1>11, <2>1, <2>2, <2>3, <2>4
  <1>12. CASE FlushPhase
    BY <1>12 DEF FlushPhase, Flush, Goto
  <1>13. CASE WindowsTest
    BY <1>13 DEF WindowsTest, Goto
  <1>14. CASE TakeWindow
    BY <1>14 DEF TakeWindow, Flush, Goto
  <1>15. CASE StopPublisher
    BY <1>15 DEF StopPublisher, Goto
  <1>16. CASE Drain
    BY <1>16 DEF Drain, Goto
  <1>17. CASE Finish
    BY <1>17 DEF Finish, Return, Goto, ExitCode
  <1>18. CASE Returned \/ UNCHANGED vars
    BY <1>18 DEF Returned, vars
  <1> QED
    BY <1>1, <1>2, <1>3, <1>4, <1>5, <1>6, <1>7, <1>8, <1>9, <1>10, <1>11,
       <1>12, <1>13, <1>14, <1>15, <1>16, <1>17, <1>18 DEF Next, Main

\* Every step keeps the total: written once, by the drain.
LEMMA TotalStep == Types /\ Total /\ [Next]_vars => Total'
  <1> SUFFICES ASSUME Types /\ Total, [Next]_vars
               PROVE  Total'
    OBVIOUS
  <1> USE Options
      DEF Types, Total, Row, events, tracker, measurement, report, main
  <1>1. CASE Clock
    BY <1>1 DEF Clock
  <1>2. CASE OnSignal
    BY <1>2 DEF OnSignal
  <1>3. CASE ProfilesArrive
    BY <1>3 DEF ProfilesArrive
  <1>4. CASE SnapshotCompletes
    BY <1>4 DEF SnapshotCompletes
  <1>5. CASE Connect
    BY <1>5 DEF Connect, Goto, Return
  <1>6. CASE WaitForProfiles
    BY <1>6 DEF WaitForProfiles, WaitFor, GiveUp, Return, Goto
  <1>7. CASE WaitForPrefill
    BY <1>7 DEF WaitForPrefill, WaitFor, GiveUp, Return, Goto, RequestSnapshot
  <1>8. CASE WaitForSnapshot
    BY <1>8 DEF WaitForSnapshot, WaitFor, GiveUp, Return, Goto
  <1>9. CASE WaitForWarmup
    BY <1>9 DEF WaitForWarmup, WaitFor, GiveUp, Return, Goto
  <1>10. CASE OverlapTest
    BY <1>10 DEF OverlapTest, Goto
  <1>11. CASE Overlap
    <2> USE DEF Overlap, Goto
    <2>1. CASE Before
      BY <1>11, <2>1 DEF Before, Flush, RequestSnapshot
    <2>2. CASE During
      BY <1>11, <2>2 DEF During, Flush
    <2>3. CASE SnapshotTimeout
      BY <1>11, <2>3 DEF SnapshotTimeout
    <2>4. CASE Sleep
      BY <1>11, <2>4 DEF Sleep
    <2> QED
      BY <1>11, <2>1, <2>2, <2>3, <2>4
  <1>12. CASE FlushPhase
    BY <1>12 DEF FlushPhase, Flush, Goto
  <1>13. CASE WindowsTest
    BY <1>13 DEF WindowsTest, Goto
  <1>14. CASE TakeWindow
    BY <1>14 DEF TakeWindow, Flush, Goto
  <1>15. CASE StopPublisher
    BY <1>15 DEF StopPublisher, Goto
  <1>16. CASE Drain
    BY <1>16 DEF Drain, Goto
  <1>17. CASE Finish
    BY <1>17 DEF Finish, Return, Goto, ExitCode
  <1>18. CASE Returned \/ UNCHANGED vars
    BY <1>18 DEF Returned, vars
  <1> QED
    BY <1>1, <1>2, <1>3, <1>4, <1>5, <1>6, <1>7, <1>8, <1>9, <1>10, <1>11,
       <1>12, <1>13, <1>14, <1>15, <1>16, <1>17, <1>18 DEF Next, Main

\* Every step keeps the type invariant.
LEMMA TypeStep == TypeInv /\ [Next]_vars => TypeInv'
  BY TypesStep, SymbolsStep, TotalStep DEF TypeInv

\* Types are kept, whatever the options and however late main() is.
THEOREM TypeCorrect == Spec => []TypeOK
  <1>1. Spec => []TypeInv
    BY TypeInit, TypeStep, PTL DEF Spec
  <1>2. TypeInv => TypeOK
    <2> SUFFICES ASSUME TypeInv
                 PROVE  TypeOK
      OBVIOUS
    <2> USE DEF TypeInv, Types
    <2>1. {now, subscribedAt, completedAt, deadline, start, nextWindow,
           windowStart} \subseteq Nat
      BY Zenon
    <2>2. {interrupted, profiled, timedOut} \subseteq BOOLEAN
      BY Zenon
    <2>3. control \in {{}, {"marker"}, {"task", "marker"}}
      <3>1. CASE "task" \in control
        <4>1. control = {"task", "marker"}
          BY <3>1 DEF Symbols
        <4> QED
          BY <4>1
      <3>2. CASE "task" \notin control /\ "marker" \in control
        <4>1. control = {"marker"}
          BY <3>2 DEF Symbols
        <4> QED
          BY <4>1
      <3>3. CASE "task" \notin control /\ "marker" \notin control
        <4>1. control = {}
          BY <3>3 DEF Symbols
        <4> QED
          BY <4>1
      <3> QED
        BY <3>1, <3>2, <3>3
    <2> QED
      BY <2>1, <2>2, <2>3, Zenon DEF TypeOK
  <1> QED
    BY <1>1, <1>2, PTL

-----------------------------------------------------------------------------
(* Layer 2: the rows.                                                      *)

\* Rows without gap or overlap from one instant to another.
Tiled(s, from, to) ==
    /\ from <= to
    /\ s = <<>> => to = from
    /\ s # <<>> => s[1].from = from /\ s[Len(s)].to = to
    /\ \A i \in 1 .. Len(s) :
         /\ from <= s[i].from
         /\ s[i].from <= s[i].to
         /\ s[i].to <= to
         /\ i < Len(s) => s[i].to = s[i + 1].from

\* What Append does, for the provers.
LEMMA Appended ==
    ASSUME NEW s \in Seq(RowRecord), NEW e \in RowRecord
    PROVE  /\ Len(s) \in Nat
           /\ Len(Append(s, e)) = Len(s) + 1
           /\ Append(s, e)[Len(s) + 1] = e
           /\ \A i \in 1 .. Len(s) : Append(s, e)[i] = s[i]
           /\ Append(s, e) # <<>>
           /\ s # <<>> => Len(s) >= 1
  <1>1. Len(s) \in Nat /\ (s # <<>> => Len(s) >= 1)
    OBVIOUS
  <1>2. Append(s, e) \in Seq(RowRecord) /\ Len(Append(s, e)) = Len(s) + 1
    OBVIOUS
  <1>3. Append(s, e)[Len(s) + 1] = e
    OBVIOUS
  <1>4. \A i \in 1 .. Len(s) : Append(s, e)[i] = s[i]
    OBVIOUS
  <1>5. Append(s, e) # <<>>
    <2> DEFINE q == Append(s, e)
    <2>1. Len(q) # 0
      BY <1>1, <1>2
    <2> HIDE DEF q
    <2>2. q # <<>>
      BY <2>1
    <2> QED
      BY <2>2 DEF q
  <1> QED
    BY <1>1, <1>2, <1>3, <1>4, <1>5

\* A row that begins where the last one ended extends the tiling.
LEMMA TiledAppend ==
    ASSUME NEW s \in Seq(RowRecord), NEW a \in Nat, NEW f \in Nat, NEW t \in Nat,
           NEW n \in {"before", "during", "after", "window"},
           Tiled(s, a, f), f <= t
    PROVE  Tiled(Append(s, Row(n, f, t)), a, t)
  <1> DEFINE r == Row(n, f, t)
             s2 == Append(s, r)
  <1>1. r.from = f /\ r.to = t /\ r \in RowRecord
    BY DEF Row, RowRecord
  <1> HIDE DEF r
  <1>2. /\ Len(s) \in Nat
        /\ Len(s2) = Len(s) + 1
        /\ s2[Len(s) + 1] = r
        /\ \A i \in 1 .. Len(s) : s2[i] = s[i]
        /\ s2 # <<>>
        /\ s # <<>> => Len(s) >= 1
    BY <1>1, Appended
  <1> HIDE DEF s2
  <1>3. s2[1].from = a /\ s2[Len(s2)].to = t
    <2>1. CASE s = <<>>
      BY <1>1, <1>2, <2>1 DEF Tiled
    <2>2. CASE s # <<>>
      BY <1>1, <1>2, <2>2 DEF Tiled
    <2> QED
      BY <2>1, <2>2
  <1>4. ASSUME NEW i \in 1 .. Len(s2)
        PROVE  /\ a <= s2[i].from
               /\ s2[i].from <= s2[i].to
               /\ s2[i].to <= t
               /\ i < Len(s2) => s2[i].to = s2[i + 1].from
    <2>1. CASE i = Len(s) + 1
      BY <1>1, <1>2, <2>1 DEF Tiled
    <2>2. CASE i = Len(s)
      <3>1. s # <<>> /\ i \in 1 .. Len(s)
        BY <1>2, <2>2
      <3>2. s[i] \in RowRecord
        BY <3>1
      <3> QED
        BY <1>1, <1>2, <2>2, <3>1, <3>2 DEF Tiled, RowRecord
    <2>3. CASE i < Len(s)
      <3>1. i \in 1 .. Len(s) /\ i + 1 \in 1 .. Len(s)
        BY <1>2, <2>3
      <3>2. s[i].to \in Nat /\ s2[i] = s[i] /\ s2[i + 1] = s[i + 1]
        <4>1. s[i] \in RowRecord
          BY <3>1
        <4>2. s[i].to \in Nat
          BY <4>1 DEF RowRecord
        <4> QED
          BY <1>2, <3>1, <4>2
      <3>3. /\ a <= s[i].from
            /\ s[i].from <= s[i].to
            /\ s[i].to <= f
            /\ s[i].to = s[i + 1].from
        BY <2>3, <3>1 DEF Tiled
      <3> QED
        BY <3>2, <3>3
    <2> QED
      BY <1>2, <2>1, <2>2, <2>3
  <1>5. a <= t
    BY DEF Tiled
  <1>6. Tiled(s2, a, t)
    BY <1>2, <1>3, <1>4, <1>5 DEF Tiled
  <1> QED
    BY <1>6 DEF s2, r

\* No row of a phase AFTER.
NoneAfter(s) == \A i \in 1 .. Len(s) : s[i].name # "after"

\* Before every row of a phase AFTER comes a given row.
Preceded(s, r) ==
    \A i \in 1 .. Len(s) : s[i].name = "after" => i > 1 /\ s[i - 1] = r

\* Rows of other phases and of windows change neither.
LEMMA AppendOther ==
    ASSUME NEW s \in Seq(RowRecord), NEW n \in {"before", "during", "window"},
           NEW f \in Nat, NEW t \in Nat, NEW r
    PROVE  /\ NoneAfter(s) => NoneAfter(Append(s, Row(n, f, t)))
           /\ Preceded(s, r) => Preceded(Append(s, Row(n, f, t)), r)
  <1> DEFINE e == Row(n, f, t)
             s2 == Append(s, e)
  <1>1. e.name # "after" /\ e \in RowRecord
    BY DEF Row, RowRecord
  <1> HIDE DEF e
  <1>2. /\ Len(s) \in Nat
        /\ Len(s2) = Len(s) + 1
        /\ s2[Len(s) + 1] = e
        /\ \A i \in 1 .. Len(s) : s2[i] = s[i]
    BY <1>1, Appended
  <1> HIDE DEF s2
  <1>3. NoneAfter(s) => NoneAfter(s2)
    BY <1>1, <1>2 DEF NoneAfter
  <1>4. ASSUME Preceded(s, r), NEW i \in 1 .. Len(s2), s2[i].name = "after"
        PROVE  i > 1 /\ s2[i - 1] = r
    <2>1. i \in 1 .. Len(s)
      BY <1>1, <1>2, <1>4
    <2>2. s[i].name = "after"
      BY <1>2, <1>4, <2>1
    <2>3. i > 1 /\ s[i - 1] = r
      BY <1>4, <2>1, <2>2 DEF Preceded
    <2>4. i - 1 \in 1 .. Len(s)
      BY <1>2, <2>1, <2>3
    <2> QED
      BY <1>2, <2>3, <2>4
  <1>5. Preceded(s, r) => Preceded(s2, r)
    BY <1>4 DEF Preceded
  <1> QED
    BY <1>3, <1>5 DEF s2, e

\* The row of the phase AFTER follows the last row.
LEMMA AppendAfter ==
    ASSUME NEW s \in Seq(RowRecord), NEW f \in Nat, NEW t \in Nat,
           s # <<>>, NoneAfter(s)
    PROVE  Preceded(Append(s, Row("after", f, t)), s[Len(s)])
  <1> DEFINE e == Row("after", f, t)
             s2 == Append(s, e)
  <1>1. e \in RowRecord
    BY DEF Row, RowRecord
  <1> HIDE DEF e
  <1>2. /\ Len(s) \in Nat
        /\ Len(s2) = Len(s) + 1
        /\ \A i \in 1 .. Len(s) : s2[i] = s[i]
        /\ Len(s) >= 1
    BY <1>1, Appended
  <1> HIDE DEF s2
  <1>3. ASSUME NEW i \in 1 .. Len(s2), s2[i].name = "after"
        PROVE  i > 1 /\ s2[i - 1] = s[Len(s)]
    <2>1. i \notin 1 .. Len(s)
      BY <1>2, <1>3 DEF NoneAfter
    <2>2. i = Len(s) + 1 /\ i - 1 = Len(s)
      BY <1>2, <2>1
    <2> QED
      BY <1>2, <2>2
  <1>4. Preceded(s2, s[Len(s)])
    BY <1>3 DEF Preceded
  <1> QED
    BY <1>4 DEF s2, e

\* The clock readings main() keeps.
Clocks ==
    /\ subscribedAt <= now
    /\ start <= windowStart
    /\ windowStart <= now
    /\ snapshot = "complete" => subscribedAt <= completedAt /\ completedAt <= now
    /\ stage \in {"overlap", "phase", "flush"} /\ phase = "during" =>
         snapshot # "none" /\ windowStart = subscribedAt

\* Until the total is taken the next row begins where the last one ended.
Tiling ==
    /\ stage \in Early => rows = <<>>
    /\ total = <<>> => Tiled(rows, start, windowStart)
    /\ total # <<>> =>
         \E e \in Nat : e <= total[1].to /\ Tiled(rows, start, e)

\* The phases of a delayed snapshot.
Phases ==
    /\ stage \in Early \cup {"windows", "window"} => phase = "before"
    /\ phase = "after" => snapshot = "complete"
    /\ stage \in {"overlap", "phase", "flush"} /\ phase = "after" =>
         rows # <<>> /\ rows[Len(rows)] = Row("during", subscribedAt, completedAt)
    /\ stage \in {"overlap", "phase", "flush"} \/ phase # "after" =>
         NoneAfter(rows)
    /\ Preceded(rows, Row("during", subscribedAt, completedAt))

\* Every step keeps the clocks in order.
LEMMA ClocksStep == Types /\ Clocks /\ Phases /\ [Next]_vars => Clocks'
  <1> SUFFICES ASSUME Types /\ Clocks /\ Phases, [Next]_vars
               PROVE  Clocks'
    OBVIOUS
  <1> USE Options
      DEF Types, Clocks, Phases, Early, events, tracker, measurement, report, main
  <1>1. CASE Clock
    BY <1>1 DEF Clock
  <1>2. CASE OnSignal
    BY <1>2 DEF OnSignal
  <1>3. CASE ProfilesArrive
    BY <1>3 DEF ProfilesArrive
  <1>4. CASE SnapshotCompletes
    BY <1>4 DEF SnapshotCompletes
  <1>5. CASE Connect
    BY <1>5 DEF Connect, Goto, Return
  <1>6. CASE WaitForProfiles
    BY <1>6 DEF WaitForProfiles, WaitFor, GiveUp, Return, Goto
  <1>7. CASE WaitForPrefill
    BY <1>7 DEF WaitForPrefill, WaitFor, GiveUp, Return, Goto, RequestSnapshot
  <1>8. CASE WaitForSnapshot
    BY <1>8 DEF WaitForSnapshot, WaitFor, GiveUp, Return, Goto
  <1>9. CASE WaitForWarmup
    BY <1>9 DEF WaitForWarmup, WaitFor, GiveUp, Return, Goto
  <1>10. CASE OverlapTest
    BY <1>10 DEF OverlapTest, Goto
  <1>11. CASE Overlap
    <2> USE DEF Overlap, Goto
    <2>1. CASE Before
      BY <1>11, <2>1 DEF Before, Flush, RequestSnapshot
    <2>2. CASE During
      BY <1>11, <2>2 DEF During, Flush
    <2>3. CASE SnapshotTimeout
      BY <1>11, <2>3 DEF SnapshotTimeout
    <2>4. CASE Sleep
      BY <1>11, <2>4 DEF Sleep
    <2> QED
      BY <1>11, <2>1, <2>2, <2>3, <2>4
  <1>12. CASE FlushPhase
    BY <1>12 DEF FlushPhase, Flush, Goto
  <1>13. CASE WindowsTest
    BY <1>13 DEF WindowsTest, Goto
  <1>14. CASE TakeWindow
    BY <1>14 DEF TakeWindow, Flush, Goto
  <1>15. CASE StopPublisher
    BY <1>15 DEF StopPublisher, Goto
  <1>16. CASE Drain
    BY <1>16 DEF Drain, Goto
  <1>17. CASE Finish
    BY <1>17 DEF Finish, Return, Goto, ExitCode
  <1>18. CASE Returned \/ UNCHANGED vars
    BY <1>18 DEF Returned, vars
  <1> QED
    BY <1>1, <1>2, <1>3, <1>4, <1>5, <1>6, <1>7, <1>8, <1>9, <1>10, <1>11,
       <1>12, <1>13, <1>14, <1>15, <1>16, <1>17, <1>18 DEF Next, Main

\* Every step keeps the rows end to end.
LEMMA TilingStep == Types /\ Total /\ Clocks /\ Tiling /\ [Next]_vars => Tiling'
  <1> SUFFICES ASSUME Types /\ Total /\ Clocks /\ Tiling, [Next]_vars
               PROVE  Tiling'
    OBVIOUS
  <1> USE Options
      DEF Types, Total, Clocks, Tiling, Early, events, tracker, measurement, report, main
  <1>1. CASE Clock
    BY <1>1 DEF Clock
  <1>2. CASE OnSignal
    BY <1>2 DEF OnSignal
  <1>3. CASE ProfilesArrive
    BY <1>3 DEF ProfilesArrive
  <1>4. CASE SnapshotCompletes
    BY <1>4 DEF SnapshotCompletes
  <1>5. CASE Connect
    BY <1>5 DEF Connect, Goto, Return
  <1>6. CASE WaitForProfiles
    BY <1>6 DEF WaitForProfiles, WaitFor, GiveUp, Return, Goto
  <1>7. CASE WaitForPrefill
    BY <1>7 DEF WaitForPrefill, WaitFor, GiveUp, Return, Goto, RequestSnapshot
  <1>8. CASE WaitForSnapshot
    BY <1>8 DEF WaitForSnapshot, WaitFor, GiveUp, Return, Goto
  <1>9. CASE WaitForWarmup
    <2>1. rows = <<>> /\ total = <<>> /\ UNCHANGED <<rows, total>>
      BY <1>9 DEF WaitForWarmup
    <2>2. Tiled(<<>>, now, now)
      BY DEF Tiled
    <2>3. CASE interrupted
      BY <1>9, <2>1, <2>3 DEF WaitForWarmup, GiveUp, Return, Goto
    <2>4. CASE ~interrupted
      BY <1>9, <2>1, <2>2, <2>4 DEF WaitForWarmup, Goto
    <2> QED
      BY <2>3, <2>4
  <1>10. CASE OverlapTest
    BY <1>10 DEF OverlapTest, Goto
  <1>11. CASE Overlap
    <2> USE DEF Overlap, Goto
    <2>1. CASE Before
      BY <1>11, <2>1, TiledAppend DEF Before, Flush, RequestSnapshot
    <2>2. CASE During
      BY <1>11, <2>2, TiledAppend DEF During, Flush
    <2>3. CASE SnapshotTimeout
      BY <1>11, <2>3 DEF SnapshotTimeout
    <2>4. CASE Sleep
      BY <1>11, <2>4 DEF Sleep
    <2> QED
      BY <1>11, <2>1, <2>2, <2>3, <2>4
  <1>12. CASE FlushPhase
    BY <1>12, TiledAppend DEF FlushPhase, Flush, Goto
  <1>13. CASE WindowsTest
    BY <1>13 DEF WindowsTest, Goto
  <1>14. CASE TakeWindow
    <2>1. total = <<>> /\ UNCHANGED <<total, start>>
      BY <1>14 DEF TakeWindow, Flush
    <2>2. CASE UNCHANGED <<rows, windowStart>>
      BY <1>14, <2>1, <2>2 DEF TakeWindow, Goto
    <2>3. CASE Flush("window", now)
      <3>1. Tiled(Append(rows, Row("window", windowStart, now)), start, now)
        BY <2>1, TiledAppend
      <3> QED
        BY <1>14, <2>1, <2>3, <3>1 DEF TakeWindow, Flush, Goto
    <2> QED
      BY <1>14, <2>2, <2>3 DEF TakeWindow, Flush
  <1>15. CASE StopPublisher
    BY <1>15 DEF StopPublisher, Goto
  <1>16. CASE Drain
    <2>1. total' = <<Row("total", start, now)>> /\ total'[1].to = now
      BY <1>16 DEF Drain, Row
    <2>2. stage' \notin Early
      BY <1>16 DEF Drain, Goto
    <2>3. CASE UNCHANGED rows
      BY <1>16, <2>1, <2>2, <2>3 DEF Drain
    <2>4. CASE rows' = Append(rows, Row("window", windowStart, now))
      <3>1. Tiled(rows', start, now)
        BY <1>16, <2>4, TiledAppend DEF Drain
      <3> QED
        BY <1>16, <2>1, <2>2, <3>1 DEF Drain
    <2> QED
      BY <1>16, <2>3, <2>4 DEF Drain
  <1>17. CASE Finish
    BY <1>17 DEF Finish, Return, Goto, ExitCode
  <1>18. CASE Returned \/ UNCHANGED vars
    BY <1>18 DEF Returned, vars
  <1> QED
    BY <1>1, <1>2, <1>3, <1>4, <1>5, <1>6, <1>7, <1>8, <1>9, <1>10, <1>11,
       <1>12, <1>13, <1>14, <1>15, <1>16, <1>17, <1>18 DEF Next, Main

\* Every step keeps the phases of the rows.
LEMMA PhasesStep == Types /\ Clocks /\ Tiling /\ Phases /\ [Next]_vars => Phases'
  <1> SUFFICES ASSUME Types /\ Clocks /\ Tiling /\ Phases, [Next]_vars
               PROVE  Phases'
    OBVIOUS
  <1> USE Options
      DEF Types, Clocks, Tiling, Phases, Early, events, tracker, measurement, report, main
  <1>1. CASE Clock
    BY <1>1 DEF Clock
  <1>2. CASE OnSignal
    BY <1>2 DEF OnSignal
  <1>3. CASE ProfilesArrive
    BY <1>3 DEF ProfilesArrive
  <1>4. CASE SnapshotCompletes
    <2>1. phase # "after" /\ NoneAfter(rows)
      BY <1>4 DEF SnapshotCompletes
    <2>2. UNCHANGED <<phase, stage, rows>>
      BY <1>4 DEF SnapshotCompletes, main
    <2> QED
      BY <2>1, <2>2 DEF NoneAfter, Preceded
  <1>5. CASE Connect
    BY <1>5 DEF Connect, Goto, Return
  <1>6. CASE WaitForProfiles
    BY <1>6 DEF WaitForProfiles, WaitFor, GiveUp, Return, Goto
  <1>7. CASE WaitForPrefill
    <2>1. phase = "before" /\ NoneAfter(rows)
      BY <1>7 DEF WaitForPrefill
    <2>2. UNCHANGED <<phase, rows>>
      BY <1>7 DEF WaitForPrefill, GiveUp
    <2>3. stage' \notin {"overlap", "phase", "flush"}
      BY <1>7 DEF WaitForPrefill, GiveUp, Return, WaitFor, Goto
    <2> QED
      BY <2>1, <2>2, <2>3 DEF NoneAfter, Preceded
  <1>8. CASE WaitForSnapshot
    BY <1>8 DEF WaitForSnapshot, WaitFor, GiveUp, Return, Goto
  <1>9. CASE WaitForWarmup
    BY <1>9 DEF WaitForWarmup, WaitFor, GiveUp, Return, Goto
  <1>10. CASE OverlapTest
    BY <1>10 DEF OverlapTest, Goto
  <1>11. CASE Overlap
    <2> USE DEF Overlap, Goto
    <2>1. CASE Before
      <3>1. NoneAfter(rows')
        BY <1>11, <2>1, AppendOther DEF Before, Flush
      <3>2. phase' = "during" /\ stage' = "overlap"
        BY <1>11, <2>1 DEF Before
      <3> QED
        BY <3>1, <3>2 DEF NoneAfter, Preceded
    <2>2. CASE During
      <3> DEFINE r == Row("during", subscribedAt, completedAt)
      <3>1. rows' = Append(rows, r) /\ UNCHANGED <<subscribedAt, completedAt, snapshot>>
        BY <1>11, <2>2 DEF During, Flush
      <3>2. r \in RowRecord
        BY DEF Row, RowRecord
      <3>3. NoneAfter(rows')
        BY <1>11, <2>2, <3>1, AppendOther DEF During
      <3> HIDE DEF r
      <3>4. rows' # <<>> /\ rows'[Len(rows')] = r
        BY <3>1, <3>2, Appended
      <3>5. r' = r
        BY <3>1 DEF r
      <3>6. phase' = "after" /\ stage' = "overlap" /\ snapshot' = "complete"
        BY <1>11, <2>2, <3>1 DEF During
      <3> QED
        BY <3>3, <3>4, <3>5, <3>6 DEF NoneAfter, Preceded, r
    <2>3. CASE SnapshotTimeout
      BY <1>11, <2>3 DEF SnapshotTimeout
    <2>4. CASE Sleep
      BY <1>11, <2>4 DEF Sleep
    <2> QED
      BY <1>11, <2>1, <2>2, <2>3, <2>4
  <1>12. CASE FlushPhase
    <2>1. CASE phase # "after"
      <3>1. NoneAfter(rows') /\ UNCHANGED phase
        BY <1>12, <2>1, AppendOther DEF FlushPhase, Flush
      <3> QED
        BY <1>12, <2>1, <3>1 DEF FlushPhase, Goto, NoneAfter, Preceded
    <2>2. CASE phase = "after"
      <3>1. Preceded(rows', rows[Len(rows)]) /\ UNCHANGED phase
        BY <1>12, <2>2, AppendAfter DEF FlushPhase, Flush
      <3> QED
        BY <1>12, <2>2, <3>1 DEF FlushPhase, Goto
    <2> QED
      BY <2>1, <2>2
  <1>13. CASE WindowsTest
    BY <1>13 DEF WindowsTest, Goto
  <1>14. CASE TakeWindow
    <2>1. UNCHANGED <<phase, snapshot, subscribedAt, completedAt>>
      BY <1>14 DEF TakeWindow
    <2>2. NoneAfter(rows) /\ phase = "before"
      BY <1>14 DEF TakeWindow
    <2>3. NoneAfter(rows')
      <3>1. CASE UNCHANGED rows
        BY <2>2, <3>1 DEF NoneAfter
      <3>2. CASE Flush("window", now)
        BY <2>2, <3>2, AppendOther DEF Flush
      <3> QED
        BY <1>14, <3>1, <3>2 DEF TakeWindow
    <2>4. stage' = "windows"
      BY <1>14 DEF TakeWindow, Goto
    <2> QED
      BY <2>1, <2>2, <2>3, <2>4 DEF NoneAfter, Preceded
  <1>15. CASE StopPublisher
    BY <1>15 DEF StopPublisher, Goto
  <1>16. CASE Drain
    <2> DEFINE r == Row("during", subscribedAt, completedAt)
    <2>1. /\ UNCHANGED <<phase, snapshot, subscribedAt, completedAt>>
          /\ stage' = "final"
          /\ r' = r
      BY <1>16 DEF Drain, Goto
    <2>2. Preceded(rows, r) /\ (phase # "after" => NoneAfter(rows))
      OBVIOUS
    <2> HIDE DEF r
    <2>3. CASE UNCHANGED rows
      <3>1. Preceded(rows', r') /\ (phase' # "after" => NoneAfter(rows'))
        BY <2>1, <2>2, <2>3
      <3> QED
        BY <2>1, <3>1 DEF r
    <2>4. CASE rows' = Append(rows, Row("window", windowStart, now))
      <3>1. Preceded(rows', r) /\ (phase # "after" => NoneAfter(rows'))
        BY <2>2, <2>4, AppendOther
      <3> QED
        BY <2>1, <3>1 DEF r
    <2> QED
      BY <1>16, <2>3, <2>4 DEF Drain
  <1>17. CASE Finish
    BY <1>17 DEF Finish, Return, Goto, ExitCode
  <1>18. CASE Returned \/ UNCHANGED vars
    BY <1>18 DEF Returned, vars
  <1> QED
    BY <1>1, <1>2, <1>3, <1>4, <1>5, <1>6, <1>7, <1>8, <1>9, <1>10, <1>11,
       <1>12, <1>13, <1>14, <1>15, <1>16, <1>17, <1>18 DEF Next, Main

-----------------------------------------------------------------------------
(* Layer 3: what the exit code stands on.                                  *)

\* How the measurement ended, and that no snapshot is open unless this shows.
Verdict ==
    /\ stage \in {"flush"} \cup Late => interrupted \/ timedOut \/ now >= end
    /\ stage = "final" => interrupted \/ timedOut \/ total[1].to >= end
    /\ stage \in {"starting", "profiles", "prefill"} => snapshot = "none"
    /\ stage \in {"warmup", "windows", "window"} => snapshot # "requested"
    /\ stage \in {"overlap", "phase", "flush"} /\ phase = "before" =>
         snapshot # "requested"
    /\ stage \in Late \cup {"final"} =>
         interrupted \/ timedOut \/ snapshot # "requested"
    /\ stage # "returned" => result = Running
    /\ ZeroMeansMeasured

\* Every step keeps what the verdict of main() rests on.
LEMMA VerdictStep == Types /\ Total /\ Phases /\ Verdict /\ [Next]_vars => Verdict'
  <1> SUFFICES ASSUME Types /\ Total /\ Phases /\ Verdict, [Next]_vars
               PROVE  Verdict'
    OBVIOUS
  <1> USE Options
      DEF Types, Total, Phases, Verdict, ZeroMeansMeasured, Early, Late, Running,
          end, Measuring, events, tracker, measurement, report, main
  <1>1. CASE Clock
    BY <1>1 DEF Clock
  <1>2. CASE OnSignal
    BY <1>2 DEF OnSignal
  <1>3. CASE ProfilesArrive
    BY <1>3 DEF ProfilesArrive
  <1>4. CASE SnapshotCompletes
    BY <1>4 DEF SnapshotCompletes
  <1>5. CASE Connect
    BY <1>5 DEF Connect, Goto, Return
  <1>6. CASE WaitForProfiles
    BY <1>6 DEF WaitForProfiles, WaitFor, GiveUp, Return, Goto
  <1>7. CASE WaitForPrefill
    BY <1>7 DEF WaitForPrefill, WaitFor, GiveUp, Return, Goto, RequestSnapshot
  <1>8. CASE WaitForSnapshot
    BY <1>8 DEF WaitForSnapshot, WaitFor, GiveUp, Return, Goto
  <1>9. CASE WaitForWarmup
    BY <1>9 DEF WaitForWarmup, WaitFor, GiveUp, Return, Goto
  <1>10. CASE OverlapTest
    BY <1>10 DEF OverlapTest, Goto
  <1>11. CASE Overlap
    <2> USE DEF Overlap, Goto
    <2>1. CASE Before
      BY <1>11, <2>1 DEF Before, Flush, RequestSnapshot
    <2>2. CASE During
      BY <1>11, <2>2 DEF During, Flush
    <2>3. CASE SnapshotTimeout
      BY <1>11, <2>3 DEF SnapshotTimeout
    <2>4. CASE Sleep
      BY <1>11, <2>4 DEF Sleep
    <2> QED
      BY <1>11, <2>1, <2>2, <2>3, <2>4
  <1>12. CASE FlushPhase
    BY <1>12 DEF FlushPhase, Flush, Goto
  <1>13. CASE WindowsTest
    BY <1>13 DEF WindowsTest, Goto
  <1>14. CASE TakeWindow
    BY <1>14 DEF TakeWindow, Flush, Goto
  <1>15. CASE StopPublisher
    BY <1>15 DEF StopPublisher, Goto
  <1>16. CASE Drain
    <2>1. /\ total' = <<Row("total", start, now)>>
          /\ total'[1].to = now
          /\ stage' = "final"
          /\ UNCHANGED <<start, interrupted, timedOut, snapshot, result>>
      BY <1>16 DEF Drain, Goto, Row
    <2>2. interrupted \/ timedOut \/ now >= end
      BY <1>16 DEF Drain
    <2>3. (interrupted \/ timedOut \/ snapshot # "requested") /\ result = Running
      BY <1>16 DEF Drain
    <2> QED
      BY <2>1, <2>2, <2>3
  <1>17. CASE Finish
    <2>1. /\ stage' = "returned"
          /\ UNCHANGED <<start, interrupted, timedOut, snapshot, total>>
      BY <1>17 DEF Finish, Return, Goto
    <2>2. result' = 0 => ~interrupted /\ ~timedOut
      BY <1>17 DEF Finish, Return, ExitCode
    <2>3. /\ total # <<>>
          /\ interrupted \/ timedOut \/ total[1].to >= end
          /\ interrupted \/ timedOut \/ snapshot # "requested"
      BY <1>17 DEF Finish
    <2>4. total[1].to \in Nat
      <3>1. PICK u \in Nat : total = <<Row("total", start, u)>>
        BY <2>3
      <3> QED
        BY <3>1 DEF Row
    <2> QED
      BY <2>1, <2>2, <2>3, <2>4
  <1>18. CASE Returned \/ UNCHANGED vars
    BY <1>18 DEF Returned, vars
  <1> QED
    BY <1>1, <1>2, <1>3, <1>4, <1>5, <1>6, <1>7, <1>8, <1>9, <1>10, <1>11,
       <1>12, <1>13, <1>14, <1>15, <1>16, <1>17, <1>18 DEF Next, Main

-----------------------------------------------------------------------------
(* The invariant and the theorems.                                         *)

Inv == TypeInv /\ Clocks /\ Tiling /\ Phases /\ Verdict

\* The inductive invariant holds when main() starts.
LEMMA InvInit == Init => Inv
  <1> SUFFICES ASSUME Init
               PROVE  Inv
    OBVIOUS
  <1>1. TypeInv
    BY TypeInit
  <1>2. Clocks
    BY DEF Init, Clocks
  <1>3. Tiling
    <2>1. Tiled(<<>>, 0, 0)
      BY DEF Tiled
    <2> QED
      BY <2>1 DEF Init, Tiling
  <1>4. Phases
    BY DEF Init, Phases, Early, NoneAfter, Preceded
  <1>5. Verdict
    BY DEF Init, Verdict, ZeroMeansMeasured, Running, Late
  <1> QED
    BY <1>1, <1>2, <1>3, <1>4, <1>5 DEF Inv

\* Every step keeps the inductive invariant.
LEMMA InvStep == Inv /\ [Next]_vars => Inv'
  BY TypeStep, ClocksStep, TilingStep, PhasesStep, VerdictStep DEF Inv, TypeInv

\* The inductive invariant holds in every reachable state.
LEMMA Invariant == Spec => []Inv
  BY InvInit, InvStep, PTL DEF Spec

\* Whatever main() oversleeps, rows neither overlap nor leave a gap, and the
\* total covers them.
THEOREM RowsTileMeasurement == Spec => []RowsTile
  <1>1. Inv => RowsTile
    <2> SUFFICES ASSUME Inv
                 PROVE  RowsTile
      OBVIOUS
    <2>1. PICK to \in Nat : /\ Tiled(rows, start, to)
                            /\ total # <<>> => to <= total[1].to
      BY DEF Inv, TypeInv, Types, Tiling
    <2>2. total # <<>> => total[1].from = start /\ total[1].to \in Nat
      <3> SUFFICES ASSUME total # <<>>
                   PROVE  total[1].from = start /\ total[1].to \in Nat
        OBVIOUS
      <3>1. PICK u \in Nat : total = <<Row("total", start, u)>>
        BY DEF Inv, TypeInv, Total
      <3> QED
        BY <3>1 DEF Row
    <2>3. ASSUME NEW i \in 1 .. Len(rows)
          PROVE  /\ rows[i].from <= rows[i].to
                 /\ i < Len(rows) => rows[i].to = rows[i + 1].from
                 /\ total # <<>> =>
                      total[1].from <= rows[i].from /\ rows[i].to <= total[1].to
      <3>1. rows[i] \in RowRecord
        BY DEF Inv, TypeInv, Types
      <3>2. rows[i].to \in Nat
        BY <3>1 DEF RowRecord
      <3> QED
        BY <2>1, <2>2, <3>2 DEF Tiled
    <2>4. rows # <<>> => rows[1].from = start
      BY <2>1 DEF Tiled
    <2> QED
      BY <2>3, <2>4 DEF RowsTile
  <1> QED
    BY Invariant, <1>1, PTL

\* The row of the phase DURING is the interval of the snapshot.
THEOREM DuringTheSnapshot == Spec => []DuringIsSnapshot
  <1>1. Inv => DuringIsSnapshot
    BY DEF Inv, Phases, Preceded, DuringIsSnapshot
  <1> QED
    BY Invariant, <1>1, PTL

\* Exit code zero stands for a complete measurement.
THEOREM ZeroIsMeasured == Spec => []ZeroMeansMeasured
  <1>1. Inv => ZeroMeansMeasured
    BY DEF Inv, Verdict
  <1> QED
    BY Invariant, <1>1, PTL
=============================================================================
