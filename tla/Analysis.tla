------------------------------- MODULE Analysis -------------------------------
(***************************************************************************)
(* What remains of a run when it is analyzed: the window rows of the       *)
(* client (src/client.cpp), the comparison of source-time methods, the     *)
(* drop counter in the monitoring log of a QD endpoint, and the sum of     *)
(* drops that the analyzer (src/monitoring.cpp) reports from them.         *)
(*                                                                         *)
(* The log's timer knows nothing of the measurement, may fire late and     *)
(* counts whatever was dropped since it last fired; the analyzer runs      *)
(* after the run, at any distance from the last record.                    *)
(***************************************************************************)
EXTENDS SourceTimeMethods, Monitoring

CONSTANTS
    Period,          \* --monitoring-period of server, client and analyzer
    SourceTimes,     \* source times of Trades, 0 if there is none
    MaxTime,         \* bound: last instant of the wall clock
    MaxLate,         \* bound: lateness of the log's timer
    MaxTrades,       \* bound: Trades observed in one behaviour
    MaxDrops         \* bound: drops in one behaviour

ASSUME AnalysisAssumption ==
    /\ Period \in Nat \ {0}
    /\ SourceTimes \subseteq Int
    /\ {MaxTime, MaxLate, MaxTrades, MaxDrops} \subseteq Nat

VARIABLES
    now,          \* wall clock
    stage,        \* "warmup", "measuring" (with the drain), "closed", "analyzed"
    methods,      \* sourceTimeMethods_ of the Collector
    windowStart,  \* windowStartWall
    rows,         \* rows of the summary CSV
    dropped,      \* QD's counter of drops since its last record
    log,          \* records of the monitoring log
    drops,        \* history: the time of each drop
    analysis      \* the analyzer's sum of drops, None if there is none

measured == <<stage, windowStart, rows, analysis>>
monitored == <<dropped, log, drops>>
vars == <<now, measured, methods, monitored>>

Row(kind, start, end) == [kind |-> kind, start |-> start, end |-> end]

\* The rows of a window, or of the whole run.
Rows(suffix, start, end) ==
    <<Row("event" \o suffix, start, end), Row("batch" \o suffix, start, end)>>

LastRecord == IF log = <<>> THEN 0 ELSE log[Len(log)].end

-----------------------------------------------------------------------------

\* The log's timer is due, and at most MaxLate late.
Tick ==
    /\ stage # "analyzed"
    /\ now < MaxTime
    /\ now - LastRecord < Period + MaxLate
    /\ now' = now + 1
    /\ UNCHANGED <<measured, methods, monitored>>

\* A Trade reaches a listener; its clock reading may be from before.
Trade ==
    /\ stage = "measuring"
    /\ Len(methods.all) < MaxTrades
    /\ \E series \in Series, time \in SourceTimes, observed \in 0..now :
         methods' = Observe(methods, series, time, observed)
    /\ UNCHANGED <<now, measured, monitored>>

\* The endpoint drops a record.
Drop ==
    /\ stage # "analyzed"
    /\ Len(drops) < MaxDrops
    /\ dropped' = dropped + 1
    /\ drops' = Append(drops, now)
    /\ UNCHANGED <<now, measured, methods, log>>

Record ==
    /\ stage # "analyzed"
    /\ now - LastRecord >= Period
    /\ log' = Append(log, [end |-> now, dropped |-> dropped])
    /\ dropped' = 0
    /\ UNCHANGED <<now, measured, methods, drops>>

\* beginMeasurement, and the first window.
Begin ==
    /\ stage = "warmup"
    /\ stage' = "measuring"
    /\ methods' = Reset
    /\ windowStart' = now
    /\ UNCHANGED <<now, rows, analysis, monitored>>

Window ==
    /\ stage = "measuring"
    /\ windowStart < now
    /\ windowStart' = now
    /\ rows' = rows \o Rows("", windowStart, now)
    /\ UNCHANGED <<now, stage, analysis, methods, monitored>>

\* endMeasurement after the drain: a last window unless there is nothing in
\* it, then the totals.
End ==
    /\ stage = "measuring"
    /\ stage' = "closed"
    /\ LET start == IF rows = <<>> THEN windowStart ELSE rows[1].start
           total == Rows("-total", start, now)
       IN \/ rows' = rows \o total
          \/ rows' = rows \o Rows("", windowStart, now) \o total
    /\ UNCHANGED <<now, windowStart, analysis, methods, monitored>>

\* The analyzer fails without an event row or without a record.
Analyze ==
    /\ stage = "closed"
    /\ stage' = "analyzed"
    /\ analysis' = IF Measurement(rows) = None \/ log = <<>> THEN None
                   ELSE DroppedSum(log, Period, Measurement(rows))
    /\ UNCHANGED <<now, windowStart, rows, methods, monitored>>

Analyzed ==
    /\ stage = "analyzed"
    /\ UNCHANGED vars

Init ==
    /\ now = 0
    /\ stage = "warmup"
    /\ methods = Reset
    /\ windowStart = 0
    /\ rows = <<>>
    /\ dropped = 0
    /\ log = <<>>
    /\ drops = <<>>
    /\ analysis = None

Next ==
    \/ Tick \/ Trade \/ Drop \/ Record
    \/ Begin \/ Window \/ End \/ Analyze \/ Analyzed

Spec == Init /\ [][Next]_vars

-----------------------------------------------------------------------------
(* Properties.                                                             *)

\* MethodsNested: whatever the order of the events, the samples of the three
\* methods can be set side by side as the report does it.
MethodsNested == Nested(methods)

DropsBetween(a, b) ==
    Cardinality({ i \in DOMAIN drops : a <= drops[i] /\ drops[i] <= b })

\* The longest time without a record, up to the analysis.
Gap ==
    LET marks == {0, now} \cup { log[i].end : i \in DOMAIN log }
        next(a) == { b \in marks : b > a }
    IN Max({0} \cup { Min(next(a)) - a : a \in marks \ {now} })

\* DroppedInMeasurement: the reported sum counts no drop outside of the
\* measurement (unless the first record, whose interval the analyzer can only
\* guess, was late), and misses none that lies deeper in it than the longest
\* interval of the log; without a sum ("n/a") there is no such drop.  Drops
\* next to a boundary are in neither bound: their record covers time on both
\* sides, and readMonitoringLog leaves it out.
DroppedInMeasurement ==
    stage = "analyzed" /\ Measurement(rows) # None /\ log # <<>> =>
        LET m == Measurement(rows)
            sum == IF analysis = None THEN 0 ELSE analysis.sum
        IN /\ log[1].end = Period => sum <= DropsBetween(m.start, m.end)
           /\ sum >= DropsBetween(m.start + Gap, m.end - Gap - 1)
===============================================================================
