------------------------------ MODULE Monitoring ------------------------------
(***************************************************************************)
(* The analyzer (src/monitoring.cpp): what it makes of the files of a run. *)
(* Everything here is a function of the files; CSV and log text are        *)
(* abstracted to the values of their columns.                              *)
(***************************************************************************)
EXTENDS Integers, Sequences, FiniteSetsExt, Functions

-----------------------------------------------------------------------------
(* The measurement and the monitoring records that belong to it.           *)

\* An error, and a metric without a value: both are absent values.
None == [none |-> TRUE]

\* readMeasurement: from the first "event" row to the last one, an error if
\* there is none.  Total rows and rows of one kind are skipped.
Measurement(rows) ==
    LET events == { i \in DOMAIN rows : rows[i].kind = "event" }
    IN IF events = {} THEN None
       ELSE [start |-> rows[Min(events)].start, end |-> rows[Max(events)].end]

\* Fault: every record is taken to cover one period.
IntervalStartOnTime(log, i, period) == log[i].end - period

\* readMonitoringLog: a record covers the time since the one before it.  Only
\* of the first one the start is not known.
IntervalStart(log, i, period) ==
    IF i = 1 THEN log[1].end - period ELSE log[i - 1].end

InMeasurement(log, i, period, measurement) ==
    /\ IntervalStart(log, i, period) >= measurement.start
    /\ log[i].end <= measurement.end

InnerRecords(log, period, measurement) ==
    { i \in DOMAIN log : InMeasurement(log, i, period, measurement) }

\* The "dropped" aggregate of analyzeMonitoringDirectory: the sum over the
\* records within the measurement, and no aggregate without any.
DroppedSum(log, period, measurement) ==
    LET inner == InnerRecords(log, period, measurement)
    IN IF inner = {} THEN None
       ELSE [sum |-> SumFunctionOnSet(
                          [i \in DOMAIN log |-> log[i].dropped], inner)]

-----------------------------------------------------------------------------
(* Integrity of a run.                                                     *)

\* Fault: clock anomalies do not matter for a row.
LatencyIntegrityIgnoresClock(row) ==
    /\ row.batches > 0
    /\ row.missing = 0
    /\ row.pending = 0
    /\ row.exactDelivery

\* readLatencyTotals: a "-total" row passes if the run has complete batches,
\* nothing anomalous, missing or pending, and the exact delivery that is
\* demanded of it: of event rows, and for the STREAM_FEED role only.
LatencyIntegrity(row) ==
    /\ row.batches > 0
    /\ row.clockAnomalies = 0
    /\ row.missing = 0
    /\ row.pending = 0
    /\ row.exactDelivery

ExactDelivery(kind, feed, deficit, excess) ==
    kind = "batch" \/ feed \/ (deficit = 0 /\ excess = 0)
===============================================================================
