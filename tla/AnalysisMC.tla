------------------------------ MODULE AnalysisMC ------------------------------
(* One run and its analysis for TLC. *)
EXTENDS Analysis

\* Trades and drops do not read each other's state: a behaviour with both adds
\* nothing to one with either.  One record of the log lets the clock run far
\* enough for latencies above zero.
OneInterest ==
    methods.all # <<>> => drops = <<>> /\ rows = <<>> /\ Len(log) <= 1

\* readMeasurement reads the start of the first row and the end of the last:
\* one window before the end of the measurement is enough.
OneWindow == stage = "measuring" => Len(rows) <= 2

Reduced == OneInterest /\ OneWindow
===============================================================================
