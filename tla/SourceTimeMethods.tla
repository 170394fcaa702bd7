-------------------------- MODULE SourceTimeMethods --------------------------
(***************************************************************************)
(* SourceTimeMethodComparison (src/core.cpp): three ways to select latency *)
(* samples from Trade and TradeETH events by their source time, which has  *)
(* the resolution of a millisecond.  Every event is a sample of the first; *)
(* the second wants the source time to rise within the event's series (its *)
(* kind and symbol), the third within the whole feed.                      *)
(*                                                                         *)
(* The state is a record, and an operation maps a record to a record: its  *)
(* owner keeps it under a mutex.                                           *)
(***************************************************************************)
EXTENDS Integers, Sequences

CONSTANTS
    Series,     \* "kind:symbol" of the events
    Milli       \* clock units in a millisecond (1'000'000 in the code)

ASSUME SourceTimeAssumption == Milli \in Nat \ {0}

\* std::nullopt of lastGlobal_; observe accepts positive source times only.
NoSourceTime == 0

\* The code keeps the latency of a sample; series and source time are
\* history, for the properties.
Sample == [series : Series, time : Nat \ {0}, latency : Nat]

Methods ==
    [all : Seq(Sample), perSeries : Seq(Sample), global : Seq(Sample),
     perSeriesRejected : Nat, globalRejected : Nat,
     negativeAll : Nat, negativePerSeries : Nat, negativeGlobal : Nat,
     lastBySeries : [Series -> Nat], lastGlobal : Nat]

\* reset: the state of a new comparison.
Reset ==
    [all |-> <<>>, perSeries |-> <<>>, global |-> <<>>,
     perSeriesRejected |-> 0, globalRejected |-> 0,
     negativeAll |-> 0, negativePerSeries |-> 0, negativeGlobal |-> 0,
     lastBySeries |-> [s \in Series |-> NoSourceTime],
     lastGlobal |-> NoSourceTime]

One(b) == IF b THEN 1 ELSE 0

SelectIf(b, samples, sample) == IF b THEN Append(samples, sample) ELSE samples

\* An event as a sample of the methods that select it; a latency below zero is
\* clamped, and counted under each method the sample enters.
Select(m, series, time, observed) ==
    LET latency == observed \div Milli - time
        sample == [series |-> series, time |-> time,
                   latency |-> IF latency > 0 THEN latency ELSE 0]
        newer == time > m.lastBySeries[series]
        newest == time > m.lastGlobal
    IN [m EXCEPT
          !.all = Append(@, sample),
          !.perSeries = SelectIf(newer, @, sample),
          !.global = SelectIf(newest, @, sample),
          !.perSeriesRejected = @ + One(~newer),
          !.globalRejected = @ + One(~newest),
          !.negativeAll = @ + One(latency < 0),
          !.negativePerSeries = @ + One(newer /\ latency < 0),
          !.negativeGlobal = @ + One(newest /\ latency < 0)]

\* Fault: the times kept are those of the last event, not the latest ones.
ObserveForgetsMaximum(m, series, time, observed) ==
    IF time <= 0 THEN m
    ELSE [Select(m, series, time, observed) EXCEPT
            !.lastBySeries[series] = time,
            !.lastGlobal = time]

\* observe: an event without a source time is ignored; the latest time of a
\* series and of the feed only ever rise.
Observe(m, series, time, observed) ==
    IF time <= 0 THEN m
    ELSE [Select(m, series, time, observed) EXCEPT
            !.lastBySeries[series] = IF time > @ THEN time ELSE @,
            !.lastGlobal = IF time > @ THEN time ELSE @]

-----------------------------------------------------------------------------

Elements(samples) == { samples[i] : i \in DOMAIN samples }

\* What a report may rely on when it sets the three methods side by side:
\* every event is accepted or rejected by each of them, a sample of a
\* stricter method is one of the weaker methods too, so are the clamped ones,
\* and the global method keeps one event per millisecond at most, in order
\* (monitoring.cpp says so under "Source-time measurement methods").
Nested(m) ==
    /\ Len(m.all) = Len(m.perSeries) + m.perSeriesRejected
    /\ Len(m.all) = Len(m.global) + m.globalRejected
    /\ Elements(m.global) \subseteq Elements(m.perSeries)
    /\ Elements(m.perSeries) \subseteq Elements(m.all)
    /\ m.globalRejected >= m.perSeriesRejected
    /\ m.negativeGlobal <= m.negativePerSeries
    /\ m.negativePerSeries <= m.negativeAll
    /\ \A i, j \in DOMAIN m.global :
         i < j => m.global[i].time < m.global[j].time
===============================================================================
