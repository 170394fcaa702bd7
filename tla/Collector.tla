------------------------------ MODULE Collector ------------------------------
(***************************************************************************)
(* The Collector of the latency client (src/client.cpp): it correlates     *)
(* market events with the timestamp marker of their publication, decides   *)
(* when a publication is complete, expires the ones that never complete    *)
(* and accounts for everything twice, once per reporting window and once   *)
(* per run.                                                                *)
(*                                                                         *)
(* Three listener threads (market, control, Profile subscriptions) and the *)
(* main thread share the Collector under one mutex.  A listener reads the  *)
(* clock BEFORE it takes the mutex (client.cpp:526), so an observation may *)
(* be old when it is applied.  Under the mutex a callback is processed     *)
(* event by event; the steps of one critical section are separate actions, *)
(* and nobody else can act on the Collector until the mutex is released.   *)
(***************************************************************************)
EXTENDS Integers, Sequences, FiniteSetsExt

CONSTANTS
    Expected,         \* expectedByKind_: recurring events of a publication
    BatchTimeout,     \* batchTimeout_, in clock units
    MaxSequence,      \* TextMessage::MAX_SEQUENCE
    Symbol,           \* symbols of the initial Profile events
    Callbacks,        \* [Listener -> sets of event lists one callback delivers]
    MaxTime,          \* bound: last instant of the wall clock
    MaxCallbacks      \* bound: callbacks delivered in one behaviour

Kind == {"QUOTE", "TRADE", "TRADE_ETH", "SUMMARY"}
Listener == {"market", "control", "profiles"}

\* std::nullopt for a timestamp, and the zero of a default firstObserved.
\* markerTimestamp only accepts positive times, so 0 is never a real one.
NoTime == 0

MarketEvent  == [type : {"market"}, kind : Kind, sequence : Int]
MarkerEvent  == [type : {"marker"}, sequence : Int, time : Int]
ProfileEvent == [type : {"profile"}, symbol : Symbol]
Event == MarketEvent \cup MarkerEvent \cup ProfileEvent

ASSUME CollectorAssumption ==
    /\ Expected \in [Kind -> Nat]
    /\ BatchTimeout \in Nat
    /\ MaxSequence \in Nat \ {0}
    /\ Callbacks \in [Listener -> SUBSET Seq(Event)]
    /\ MaxTime \in Nat
    /\ MaxCallbacks \in Nat

VARIABLES
    now,                     \* unixNanosNow()
    callback,                \* per listener: the callback in progress
    arrivals,                \* callbacks handed to listeners so far (bound)
    allowConflation,         \* allowConflation_: FEED role, else STREAM_FEED
    mutex,                   \* mutex_: "free" or its holder
    measuring,               \* measuring_
    acceptingNewBatches,     \* acceptingNewBatches_
    sourceTimeMeasuring,     \* sourceTimeMeasuring_
    sourceTimeObserved,      \* calls of sourceTimeMethods_.observe
    preMeasurementSequences, \* preMeasurementSequences_
    profileSymbolsReceived,  \* profileSymbolsReceived_
    pending,                 \* pending_: sequence -> PendingBatch
    activity,                \* activity_
    window,                  \* the ...Window_ members
    total,                   \* the ...Total_ and ...Global members
    stage,                   \* how far main() has got
    expiring,                \* iteration of takeWindow: batches still to expire
    expireAll,               \* argument of the takeWindow in progress
    reported,                \* sum of the windows handed to the Reporter
    final                    \* <<>> or <<the Totals handed to the Reporter>>

clock == <<now, arrivals>>
flags == <<allowConflation, measuring, acceptingNewBatches, sourceTimeMeasuring>>
seen == <<preMeasurementSequences, profileSymbolsReceived>>
counters == <<window, total>>
main == <<stage, expiring, expireAll, reported, final>>
vars == <<clock, flags, seen, counters, main, callback, mutex,
          sourceTimeObserved, pending, activity>>

-----------------------------------------------------------------------------
(* Data: batches and counters.                                             *)

PendingEvent == [observed : Int, kind : Kind]

PendingBatch ==
    [timestamp : Int, received : Nat, receivedByKind : [Kind -> Nat],
     firstObserved : Int, lastObserved : Int, events : Seq(PendingEvent)]

PerKind == [Kind -> Nat]

\* DeliveryCounters and the sample containers next to them.  A container is
\* counted, not stored: events and batches are the numbers of samples.
Counters ==
    [published : PerKind, delivered : PerKind, listenerDeficit : PerKind,
     excess : PerKind, events : PerKind,
     full : Nat, partial : Nat, empty : Nat, uncorrelated : Nat,
     batches : Nat, negative : Nat, missing : Nat,
     callbacks : Nat, callbackSizes : Nat]

NoneOfKind == [k \in Kind |-> 0]

Zero ==
    [published |-> NoneOfKind, delivered |-> NoneOfKind,
     listenerDeficit |-> NoneOfKind, excess |-> NoneOfKind,
     events |-> NoneOfKind,
     full |-> 0, partial |-> 0, empty |-> 0, uncorrelated |-> 0,
     batches |-> 0, negative |-> 0, missing |-> 0,
     callbacks |-> 0, callbackSizes |-> 0]

AddKinds(f, g) == [k \in Kind |-> f[k] + g[k]]

Add(c, d) ==
    [published |-> AddKinds(c.published, d.published),
     delivered |-> AddKinds(c.delivered, d.delivered),
     listenerDeficit |-> AddKinds(c.listenerDeficit, d.listenerDeficit),
     excess |-> AddKinds(c.excess, d.excess),
     events |-> AddKinds(c.events, d.events),
     full |-> c.full + d.full,
     partial |-> c.partial + d.partial,
     empty |-> c.empty + d.empty,
     uncorrelated |-> c.uncorrelated + d.uncorrelated,
     batches |-> c.batches + d.batches,
     negative |-> c.negative + d.negative,
     missing |-> c.missing + d.missing,
     callbacks |-> c.callbacks + d.callbacks,
     callbackSizes |-> c.callbackSizes + d.callbackSizes]

\* Every counter of the code is incremented side by side in its window and
\* its whole-run form.
Accumulate(d) ==
    /\ window' = Add(window, d)
    /\ total' = Add(total, d)

NewBatch ==
    [timestamp |-> NoTime, received |-> 0, receivedByKind |-> NoneOfKind,
     firstObserved |-> NoTime, lastObserved |-> 0, events |-> <<>>]

\* pending_.try_emplace(sequence): the existing batch or a fresh one.
BatchOf(s) == IF s \in DOMAIN pending THEN pending[s] ELSE NewBatch

Erase(s) == [t \in DOMAIN pending \ {s} |-> pending[t]]

Store(s, batch) ==
    [t \in DOMAIN pending \cup {s} |-> IF t = s THEN batch ELSE pending[t]]

Later(a, b) == IF a >= b THEN a ELSE b

-----------------------------------------------------------------------------
(* Correlation: describe, markerTimestamp, acceptBatch, emitEvents, finish *)

\* describe: a Quote carries its sequence in bidSize, which is only accepted
\* strictly between 0 and MAX_SEQUENCE; the other kinds carry it unchecked.
Described(e) ==
    e.kind = "QUOTE" => e.sequence > 0 /\ e.sequence < MaxSequence

\* markerTimestamp: any other control text has no timestamp.
IsMarker(e) == e.type = "marker" /\ e.time > 0

\* Fault: a marker of the warm-up does not exclude its publication.
WarmupSequencesOfEvents(events) ==
    { events[i].sequence : i \in
        { j \in DOMAIN events :
            events[j].type = "market" /\ Described(events[j]) } }

\* The sequence an event reveals while the client is still warming up.
WarmupSequences(events) ==
    { events[i].sequence : i \in
        { j \in DOMAIN events :
            \/ IsMarker(events[j])
            \/ events[j].type = "market" /\ Described(events[j]) } }

\* Fault: the warm-up sequences are forgotten.
AcceptBatchAnySequence(s) ==
    acceptingNewBatches \/ s \in DOMAIN pending

AcceptBatch(s) ==
    /\ s \notin preMeasurementSequences
    /\ acceptingNewBatches \/ s \in DOMAIN pending

\* emitEvents: each retained event becomes a latency sample of its kind, or a
\* clock anomaly if it was observed before the marker's publication time.
Emission(batch) ==
    IF batch.timestamp = NoTime THEN Zero
    ELSE LET late(k) == { i \in DOMAIN batch.events :
                            /\ batch.events[i].kind = k
                            /\ batch.events[i].observed >= batch.timestamp }
             early == { i \in DOMAIN batch.events :
                            batch.events[i].observed < batch.timestamp }
         IN [Zero EXCEPT !.events = [k \in Kind |-> Cardinality(late(k))],
                         !.negative = Cardinality(early)]

\* Fault: emitEvents does not clear the retained events.
EmittedKeepsEvents(batch) == batch

Emitted(batch) ==
    [batch EXCEPT !.events = IF batch.timestamp = NoTime THEN @ ELSE <<>>]

HasExpectedComposition(batch) == batch.receivedByKind = Expected

Shortfall(a, b) == IF a < b THEN b - a ELSE 0

\* finish for a publication whose marker never arrived.
FinishUncorrelated(batch) ==
    [Zero EXCEPT !.uncorrelated = batch.received,
                 !.missing = IF allowConflation THEN 0 ELSE 1]

\* Fault: an empty publication is counted as a partial one as well.
FinishCorrelatedEmptyTwice(batch) ==
    LET got == batch.receivedByKind
        complete == HasExpectedComposition(batch)
        one(b) == IF b THEN 1 ELSE 0
    IN [Zero EXCEPT
          !.delivered = got,
          !.listenerDeficit = [k \in Kind |-> Shortfall(got[k], Expected[k])],
          !.excess = [k \in Kind |-> Shortfall(Expected[k], got[k])],
          !.full = one(complete),
          !.empty = one(~complete /\ batch.received = 0),
          !.partial = one(~complete),
          !.missing = one(~complete /\ ~allowConflation)]

\* finish for a publication with a marker: outcome per kind, outcome of the
\* publication, and the whole-batch sample if anything at all was received.
FinishCorrelated(batch) ==
    LET got == batch.receivedByKind
        complete == HasExpectedComposition(batch)
        delta == batch.lastObserved - batch.timestamp
    IN [Zero EXCEPT
          !.delivered = got,
          !.listenerDeficit = [k \in Kind |-> Shortfall(got[k], Expected[k])],
          !.excess = [k \in Kind |-> Shortfall(Expected[k], got[k])],
          !.full = IF complete THEN 1 ELSE 0,
          !.empty = IF ~complete /\ batch.received = 0 THEN 1 ELSE 0,
          !.partial = IF ~complete /\ batch.received > 0 THEN 1 ELSE 0,
          !.missing = IF ~complete /\ ~allowConflation THEN 1 ELSE 0,
          !.batches = IF batch.received > 0 /\ delta >= 0 THEN 1 ELSE 0,
          !.negative = IF batch.received > 0 /\ delta < 0 THEN 1 ELSE 0]

Finish(batch) ==
    IF batch.timestamp = NoTime
    THEN FinishUncorrelated(batch)
    ELSE Add(Emission(batch), FinishCorrelated(batch))

\* The tail of both event handlers: emit what can be emitted, then finish the
\* batch if its marker is known and its composition is the expected one.
Settle(s, batch, d) ==
    LET emitted == Emitted(batch)
        done == batch.timestamp # NoTime /\ HasExpectedComposition(batch)
        gained == Add(d, Emission(batch))
    IN IF done
       THEN /\ pending' = Erase(s)
            /\ Accumulate(Add(gained, Finish(emitted)))
       ELSE /\ pending' = Store(s, emitted)
            /\ Accumulate(gained)

-----------------------------------------------------------------------------
(* The listener threads: Collector::handle.                                *)

Idle == [phase |-> "idle", observed |-> 0, events |-> <<>>]

\* A subscription delivers a callback; handle reads the clock, then blocks on
\* the mutex.
ReceiveEvents(l, events) ==
    /\ callback[l].phase = "idle"
    /\ stage # "closed"
    /\ arrivals < MaxCallbacks
    /\ callback' = [callback EXCEPT ![l] =
         [phase |-> "observed", observed |-> now, events |-> events]]
    /\ arrivals' = arrivals + 1
    /\ UNCHANGED <<flags, seen, counters, main, now, mutex, sourceTimeObserved,
                   pending, activity>>

Receive(l) == \E events \in Callbacks[l] : ReceiveEvents(l, events)

ReceivedProfiles(events) ==
    { events[i].symbol : i \in
        { j \in DOMAIN events : events[j].type = "profile" } }

\* Before the measurement a callback only records Profiles and the sequences
\* that will straddle the boundary; it runs to its early return in one step.
HandleWarmup(l) ==
    /\ callback[l].phase = "observed"
    /\ mutex = "free"
    /\ ~measuring
    /\ profileSymbolsReceived' =
         profileSymbolsReceived \cup ReceivedProfiles(callback[l].events)
    /\ preMeasurementSequences' =
         preMeasurementSequences \cup WarmupSequences(callback[l].events)
    /\ callback' = [callback EXCEPT ![l] = Idle]
    /\ UNCHANGED <<clock, flags, counters, main, mutex, sourceTimeObserved,
                   pending, activity>>

\* During and after the measurement the callback is counted and takes the
\* mutex for the loop over its events.
HandleMeasured(l) ==
    /\ callback[l].phase = "observed"
    /\ mutex = "free"
    /\ measuring
    /\ profileSymbolsReceived' =
         profileSymbolsReceived \cup ReceivedProfiles(callback[l].events)
    /\ activity' = activity + 1
    /\ Accumulate([Zero EXCEPT !.callbacks = 1])
    /\ mutex' = l
    /\ callback' = [callback EXCEPT ![l].phase = "handling"]
    /\ UNCHANGED <<clock, flags, main, sourceTimeObserved,
                   preMeasurementSequences, pending>>

\* The marker branch of the loop.  The first marker of a batch fixes its
\* publication time and charges the expected events to "published".
MarkerBatch(batch, e, observed) ==
    [batch EXCEPT
        !.timestamp = IF @ = NoTime THEN e.time ELSE @,
        !.firstObserved = IF @ = NoTime THEN observed ELSE @,
        !.lastObserved = Later(@, observed)]

\* Fault: a repeated marker charges its publication again.
ApplyMarkerChargesAgain(e, observed) ==
    Settle(e.sequence, MarkerBatch(BatchOf(e.sequence), e, observed),
           [Zero EXCEPT !.published = Expected])

ApplyMarker(e, observed) ==
    LET batch == BatchOf(e.sequence)
    IN Settle(e.sequence, MarkerBatch(batch, e, observed),
              IF batch.timestamp = NoTime
              THEN [Zero EXCEPT !.published = Expected]
              ELSE Zero)

\* addEvent: the market branch of the loop.
MarketBatch(batch, e, observed) ==
    [batch EXCEPT
        !.firstObserved = IF batch.received = 0 THEN observed ELSE @,
        !.lastObserved = Later(@, observed),
        !.received = @ + 1,
        !.receivedByKind[e.kind] = @ + 1,
        !.events = Append(@, [observed |-> observed, kind |-> e.kind])]

ApplyMarket(e, observed) ==
    Settle(e.sequence, MarketBatch(BatchOf(e.sequence), e, observed), Zero)

Correlates(e) ==
    /\ \/ IsMarker(e)
       \/ e.type = "market" /\ Described(e)
    /\ AcceptBatch(e.sequence)

\* Trade and TradeETH carry a native source time, which is compared whatever
\* becomes of the event's batch.
SourceTimed(e) ==
    /\ e.type = "market"
    /\ e.kind \in {"TRADE", "TRADE_ETH"}
    /\ sourceTimeMeasuring

\* One iteration of the loop over the callback's events.
HandleEvent(l) ==
    /\ mutex = l
    /\ callback[l].events # <<>>
    /\ LET e == Head(callback[l].events)
           observed == callback[l].observed
       IN /\ sourceTimeObserved' =
               sourceTimeObserved + (IF SourceTimed(e) THEN 1 ELSE 0)
          /\ IF ~Correlates(e) THEN UNCHANGED <<pending, window, total>>
             ELSE IF e.type = "marker" THEN ApplyMarker(e, observed)
             ELSE ApplyMarket(e, observed)
    /\ callback' = [callback EXCEPT ![l].events = Tail(@)]
    /\ UNCHANGED <<clock, flags, seen, main, mutex, activity>>

\* End of the callback: a market callback records its size and duration.
LeaveCallback(l) ==
    /\ mutex = l
    /\ callback[l].events = <<>>
    /\ Accumulate(IF l = "market" THEN [Zero EXCEPT !.callbackSizes = 1]
                  ELSE Zero)
    /\ callback' = [callback EXCEPT ![l] = Idle]
    /\ mutex' = "free"
    /\ UNCHANGED <<clock, flags, seen, main, sourceTimeObserved, pending,
                   activity>>

-----------------------------------------------------------------------------
(* The main thread: beginMeasurement, takeWindow, endMeasurement, totals.  *)

EmptyPending == [s \in {} |-> NewBatch]

BeginMeasurement ==
    /\ stage = "warmup"
    /\ mutex = "free"
    /\ stage' = "measuring"
    /\ pending' = EmptyPending
    /\ window' = Zero
    /\ sourceTimeObserved' = 0
    /\ acceptingNewBatches' = TRUE
    /\ sourceTimeMeasuring' = TRUE
    /\ measuring' = TRUE
    /\ UNCHANGED <<clock, seen, callback, allowConflation, mutex, activity, total,
                   expiring, expireAll, reported, final>>

EndMeasurement ==
    /\ stage = "measuring"
    /\ mutex = "free"
    /\ stage' = "ended"
    /\ acceptingNewBatches' = FALSE
    /\ sourceTimeMeasuring' = FALSE
    /\ UNCHANGED <<clock, seen, counters, callback, allowConflation, mutex,
                   measuring, sourceTimeObserved, pending, activity, expiring,
                   expireAll, reported, final>>

\* A batch ages from its publication time or, without a marker, from the
\* observation of its first event.
Reference(batch) ==
    IF batch.timestamp # NoTime THEN batch.timestamp ELSE batch.firstObserved

Expired(all) ==
    { s \in DOMAIN pending :
        all \/ Reference(pending[s]) < now - BatchTimeout }

\* takeWindow(all): periodic while measuring, takeWindow(true) after the end.
TakeWindow(all) ==
    /\ stage = (IF all THEN "ended" ELSE "measuring")
    /\ mutex = "free"
    /\ mutex' = "main"
    /\ expireAll' = all
    /\ expiring' = Expired(all)
    /\ UNCHANGED <<clock, flags, seen, counters, callback, sourceTimeObserved,
                   pending, activity, stage, reported, final>>

\* One iteration of the expiry loop, in the order of the map.
ExpireBatch ==
    /\ mutex = "main"
    /\ \E s \in expiring :
         /\ \A t \in expiring : s <= t
         /\ Accumulate(Finish(pending[s]))
         /\ pending' = Erase(s)
         /\ expiring' = expiring \ {s}
    /\ UNCHANGED <<clock, flags, seen, callback, mutex, sourceTimeObserved,
                   activity, stage, expireAll, reported, final>>

\* Fault: a last window without samples is dropped whatever it counted.
ReportsSamplesOnly(w) ==
    ~expireAll \/ w.batches > 0 \/ \E k \in Kind : w.events[k] > 0

\* The last window is only handed to the Reporter if it has samples, missing
\* batches or clock anomalies (client.cpp:1807).
Reports(w) ==
    \/ ~expireAll
    \/ \E k \in Kind : w.events[k] > 0
    \/ w.batches > 0
    \/ w.missing > 0
    \/ w.negative > 0

\* End of takeWindow, and the caller's hand-over to the Reporter.
ReturnWindow ==
    /\ mutex = "main"
    /\ expiring = {}
    /\ reported' = IF Reports(window) THEN Add(reported, window) ELSE reported
    /\ window' = Zero
    /\ mutex' = "free"
    /\ stage' = IF expireAll THEN "reporting" ELSE stage
    /\ expireAll' = FALSE
    /\ UNCHANGED <<clock, flags, seen, callback, sourceTimeObserved, pending,
                   activity, total, expiring, final>>

\* reporter.final(collector.totals()); callbacks may still be running.
TakeTotals ==
    /\ stage = "reporting"
    /\ mutex = "free"
    /\ final' = <<total>>
    /\ stage' = "closing"
    /\ UNCHANGED <<clock, flags, seen, counters, callback, mutex,
                   sourceTimeObserved, pending, activity, expiring, expireAll,
                   reported>>

\* endpoint->closeAndAwaitTermination(): the listeners have returned.
Close ==
    /\ stage = "closing"
    /\ \A l \in Listener : callback[l].phase = "idle"
    /\ stage' = "closed"
    /\ UNCHANGED <<clock, flags, seen, counters, callback, mutex,
                   sourceTimeObserved, pending, activity, expiring, expireAll,
                   reported, final>>

\* The wall clock advances, also while the mutex is held.
Tick ==
    /\ now < MaxTime
    /\ stage # "closed"
    /\ now' = now + 1
    /\ UNCHANGED <<flags, seen, counters, main, callback, arrivals, mutex,
                   sourceTimeObserved, pending, activity>>

\* The process has exited.
Exited ==
    /\ stage = "closed"
    /\ UNCHANGED vars

-----------------------------------------------------------------------------

Init ==
    /\ now = 1
    /\ callback = [l \in Listener |-> Idle]
    /\ arrivals = 0
    /\ allowConflation \in BOOLEAN
    /\ mutex = "free"
    /\ measuring = FALSE
    /\ acceptingNewBatches = FALSE
    /\ sourceTimeMeasuring = FALSE
    /\ sourceTimeObserved = 0
    /\ preMeasurementSequences = {}
    /\ profileSymbolsReceived = {}
    /\ pending = EmptyPending
    /\ activity = 0
    /\ window = Zero
    /\ total = Zero
    /\ stage = "warmup"
    /\ expiring = {}
    /\ expireAll = FALSE
    /\ reported = Zero
    /\ final = <<>>

Listen(l) ==
    \/ Receive(l)
    \/ HandleWarmup(l)
    \/ HandleMeasured(l)
    \/ HandleEvent(l)
    \/ LeaveCallback(l)

Main ==
    \/ BeginMeasurement
    \/ EndMeasurement
    \/ TakeWindow(FALSE)
    \/ TakeWindow(TRUE)
    \/ ExpireBatch
    \/ ReturnWindow
    \/ TakeTotals
    \/ Close

Next ==
    \/ \E l \in Listener : Listen(l)
    \/ Main
    \/ Tick
    \/ Exited

Spec == Init /\ [][Next]_vars

-----------------------------------------------------------------------------
(* Properties.                                                             *)

Stages == {"warmup", "measuring", "ended", "reporting", "closing", "closed"}

\* Publications whose marker has arrived and that are not finished yet.
Marked == { s \in DOMAIN pending : pending[s].timestamp # NoTime }

\* TypeOK: every counter of the Collector stays a natural number (the code's
\* size_t differences never wrap) and pending_ maps sequences to batches.
TypeOK ==
    /\ now \in Int
    /\ callback \in [Listener -> [phase : {"idle", "observed", "handling"},
                                  observed : Int, events : Seq(Event)]]
    /\ arrivals \in Nat
    /\ allowConflation \in BOOLEAN
    /\ mutex \in Listener \cup {"free", "main"}
    /\ measuring \in BOOLEAN
    /\ acceptingNewBatches \in BOOLEAN
    /\ sourceTimeMeasuring \in BOOLEAN
    /\ sourceTimeObserved \in Nat
    /\ preMeasurementSequences \subseteq Int
    /\ profileSymbolsReceived \subseteq Symbol
    /\ DOMAIN pending \subseteq Int
    /\ IsFiniteSet(DOMAIN pending)
    /\ pending \in [DOMAIN pending -> PendingBatch]
    /\ activity \in Nat
    /\ window \in Counters
    /\ total \in Counters
    /\ stage \in Stages
    /\ expiring \subseteq DOMAIN pending
    /\ expireAll \in BOOLEAN
    /\ reported \in Counters
    /\ final \in Seq(Counters)

\* DeliveryConservation: at every moment, for every kind, what the markers
\* announced plus what came in excess is what was delivered, what is in
\* deficit and what unfinished publications still expect.  No order of marker,
\* events, expiry and window changes it (published in handle, the rest in
\* finish).
DeliveryConservation ==
    \A k \in Kind :
        total.published[k] + total.excess[k] =
            total.delivered[k] + total.listenerDeficit[k]
              + Expected[k] * Cardinality(Marked)

\* PublicationsClassified: each publication whose marker was accepted is
\* pending or has exactly one of the outcomes full, partial, empty.
PublicationsClassified ==
    \A k \in Kind :
        total.published[k] =
            Expected[k] * (total.full + total.partial + total.empty
                             + Cardinality(Marked))

Exact(c) ==
    /\ c.partial = 0 /\ c.empty = 0 /\ c.uncorrelated = 0
    /\ c.listenerDeficit = NoneOfKind /\ c.excess = NoneOfKind

\* FinalExact: for STREAM_FEED one number tells it all.  If the final totals
\* miss no batch, every publication was delivered in full and exactly once
\* per event, whatever arrived, in which order, and whatever expired.
FinalExact ==
    final # <<>> /\ ~allowConflation /\ final[1].missing = 0 =>
        /\ Exact(final[1])
        /\ \A k \in Kind :
             /\ final[1].published[k] = Expected[k] * final[1].full
             /\ final[1].delivered[k] = final[1].published[k]

SumKinds(f) == f["QUOTE"] + f["TRADE"] + f["TRADE_ETH"] + f["SUMMARY"]

Received == [s \in DOMAIN pending |-> pending[s].received]

\* SampleConservation: every event of a correlated publication, and every
\* finished publication that received one, yields exactly one latency sample
\* or one clock anomaly; nothing is emitted twice and nothing gets lost
\* between the retained events of a batch and emitEvents.
SampleConservation ==
    SumKinds(Expected) > 0 =>
        SumKinds(total.delivered) + SumFunctionOnSet(Received, Marked)
          + total.full + total.partial
        = SumKinds(total.events) + total.batches + total.negative

\* WarmupExcluded: a publication any part of which was seen before the
\* measurement never becomes a batch (preMeasurementSequences_ against the
\* separate market and control subscriptions).
WarmupExcluded ==
    DOMAIN pending \cap preMeasurementSequences = {}

\* NoCompleteBatchPending: a publication with its marker and its expected
\* composition is finished in the callback that completes it, whichever of
\* marker and events comes last.
NoCompleteBatchPending ==
    \A s \in Marked : ~HasExpectedComposition(pending[s])

\* The counters that describe delivery and latency, without the callback
\* statistics, which go on while the client shuts down.
Delivery(c) == [c EXCEPT !.callbacks = 0, !.callbackSizes = 0]

\* RowsAddUp: the window rows handed to the Reporter and the current window
\* add up to the whole-run totals.  It holds to the end for STREAM_FEED,
\* although the last window may be withheld; for FEED it holds until then.
RowsAddUp ==
    ~allowConflation \/ stage \in {"warmup", "measuring", "ended"}
      => Delivery(Add(reported, window)) = Delivery(total)

\* DeliveryFrozen: once the last window is taken, no late callback changes
\* the delivery totals that reporter.final is about to write.
DeliveryFrozen ==
    [][(stage \in {"reporting", "closing"})
         => Delivery(total)' = Delivery(total)]_vars

\* ExpiredIncompleteNotSampled: client.cpp:742 says expired incomplete
\* batches are diagnostics, not latency samples.
ExpiredIncompleteNotSampled == total.batches <= total.full
=============================================================================
