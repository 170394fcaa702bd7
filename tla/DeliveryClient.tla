---------------------------- MODULE DeliveryClient ----------------------------
(***************************************************************************)
(* The delivery-only comparison clients: dxFeed Graal C++ API               *)
(* (src/graal_delivery_client.cpp) and legacy C API (src/legacy_client.cpp). *)
(* Listener threads count events in independent relaxed atomics; the main   *)
(* thread loads the counters one by one at both ends of the measurement and *)
(* writes their differences as one row.                                     *)
(*                                                                         *)
(* A callback is a program: the atomic operations it has still to do, in    *)
(* the order of the code.                                                   *)
(***************************************************************************)
EXTENDS Integers, Sequences, FiniteSetsExt, Functions

CONSTANTS
    Client,        \* the programs modelled, of {"graal", "legacy"}
    Thread,        \* threads the library calls listeners from
    Kinds,         \* recurring event kinds, in the order they are counted in
    MarketBatch,   \* what one Graal market callback delivers: [Kind -> Nat]
    DataCount,     \* data_count of a legacy callback, size of Profile batches
    SymbolCount,   \* pattern->symbolCount()
    RequireEvents, \* --require-events
    MaxCallbacks   \* bound: callbacks delivered in one behaviour

Kind == {Kinds[i] : i \in DOMAIN Kinds}
Counter == {"callbacks", "recurring", "profiles"} \cup Kind

ASSUME DeliveryClientAssumption ==
    /\ Client \subseteq {"graal", "legacy"}
    /\ IsFiniteSet(Thread)
    /\ Kinds \in Seq({"QUOTE", "TRADE", "TRADE_ETH", "SUMMARY"})
    /\ MarketBatch \subseteq [Kind -> Nat]
    /\ DataCount \subseteq Int
    /\ SymbolCount \in Nat
    /\ RequireEvents \in BOOLEAN
    /\ MaxCallbacks \in Nat

VARIABLES
    client,         \* which of the two programs runs
    interrupted,    \* set by the signal handler
    terminated,     \* CallbackState::terminated
    counter,        \* the counters of CallbackState
    maximum,        \* CallbackState::maximumBatch
    thread,         \* per thread: the callback in progress
    arrivals,       \* callbacks begun (bound)
    stage,          \* main()
    timeUp,         \* the deadline of the current wait has passed
    reading,        \* counters snapshot() has still to load
    before,         \* the first snapshot
    measured,       \* the second snapshot minus the first
    row,            \* <<>> or <<the row of the delivery CSV>>
    result,         \* exit code, or Running
    raised,         \* history: batch sizes offered to maximumBatch
    whole,          \* history: counts of callbacks inside the measurement
    touched,        \* history: counts of callbacks that overlap it
    cut             \* history: the measurement ended before its deadline

flags == <<interrupted, terminated>>
listeners == <<counter, maximum, thread, arrivals, raised, whole>>
snapshots == <<reading, before, measured>>
outcome == <<row, result>>
vars == <<client, flags, listeners, snapshots, outcome, stage, timeUp,
          touched, cut>>

Running == -1
NoValue == -1
NoCounts == [c \in Counter |-> 0]
AddCounts(f, g) == [c \in Counter |-> f[c] + g[c]]

-----------------------------------------------------------------------------
(* The programs of the callbacks.                                          *)

Add(c, n) == [op |-> "add", counter |-> c, n |-> n]
Raise(n) == [op |-> "raise", counter |-> "callbacks", n |-> n]

\* What a program adds to each counter.
Amount(step, c) == IF step.op = "add" /\ step.counter = c THEN step.n ELSE 0

Effect(program) ==
    [c \in Counter |->
        SumFunction([i \in DOMAIN program |-> Amount(program[i], c)])]

AddKinds(batch) == [i \in DOMAIN Kinds |-> Add(Kinds[i], batch[Kinds[i]])]

\* handleMarketEvents: the batch as a whole, its size, then its kinds.
HandleMarketEvents(batch) ==
    LET size == SumFunctionOnSet(batch, Kind)
    IN  <<Add("callbacks", 1), Add("recurring", size), Raise(size)>>
            \o AddKinds(batch)

\* The Profile listener of the Graal client: no callback, no maximum.
HandleProfiles(size) == <<Add("profiles", size)>>

\* onEvents of the legacy client: one type per callback, Profiles included in
\* callbacks and maximum; a negative data_count counts as none.
OnEvents(type, dataCount) ==
    LET count == IF dataCount > 0 THEN dataCount ELSE 0
        counted == IF type = "PROFILE" THEN <<Add("profiles", count)>>
                   ELSE <<Add("recurring", count), Add(type, count)>>
    IN  <<Add("callbacks", 1), Raise(dataCount)>> \o counted

GraalProgram ==
    {HandleMarketEvents(b) : b \in MarketBatch}
      \cup {HandleProfiles(n) : n \in DataCount \cap (Nat \ {0})}

LegacyProgram == {OnEvents(k, n) : k \in Kind \cup {"PROFILE"}, n \in DataCount}

-----------------------------------------------------------------------------
(* Listener threads: one atomic operation per step.                        *)

Idle == [left |-> <<>>, seen |-> NoValue, effect |-> NoCounts, inside |-> FALSE]

InFlight == {t \in Thread : thread[t].left # <<>>}

\* From before its first counter is read to after its last one is read, every
\* callback in progress overlaps the measurement.
Touching == stage \in {"before", "measuring", "after"}

\* A listener is called.  The subscriptions exist until the client returns.
EnterCallback(t) ==
    /\ stage \notin {"starting", "returned"}
    /\ t \notin InFlight
    /\ arrivals < MaxCallbacks
    /\ arrivals' = arrivals + 1
    /\ \E program \in IF client = "graal" THEN GraalProgram ELSE LegacyProgram :
         /\ thread' = [thread EXCEPT ![t] =
                [left |-> program, seen |-> NoValue, effect |-> Effect(program),
                 inside |-> stage = "measuring"]]
         /\ touched' = IF Touching THEN AddCounts(touched, Effect(program))
                       ELSE touched
    /\ UNCHANGED <<client, flags, counter, maximum, raised, whole, snapshots,
                   outcome, stage, timeUp, cut>>

\* The step of thread t is done; the last one ends the callback.
Advance(t) ==
    LET last == Len(thread[t].left) = 1
        rest == Tail(thread[t].left)
    IN  /\ thread' = [thread EXCEPT ![t] =
               IF last THEN Idle
               ELSE [thread[t] EXCEPT !.left = rest, !.seen = NoValue]]
        /\ whole' = IF last /\ thread[t].inside /\ stage = "measuring"
                    THEN AddCounts(whole, thread[t].effect) ELSE whole

FetchAdd(t) ==
    /\ t \in InFlight
    /\ LET step == Head(thread[t].left)
       IN  /\ step.op = "add"
           /\ counter' = [counter EXCEPT ![step.counter] = @ + step.n]
    /\ Advance(t)
    /\ UNCHANGED <<client, flags, maximum, arrivals, raised, snapshots, outcome,
                   stage, timeUp, touched, cut>>

\* current has a new value: done if it is large enough, else try (again).
Compare(t, value, n) ==
    IF value >= n
    THEN /\ Advance(t)
         /\ raised' = raised \cup {n}
    ELSE /\ thread' = [thread EXCEPT ![t].seen = value]
         /\ UNCHANGED <<raised, whole>>

\* Fault: the maximum is stored instead of exchanged.
StoreMaximum(t) ==
    /\ t \in InFlight
    /\ LET n == Head(thread[t].left).n
       IN  /\ Head(thread[t].left).op = "raise"
           /\ thread[t].seen # NoValue
           /\ maximum' = n
           /\ raised' = raised \cup {n}
           /\ Advance(t)
    /\ UNCHANGED <<client, flags, counter, arrivals, snapshots, outcome, stage,
                   timeUp, touched, cut>>

\* updateMaximum: the load before the loop.
LoadMaximum(t) ==
    /\ t \in InFlight
    /\ Head(thread[t].left).op = "raise"
    /\ thread[t].seen = NoValue
    /\ Compare(t, maximum, Head(thread[t].left).n)
    /\ UNCHANGED <<client, flags, counter, maximum, arrivals, snapshots,
                   outcome, stage, timeUp, touched, cut>>

\* updateMaximum: the weak exchange succeeds, or reloads and may try again.
ExchangeMaximum(t) ==
    /\ t \in InFlight
    /\ LET n == Head(thread[t].left).n
       IN  /\ Head(thread[t].left).op = "raise"
           /\ thread[t].seen # NoValue
           /\ \/ /\ thread[t].seen = maximum
                 /\ maximum' = n
                 /\ raised' = raised \cup {n}
                 /\ Advance(t)
              \/ /\ Compare(t, maximum, n)
                 /\ UNCHANGED maximum
    /\ UNCHANGED <<client, flags, counter, arrivals, snapshots, outcome, stage,
                   timeUp, touched, cut>>

-----------------------------------------------------------------------------
(* Signals and the connection.                                             *)

OnSignal ==
    /\ ~interrupted
    /\ stage # "returned"
    /\ interrupted' = TRUE
    /\ UNCHANGED <<client, terminated, listeners, snapshots, outcome, stage,
                   timeUp, touched, cut>>

\* The C API calls back on a thread of its own; the Graal client has no such
\* listener.
OnConnectionTerminated ==
    /\ client = "legacy"
    /\ stage # "returned"
    /\ ~terminated
    /\ terminated' = TRUE
    /\ UNCHANGED <<client, interrupted, listeners, snapshots, outcome, stage,
                   timeUp, touched, cut>>

-----------------------------------------------------------------------------
(* The main thread.                                                        *)

\* What ends a wait before its time: terminated stays FALSE in the Graal one.
Stopped == interrupted \/ terminated

Goto(s) == stage' = s /\ timeUp' = FALSE

Return(code) == result' = code /\ Goto("returned")

\* The deadline of the startup, of the warm-up or of the measurement passes.
Deadline ==
    /\ stage \in {"startup", "warmup", "measuring"}
    /\ ~timeUp
    /\ timeUp' = TRUE
    /\ UNCHANGED <<client, flags, listeners, snapshots, outcome, stage,
                   touched, cut>>

\* The setup succeeds, or one of its calls throws, which ends the client.
Starts ==
    /\ \/ Goto("startup") /\ UNCHANGED result
       \/ Return(1)
    /\ UNCHANGED <<client, flags, listeners, snapshots, row, touched, cut>>

\* main() up to connect(): monitoring, subscriptions, listeners, symbols.
ConnectGraal == stage = "starting" /\ client = "graal" /\ Starts

\* Session::start: checkApi throws for a call that does not succeed.
StartSession == stage = "starting" /\ client = "legacy" /\ Starts

Ready == counter["profiles"] >= SymbolCount /\ counter["recurring"] > 0

\* Fault: the startup is awaited without a deadline.
StartupUntilReady ==
    /\ stage = "startup"
    /\ \/ Stopped /\ Return(1)
       \/ ~Stopped /\ Ready /\ Goto("warmup") /\ UNCHANGED result
    /\ UNCHANGED <<client, flags, listeners, snapshots, row, touched, cut>>

\* waitForStartup: what ends the wait comes before what it waits for, so data
\* of the last sleep is too late, and a signal is a startup timeout.
WaitForStartup ==
    /\ stage = "startup"
    /\ \/ (Stopped \/ timeUp) /\ Return(1)
       \/ ~Stopped /\ ~timeUp /\ Ready /\ Goto("warmup") /\ UNCHANGED result
    /\ UNCHANGED <<client, flags, listeners, snapshots, row, touched, cut>>

\* The order of the loads in snapshot().
SnapshotOrder == <<"callbacks", "recurring">> \o Kinds \o <<"profiles">>

\* observe(config.warmup), then the first snapshot begins.
ObserveWarmup ==
    /\ stage = "warmup"
    /\ Stopped \/ timeUp
    /\ Goto("before")
    /\ reading' = SnapshotOrder
    /\ touched' = [c \in Counter |->
           SumFunction([t \in Thread |-> thread[t].effect[c]])]
    /\ UNCHANGED <<client, flags, listeners, before, measured, outcome, cut>>

\* Fault: the second snapshot is written without subtracting the first.
SubtractNothing(c) == counter[c]

\* operator-: the counters never shrink, so nothing wraps.
Subtract(c) == counter[c] - before[c]

\* snapshot() before the measurement, one load.
LoadBefore ==
    /\ stage = "before"
    /\ reading' = Tail(reading)
    /\ before' = [before EXCEPT ![Head(reading)] = counter[Head(reading)]]
    /\ IF reading' = <<>> THEN Goto("measuring") ELSE UNCHANGED <<stage, timeUp>>
    /\ UNCHANGED <<client, flags, listeners, measured, outcome, touched, cut>>

\* observe(config.duration, &resources), then the second snapshot begins.
ObserveMeasurement ==
    /\ stage = "measuring"
    /\ Stopped \/ timeUp
    /\ cut' = ~timeUp
    /\ Goto("after")
    /\ reading' = SnapshotOrder
    /\ UNCHANGED <<client, flags, listeners, before, measured, outcome, touched>>

\* snapshot() after the measurement, one load and its difference.
LoadAfter ==
    /\ stage = "after"
    /\ reading' = Tail(reading)
    /\ measured' = [measured EXCEPT ![Head(reading)] = Subtract(Head(reading))]
    /\ IF reading' = <<>> THEN Goto("writing") ELSE UNCHANGED <<stage, timeUp>>
    /\ UNCHANGED <<client, flags, listeners, before, outcome, touched, cut>>

\* writeDelivery, with the maximum of the whole run; or the file cannot be
\* opened.
WriteDelivery ==
    /\ stage = "writing"
    /\ \/ /\ row' = <<[counts |-> measured, maximum |-> maximum]>>
          /\ Goto("closing")
          /\ UNCHANGED result
       \/ Return(1) /\ UNCHANGED row
    /\ UNCHANGED <<client, flags, listeners, snapshots, touched, cut>>

\* Fault: a terminated connection is no failure.
ExitCodeIgnoringTermination ==
    IF interrupted THEN 130
    ELSE IF RequireEvents /\ measured["recurring"] = 0 THEN 1
    ELSE 0

\* The end of main().
ExitCode ==
    IF interrupted THEN 130
    ELSE IF terminated THEN 1
    ELSE IF RequireEvents /\ measured["recurring"] = 0 THEN 1
    ELSE 0

Finish ==
    /\ stage = "closing"
    /\ Return(ExitCode)
    /\ UNCHANGED <<client, flags, listeners, snapshots, row, touched, cut>>

-----------------------------------------------------------------------------
Init ==
    /\ client \in Client
    /\ interrupted = FALSE
    /\ terminated = FALSE
    /\ counter = NoCounts
    /\ maximum = 0
    /\ thread = [t \in Thread |-> Idle]
    /\ arrivals = 0
    /\ stage = "starting"
    /\ timeUp = FALSE
    /\ reading = <<>>
    /\ before = NoCounts
    /\ measured = NoCounts
    /\ row = <<>>
    /\ result = Running
    /\ raised = {}
    /\ whole = NoCounts
    /\ touched = NoCounts
    /\ cut = FALSE

Listen ==
    \E t \in Thread :
        EnterCallback(t) \/ FetchAdd(t) \/ LoadMaximum(t) \/ ExchangeMaximum(t)

Main ==
    \/ ConnectGraal \/ StartSession \/ WaitForStartup \/ ObserveWarmup
    \/ LoadBefore \/ ObserveMeasurement \/ LoadAfter \/ WriteDelivery \/ Finish

\* The process is over; its threads end with it.
Ended == stage = "returned" /\ UNCHANGED vars

Next ==
    \/ Listen \/ OnSignal \/ OnConnectionTerminated \/ Deadline \/ Main \/ Ended

Spec == Init /\ [][Next]_vars

\* The main thread runs and time passes; the feed owes nothing.
FairSpec == Spec /\ WF_vars(Main) /\ WF_vars(Deadline)

-----------------------------------------------------------------------------
(* Properties.                                                             *)

\* However listener threads race in updateMaximum, the maximum is the largest
\* batch offered so far: no raise is lost and none goes back.
MaximumIsLargest == maximum = Max(raised \cup {0})

\* The "consistent-enough" snapshot: although the counters are read one by one
\* while listeners go on, every difference counts each callback inside the
\* measurement and nothing of a callback that does not overlap it.
RowCountsMeasurement ==
    stage \in {"writing", "closing"} =>
        \A c \in Counter : measured[c] \in whole[c] .. touched[c]

\* Exit code 0 means a row over the whole duration, with events where they are
\* required: what cut the measurement short is still visible at the end.
ZeroMeansMeasured ==
    result = 0 => /\ row # <<>>
                  /\ ~cut
                  /\ RequireEvents => row[1].counts["recurring"] > 0

\* Whatever the feed does, the client ends.
ClientEnds == <>(stage = "returned")
=============================================================================
