# Verification of the dxFeed C++ latency benchmark

This directory holds TLA+ models of the latency benchmark in `src/` (a server
that publishes synthetic market data, clients that measure how late it
arrives, a runner that drives whole suites and an analyzer that compares their
results), the TLC configurations that check the models on small instances and
TLAPS proofs of the properties that hold for every instance.

## 1. The system

| Part | Source | State it keeps | Operations |
|---|---|---|---|
| Core | `src/src/core.cpp` | none, except the maxima of the source-time comparison | task parsing, batch counts, percentiles and statistics, `SourceTimeMethodComparison` |
| Collector | `client.cpp:295-837` | batches awaiting their marker or events, window and run counters, warm-up sequences, Profile symbols | listener callbacks, `beginMeasurement`, `takeWindow`, `endMeasurement`, `totals`, `waitForProfiles` |
| TimeSeriesTracker | `client.cpp:840-1056` | per symbol snapshot transaction and indices, counters | `beginSnapshot`, `handle`, `waitForSnapshot`, `beginMeasurement`, `endMeasurement`, `writeReport` |
| Client main | `client.cpp:1461-1831` | phase of the session, deadlines | subscribe, wait for Profiles, prefill and snapshot, warm-up, windows or overlap phases, drain, report |
| Reporter | `client.cpp:1059-1446` | open CSV streams | window rows, final table |
| Generator | `server.cpp:137-829` | command queue, subscribed symbols, active and pending task, tick schedule, TimeAndSale history | commands from subscription observers, worker thread, publication |
| Server main | `server.cpp:942-1048` | observers, listeners | wiring, `--task`, shutdown |
| Delivery clients | `graal_delivery_client.cpp`, `legacy_client.cpp` | atomic callback counters | callbacks, snapshots, observation window |
| Runner | `runner.cpp`, `runner_main.cpp` | child processes, manifest, per-run status | plan, suite execution, partial results, analyzer hand-over |
| Monitoring analysis | `monitoring.cpp`, `analyzer.cpp` | parsed logs and CSVs | reading, windowing, comparison, report |
| Resources | `resources.cpp` | last CPU times | sampling |

How they interact.  A client subscribes to market symbols, to the initial
Profiles, to a control `TextMessage` symbol that names the task and to a marker
symbol; the server's subscription observers turn these into commands for the
generator's worker thread, which starts the task once every symbol is
subscribed.  Each tick publishes the market events of one publication followed
by one marker that carries the publication time; all of them carry the tick's
sequence.  Market and control subscriptions are independent, so marker and
events may arrive in any order, and with the FEED role a later ticker state
replaces an earlier one.  The collector joins them by sequence.  Removing the
control symbol stops the task.  The runner starts server and client processes
run by run and finally the analyzer on the result directory.

Hard behaviours: two channels that are not ordered with respect to each other;
listener threads, the main thread and signals sharing the collector; the
boundary between warm-up and measurement, and between the last window, the end
of the measurement and the final report; expiry racing late events; sequence
wrap-around; commands that overtake ticks, a worker that must not miss a
wake-up, overdue ticks, restarts of a task; a bounded history that feeds
snapshots; child processes that must not outlive an interrupt.

### What makes each part correct

- **Collector.** Every event a marker announces is delivered, missing or still
  pending, exactly once, in whatever order the two channels bring it; nothing
  of the warm-up enters the measurement; a batch that is complete is closed;
  the reported rows add up to the totals.
- **TimeSeriesTracker and history.** Snapshot and live part of a symbol meet
  without hole, overlap or event before its snapshot; a snapshot that claims to
  be complete has every record since the requested time; every request is
  answered.
- **Session.** Rows tile the measurement, phases are where the snapshot was,
  exit code 0 stands for a whole measurement, the program ends.
- **Generator.** No command sleeps in the queue, at most one task runs, a task
  whose subscriptions are complete does run, publications stay on the grid of
  the period and never burst, batches are numbered without gap, stops are
  obeyed and the destructor ends.
- **Delivery clients.** The maximum loses no update; a row contains what
  happened between the two snapshots; exit code as for the session.
- **Runner.** No process outlives its run; signals go to its own children; the
  manifest, the files, the analyzer's input and the exit code tell one story.
- **Core and monitoring.** A task survives its text unchanged; the samples of
  the three source-time methods are nested, so that their rows compare; the
  analyzer counts what happened within the measurement, and only that.
- **The whole run.** In a run that nothing disturbs the client's totals are the
  truth about the server; a run that the analyzer accepts has delivered and
  sampled every publication it heard of.

## 2. The models

| Module | Models | Depends on |
|---|---|---|
| `Collector` | the class `Collector` of `client.cpp` with its listeners and the calls of `main()` | |
| `Pipeline` | a benchmark run: the server's publications, the two QD channels, the client, the verdict on its totals | extends `Collector`, instantiates `Monitoring` |
| `Monitoring` | functions of the analyzer: `readMeasurement`, `readMonitoringLog`, `readLatencyTotals` | |
| `SourceTimeMethods` | `SourceTimeMethodComparison` of `core.cpp`, as functions on a record | |
| `Analysis` | a run as the analyzer sees it: window rows, monitoring log, source-time samples | extends `SourceTimeMethods` and `Monitoring` |
| `TaskText` | `TaskConfig::parse`, `toString` and the texts of a task | used by `RunnerMC` |
| `TimeSeries` | `TimeSeriesTracker` and the server's TimeAndSale history with the feed between them | |
| `Session` | `main()` of `client.cpp` | Collector and TimeSeries as events |
| `Generator` | the class `Generator` of `server.cpp`, its observers and its destructor | |
| `TaskLifecycle` | abstract specification of the generator: which task the clients see | refined by `Generator` |
| `DeliveryClient` | `graal_delivery_client.cpp` and `legacy_client.cpp` | |
| `BenchmarkPlan` | `buildBenchmarkPlan` | |
| `Runner` | `ChildProcess`, `runAndWait`, `makePartial` and `runBenchmarkSuite` of `runner.cpp` | extends `BenchmarkPlan` |
| `...MC` | the instances that TLC checks | extends the module |
| `Sums` | lemmas on sums over finite sets, and induction over such sets | used by proofs |
| `...Proofs` | the proofs | extends the module and, where it counts, `Sums` |

Definitions keep the names of the source. An operator whose comment begins with
*Fault* is not part of a specification: it is a plausible mistake in the
definition below it, and `PROJECT.json` names the property that detects it.

**Collector.** The mutex is a variable because a callback handles its events
one by one and main() takes a window batch by batch; inside the lock the steps
cannot be interrupted by other lock holders, but the source-time comparison and
the clock are outside of it. A listener thread is a callback with the events it
has left. `Receive`, `HandleWarmup` or `HandleMeasured`, `HandleEvent` and
`LeaveCallback` are `Collector::handle`; `BeginMeasurement`, `TakeWindow`/`ExpireBatch`/
`ReturnWindow`, `EndMeasurement` and `TakeTotals` the calls of main(). A
latency is reduced to whether a sample is taken and of which kind.

**Pipeline.** A behaviour is one benchmark run. `Publish` is `publish()` of the
server: the pools of the tick in their shuffled order, then the marker with the
server's clock, which may lead the client's by `skew`. The market channel and
the control channel are queues that are ordered each but not against one
another; for FEED a market event replaces the queued one of the same record and
symbol (`Conflate`). `Lose` and `Repeat` are the faults of QD. `Deliver` is
`Collector!Receive` with the head of a queue, and all the client does are
actions of `Collector` in the order of main(): `Begin` waits for every Profile,
`RemoveTask` ends the measurement, `EndDrain` may see quiet channels or run into
its deadline. Four history variables remember what the client cannot know:
which events FEED superseded, which publications were heard of, and whether
anything disturbed the run. The properties compare the totals with them, and
`Passed` applies the analyzer's integrity test to the totals.

**Analysis.** `Observe` and `Reset` are the operations of the source-time
comparison, on a record that its owner keeps under a mutex. The monitoring log
has a timer of its own: `Record` writes what was dropped since the last record,
on time or up to `MaxLate` later. `Begin`, `Window` and `End` write the rows of
the client, and `Analyze` reads both files back: the measurement lasts from the
first event row to the last, and a record belongs to it if the interval it
covers does.

**TaskText.** A text is a sequence of tokens: event kinds, numbers, separators
and units. `Parse` and `ToText` are `parseTask` and `toString` with the checks on
counts, order of sections and overflow; `TaskTextRoundTrip` in `RunnerMC` checks
them on small texts around the limits of the two integer types, and
`EveryTextRoundTrips` proves it of every text. (`toString` is called by tests
only; the programs pass on the text they were given.)

**TimeSeries.** A record is named by the publication it belongs to. The server
side retains a bounded history per symbol and answers a request with a snapshot
(`Snapshot`, with END or SNIP); the wire keeps the order of each symbol and
splits it into callbacks anywhere; the client side is
`TimeSeriesTracker::handle` event by event. In the delayed mode the measurement
begins before the request.

**Session.** Time is an integer read by every wait. main() sleeps between its
looks at the clock, so `Clock` may run up to `MaxLate` past the instant a wait
is for: that is the oversleeping. A read of the clock that is followed by
another read (loop condition and phase) is two steps. What the collector counts
does not steer main() except in the drain, where it decides when the drain ends
and whether the last row is written: both are nondeterministic.

**Generator.** `due` is the distance to the next deadline, negative when it has
passed. Observers enqueue and notify in two steps (`Enqueue...`, `Notify`), the
worker's wait releases and takes the mutex (`Wake`, `SpuriousWake`, `TimeOut`),
publishing is outside the lock (`PublishBegin`, `PublishEnd`). `wire` is the
last message, with its task and sequence.

**DeliveryClient.** A callback is a program of atomic operations; a step is
one. The compare-and-exchange loop is a load and an exchange that fails if the
value moved. main() loads the counters one by one.

**Runner.** A child is alive, a zombie or reaped, it may exit by itself, crash,
hang and ignore SIGTERM. `terminate()` is a sequence of polls; the number of
polls is a constant. Files are reduced to what kind of result a run left and
under which name.

## 3. The runs

Seven runs pass and five show a disagreement between the code and what it says
of itself.

| Run | Instance | Distinct states | Shows |
|---|---|---|---|
| `pipeline` | both roles, a Quote and a Trade per publication, 2 publications, 1 fault, 4 callbacks, clock to 2 and a lead of 1 | 1,301,207 | accounting, warm-up boundary, rows and totals; a clean run is exact; a run that passes is exact |
| `analysis` | two series, 3 Trades, period 2, a timer up to 1 late, 2 drops, clock to 9 | 2,659,361 | nesting of the source-time methods; which drops the report counts |
| `generator` | two tasks and a text that is none, period 2, spin 1, queue of 2, 3 late | about 440,000 | all generator properties, liveness included, and the refinement of `TaskLifecycle` |
| `timeseries` | two symbols, history of 2, 3 publications, both modes | about 1.0 million | cutover, completeness, answers |
| `runner_suite` | two runs of different clients, 2 polls | about 35,000 | processes, manifest, analysis, exit code, end after a signal; round trip of the task text |
| `delivery` | both clients, two threads, two kinds, 3 callbacks | about 1.4 million | maximum, row, exit code, end |
| `session` | three modes, duration 5, window 2, up to 2 late | about 0.9 million | rows, phases, exit code, end |

The bounds are the smallest in which the interesting cases occur:

- Pipeline: two kinds make a publication that can be partial; two publications
  make one that straddles the boundary of the warm-up and one that does not, or
  two that FEED conflates; a lead of one tick makes a clock anomaly;
  `BatchTimeout` 0 lets a publication expire while its events are still to
  come; four callbacks are the Profiles and three for market events and
  markers, which may bring one publication or two, split or joined. `Callbacks`
  is every list such a run can deliver, so the bound is on their number only.
- The instance is reduced by `Reduced` in `PipelineMC`, as an action
  constraint. Each part drops behaviours that differ from a remaining one in
  the order of steps that commute (`Serial`: a critical section of the
  Collector reads nothing the others write; `ProfilesFirst`: main() waits for
  the Profiles before it does anything), that cannot matter any more
  (`EndIsQuiet`: after `endMeasurement` new publications are refused, and after
  the last window nothing counts, which is proved), or that combine
  disturbances (`OneDisturbance`: a leading clock, FEED or one fault;
  `OneWindow`: one window row with something in it before the last). The last
  two restrict the instance; the theorems below do not.
- Analysis: three records fit into a measurement with one on either side; two
  drops can be on both sides of a boundary; three Trades of two series and two
  source times can rise, repeat and fall in each and across them. Trades and
  drops share no state, so a behaviour has one or the other; one with Trades has
  at most one record of the log, so that the clock runs far enough for latencies
  which are not clamped to zero.
- TimeSeries: a history of 2 with 3 publications is truncated or not depending
  on the order; two symbols make the completion of one differ from that of all.
- Generator: period 2 with a lateness of 3 skips one deadline, and can be late
  by less than a period; three sequences wrap within the run; a queue of 2
  holds a STOP behind a START while the worker is busy.
- DeliveryClient: three callbacks on two threads are one before, one during and
  one across an end of the measurement, or two that race for the maximum with a
  third in between.
- Session: windows do not divide the duration; main() may oversleep a whole
  window; the delayed snapshot may complete before or after its deadline and
  before or after the end.
- Runner: two runs distinguish "this run" from "an earlier one"; two polls
  distinguish the last from the others. The rotation is checked to five
  profiles and repetitions and proved for all.

### Disagreements

| Run | Property | What happens |
|---|---|---|
| `collector_expiry` | `ExpiredIncompleteNotSampled` | a publication that expires incomplete adds a whole-batch sample (`client.cpp:468`), against the comment at `client.cpp:742` |
| `generator_wrap` | `EventFieldsIdentifyBatch` | sequence 0 after the wrap makes Quotes the client refuses (`server.cpp:449`), against the comment at `server.cpp:469` |
| `runner_partial` | `PartialIgnored` | time-series files of a failed run are not renamed (`runner.cpp:562`) and the analyzer reads them |
| `runner_exit_code` | `ZeroMeansAnalyzed` | a signal between two reads of the flag (`runner.cpp:1260`, `1271`) skips the analysis and returns 0 |
| `session_delayed` | `DelayedSnapshotTaken` | a delayed subscription whose time falls into the last sleep is never made and the client returns 0 (`client.cpp:1736`) |

## 4. Fairness

- Generator: weak fairness of the worker, of a pending `notify_one` (the
  observer's thread is about to call it), of `Join` and of time. Threads that
  can run do run; clients and the signal that ends the server owe nothing.
  `StopObeyed` and `KeepsPublishing` therefore rest on the worker's own loop.
- TimeSeries: the server answers, the feed delivers, the client goes on.
  Publications owe nothing.
- Runner: the runner's thread and the exit of a process after SIGKILL, which
  the operating system guarantees. Children promise nothing, not even to end
  after SIGTERM.
- DeliveryClient and Session: the main thread and time. No event, Profile,
  snapshot or connection is promised, so that the ends rest on the timeouts.

## 5. The proofs

All theorems hold for every value of the constants that satisfies the named
assumption of the module: any number of kinds, symbols, tasks, threads,
profiles, repetitions, any durations and any bound. Bounds are constants, too,
so that nothing proved depends on their being small. A task has at
least one symbol, since the parser rejects an empty pattern, a quantity of zero
and a symbol count of zero (`core.cpp:257`, `core.cpp:290`, `core.cpp:354`).

- **`Sums`.** The models count with sums over sets whose size is not known:
  kinds, threads, pending batches, records. The library folds those sets with a
  recursion that a prover cannot expand. The module shows once that the recursion
  defines a function (`SumExists`), then that a sum can be taken in any order
  (`SumRemove`) and what follows: adding, changing, comparing, and that the parts
  of a partition add up (`SumOfFibres`). Its inductions are over the subsets of a
  finite set and are stated with a set in place of a predicate. The last part
  counts how often the elements of a set occur in a sequence (`Occ`), through
  concatenation, removal and replacement.
- **`PipelineProofs`** has six parts.
  - The Collector. The invariant is `IInv`: the conservation law, the exclusion
    of the warm-up, the absence of complete batches among the pending ones, and
    `StageInv`, which ties the flags to the stage and the lock. The conservation
    law of the run is not inductive alone: it counts marked pending batches,
    whose number changes when a batch is created, marked or finished, so each
    operation has a lemma on what it does to pending batches and counters
    (`EventEffect`, one per kind of event) and cardinality lemmas join them.
    `TotalsFrozen` is an action property: after the last window no late callback
    changes what the report says.
  - Samples. `SampleConservation` counts over all open publications, whose
    events have no samples yet. Its equation `SampleBalanced` is stated for one
    record of counters with a number of such events, and is additive, so that
    every emission is balanced by itself; that a batch knows how many events it
    retains (`AllWeighed`) makes the numbers meet.
  - The verdict. `missing` alone tells whether a STREAM_FEED run went wrong. A
    record of counts is `Sound` if it is exact when it misses no batch (`Honest`)
    and has a sample or a clock anomaly for each full publication (`Sampled`);
    sound records add up to sound ones (`SoundAdd`), so it suffices that each
    source of counts is sound, which for `finish` rests on a batch counting its
    events in total and by kind (`Counted`). `FinalTotalsExact` follows from
    `Sound` and the conservation law. `RowsMatchTotals` is `RowsAddUp` for every
    composition that has a recurring event. What needs an argument is the last
    window, which is withheld when it has no sample, anomaly or missing batch:
    the counters of a window are balanced against the publications that were
    open when it began (`BalancedSubtract`), nothing is open after
    `takeWindow(true)`, and so such a window has published and delivered nothing
    (`EmptyWindow`).
  - The run. `PipelineIsCollector`: each step of a benchmark run is a step of the
    Collector or none, so that the theorems about `Collector!Spec` hold for
    whole runs, whatever the publisher, the channels and the faults do
    (`RunKeepsAccounts`).
  - The truth about a clean run. `CleanRunsExact` is `CleanRunExact` for every
    task, order of pools, callback size and interleaving. Its invariant `CInv`
    speaks of a run that nothing has disturbed so far. `RunInv` types what the
    channels and callbacks hold. `CleanInv` follows each publication
    (`Accounted`): as long as it is not finished, each expected event is on its
    way (`Due`: in the channel or in a callback), received (`Got`) or
    superseded, and its marker is on its way (`Announced`) or was received;
    once it is finished nothing of it is left anywhere. So no batch is created
    again, none gets an event too many, and without conflation the last message
    of a publication completes it. The counters are exactly the finished
    publications and what FEED superseded of them (`Outcomes`, which is
    additive), and after a drain that did not give up nothing is on its way
    (`Quiet`), so that what is left expires short of exactly what was
    superseded. Underneath are lemmas on the data: that a publication enqueues
    each event once in whatever order of the pools (`MarketEventsAre`), and that
    FEED storage has one message per key, so that it never holds more of a kind
    than was enqueued (`ConflateAll`).
  - A run that passes. `PassedRunsExact` is `PassedRunExact` for any loss,
    expiry and interleaving, in two halves. `FinalSamples`: totals without a
    missing batch or clock anomaly have a sample for each delivered event and
    publication; that samples and deliveries agree in total follows from
    `SampleConservation`, that they agree kind by kind needs that no kind has
    more samples than deliveries (`Bounded`, `KindInv`), and that the last
    callbacks change nothing (`FinalInv`). `OncePerPublication`: as many
    publications were completed as the client heard of. The books (`Ledger`)
    say how often each publication was completed, and that each completion took
    a whole publication, its events and its marker, from what is on its way or
    received (`Load`); publishing enters one whole publication, each repeated
    message one message, and a loss only takes away. So two completions of a
    publication need as many repetitions as it has messages. The books of a
    STREAM_FEED run are in order as long as it misses no batch (`PInv`), which
    is the case the verdict asks for. The theorem assumes a composition with an
    event, without which there is no latency to sample, and fewer faults so far
    than a publication has messages. The last bound cannot be raised: with as
    many faults a publication can be repeated as a whole, marker included, and
    counts as two. TLC finds that run when `MaxFaults` is 2 and the
    composition one Quote.
- **`AnalysisProofs`.** `MethodsStayNested` for any number of series and any
  source times: `Nested` is inductive together with `Ordered` (no series is
  ahead of the feed, and no sample of the global method is newer than it).
  `DropsCounted` is `DroppedInMeasurement`. Times alone do not say which record
  counted a drop of the same instant, so the invariant `DropsOwned` states that
  some assignment of drops to records exists that explains every counter, with
  each drop between its record and the one before; the sum over a set of records
  is then the number of drops they own (`SumIsOwned`). That `Gap` bounds the
  distance of neighbouring instants (`GapCovers`) gives the rest.
- **`TimeSeriesProofs`.** The invariant `SeriesInv` says of every symbol that its
  records are ordered, that the history is their newest end, that nothing is
  sent before the answer, that what arrived or is on its way is a gapless part of
  the records (`Contiguous`), and that the wire splits into a rest of the
  snapshot and live events (`Split`): where the flags are (`SnapshotLeft`), that
  the snapshot goes down and all live events are newer (`Cutover`), and that a
  snapshot which will end in SNAPSHOT_END has all (`EndHasAll`). None of
  `NoHoles`, `ExactCutover` and `CompleteSnapshotHasAll` is inductive, since
  the decisive events are still on the wire; with it they are corollaries.
- **`DeliveryProofs`.** `NoRaiseLost`: a thread waiting to exchange has seen a
  smaller value than its own, so each exchange raises the maximum.
  `RowIsOfMeasurement` is `RowCountsMeasurement`, whose bounds are made of what
  callbacks in progress have added and have still to add: `Upper` and `Lower`
  relate both sums over the threads to the two loads of each counter, of which
  each counter has its own instant. `ZeroIsMeasured` needs only that what cut
  the measurement short is remembered.
- **`GeneratorProofs`.** `IInv` joins `NoLostWakeup`, `OneTaskAtATime` and
  `NoReadyTaskWaits`, which are not inductive without the facts that the worker
  publishes only when late (`PublishingIsLate`), that `due` and `elapsed` agree
  modulo the period (`OnGrid`), that a slot is used once (`SlotKept`) and that
  the message on the wire is of the active task (`WireFollowsTask`).
  `GeneratorImplementsLifecycle` proves that each step is a step of
  `TaskLifecycle` or a stutter.
- **`RunnerProofs`.** Arithmetic lemmas about division give `ProfilesOnce`,
  `RotationSpreads` and `PlanBalanced`. The invariant of the runner comes in
  four layers, each inductive relative to the ones before: types
  (`TypeIInv`), processes (`ProcessIInv`: what may exist at which point of the
  program), manifest (`ManifestIInv`: rows follow the plan, files have the name
  their row says), analysis and exit code (`AnalysisIInv`).
  The last part is the text of a task. Nothing there is recursive: where a
  section begins is the least element of a set of positions, and that this
  exists follows from the well-founded order of the numbers (`LeastExists`). A
  canonical text has five parts, each of which its separator opens and which
  hold no other separator (`Opens`, `Free`); so the parser finds each where it
  was put (`Canonical`), and each says what the pattern holds (`ItemsReadBack`,
  `PeriodReadBack`, `OptionReadBack`, `SeedReadBack`). What the parser accepts,
  canonical or not, is `Sound`, which is all that `ToText` needs
  (`ParsedIsSound`, `SoundRoundTrips`) and more than `WellFormed`: it has the
  ranges that make the number of a section fit again. The sum of the quantities
  is a fold, which the proof never has to expand: it is the same sum of the
  same list.
- **`SessionProofs`.** Types; the rows (`Tiling`: the rows tile the time from
  the start to where the next row begins, `Clocks`: that instant is not in the
  future and during a snapshot is its request, `Phases`: the row DURING is the
  last one when the phase AFTER begins); and the exit code (`Verdict`: what the
  late stages know of the end of the measurement). `RowsTile` alone is not
  inductive because it does not say where the next row begins.

Only model-checked: liveness (`StopObeyed`, `ShutdownJoins`, `KeepsPublishing`,
`RequestAnswered`, `InterruptEnds`, `ClientEnds`, `SessionEnds`), which is out
of the prover's reach, as are `ENABLED` and recursion over data; the violations.
Every invariant that a passing run checks is proved. `FinalExact`,
`DeliveryFrozen` and `NoCompleteBatchPending` are proved only.

## 6. What is abstracted and what is not modelled

- Latencies, prices, sizes and statistics; formatting, CSV output, console.
- In `Pipeline` a publication is its recurring events and its marker: regional
  routes and TimeAndSale (which is in `TimeSeries`) are left out, and a
  sequence is used once, so the wrap is in `Generator` only. A callback
  delivers the head of one queue; the drain is its outcome (quiet, deadline or
  signal), since its polls are in `Session`.
- What no number of the client can show is no property: a publication that is
  lost with its marker leaves no trace, and one that is delivered twice as a
  whole, marker included, counts as two (`finish` forgets it). The first is why
  `PassedRunExact` speaks of the publications the client heard of, the second
  needs as many faults as a publication has messages
  (`PassedRunsExact`); both are hazards in `PROJECT.json` or this note.
- The collector's windows are taken one after the other until the measurement
  ends; which rows main() writes and when is in `Session`.
- `CleanRunExact` speaks of a drain that ended because nothing was left; a drain
  that ended early is covered by `PassedRunExact` only.
- In `TimeSeries` a symbol is requested once, its snapshot is sent in one piece
  and the wire keeps its order, so a live event between SNAPSHOT_BEGIN and its
  end, or a snapshot begun anew after a reconnection, does not arise.
- In `Analysis` the two clocks are one. The interval of the log's first record
  is a guess of the code (`end - period`), so a late first record may count a
  drop from before the measurement; `DroppedInMeasurement` says so. A report of
  `n/a` also arises when no record lies wholly inside the measurement, although
  the text at `monitoring.cpp:2641` explains it by a log without parseable
  samples. Parsing of CSV and log text, other metrics, grouping by profile and
  the rest of the report are not modelled.
- In `Session` wall clock and steady clock are one and do not go backwards; an
  exception inside the measuring loops is left out; nothing happens after the
  return. Taking a window, a snapshot request and a removal of symbols are part
  of the step of main() that calls them.
- In `Generator` a command is taken from the queue and handled in one step; the
  tick counter does not reach 2^32; the summary a stopped task prints changes
  nothing.
- In `DeliveryClient` relaxed atomics behave sequentially consistently, which
  is what a single counter guarantees and what the loads of main() get on the
  supported platforms.
- In `Runner` renames succeed, profile names are distinct (the prefix of a
  run is documented as unique, `runner.hpp:155`), the Windows variant of
  `ChildProcess` is left out, and `Attempts` is 2 in the run where the code has
  20 polls.
- No callback comes after the endpoint is closed.
- Not modelled: statistics and percentiles of `core.cpp` (arithmetic on
  samples, covered by unit tests), resource sampling, command lines, tests,
  build and container files, and the dxFeed libraries, which appear as the
  channels of `Pipeline`, the wire of `TimeSeries` and the callbacks of
  `DeliveryClient` (see `PROJECT.json`, `components`).

## 7. Plan

1. Done: `Collector`, `Generator`/`TaskLifecycle`, `TimeSeries`,
   `BenchmarkPlan`/`Runner`, `DeliveryClient`, `Session` with their proofs.
2. Done: the composition `Pipeline` with its refinement of `Collector`, the
   analyzer's verdict and drop report (`Monitoring`, `Analysis`), the
   source-time comparison and the task text; proofs of the verdict, of the rows
   and of the source-time methods.
3. Done: proofs of the samples, of the delivery clients, of the time series and
   of the drop report, on lemmas about sums (`Sums`).
4. Done: proofs of the totals of a clean run and of a run that passes, on
   lemmas about occurrences in sequences and about FEED storage; proof of the
   round trip of every task text.
5. Open models: how the analyzer groups runs and compares profiles, the
   regional routes in `Pipeline`, and the restart of a task within a run.
