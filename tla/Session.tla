------------------------------- MODULE Session -------------------------------
(***************************************************************************)
(* main() of the latency client (src/client.cpp): wait for the Profiles,    *)
(* take the TimeAndSale snapshot, warm up, measure in windows or in the     *)
(* phases before, during and after a delayed snapshot, stop the publisher,  *)
(* drain, report and return an exit code.  What the Collector counts and    *)
(* how the tracker follows a snapshot are modules of their own; here they   *)
(* are events that may or may not come.                                     *)
(*                                                                         *)
(* main() sleeps between its looks at the clock and at the signal flag, so  *)
(* every step may come late; the sleeps themselves are no steps.            *)
(***************************************************************************)
EXTENDS Integers, Sequences

CONSTANTS
    Modes,          \* of {"regular", "prefilled", "delayed"}
    StartupTimeout, \* --startup-timeout
    Prefill,        \* --time-series-prefill
    Warmup,         \* --warmup
    Duration,       \* --duration
    Window,         \* --window
    SubscribeAfter, \* --time-series-subscribe-after, in mode "delayed"
    BatchTimeout,   \* --batch-timeout
    MaxLate         \* bound: how late main() looks at a clock

ASSUME SessionAssumption ==
    /\ Modes \subseteq {"regular", "prefilled", "delayed"}
    /\ {StartupTimeout, Prefill, Warmup, Duration, Window, SubscribeAfter,
        BatchTimeout, MaxLate} \subseteq Nat
    /\ Window > 0
    /\ SubscribeAfter < Duration

VARIABLES
    mode,        \* no time series, one before the warm-up, one in the run
    now,         \* both clocks
    interrupted, \* set by the signal handler
    profiled,    \* every initial Profile arrived
    snapshot,    \* of the tracker: "none", "requested" or "complete"
    subscribedAt, \* subscribedAtNs_
    completedAt, \* completedAtNs_
    stage,       \* main()
    deadline,    \* of the current wait
    start,       \* measurementStart and Reporter::runStart_
    nextWindow,  \* nextWindow
    phase,       \* phase of a delayed snapshot
    windowStart, \* windowStartWall and phaseStartWall
    timedOut,    \* snapshotTimedOut
    control,     \* symbols of the control subscription
    rows,        \* rows of the summary
    total,       \* <<>> or <<the total row>>
    result       \* exit code, or Running

events == <<interrupted, profiled>>
tracker == <<snapshot, subscribedAt, completedAt>>
measurement == <<start, nextWindow, phase, windowStart, timedOut>>
report == <<rows, total>>
main == <<stage, deadline, control, result>>
vars == <<mode, now, events, tracker, measurement, report, main>>

Running == -1
end == start + Duration

Row(name, from, to) == [name |-> name, from |-> from, to |-> to]

-----------------------------------------------------------------------------
(* The world around main().                                                *)

\* The instant main() waits for.
Due == IF stage \in {"overlap", "phase", "flush", "windows", "window"}
       THEN end ELSE deadline

Clock ==
    /\ stage \notin {"starting", "stop", "final", "returned"}
    /\ now < Due + MaxLate
    /\ now' = now + 1
    /\ UNCHANGED <<mode, events, tracker, measurement, report, main>>

OnSignal ==
    /\ ~interrupted
    /\ stage # "returned"
    /\ interrupted' = TRUE
    /\ UNCHANGED <<mode, now, profiled, tracker, measurement, report, main>>

\* Collector: the last initial Profile.
ProfilesArrive ==
    /\ stage = "profiles"
    /\ ~profiled
    /\ profiled' = TRUE
    /\ UNCHANGED <<mode, now, interrupted, tracker, measurement, report, main>>

\* TimeSeriesTracker: the last requested symbol ends its snapshot.  The
\* listener took the time before it got the mutex.
SnapshotCompletes ==
    /\ snapshot = "requested"
    /\ stage # "returned"
    /\ snapshot' = "complete"
    /\ completedAt' \in subscribedAt .. now
    /\ UNCHANGED <<mode, now, events, subscribedAt, measurement, report, main>>

-----------------------------------------------------------------------------
(* Before the measurement.                                                 *)

Goto(s) == stage' = s

Return(code) == result' = code /\ Goto("returned")

\* The early returns: remove both control symbols, close, return.
GiveUp(code) ==
    /\ Return(code)
    /\ control' = {}
    /\ UNCHANGED <<deadline, tracker, measurement>>

\* Begin the wait of stage s.
WaitFor(s, duration) ==
    /\ Goto(s)
    /\ deadline' = now + duration
    /\ UNCHANGED <<control, result>>

\* Subscriptions, listeners, output files and the connection; each may throw.
Connect ==
    /\ stage = "starting"
    /\ \/ /\ Goto("profiles")
          /\ deadline' = now + StartupTimeout
          /\ control' = {"task", "marker"}
          /\ UNCHANGED result
       \/ Return(1) /\ UNCHANGED <<deadline, control>>
    /\ UNCHANGED <<mode, now, events, tracker, measurement, report>>

\* waitForProfiles: Profiles that are complete count even when it is late.
WaitForProfiles ==
    /\ stage = "profiles"
    /\ IF profiled
       THEN /\ IF mode = "prefilled" THEN WaitFor("prefill", Prefill)
               ELSE WaitFor("warmup", Warmup)
            /\ UNCHANGED <<tracker, measurement>>
       ELSE /\ interrupted \/ now >= deadline
            /\ GiveUp(IF interrupted THEN 130 ELSE 1)
    /\ UNCHANGED <<mode, now, events, report>>

\* beginSnapshot, setFromTime and addSymbols.
RequestSnapshot ==
    /\ snapshot' = "requested"
    /\ subscribedAt' = now
    /\ UNCHANGED completedAt

\* waitFor(timeSeriesPrefill)
WaitForPrefill ==
    /\ stage = "prefill"
    /\ \/ interrupted /\ GiveUp(130)
       \/ /\ ~interrupted /\ now >= deadline
          /\ RequestSnapshot
          /\ WaitFor("snapshot", StartupTimeout)
          /\ UNCHANGED measurement
    /\ UNCHANGED <<mode, now, events, report>>

\* Fault: a snapshot is awaited without a deadline.
WaitForSnapshotOnly ==
    /\ stage = "snapshot"
    /\ snapshot = "complete"
    /\ WaitFor("warmup", Warmup)
    /\ UNCHANGED <<mode, now, events, tracker, measurement, report>>

\* waitForSnapshot: a signal here is reported as a timeout.
WaitForSnapshot ==
    /\ stage = "snapshot"
    /\ IF snapshot = "complete"
       THEN WaitFor("warmup", Warmup) /\ UNCHANGED <<tracker, measurement>>
       ELSE /\ interrupted \/ now >= deadline
            /\ GiveUp(1)
    /\ UNCHANGED <<mode, now, events, report>>

\* waitFor(warmup), then the measurement begins.
WaitForWarmup ==
    /\ stage = "warmup"
    /\ \/ interrupted /\ GiveUp(130)
       \/ /\ ~interrupted /\ now >= deadline
          /\ Goto(IF mode = "delayed" THEN "overlap" ELSE "windows")
          /\ start' = now
          /\ windowStart' = now
          /\ nextWindow' = now + Window
          /\ UNCHANGED <<tracker, phase, timedOut, deadline, control, result>>
    /\ UNCHANGED <<mode, now, events, report>>

-----------------------------------------------------------------------------
(* The measurement with a delayed snapshot.                                *)

\* Fault: the next phase starts when main() noticed, not where the row ended.
FlushFromNow(name, to) ==
    /\ rows' = Append(rows, Row(name, windowStart, to))
    /\ windowStart' = now
    /\ UNCHANGED total

\* reporter.window() of what the Collector has since the last row.
Flush(name, to) ==
    /\ rows' = Append(rows, Row(name, windowStart, to))
    /\ windowStart' = to
    /\ UNCHANGED total

\* The condition of both measuring loops.
Measuring == ~interrupted /\ now < end

OverlapTest ==
    /\ stage = "overlap"
    /\ Goto(IF Measuring THEN "phase" ELSE "flush")
    /\ UNCHANGED <<mode, now, events, tracker, measurement, report, deadline,
                   control, result>>

Before ==
    /\ phase = "before"
    /\ now >= start + SubscribeAfter
    /\ Flush("before", now)
    /\ RequestSnapshot
    /\ phase' = "during"
    /\ deadline' = now + StartupTimeout
    /\ Goto("overlap")
    /\ UNCHANGED timedOut

\* Fault: the phase ends when main() noticed.
DuringUntilNow ==
    /\ phase = "during"
    /\ snapshot = "complete"
    /\ Flush("during", now)
    /\ phase' = "after"
    /\ Goto("overlap")
    /\ UNCHANGED <<tracker, timedOut, deadline>>

\* The row ends with the snapshot, which was some sleeps ago; with
\* --time-series-unsubscribe-after-snapshot the symbols are removed here.
During ==
    /\ phase = "during"
    /\ snapshot = "complete"
    /\ Flush("during", completedAt)
    /\ phase' = "after"
    /\ Goto("overlap")
    /\ UNCHANGED <<tracker, timedOut, deadline>>

SnapshotTimeout ==
    /\ phase = "during"
    /\ snapshot # "complete"
    /\ now >= deadline
    /\ timedOut' = TRUE
    /\ Goto("flush")
    /\ UNCHANGED <<tracker, phase, windowStart, deadline, report>>

\* Nothing to do before the next look.
Sleep ==
    /\ phase = "before" => now < start + SubscribeAfter
    /\ phase = "during" => snapshot # "complete" /\ now < deadline
    /\ Goto("overlap")
    /\ UNCHANGED <<tracker, phase, windowStart, timedOut, deadline, report>>

Overlap ==
    /\ stage = "phase"
    /\ Before \/ During \/ SnapshotTimeout \/ Sleep
    /\ UNCHANGED <<mode, now, events, start, nextWindow, control, result>>

\* Fault: a snapshot that is still open at the end is no failure.
FlushPhaseSilently ==
    /\ stage = "flush"
    /\ Flush(phase, now)
    /\ Goto("stop")
    /\ UNCHANGED <<mode, now, events, tracker, start, nextWindow, phase, timedOut,
                   deadline, control, result>>

\* After the loop: the last phase, open snapshots are failures.
FlushPhase ==
    /\ stage = "flush"
    /\ Flush(phase, now)
    /\ timedOut' = (timedOut \/ (~interrupted /\ phase = "during"))
    /\ Goto("stop")
    /\ UNCHANGED <<mode, now, events, tracker, start, nextWindow, phase,
                   deadline, control, result>>

-----------------------------------------------------------------------------
(* The measurement in windows.                                             *)

WindowsTest ==
    /\ stage = "windows"
    /\ Goto(IF Measuring THEN "window" ELSE "stop")
    /\ UNCHANGED <<mode, now, events, tracker, measurement, report, deadline,
                   control, result>>

\* A row is due at the end of its window or of the measurement; one that is
\* late is followed by shorter ones.
TakeWindow ==
    /\ stage = "window"
    /\ Goto("windows")
    /\ IF now >= nextWindow \/ now >= end
       THEN Flush("window", now) /\ nextWindow' = nextWindow + Window
       ELSE UNCHANGED <<report, windowStart, nextWindow>>
    /\ UNCHANGED <<mode, now, events, tracker, start, phase, timedOut, deadline,
                   control, result>>

-----------------------------------------------------------------------------
(* After the measurement.                                                  *)

\* Removing the task symbol stops the publisher; the drain begins.
StopPublisher ==
    /\ stage = "stop"
    /\ Goto("drain")
    /\ control' = control \ {"task"}
    /\ deadline' = now + BatchTimeout
    /\ UNCHANGED <<mode, now, events, tracker, measurement, report, result>>

\* The drain ends with its deadline, a signal or quiet subscriptions; the last
\* row is left out if there is nothing in it.
Drain ==
    /\ stage = "drain"
    /\ Goto("final")
    /\ control' = control \ {"marker"}
    /\ \/ rows' = Append(rows, Row("window", windowStart, now))
       \/ UNCHANGED rows
    /\ total' = <<Row("total", start, now)>>
    /\ UNCHANGED <<mode, now, events, tracker, measurement, deadline, result>>

ExitCode == IF interrupted THEN 130 ELSE IF timedOut THEN 1 ELSE 0

\* The time-series report may throw, too.
Finish ==
    /\ stage = "final"
    /\ \/ mode # "regular" /\ Return(1)
       \/ Return(ExitCode)
    /\ UNCHANGED <<mode, now, events, tracker, measurement, report, deadline,
                   control>>

-----------------------------------------------------------------------------
Init ==
    /\ mode \in Modes
    /\ now = 0
    /\ interrupted = FALSE
    /\ profiled = FALSE
    /\ snapshot = "none"
    /\ subscribedAt = 0
    /\ completedAt = 0
    /\ stage = "starting"
    /\ deadline = 0
    /\ start = 0
    /\ nextWindow = 0
    /\ phase = "before"
    /\ windowStart = 0
    /\ timedOut = FALSE
    /\ control = {}
    /\ rows = <<>>
    /\ total = <<>>
    /\ result = Running

Main ==
    \/ Connect \/ WaitForProfiles \/ WaitForPrefill \/ WaitForSnapshot
    \/ WaitForWarmup \/ OverlapTest \/ Overlap \/ FlushPhase \/ WindowsTest
    \/ TakeWindow \/ StopPublisher \/ Drain \/ Finish

Returned == stage = "returned" /\ UNCHANGED vars

Next ==
    Clock \/ OnSignal \/ ProfilesArrive \/ SnapshotCompletes \/ Main \/ Returned

Spec == Init /\ [][Next]_vars

\* main() runs and time passes; nobody has to send anything.
FairSpec == Spec /\ WF_vars(Main) /\ WF_vars(Clock)

-----------------------------------------------------------------------------
(* Properties.                                                             *)

\* Types; markers are received as long as the task may publish.
TypeOK ==
    /\ mode \in Modes
    /\ {now, subscribedAt, completedAt, deadline, start, nextWindow, windowStart}
          \subseteq Nat
    /\ {interrupted, profiled, timedOut} \subseteq BOOLEAN
    /\ snapshot \in {"none", "requested", "complete"}
    /\ stage \in {"starting", "profiles", "prefill", "snapshot", "warmup",
                  "overlap", "phase", "flush", "windows", "window", "stop",
                  "drain", "final", "returned"}
    /\ phase \in {"before", "during", "after"}
    /\ control \in {{}, {"marker"}, {"task", "marker"}}
    /\ result \in {Running, 0, 1, 130}

\* The rows tile the measurement: without gap or overlap, from its start to
\* the last row's end, and the total row covers them all.
RowsTile ==
    /\ rows # <<>> => rows[1].from = start
    /\ \A i \in 1 .. Len(rows) :
         /\ rows[i].from <= rows[i].to
         /\ i < Len(rows) => rows[i].to = rows[i + 1].from
         /\ total # <<>> =>
              total[1].from <= rows[i].from /\ rows[i].to <= total[1].to

\* "divides ... into BEFORE, DURING, and AFTER phases": an AFTER row comes with
\* a DURING row that is the snapshot's interval, however late main() noticed.
DuringIsSnapshot ==
    \A i \in 1 .. Len(rows) : rows[i].name = "after" =>
        /\ i > 1
        /\ rows[i - 1] = Row("during", subscribedAt, completedAt)

\* Exit code 0 is a measurement of the whole duration without a signal, and a
\* snapshot that was requested is complete.
ZeroMeansMeasured ==
    result = 0 => /\ ~interrupted
                  /\ total # <<>>
                  /\ total[1].to - start >= Duration
                  /\ snapshot # "requested"

\* With every wait bounded the client ends, whatever the server does.
SessionEnds == <>(stage = "returned")

\* README: "Add the TimeAndSale subscription this long after measurement
\* starts and report ticker latency before, during, and after its HISTORY
\* snapshot": a successful run with a delayed snapshot has one.
DelayedSnapshotTaken == result = 0 /\ mode = "delayed" => snapshot = "complete"
=============================================================================
