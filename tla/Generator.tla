------------------------------ MODULE Generator ------------------------------
(***************************************************************************)
(* The Generator of the latency server (src/server.cpp): subscription      *)
(* observers enqueue commands, one worker thread executes them and, while  *)
(* a task is active, publishes one batch per tick of a fixed grid.         *)
(*                                                                         *)
(* Time is relative to the worker's deadline: due = nextTick - now, so the *)
(* state stays finite without bounding how long the server runs.           *)
(***************************************************************************)
EXTENDS Integers, Sequences

CONSTANTS
    Text,         \* control texts clients subscribe to, without markers
    Task,         \* the texts that parse and resolve their active symbols
    NoText,       \* the empty text of a closed control subscription
    Kind,         \* observed subscription kinds
    Symbol,       \* profile and market symbols
    Required,     \* [Task -> [Kind -> symbols the task publishes to]]
    Update,       \* bound: symbol sets one change notification carries
    Period,       \* publishPeriod, in clock units
    SpinWindow,   \* SPIN_WINDOW, in clock units
    MaxSequence,  \* TextMessage::MAX_SEQUENCE
    MaxQueue,     \* bound: commands waiting in commands_
    MaxLate       \* bound: how late the worker may run behind nextTick

ASSUME GeneratorAssumption ==
    /\ Task \subseteq Text
    /\ NoText \notin Text
    /\ Required \in [Task -> [Kind -> SUBSET Symbol]]
    /\ Update \subseteq SUBSET Symbol
    /\ Period \in Nat \ {0}
    /\ SpinWindow \in Nat
    /\ MaxSequence \in Nat \ {0}
    /\ MaxQueue \in Nat
    /\ MaxLate \in Nat

VARIABLES
    commands,    \* commands_
    subscribed,  \* subscribedSymbols_
    active,      \* command of the ActiveTask, or NoText
    pending,     \* command of the PendingTask, or NoText
    stopping,    \* stopping_
    worker,      \* where the worker thread is in run()
    notifying,   \* notify_one calls between their unlock and the call
    notified,    \* a notification for the waiting worker
    due,         \* nextTick - now
    elapsed,     \* (now - start of the task) % Period
    slotUsed,    \* history: a batch began since the last grid point
    tick,        \* ActiveTask::tick % MAX_SEQUENCE
    wire,        \* history: the last message handed to the publisher
    server       \* main(): "running", "closing" or "exited"

signals == <<notifying, notified>>
time == <<due, elapsed, slotUsed>>
task == <<active, pending, subscribed, tick, wire>>
vars == <<commands, stopping, worker, server, signals, time, task>>

Start(t)   == [type |-> "START", text |-> t]
Stop(t)    == [type |-> "STOP", text |-> t]
Closed(k)  == [type |-> "SUBSCRIPTION_CLOSED", kind |-> k]
Removed(k, symbols) ==
    [type |-> "SYMBOLS_REMOVED", kind |-> k, symbols |-> symbols]
Added(k, symbols, request) ==
    [type |-> "SYMBOLS_ADDED", kind |-> k, symbols |-> symbols,
     request |-> request]

Command ==
    { Start(t) : t \in Text } \cup { Stop(t) : t \in Text \cup {NoText} }
      \cup { Added(k, u, r) : k \in Kind, u \in Update, r \in BOOLEAN }
      \cup { Removed(k, u) : k \in Kind, u \in Update }
      \cup { Closed(k) : k \in Kind }

Message(what, t, sequence) ==
    [what |-> what, task |-> t, sequence |-> sequence]

-----------------------------------------------------------------------------
(* Observers: dxFeed threads call the change listeners of main(), which    *)
(* push a command under the mutex and notify after releasing it.           *)

\* The worker keeps mutex_ from taking it to its next decision.
MutexFree == worker # "locked"

Enqueue(c) ==
    /\ server = "running"
    /\ MutexFree
    /\ Len(commands) < MaxQueue
    /\ notifying < MaxQueue
    /\ commands' = Append(commands, c)
    /\ notifying' = notifying + 1
    /\ UNCHANGED <<stopping, worker, server, notified, time, task>>

\* A client adds or removes its task text, or the subscription closes.
EnqueueControl ==
    \/ \E t \in Text : Enqueue(Start(t)) \/ Enqueue(Stop(t))
    \/ Enqueue(Stop(NoText))

\* Only a TimeAndSale subscription carries time-series requests.
EnqueueSymbols ==
    \E k \in Kind, u \in Update :
        \/ \E request \in BOOLEAN :
             /\ request => k = "TIME_AND_SALE"
             /\ Enqueue(Added(k, u, request))
        \/ Enqueue(Removed(k, u))

EnqueueSubscriptionClosed == \E k \in Kind : Enqueue(Closed(k))

\* cv_.notify_one(): it reaches the worker only if the worker is waiting.
Notify ==
    /\ notifying > 0
    /\ notifying' = notifying - 1
    /\ notified' = (notified \/ worker \in {"waiting", "timedWait"})
    /\ UNCHANGED <<commands, stopping, worker, server, time, task>>

\* Fault: the destructor sets stopping_ and joins without notifying.
StopGeneratorSilently ==
    /\ server = "running"
    /\ MutexFree
    /\ server' = "closing"
    /\ stopping' = TRUE
    /\ UNCHANGED <<commands, worker, signals, time, task>>

\* ~Generator, after the listeners are removed: set stopping_, then notify.
StopGenerator ==
    /\ server = "running"
    /\ MutexFree
    /\ server' = "closing"
    /\ stopping' = TRUE
    /\ notifying' = notifying + 1
    /\ UNCHANGED <<commands, worker, notified, time, task>>

\* thread_.join() returns.
Join ==
    /\ server = "closing"
    /\ worker = "exited"
    /\ server' = "exited"
    /\ UNCHANGED <<commands, stopping, worker, signals, time, task>>

-----------------------------------------------------------------------------
(* The worker thread: waiting.                                             *)

\* The predicate of both condition-variable waits.
Woken == stopping \/ commands # <<>>

\* Fault: an idle worker waits without evaluating the predicate first.
TopUnchecked ==
    /\ worker = "loop"
    /\ worker' = IF active = NoText THEN "waiting"
                 ELSE IF Woken THEN "locked"
                 ELSE IF due > SpinWindow THEN "timedWait"
                 ELSE IF due > 0 THEN "spinning"
                 ELSE "locked"
    /\ UNCHANGED <<commands, stopping, server, signals, time, task>>

\* Top of the loop: lock, then wait, wait until close to the deadline, spin
\* or go on with the lock.
Top ==
    /\ worker = "loop"
    /\ worker' = IF Woken THEN "locked"
                 ELSE IF active = NoText THEN "waiting"
                 ELSE IF due > SpinWindow THEN "timedWait"
                 ELSE IF due > 0 THEN "spinning"
                 ELSE "locked"
    /\ UNCHANGED <<commands, stopping, server, signals, time, task>>

\* A notified wait evaluates its predicate again under the lock.
Wake ==
    /\ worker \in {"waiting", "timedWait"}
    /\ notified
    /\ notified' = FALSE
    /\ worker' = IF Woken THEN "locked" ELSE worker
    /\ UNCHANGED <<commands, stopping, server, notifying, time, task>>

\* A wait may also wake without a notification.
SpuriousWake ==
    /\ worker \in {"waiting", "timedWait"}
    /\ ~notified
    /\ Woken
    /\ worker' = "locked"
    /\ UNCHANGED <<commands, stopping, server, signals, time, task>>

\* Fault: the predicate alone ends the timed wait.
TimeOutOnlyIfWoken ==
    /\ Woken
    /\ worker = "timedWait"
    /\ due <= SpinWindow
    /\ notified' = FALSE
    /\ worker' = "locked"
    /\ UNCHANGED <<commands, stopping, server, notifying, time, task>>

\* The timed wait times out SPIN_WINDOW before the deadline.
TimeOut ==
    /\ worker = "timedWait"
    /\ due <= SpinWindow
    /\ notified' = FALSE
    /\ worker' = IF ~Woken /\ due > 0 THEN "spinning" ELSE "locked"
    /\ UNCHANGED <<commands, stopping, server, notifying, time, task>>

\* Yielding until the deadline with the mutex released, deaf to commands.
SpinEnds ==
    /\ worker = "spinning"
    /\ due <= 0
    /\ worker' = "locked"
    /\ UNCHANGED <<commands, stopping, server, signals, time, task>>

\* No deadline, or the first one at once.
ResetTime == due' = 0 /\ elapsed' = 0 /\ slotUsed' = FALSE

\* The worker returns; its local task goes with it.
Exit ==
    /\ worker = "locked"
    /\ stopping
    /\ worker' = "exited"
    /\ active' = NoText
    /\ pending' = NoText
    /\ tick' = 0
    /\ ResetTime
    /\ UNCHANGED <<commands, stopping, server, signals, subscribed, wire>>

-----------------------------------------------------------------------------
(* The worker thread: commands.  The code takes the command under the lock *)
(* and handles it after releasing it; nothing it reads or writes then is   *)
(* shared, so one step does both.                                          *)

\* subscriptionsReady: TimeAndSale events need no subscription.
Ready(t, subs) ==
    \A k \in Kind \ {"TIME_AND_SALE"} : Required[t][k] \subseteq subs[k]

\* Fault: the publication counter survives from one task to the next.
StartWhenReadyKeepingTick(a, p, subs, w) ==
    /\ subscribed' = subs
    /\ IF a # NoText \/ p = NoText \/ ~Ready(p, subs)
       THEN /\ active' = a
            /\ pending' = p
            /\ wire' = w
            /\ IF a = NoText THEN ResetTime ELSE UNCHANGED time
       ELSE /\ pending' = NoText
            /\ ResetTime
            /\ \/ active' = p /\ wire' = Message("profiles", p, 0)
               \/ active' = NoText /\ wire' \in {w, Message("profiles", p, 0)}
    /\ UNCHANGED tick

\* startWhenReady after the command left active a, pending p, subscriptions
\* subs and message w: the Profiles go out, then the task is active with its
\* first tick due at once.  An exception gives the task up before or after
\* its Profiles were published.
StartWhenReady(a, p, subs, w) ==
    /\ subscribed' = subs
    /\ IF a # NoText \/ p = NoText \/ ~Ready(p, subs)
       THEN /\ active' = a
            /\ pending' = p
            /\ wire' = w
            /\ IF a = NoText
               THEN ResetTime /\ tick' = 0
               ELSE UNCHANGED <<time, tick>>
       ELSE /\ pending' = NoText
            /\ ResetTime
            /\ tick' = 0
            /\ \/ active' = p /\ wire' = Message("profiles", p, 0)
               \/ active' = NoText /\ wire' \in {w, Message("profiles", p, 0)}

\* Fault: a task is accepted while another one is active.
HandleStartWhileActive(c) ==
    LET accepted == c.text \in Task /\ pending = NoText
    IN  StartWhenReady(active, IF accepted THEN c.text ELSE pending,
                       subscribed, wire)

\* Fault: a new task replaces the pending one.
HandleStartReplacing(c) ==
    LET accepted == c.text \in Task /\ active = NoText
    IN  StartWhenReady(active, IF accepted THEN c.text ELSE pending,
                       subscribed, wire)

\* A task is accepted only while no other is active or pending.
HandleStart(c) ==
    LET accepted == c.text \in Task /\ active = NoText /\ pending = NoText
    IN  StartWhenReady(active, IF accepted THEN c.text ELSE pending,
                       subscribed, wire)

\* Fault: closing the control subscription stops only a pending task.
HandleStopNamedOnly(c) ==
    LET after(t) == IF c.text \in {NoText, t} THEN NoText ELSE t
    IN  StartWhenReady(IF c.text = active THEN NoText ELSE active,
                       after(pending), subscribed, wire)

\* STOP without text stops whatever task there is.
HandleStop(c) ==
    LET after(t) == IF c.text \in {NoText, t} THEN NoText ELSE t
    IN  StartWhenReady(after(active), after(pending), subscribed, wire)

\* Fault: only a START looks whether the pending task is ready.
HandleSymbolsWithoutStart(c) ==
    LET old == subscribed[c.kind]
        new == IF c.type = "SYMBOLS_ADDED" THEN old \cup c.symbols
               ELSE IF c.type = "SYMBOLS_REMOVED" THEN old \ c.symbols
               ELSE {}
    IN  /\ subscribed' = [subscribed EXCEPT ![c.kind] = new]
        /\ UNCHANGED <<active, pending, tick, wire, time>>

\* The active task answers the requests of a new TimeAndSale subscription
\* with snapshots.
HandleSymbols(c) ==
    LET old == subscribed[c.kind]
        new == IF c.type = "SYMBOLS_ADDED" THEN old \cup c.symbols
               ELSE IF c.type = "SYMBOLS_REMOVED" THEN old \ c.symbols
               ELSE {}
        answered == /\ active # NoText
                    /\ c.type = "SYMBOLS_ADDED"
                    /\ c.kind = "TIME_AND_SALE"
                    /\ c.request
        w == IF answered THEN Message("snapshot", active, tick) ELSE wire
    IN  StartWhenReady(active, pending, [subscribed EXCEPT ![c.kind] = new], w)

HandleCommand ==
    /\ worker = "locked"
    /\ ~stopping
    /\ commands # <<>>
    /\ commands' = Tail(commands)
    /\ worker' = "loop"
    /\ LET c == Head(commands)
       IN \/ c.type = "START" /\ HandleStart(c)
          \/ c.type = "STOP" /\ HandleStop(c)
          \/ c.type \notin {"START", "STOP"} /\ HandleSymbols(c)
    /\ UNCHANGED <<stopping, server, signals>>

-----------------------------------------------------------------------------
(* The worker thread: ticks.                                               *)

\* The worker has the lock and neither a command nor a shutdown to handle.
Quiet == worker = "locked" /\ ~stopping /\ commands = <<>>

\* publish(): one batch and its marker with the next sequence.  A batch that
\* begins on a grid point, but for an earlier one, counts for the period that
\* ends there.
PublishBegin ==
    /\ Quiet
    /\ active # NoText
    /\ due <= 0
    /\ worker' = "publishing"
    /\ tick' = (tick + 1) % MaxSequence
    /\ wire' = Message("batch", active, tick')
    /\ slotUsed' = (slotUsed \/ elapsed # 0 \/ due = 0)
    /\ UNCHANGED <<commands, stopping, server, signals, due, elapsed, active,
                   pending, subscribed>>

\* Fault: the next deadline counts from the end of the publication.
AfterPublicationFromNow ==
    IF due + Period < 0 THEN Period ELSE due + Period

\* Fault: every missed deadline is published late.
AfterPublicationCatchingUp == due + Period

\* Deadlines already in the past are skipped, not caught up with.
AfterPublication ==
    LET next == due + Period
    IN  IF next < 0 THEN next + Period * (((-next) \div Period) + 1) ELSE next

PublishEnd ==
    /\ worker = "publishing"
    /\ worker' = "loop"
    /\ due' = AfterPublication
    /\ UNCHANGED <<commands, stopping, server, signals, elapsed, slotUsed, task>>

\* Time passes; it matters only while a task is active.
Clock ==
    /\ active # NoText
    /\ due > -MaxLate
    /\ due' = due - 1
    /\ elapsed' = (elapsed + 1) % Period
    /\ slotUsed' = (slotUsed /\ elapsed' # 0)
    /\ UNCHANGED <<commands, stopping, worker, server, signals, task>>

-----------------------------------------------------------------------------
Init ==
    /\ commands = <<>>
    /\ subscribed = [k \in Kind |-> {}]
    /\ active = NoText
    /\ pending = NoText
    /\ stopping = FALSE
    /\ worker = "loop"
    /\ notifying = 0
    /\ notified = FALSE
    /\ due = 0
    /\ elapsed = 0
    /\ slotUsed = FALSE
    /\ tick = 0
    /\ wire = Message("nothing", NoText, 0)
    /\ server = "running"

Observers == EnqueueControl \/ EnqueueSymbols \/ EnqueueSubscriptionClosed

Worker ==
    \/ Top \/ Wake \/ TimeOut \/ SpinEnds \/ Exit
    \/ HandleCommand \/ PublishBegin \/ PublishEnd

\* The process has ended: the only state in which nothing else is possible.
Ended == server = "exited" /\ notifying = 0 /\ UNCHANGED vars

Next ==
    \/ Observers \/ Notify \/ StopGenerator \/ Join \/ Ended
    \/ Worker \/ SpuriousWake \/ Clock

Spec == Init /\ [][Next]_vars

\* Threads that can run do run, and time passes.  Clients and the signal
\* that ends the server owe nothing.
FairSpec ==
    /\ Spec
    /\ WF_vars(Worker)
    /\ WF_vars(Notify)
    /\ WF_vars(Join)
    /\ WF_vars(Clock)

-----------------------------------------------------------------------------
(* Properties.                                                             *)

\* Types: the worker is at a known point, commands and tasks are known, and
\* the deadline stays within one period ahead and MaxLate behind.
TypeOK ==
    /\ commands \in Seq(Command)
    /\ subscribed \in [Kind -> SUBSET Symbol]
    /\ active \in Task \cup {NoText}
    /\ pending \in Task \cup {NoText}
    /\ stopping \in BOOLEAN
    /\ worker \in {"loop", "waiting", "timedWait", "spinning", "locked",
                   "publishing", "exited"}
    /\ notifying \in Nat
    /\ notified \in BOOLEAN
    /\ due \in -MaxLate .. Period
    /\ elapsed \in 0 .. Period - 1
    /\ slotUsed \in BOOLEAN
    /\ tick \in 0 .. MaxSequence - 1
    /\ wire \in [what : {"nothing", "profiles", "snapshot", "batch"},
                 task : Task \cup {NoText}, sequence : 0 .. MaxSequence - 1]
    /\ server \in {"running", "closing", "exited"}

\* No lost wakeup: while the worker waits although there is a command or a
\* shutdown to see, a notification is on its way to it.  The code notifies
\* after releasing the mutex and waits with a predicate.
NoLostWakeup ==
    worker \in {"waiting", "timedWait"} /\ Woken => notifying > 0 \/ notified

\* One load profile at a time: no task is kept pending beside an active one,
\* whatever order STARTs, STOPs and subscription changes arrive in.
OneTaskAtATime == active = NoText \/ pending = NoText

\* A pending task never sits on complete subscriptions: whichever command
\* completed them also started the task.
NoReadyTaskWaits == pending # NoText => ~Ready(pending, subscribed)

\* The deadline stays on the grid start + n * publishPeriod however late
\* publications are and however many deadlines are skipped.
GridKept == active # NoText => (due + elapsed) % Period = 0

\* A late publisher never bursts: no two batches begin within the same
\* period of the grid.
NoBurst == [][worker' = "publishing" /\ worker # "publishing" => ~slotUsed]_vars

\* Whatever stops and restarts happen between, a batch on the wire follows a
\* message of its own task, and carries that message's sequence plus one: a
\* task's first batch follows its Profiles and no batch is repeated or left
\* out.
BatchesContiguous ==
    [][wire' # wire /\ wire'.what = "batch" =>
         /\ wire'.task = wire.task
         /\ wire'.sequence = (wire.sequence + 1) % MaxSequence]_vars

\* describe() in the client: the Quote sequences it correlates.
Correlatable(sequence) == 0 < sequence /\ sequence < MaxSequence

\* "Event fields identify the batch": every batch has a sequence a client
\* can correlate.  It does not once tick is a multiple of MAX_SEQUENCE.
EventFieldsIdentifyBatch == wire.what = "batch" => Correlatable(wire.sequence)

StopQueued(t) == \E i \in 1 .. Len(commands) :
                    commands[i] \in {Stop(t), Stop(NoText)}

\* A STOP that names the active task, or no task, ends it, whatever the worker
\* is doing when the command arrives and whatever else is queued.
StopObeyed ==
    \A t \in Task : (active = t /\ StopQueued(t)) ~> (active # t)

\* Destroying the generator always ends: the worker sees the shutdown from
\* every wait, and the join returns.
ShutdownJoins == (server = "closing") ~> (server = "exited")

\* A task left alone keeps publishing: the timed wait, the spin and the skipped
\* deadlines never leave the worker without a next batch.
KeepsPublishing ==
    \A t \in Task : <>[](active = t /\ commands = <<>> /\ ~stopping)
                      => []<>(worker = "publishing")

\* The generator implements the life of one task at a time: with phase and
\* current read off the two optionals, every step of either thread is a step
\* of TaskLifecycle or leaves it unchanged.
Lifecycle == INSTANCE TaskLifecycle WITH
    phase <- IF active # NoText THEN "running"
             ELSE IF pending # NoText THEN "waiting" ELSE "idle",
    current <- IF active # NoText THEN active ELSE pending,
    sequence <- tick

ImplementsLifecycle == Lifecycle!Spec
=============================================================================
