--------------------------- MODULE GeneratorProofs ---------------------------
(***************************************************************************)
(* Proofs about Generator for every set of tasks, symbols and updates,     *)
(* every period, spin window, sequence range and bound.                    *)
(***************************************************************************)
EXTENDS Generator, TLAPS

-----------------------------------------------------------------------------
(* Arithmetic of the publication grid.                                     *)

\* x is a multiple of p, without division.
Multiple(x, p) == \E k \in Int : x = k * p

\* The remainder of a step of one.
LEMMA ModuloStep ==
    ASSUME NEW p \in Nat \ {0}, NEW e \in 0 .. p - 1
    PROVE  (e + 1) % p = IF e + 1 = p THEN 0 ELSE e + 1
  <1>1. CASE e + 1 = p
    BY <1>1, SMT
  <1>2. CASE e + 1 < p
    BY <1>2, SMT
  <1> QED
    BY <1>1, <1>2, SMT

\* What the integer division says about the deadlines an overdue time n skips.
LEMMA SkippedDeadlines ==
    ASSUME NEW n \in Nat, NEW p \in Nat \ {0}
    PROVE  /\ n \div p \in Nat
           /\ p * (n \div p) <= n
           /\ n < p * (n \div p) + p
  <1>1. p \in Nat /\ p > 0
    OBVIOUS
  <1>2. n \div p \in Nat
    BY <1>1, SMT
  <1>3. p * (n \div p) <= n
    BY <1>1, SMT
  <1>4. n < p * (n \div p) + p
    BY <1>1, SMT
  <1> QED
    BY <1>2, <1>3, <1>4

\* Multiples are what leaves no remainder.
LEMMA MultipleModulo ==
    ASSUME NEW x \in Int, NEW p \in Nat \ {0}
    PROVE  Multiple(x, p) <=> x % p = 0
  <1>0. p \in Nat /\ p > 0
    OBVIOUS
  <1>1. ASSUME NEW k \in Int
        PROVE  (k * p) % p = 0
    BY <1>0, SMT
  <1>2. ASSUME x % p = 0
        PROVE  \E k \in Int : x = k * p
    BY <1>0, <1>2, SMT
  <1> QED
    BY <1>1, <1>2 DEF Multiple

\* Adding whole periods keeps a multiple a multiple.
LEMMA MultipleShift ==
    ASSUME NEW x \in Int, NEW m \in Int, NEW p \in Nat \ {0}, Multiple(x, p)
    PROVE  Multiple(x + p * m, p)
  <1>1. PICK k \in Int : x = k * p
    BY DEF Multiple
  <1>2. x + p * m = (k + m) * p
    BY <1>1, SMT
  <1> QED
    BY <1>2 DEF Multiple

\* A multiple of p strictly between two neighbouring multiples does not exist.
LEMMA MultipleBetween ==
    ASSUME NEW p \in Nat \ {0}, NEW x \in 1 .. p, Multiple(x, p)
    PROVE  x = p
  <1>1. PICK k \in Int : x = k * p
    BY DEF Multiple
  <1>2. k >= 1
    BY <1>1, SMT
  <1>3. k <= 1
    BY <1>1, SMT
  <1> QED
    BY <1>1, <1>2, <1>3, SMT

-----------------------------------------------------------------------------
(* The inductive invariant: the checked invariants, and what a publication *)
(* in progress, the grid, the period's batch and the wire have in common.  *)

PublishingIsLate == worker = "publishing" => active # NoText /\ due <= 0

OnGrid == active # NoText => Multiple(due + elapsed, Period)

\* A period that had its batch has its next deadline ahead.
SlotKept ==
    slotUsed => IF worker = "publishing" THEN elapsed = 0 => due = 0
                ELSE due > 0

\* The last message is the active task's and carries its tick.
WireFollowsTask ==
    IF active = NoText THEN tick = 0
    ELSE wire.task = active /\ wire.sequence = tick

IInv ==
    /\ TypeOK
    /\ NoLostWakeup
    /\ OneTaskAtATime
    /\ NoReadyTaskWaits
    /\ PublishingIsLate
    /\ OnGrid
    /\ SlotKept
    /\ WireFollowsTask

\* The initial state satisfies the invariant.
LEMMA InitIInv == Init => IInv
  <1> SUFFICES ASSUME Init PROVE IInv
    OBVIOUS
  <1> USE GeneratorAssumption DEF Init
  <1>1. TypeOK
    <2>1. commands \in Seq(Command) /\ subscribed \in [Kind -> SUBSET Symbol]
      OBVIOUS
    <2>2. wire \in [what : {"nothing", "profiles", "snapshot", "batch"},
                    task : Task \cup {NoText},
                    sequence : 0 .. MaxSequence - 1]
      BY DEF Message
    <2>3. due \in -MaxLate .. Period /\ elapsed \in 0 .. Period - 1
      BY SMT
    <2>4. tick \in 0 .. MaxSequence - 1
      BY SMT
    <2> QED
      BY <2>1, <2>2, <2>3, <2>4 DEF TypeOK
  <1>2. NoLostWakeup /\ OneTaskAtATime /\ NoReadyTaskWaits
    BY DEF NoLostWakeup, OneTaskAtATime, NoReadyTaskWaits
  <1>3. PublishingIsLate /\ OnGrid /\ SlotKept /\ WireFollowsTask
    BY DEF PublishingIsLate, OnGrid, SlotKept, WireFollowsTask
  <1> QED
    BY <1>1, <1>2, <1>3 DEF IInv

-----------------------------------------------------------------------------
(* Commands.                                                               *)

Subscriptions == [Kind -> SUBSET Symbol]

Messages == [what : {"nothing", "profiles", "snapshot", "batch"},
             task : Task \cup {NoText}, sequence : 0 .. MaxSequence - 1]

\* What startWhenReady leaves behind when the command left a, p and w: the
\* task goes on undisturbed, or there is none, or a new one begins.
Effect(a, p, w) ==
    /\ subscribed' \in Subscriptions
    /\ pending' \in {p, NoText}
    /\ NoReadyTaskWaits'
    /\ \/ /\ a # NoText
          /\ active' = a
          /\ pending' = NoText
          /\ wire' = w
          /\ UNCHANGED <<time, tick>>
       \/ /\ a = NoText
          /\ active' = NoText
          /\ ResetTime
          /\ tick' = 0
          /\ wire' \in Messages
          /\ wire' \in {w, Message("profiles", p, 0)}
       \/ /\ a = NoText
          /\ active' = p
          /\ p # NoText
          /\ pending' = NoText
          /\ ResetTime
          /\ tick' = 0
          /\ wire' = Message("profiles", p, 0)

\* startWhenReady activates the prepared task, or keeps waiting for it.
LEMMA StartEffect ==
    ASSUME NEW a \in Task \cup {NoText}, NEW p \in Task \cup {NoText},
           NEW subs \in Subscriptions, NEW w \in Messages,
           a = NoText \/ p = NoText,
           StartWhenReady(a, p, subs, w)
    PROVE  Effect(a, p, w)
  <1> USE GeneratorAssumption
  <1>1. subscribed' = subs
    BY DEF StartWhenReady
  <1>2. Message("profiles", p, 0) \in Messages
    BY DEF Message, Messages
  <1>3. CASE a # NoText \/ p = NoText \/ ~Ready(p, subs)
    <2>1. active' = a /\ pending' = p /\ wire' = w
      BY <1>3 DEF StartWhenReady
    <2>2. NoReadyTaskWaits'
      BY <1>1, <1>3, <2>1 DEF NoReadyTaskWaits
    <2>3. CASE a = NoText
      <3>1. ResetTime /\ tick' = 0
        BY <1>3, <2>3 DEF StartWhenReady
      <3> QED
        BY <1>1, <2>1, <2>2, <2>3, <3>1 DEF Effect
    <2>4. CASE a # NoText
      <3>1. UNCHANGED <<time, tick>>
        BY <1>3, <2>4 DEF StartWhenReady
      <3> QED
        BY <1>1, <2>1, <2>2, <2>4, <3>1 DEF Effect
    <2> QED
      BY <2>3, <2>4
  <1>4. CASE ~(a # NoText \/ p = NoText \/ ~Ready(p, subs))
    <2>1. /\ pending' = NoText
          /\ ResetTime
          /\ tick' = 0
          /\ \/ active' = p /\ wire' = Message("profiles", p, 0)
             \/ active' = NoText /\ wire' \in {w, Message("profiles", p, 0)}
      BY <1>4 DEF StartWhenReady
    <2>2. NoReadyTaskWaits'
      BY <2>1 DEF NoReadyTaskWaits
    <2> QED
      BY <1>1, <1>2, <1>4, <2>1, <2>2 DEF Effect
  <1> QED
    BY <1>3, <1>4

\* The command at the head of the queue and the subscriptions it leaves.
LEMMA CommandTypes ==
    ASSUME NEW c \in Command, c.type \notin {"START", "STOP"}
    PROVE  /\ c.kind \in Kind
           /\ c.type = "SYMBOLS_ADDED" => c.symbols \in SUBSET Symbol
  <1> USE GeneratorAssumption
  <1>1. CASE \E t \in Text \cup {NoText} : c = Start(t) \/ c = Stop(t)
    BY <1>1 DEF Start, Stop
  <1>2. CASE \E k \in Kind, u \in Update, r \in BOOLEAN : c = Added(k, u, r)
    BY <1>2 DEF Added
  <1>3. CASE \E k \in Kind, u \in Update : c = Removed(k, u)
    BY <1>3 DEF Removed
  <1>4. CASE \E k \in Kind : c = Closed(k)
    BY <1>4 DEF Closed
  <1> QED
    BY <1>1, <1>2, <1>3, <1>4 DEF Command

\* Every command ends in startWhenReady, with at most one of active and
\* pending left and nothing accepted while there is either.
LEMMA CommandEffect ==
    ASSUME TypeOK, OneTaskAtATime, HandleCommand
    PROVE  \E a, p \in Task \cup {NoText}, w \in Messages :
               /\ a \in {active, NoText}
               /\ \/ p \in {pending, NoText}
                  \/ active = NoText /\ pending = NoText
               /\ \/ w = wire
                  \/ active # NoText /\ w = Message("snapshot", active, tick)
               /\ Effect(a, p, w)
  <1> USE GeneratorAssumption
  <1> DEFINE c == Head(commands)
  <1>1. /\ active \in Task \cup {NoText}
        /\ pending \in Task \cup {NoText}
        /\ subscribed \in Subscriptions
        /\ wire \in Messages
        /\ tick \in 0 .. MaxSequence - 1
        /\ c \in Command
    BY DEF TypeOK, Subscriptions, Messages, HandleCommand
  <1>2. CASE c.type = "START" /\ HandleStart(c)
    <2> DEFINE accepted == c.text \in Task /\ active = NoText /\ pending = NoText
               p == IF accepted THEN c.text ELSE pending
    <2>1. StartWhenReady(active, p, subscribed, wire)
      BY <1>2 DEF HandleStart
    <2>2. p \in Task \cup {NoText} /\ (active = NoText \/ p = NoText)
      BY <1>1 DEF OneTaskAtATime
    <2>3. p \in {pending, NoText} \/ (active = NoText /\ pending = NoText)
      OBVIOUS
    <2> HIDE DEF p
    <2>4. Effect(active, p, wire)
      BY <1>1, <2>1, <2>2, StartEffect
    <2> QED
      BY <1>1, <2>2, <2>3, <2>4
  <1>3. CASE c.type = "STOP" /\ HandleStop(c)
    <2> DEFINE after(t) == IF c.text \in {NoText, t} THEN NoText ELSE t
               a == after(active)
               p == after(pending)
    <2>1. StartWhenReady(a, p, subscribed, wire)
      BY <1>3 DEF HandleStop
    <2>2. a \in {active, NoText} /\ p \in {pending, NoText}
      OBVIOUS
    <2> HIDE DEF a, p
    <2>3. Effect(a, p, wire)
      BY <1>1, <2>1, <2>2, StartEffect DEF OneTaskAtATime
    <2> QED
      BY <1>1, <2>2, <2>3
  <1>4. CASE c.type \notin {"START", "STOP"} /\ HandleSymbols(c)
    <2> DEFINE old == subscribed[c.kind]
               new == IF c.type = "SYMBOLS_ADDED" THEN old \cup c.symbols
                      ELSE IF c.type = "SYMBOLS_REMOVED" THEN old \ c.symbols
                      ELSE {}
               subs == [subscribed EXCEPT ![c.kind] = new]
               answered == /\ active # NoText
                           /\ c.type = "SYMBOLS_ADDED"
                           /\ c.kind = "TIME_AND_SALE"
                           /\ c.request
               w == IF answered THEN Message("snapshot", active, tick) ELSE wire
    <2>1. StartWhenReady(active, pending, subs, w)
      BY <1>4 DEF HandleSymbols
    <2>2. /\ c.kind \in Kind
          /\ c.type = "SYMBOLS_ADDED" => c.symbols \in SUBSET Symbol
      BY <1>1, <1>4, CommandTypes
    <2>3. subs \in Subscriptions
      <3>1. old \in SUBSET Symbol
        BY <1>1, <2>2 DEF Subscriptions
      <3>2. new \in SUBSET Symbol
        BY <2>2, <3>1
      <3> HIDE DEF new
      <3> QED
        BY <1>1, <2>2, <3>2 DEF Subscriptions
    <2>4. w \in Messages
      BY <1>1 DEF Messages, Message
    <2>5. w = wire \/ (active # NoText /\ w = Message("snapshot", active, tick))
      OBVIOUS
    <2> HIDE DEF subs, w
    <2>6. Effect(active, pending, w)
      BY <1>1, <2>1, <2>3, <2>4, StartEffect DEF OneTaskAtATime
    <2> QED
      BY <1>1, <2>4, <2>5, <2>6
  <1> QED
    BY <1>2, <1>3, <1>4 DEF HandleCommand

-----------------------------------------------------------------------------
(* Every step keeps the invariant.                                         *)

\* A step that touches neither the task nor its time, and neither begins nor
\* ends a publication, only has types and wakeups to keep.
LEMMA SignalStep ==
    ASSUME IInv, TypeOK', NoLostWakeup', UNCHANGED <<time, task>>,
           worker' = worker \/ (worker # "publishing" /\ worker' # "publishing")
    PROVE  IInv'
  <1>1. /\ UNCHANGED <<due, elapsed, slotUsed>>
        /\ UNCHANGED <<active, pending, subscribed, tick, wire>>
    BY DEF time, task
  <1>2. OneTaskAtATime' /\ NoReadyTaskWaits' /\ WireFollowsTask'
    BY <1>1 DEF IInv, OneTaskAtATime, NoReadyTaskWaits, Ready, WireFollowsTask
  <1>3. PublishingIsLate' /\ OnGrid' /\ SlotKept'
    BY <1>1 DEF IInv, PublishingIsLate, OnGrid, SlotKept, Multiple
  <1> QED
    BY <1>2, <1>3 DEF IInv

\* The listeners only queue well-formed commands.
LEMMA ObserversStep ==
    ASSUME IInv, Observers
    PROVE  IInv'
  <1>1. PICK c \in Command : Enqueue(c)
    <2> USE GeneratorAssumption DEF Command
    <2>1. CASE EnqueueControl
      BY <2>1 DEF EnqueueControl
    <2>2. CASE EnqueueSymbols
      BY <2>2 DEF EnqueueSymbols
    <2>3. CASE EnqueueSubscriptionClosed
      BY <2>3 DEF EnqueueSubscriptionClosed
    <2> QED
      BY <2>1, <2>2, <2>3 DEF Observers
  <1>2. UNCHANGED <<stopping, worker, server, notified, time, task>>
    BY <1>1 DEF Enqueue
  <1>3. TypeOK'
    <2>1. commands' \in Seq(Command) /\ notifying' \in Nat
      BY <1>1 DEF Enqueue, IInv, TypeOK
    <2> QED
      BY <1>2, <2>1 DEF IInv, TypeOK, time, task
  <1>4. NoLostWakeup'
    BY <1>1, <1>2 DEF Enqueue, NoLostWakeup, IInv, TypeOK
  <1> QED
    BY <1>2, <1>3, <1>4, SignalStep

\* Notifying, waiting, waking and joining.
LEMMA SignalsStep ==
    ASSUME IInv,
           \/ Notify \/ StopGenerator \/ Join \/ Top \/ Wake \/ SpuriousWake
           \/ TimeOut \/ SpinEnds
    PROVE  IInv'
  <1>0. TypeOK /\ NoLostWakeup
    BY DEF IInv
  <1>1. /\ UNCHANGED <<time, task>>
        /\ worker' = worker \/ (worker # "publishing" /\ worker' # "publishing")
    BY DEF Notify, StopGenerator, Join, Top, Wake, SpuriousWake, TimeOut,
           SpinEnds
  <1>2. TypeOK'
    <2>1. commands' = commands /\ stopping' \in BOOLEAN
      BY <1>0 DEF TypeOK, Notify, StopGenerator, Join, Top, Wake, SpuriousWake,
                  TimeOut, SpinEnds, signals
    <2>3. notifying' \in Nat
      BY <1>0 DEF TypeOK, Notify, StopGenerator, Join, Top, Wake, SpuriousWake,
                  TimeOut, SpinEnds, signals
    <2>4. notified' \in BOOLEAN
      BY <1>0, Zenon DEF TypeOK, Notify, StopGenerator, Join, Top, Wake,
                         SpuriousWake, TimeOut, SpinEnds, signals
    <2>2. /\ worker' \in {"loop", "waiting", "timedWait", "spinning", "locked",
                          "publishing", "exited"}
          /\ server' \in {"running", "closing", "exited"}
      BY <1>0 DEF TypeOK, Notify, StopGenerator, Join, Top, Wake, SpuriousWake,
                  TimeOut, SpinEnds
    <2> QED
      BY <1>0, <1>1, <2>1, <2>2, <2>3, <2>4 DEF TypeOK, time, task
  <1>3. NoLostWakeup'
    <2>1. CASE Notify
      BY <1>0, <2>1 DEF Notify, NoLostWakeup, Woken
    <2>2. CASE StopGenerator
      BY <1>0, <2>2 DEF StopGenerator, NoLostWakeup, TypeOK
    <2>3. CASE Join
      BY <1>0, <2>3 DEF Join, NoLostWakeup, Woken, signals
    <2>4. CASE Top
      BY <2>4 DEF Top, NoLostWakeup, Woken
    <2>5. CASE Wake
      BY <2>5 DEF Wake, NoLostWakeup, Woken
    <2>6. CASE SpuriousWake \/ TimeOut \/ SpinEnds
      BY <2>6 DEF SpuriousWake, TimeOut, SpinEnds, NoLostWakeup
    <2> QED
      BY <2>1, <2>2, <2>3, <2>4, <2>5, <2>6
  <1> QED
    BY <1>1, <1>2, <1>3, SignalStep

\* No task, no time: everything about the grid and the wire holds.
LEMMA TasklessStep ==
    ASSUME active' = NoText, ResetTime, tick' = 0, worker' # "publishing"
    PROVE  PublishingIsLate' /\ OnGrid' /\ SlotKept' /\ WireFollowsTask'
  BY DEF PublishingIsLate, OnGrid, SlotKept, WireFollowsTask, ResetTime

\* The worker's return takes its task along.
LEMMA ExitStep ==
    ASSUME IInv, Exit
    PROVE  IInv'
  <1> USE GeneratorAssumption
  <1>1. active' = NoText /\ pending' = NoText /\ ResetTime /\ tick' = 0
    BY DEF Exit
  <1>2. worker' = "exited"
    BY DEF Exit
  <1>3. TypeOK'
    <2>1. /\ 0 \in -MaxLate .. Period
          /\ 0 \in 0 .. Period - 1
          /\ 0 \in 0 .. MaxSequence - 1
      BY SMT
    <2>2. /\ UNCHANGED <<commands, stopping, server, notifying, notified>>
          /\ UNCHANGED <<subscribed, wire>>
      BY DEF Exit, signals
    <2>3. active' \in Task \cup {NoText} /\ pending' \in Task \cup {NoText}
      BY <1>1
    <2> QED
      BY <1>1, <1>2, <2>1, <2>2, <2>3 DEF IInv, TypeOK, ResetTime
  <1>4. NoLostWakeup' /\ OneTaskAtATime' /\ NoReadyTaskWaits'
    BY <1>1, <1>2 DEF NoLostWakeup, OneTaskAtATime, NoReadyTaskWaits
  <1> QED
    BY <1>1, <1>2, <1>3, <1>4, TasklessStep DEF IInv

\* Whatever a command leaves, the task, its time and the wire fit together.
LEMMA CommandStep ==
    ASSUME IInv, HandleCommand
    PROVE  IInv'
  <1> USE GeneratorAssumption
  <1>0. TypeOK /\ OneTaskAtATime /\ NoReadyTaskWaits
    BY DEF IInv
  <1>1. PICK a, p \in Task \cup {NoText}, w \in Messages :
            /\ a \in {active, NoText}
            /\ \/ p \in {pending, NoText}
               \/ active = NoText /\ pending = NoText
            /\ \/ w = wire
               \/ active # NoText /\ w = Message("snapshot", active, tick)
            /\ Effect(a, p, w)
    BY <1>0, CommandEffect
  <1>2. /\ worker = "locked" /\ worker' = "loop"
        /\ commands' \in Seq(Command)
        /\ UNCHANGED <<stopping, server, notifying, notified>>
    BY <1>0 DEF HandleCommand, TypeOK, signals
  <1>3. /\ 0 \in -MaxLate .. Period
        /\ 0 \in 0 .. Period - 1
        /\ 0 \in 0 .. MaxSequence - 1
    BY SMT
  <1>4. /\ subscribed' \in Subscriptions
        /\ pending' \in {p, NoText}
        /\ NoReadyTaskWaits'
    BY <1>1 DEF Effect
  <1>5. NoLostWakeup'
    BY <1>2 DEF NoLostWakeup
  <1>6. CASE /\ a # NoText
             /\ active' = a
             /\ pending' = NoText
             /\ wire' = w
             /\ UNCHANGED <<time, tick>>
    <2>1. a = active /\ active' = active
      BY <1>1, <1>6
    <2>2. UNCHANGED <<due, elapsed, slotUsed, tick>>
      BY <1>6 DEF time
    <2>3. TypeOK'
      BY <1>0, <1>2, <1>4, <1>6, <2>2 DEF TypeOK, Subscriptions, Messages
    <2>4. PublishingIsLate' /\ OnGrid' /\ SlotKept'
      BY <1>2, <2>1, <2>2
      DEF IInv, PublishingIsLate, OnGrid, SlotKept, Multiple
    <2>5. WireFollowsTask'
      BY <1>1, <1>6, <2>1, <2>2 DEF IInv, WireFollowsTask, Message
    <2> QED
      BY <1>4, <1>5, <1>6, <2>3, <2>4, <2>5 DEF IInv, OneTaskAtATime
  <1>7. CASE /\ a = NoText
             /\ active' = NoText
             /\ ResetTime
             /\ tick' = 0
             /\ wire' \in Messages
    <2>1. TypeOK'
      BY <1>0, <1>2, <1>3, <1>4, <1>7
      DEF TypeOK, Subscriptions, Messages, ResetTime
    <2>2. PublishingIsLate' /\ OnGrid' /\ SlotKept' /\ WireFollowsTask'
      BY <1>2, <1>7, TasklessStep
    <2> QED
      BY <1>4, <1>5, <1>7, <2>1, <2>2 DEF IInv, OneTaskAtATime
  <1>8. CASE /\ a = NoText
             /\ active' = p
             /\ p # NoText
             /\ pending' = NoText
             /\ ResetTime
             /\ tick' = 0
             /\ wire' = Message("profiles", p, 0)
    <2>1. wire' \in Messages
      BY <1>3, <1>8 DEF Message, Messages
    <2>2. TypeOK'
      BY <1>0, <1>2, <1>3, <1>4, <1>8, <2>1
      DEF TypeOK, Subscriptions, Messages, ResetTime
    <2>3. OnGrid'
      <3>1. Multiple(0, Period)
        BY SMT DEF Multiple
      <3>2. due' = 0 /\ elapsed' = 0 /\ due' + elapsed' = 0
        BY <1>8 DEF ResetTime
      <3> QED
        BY <3>1, <3>2 DEF OnGrid
    <2>4. PublishingIsLate' /\ SlotKept'
      BY <1>2, <1>8 DEF PublishingIsLate, SlotKept, ResetTime
    <2>5. WireFollowsTask'
      BY <1>8 DEF WireFollowsTask, Message
    <2> QED
      BY <1>4, <1>5, <1>8, <2>2, <2>3, <2>4, <2>5 DEF IInv, OneTaskAtATime
  <1> QED
    BY <1>1, <1>6, <1>7, <1>8 DEF Effect

\* A batch begins only late enough, and marks its period.
LEMMA PublishBeginStep ==
    ASSUME IInv, PublishBegin
    PROVE  IInv'
  <1> USE GeneratorAssumption
  <1>1. /\ worker = "locked" /\ worker' = "publishing"
        /\ active # NoText
        /\ due <= 0
        /\ tick' = (tick + 1) % MaxSequence
        /\ wire' = Message("batch", active, tick')
        /\ slotUsed' = (slotUsed \/ elapsed # 0 \/ due = 0)
        /\ UNCHANGED <<commands, stopping, server, notifying, notified, due,
                       elapsed, active, pending, subscribed>>
    BY DEF PublishBegin, Quiet, signals
  <1>2. tick' \in 0 .. MaxSequence - 1
    BY <1>1, SMT DEF IInv, TypeOK
  <1>3. TypeOK'
    <2>1. wire' \in Messages
      BY <1>1, <1>2 DEF IInv, TypeOK, Message, Messages
    <2>2. slotUsed' \in BOOLEAN
      BY <1>1
    <2> QED
      BY <1>1, <1>2, <2>1, <2>2 DEF IInv, TypeOK, Messages
  <1>4. ~slotUsed
    BY <1>1 DEF IInv, TypeOK, SlotKept
  <1>5. SlotKept'
    BY <1>1, <1>4 DEF SlotKept
  <1>6. NoLostWakeup' /\ OneTaskAtATime' /\ NoReadyTaskWaits'
    BY <1>1 DEF IInv, NoLostWakeup, OneTaskAtATime, NoReadyTaskWaits, Ready
  <1>7. PublishingIsLate' /\ OnGrid' /\ WireFollowsTask'
    BY <1>1 DEF IInv, PublishingIsLate, OnGrid, WireFollowsTask, Message,
                Multiple
  <1> QED
    BY <1>3, <1>5, <1>6, <1>7 DEF IInv

\* The next deadline is on the grid, and ahead if its period had a batch.
LEMMA PublishEndStep ==
    ASSUME IInv, PublishEnd
    PROVE  IInv'
  <1> USE GeneratorAssumption
  <1>1. /\ worker = "publishing" /\ worker' = "loop"
        /\ due' = AfterPublication
        /\ UNCHANGED <<commands, stopping, server, notifying, notified,
                       elapsed, slotUsed>>
        /\ UNCHANGED <<active, pending, subscribed, tick, wire>>
    BY DEF PublishEnd, signals, task
  <1>2. /\ TypeOK
        /\ active # NoText
        /\ due <= 0
        /\ Multiple(due + elapsed, Period)
        /\ slotUsed => (elapsed = 0 => due = 0)
    BY <1>1 DEF IInv, PublishingIsLate, OnGrid, SlotKept
  <1>3. due \in Int /\ elapsed \in 0 .. Period - 1
    BY <1>2, SMT DEF TypeOK
  <1> DEFINE next == due + Period
             quotient == (-next) \div Period
  <1>4. /\ due' \in 0 .. Period
        /\ \E m \in Int : due' = due + Period * m
        /\ due' = 0 => next = 0
    <2>1. CASE next < 0
      <3>1. due' = next + Period * (quotient + 1)
        BY <1>1, <2>1 DEF AfterPublication
      <3>2. -next \in Nat
        BY <1>3, <2>1, SMT
      <3>3. /\ quotient \in Nat
            /\ Period * quotient <= -next
            /\ -next < Period * quotient + Period
        BY <3>2, SkippedDeadlines
      <3> HIDE DEF quotient
      <3>4. Period * quotient + Period = Period * (quotient + 1)
        BY <3>3, SMT
      <3>5. quotient + 2 \in Int
        BY <3>3, SMT
      <3>6. due' \in 1 .. Period
        BY <1>3, <3>1, <3>3, <3>4, SMT
      <3>7. due' = due + Period * (quotient + 2)
        BY <1>3, <3>1, <3>3, SMT
      <3>8. \E m \in Int : due' = due + Period * m
        BY <3>5, <3>7
      <3> QED
        BY <3>6, <3>8, SMT
    <2>2. CASE next >= 0
      <3>1. due' = next
        BY <1>1, <1>3, <2>2 DEF AfterPublication
      <3>2. next = due + Period * 1
        BY SMT
      <3> QED
        BY <1>2, <1>3, <2>2, <3>1, <3>2, SMT
    <2> QED
      BY <1>3, <2>1, <2>2, SMT
  <1>5. TypeOK'
    <2>1. due' \in -MaxLate .. Period
      BY <1>4, SMT
    <2> QED
      BY <1>1, <1>2, <2>1 DEF TypeOK
  <1>6. OnGrid'
    <2>1. PICK m \in Int : due' = due + Period * m
      BY <1>4
    <2>2. due' + elapsed' = (due + elapsed) + Period * m
      BY <1>1, <1>3, <2>1, SMT
    <2>3. due + elapsed \in Int
      BY <1>3, SMT
    <2>4. Multiple((due + elapsed) + Period * m, Period)
      BY <1>2, <2>3, MultipleShift
    <2> QED
      BY <2>2, <2>4 DEF OnGrid
  <1>7. SlotKept'
    <2> SUFFICES ASSUME slotUsed PROVE due' > 0
      BY <1>1 DEF SlotKept
    <2> SUFFICES ASSUME due' = 0 PROVE FALSE
      BY <1>4, SMT
    <2>1. due = -Period
      BY <1>3, <1>4, SMT
    <2>2. elapsed # 0
      BY <1>2, <2>1, SMT
    <2>3. due + elapsed + Period * 1 = elapsed
      BY <1>3, <2>1, SMT
    <2>4. Multiple(elapsed, Period)
      BY <1>2, <1>3, <2>3, MultipleShift
    <2>5. elapsed \in 1 .. Period
      BY <1>3, <2>2, SMT
    <2> QED
      BY <1>3, <2>4, <2>5, MultipleBetween, SMT
  <1>8. /\ NoLostWakeup' /\ OneTaskAtATime' /\ NoReadyTaskWaits'
        /\ PublishingIsLate' /\ WireFollowsTask'
    BY <1>1 DEF IInv, NoLostWakeup, OneTaskAtATime, NoReadyTaskWaits, Ready,
                PublishingIsLate, WireFollowsTask
  <1> QED
    BY <1>5, <1>6, <1>7, <1>8 DEF IInv

\* Time passing stays on the grid, and a period ends when its deadline is due.
LEMMA ClockStep ==
    ASSUME IInv, Clock
    PROVE  IInv'
  <1> USE GeneratorAssumption
  <1>1. /\ active # NoText
        /\ due > -MaxLate
        /\ due' = due - 1
        /\ elapsed' = (elapsed + 1) % Period
        /\ slotUsed' = (slotUsed /\ elapsed' # 0)
        /\ UNCHANGED <<commands, stopping, worker, server, notifying, notified>>
        /\ UNCHANGED <<active, pending, subscribed, tick, wire>>
    BY DEF Clock, signals, task
  <1>2. TypeOK /\ due \in -MaxLate .. Period /\ elapsed \in 0 .. Period - 1
    BY DEF IInv, TypeOK
  <1>3. elapsed' = IF elapsed + 1 = Period THEN 0 ELSE elapsed + 1
    BY <1>1, <1>2, ModuloStep
  <1>4. Multiple(due + elapsed, Period) /\ due + elapsed \in Int
    BY <1>1, <1>2, SMT DEF IInv, OnGrid
  <1>5. TypeOK'
    <2>1. due' \in -MaxLate .. Period /\ elapsed' \in 0 .. Period - 1
      BY <1>1, <1>2, <1>3, SMT
    <2>2. slotUsed' \in BOOLEAN
      BY <1>1
    <2> QED
      BY <1>1, <1>2, <2>1, <2>2 DEF TypeOK
  <1>6. OnGrid'
    <2>1. CASE elapsed + 1 = Period
      <3>1. due' + elapsed' = (due + elapsed) + Period * (-1)
        BY <1>1, <1>2, <1>3, <2>1, SMT
      <3>2. Multiple((due + elapsed) + Period * (-1), Period)
        <4>1. -1 \in Int
          BY SMT
        <4> QED
          BY <1>4, <4>1, MultipleShift
      <3> QED
        BY <3>1, <3>2 DEF OnGrid
    <2>2. CASE elapsed + 1 # Period
      <3>1. due' + elapsed' = due + elapsed
        BY <1>1, <1>2, <1>3, <2>2, SMT
      <3> QED
        BY <1>4, <3>1 DEF OnGrid, Multiple
    <2> QED
      BY <2>1, <2>2
  <1>7. SlotKept'
    <2> SUFFICES ASSUME slotUsed, elapsed' # 0, worker # "publishing"
                 PROVE  due' > 0
      BY <1>1 DEF SlotKept
    <2>1. due > 0
      BY DEF IInv, SlotKept
    <2> SUFFICES ASSUME due = 1 PROVE FALSE
      BY <1>1, <1>2, <2>1, SMT
    <2>2. due + elapsed \in 1 .. Period
      BY <1>2, SMT
    <2>3. due + elapsed = Period
      BY <1>4, <2>2, MultipleBetween
    <2> QED
      BY <1>2, <1>3, <2>3, SMT
  <1>8. PublishingIsLate'
    BY <1>1, <1>2, SMT DEF IInv, PublishingIsLate
  <1>9. /\ NoLostWakeup' /\ OneTaskAtATime' /\ NoReadyTaskWaits'
        /\ WireFollowsTask'
    BY <1>1 DEF IInv, NoLostWakeup, OneTaskAtATime, NoReadyTaskWaits, Ready,
                WireFollowsTask, Woken
  <1> QED
    BY <1>5, <1>6, <1>7, <1>8, <1>9 DEF IInv

\* So does every step of the specification.
LEMMA StepIInv ==
    ASSUME IInv, [Next]_vars
    PROVE  IInv'
  <1>1. CASE Observers
    BY <1>1, ObserversStep
  <1>2. CASE Notify \/ StopGenerator \/ Join
    BY <1>2, SignalsStep
  <1>3. CASE Worker
    BY <1>3, SignalsStep, ExitStep, CommandStep, PublishBeginStep,
       PublishEndStep DEF Worker
  <1>4. CASE SpuriousWake
    BY <1>4, SignalsStep
  <1>5. CASE Clock
    BY <1>5, ClockStep
  <1>6. CASE Ended \/ UNCHANGED vars
    <2>1. /\ UNCHANGED <<time, task>> /\ UNCHANGED <<commands, stopping, worker>>
          /\ UNCHANGED <<server, notifying, notified>>
      BY <1>6 DEF Ended, vars, signals
    <2>2. TypeOK'
      BY <2>1 DEF IInv, TypeOK, time, task
    <2>3. NoLostWakeup'
      BY <2>1 DEF IInv, NoLostWakeup, Woken
    <2> QED
      BY <2>1, <2>2, <2>3, SignalStep
  <1> QED
    BY <1>1, <1>2, <1>3, <1>4, <1>5, <1>6 DEF Next

\* The invariant holds of every behaviour.
LEMMA Invariance == Spec => []IInv
  BY InitIInv, StepIInv, PTL DEF Spec

-----------------------------------------------------------------------------
(* Results.                                                                *)

\* Every variable keeps its type; in particular the deadline is never more
\* than a period ahead, however many deadlines were skipped.
THEOREM TypeCorrect == Spec => []TypeOK
  <1>1. IInv => TypeOK
    BY DEF IInv
  <1> QED
    BY <1>1, Invariance, PTL

\* A worker that waits although it should not has a notification coming.
THEOREM WakeupsReachWorker == Spec => []NoLostWakeup
  <1>1. IInv => NoLostWakeup
    BY DEF IInv
  <1> QED
    BY <1>1, Invariance, PTL

\* There is never a pending task beside an active one.
THEOREM OneLoadProfile == Spec => []OneTaskAtATime
  <1>1. IInv => OneTaskAtATime
    BY DEF IInv
  <1> QED
    BY <1>1, Invariance, PTL

\* A task whose subscriptions are complete is not left pending.
THEOREM ReadyTaskStarts == Spec => []NoReadyTaskWaits
  <1>1. IInv => NoReadyTaskWaits
    BY DEF IInv
  <1> QED
    BY <1>1, Invariance, PTL

\* The deadline never drifts off the grid that began with the task.
THEOREM DeadlinesOnGrid == Spec => []GridKept
  <1>1. IInv => GridKept
    <2> SUFFICES ASSUME IInv, active # NoText
                 PROVE  (due + elapsed) % Period = 0
      BY DEF GridKept
    <2>1. Multiple(due + elapsed, Period)
      BY DEF IInv, OnGrid
    <2>2. due + elapsed \in Int /\ Period \in Nat \ {0}
      BY GeneratorAssumption, SMT DEF IInv, TypeOK
    <2> QED
      BY <2>1, <2>2, MultipleModulo
  <1> QED
    BY <1>1, Invariance, PTL

\* No two batches begin within one period of the grid.
THEOREM NeverBursts == Spec => NoBurst
  <1>1. ASSUME IInv, [Next]_vars, worker' = "publishing", worker # "publishing"
        PROVE  ~slotUsed
    <2>1. CASE PublishBegin
      BY <1>1, <2>1 DEF PublishBegin, Quiet, IInv, TypeOK, SlotKept
    <2>2. CASE Observers \/ Notify \/ StopGenerator \/ Join \/ Ended
                 \/ SpuriousWake \/ Clock
      BY <1>1, <2>2 DEF Observers, EnqueueControl, EnqueueSymbols,
         EnqueueSubscriptionClosed, Enqueue, Notify, StopGenerator, Join, Ended,
         SpuriousWake, Clock, vars
    <2>3. CASE Worker /\ ~PublishBegin
      BY <1>1, <2>3 DEF Worker, Top, Wake, TimeOut, SpinEnds, Exit,
         HandleCommand, PublishEnd
    <2>4. CASE UNCHANGED vars
      BY <1>1, <2>4 DEF vars
    <2> QED
      BY <1>1, <2>1, <2>2, <2>3, <2>4 DEF Next
  <1> QED
    BY <1>1, Invariance, PTL DEF NoBurst, Spec

\* A batch continues its own task's messages.
THEOREM BatchesFollowOn == Spec => BatchesContiguous
  <1> DEFINE Follows == /\ wire'.task = wire.task
                        /\ wire'.sequence = (wire.sequence + 1) % MaxSequence
  <1>1. ASSUME IInv, [Next]_vars, wire' # wire, wire'.what = "batch"
        PROVE  Follows
    <2>1. CASE PublishBegin
      BY <1>1, <2>1 DEF PublishBegin, IInv, WireFollowsTask, Message
    <2>2. CASE HandleCommand
      <3>1. PICK a, p \in Task \cup {NoText}, w \in Messages :
               /\ w = wire \/ w = Message("snapshot", active, tick)
               /\ Effect(a, p, w)
        BY <1>1, <2>2, CommandEffect DEF IInv
      <3>2. wire' \in {w, Message("profiles", p, 0)}
        BY <3>1 DEF Effect
      <3> QED
        BY <1>1, <3>1, <3>2 DEF Message
    <2>3. CASE Observers \/ Notify \/ StopGenerator \/ Join \/ Ended
                 \/ SpuriousWake \/ Clock
      BY <1>1, <2>3 DEF Observers, EnqueueControl, EnqueueSymbols,
         EnqueueSubscriptionClosed, Enqueue, Notify, StopGenerator, Join, Ended,
         SpuriousWake, Clock, vars, task
    <2>4. CASE Top \/ Wake \/ TimeOut \/ SpinEnds \/ Exit \/ PublishEnd
      BY <1>1, <2>4 DEF Top, Wake, TimeOut, SpinEnds, Exit, PublishEnd, task
    <2>5. CASE UNCHANGED vars
      BY <1>1, <2>5 DEF vars, task
    <2> QED
      BY <1>1, <2>1, <2>2, <2>3, <2>4, <2>5 DEF Next, Worker
  <1> QED
    BY <1>1, Invariance, PTL DEF BatchesContiguous, Spec

-----------------------------------------------------------------------------
(* Refinement.                                                             *)

\* What TaskLifecycle sees of a state.
Seen == <<active, pending, tick>>

\* Every other step leaves alone what the lifecycle of a task sees.
LEMMA UnseenSteps ==
    ASSUME IInv, [Next]_vars, ~HandleCommand, ~PublishBegin, ~Exit
    PROVE  UNCHANGED Seen
  <1>1. CASE Observers \/ Notify \/ StopGenerator \/ Join \/ Ended
               \/ SpuriousWake \/ Clock
    BY <1>1 DEF Seen, Observers, EnqueueControl, EnqueueSymbols,
       EnqueueSubscriptionClosed, Enqueue, Notify, StopGenerator, Join, Ended,
       SpuriousWake, Clock, vars, task
  <1>2. CASE Top \/ Wake \/ TimeOut \/ SpinEnds \/ PublishEnd
    BY <1>2 DEF Seen, Top, Wake, TimeOut, SpinEnds, PublishEnd, task
  <1>3. CASE UNCHANGED vars
    BY <1>3 DEF Seen, vars, task
  <1> QED
    BY <1>1, <1>2, <1>3 DEF Next, Worker

\* The generator's steps are steps of the lifecycle of one task.
LEMMA LifecycleStep ==
    ASSUME IInv, [Next]_vars
    PROVE  [Lifecycle!Next]_(Lifecycle!vars)
  <1> USE GeneratorAssumption
  <1>0. /\ active \in Task \cup {NoText} /\ pending \in Task \cup {NoText}
        /\ NoText \notin Task
        /\ active = NoText \/ pending = NoText
        /\ active = NoText => tick = 0
    BY DEF IInv, TypeOK, OneTaskAtATime, WireFollowsTask
  <1>1. CASE HandleCommand
    <2>1. PICK a, p \in Task \cup {NoText}, w \in Messages :
             /\ a \in {active, NoText}
             /\ \/ p \in {pending, NoText}
                \/ active = NoText /\ pending = NoText
             /\ Effect(a, p, w)
      BY <1>1, CommandEffect DEF IInv
    <2>2. CASE a # NoText
      <3>1. UNCHANGED Seen
        BY <1>0, <2>1, <2>2 DEF Effect, Seen
      <3> QED
        BY <3>1 DEF Seen, Lifecycle!vars
    <2>3. CASE a = NoText
      <3>1. /\ tick' = 0
            /\ \/ active' = NoText /\ pending' \in {p, NoText}
               \/ active' = p /\ p # NoText /\ pending' = NoText
        BY <2>1, <2>3 DEF Effect
      <3>2. CASE active # NoText
        <4>1. active' = NoText /\ pending' = NoText
          BY <1>0, <2>1, <3>1, <3>2
        <4> QED
          BY <3>1, <3>2, <4>1 DEF Lifecycle!Next, Lifecycle!End
      <3>3. CASE active = NoText /\ pending # NoText
        <4>1. p \in {pending, NoText}
          BY <2>1, <3>3
        <4> QED
          BY <1>0, <3>1, <3>3, <4>1
          DEF Lifecycle!Next, Lifecycle!End, Lifecycle!Run, Lifecycle!vars
      <3>4. CASE active = NoText /\ pending = NoText
        <4>1. CASE active' = NoText /\ pending' = NoText
          BY <1>0, <3>1, <3>4, <4>1 DEF Lifecycle!vars
        <4>2. CASE active' = p \/ pending' = p
          BY <1>0, <2>1, <3>1, <3>4, <4>2
          DEF Lifecycle!Next, Lifecycle!Accept, Lifecycle!vars
        <4> QED
          BY <3>1, <4>1, <4>2
      <3> QED
        BY <3>2, <3>3, <3>4
    <2> QED
      BY <2>2, <2>3
  <1>2. CASE PublishBegin
    BY <1>0, <1>2 DEF PublishBegin, Lifecycle!Next, Lifecycle!Publish
  <1>3. CASE Exit
    <2>1. active' = NoText /\ pending' = NoText /\ tick' = 0
      BY <1>3 DEF Exit
    <2> QED
      BY <1>0, <2>1 DEF Lifecycle!Next, Lifecycle!End, Lifecycle!vars
  <1>4. CASE ~HandleCommand /\ ~PublishBegin /\ ~Exit
    <2>1. UNCHANGED Seen
      BY <1>4, UnseenSteps
    <2> QED
      BY <2>1 DEF Seen, Lifecycle!vars
  <1> QED
    BY <1>1, <1>2, <1>3, <1>4

\* The generator implements the lifecycle of one task at a time.
THEOREM GeneratorImplementsLifecycle == Spec => ImplementsLifecycle
  <1>1. Init => Lifecycle!Init
    BY DEF Init, Lifecycle!Init
  <1>2. IInv /\ [Next]_vars => [Lifecycle!Next]_(Lifecycle!vars)
    BY LifecycleStep
  <1> QED
    BY <1>1, <1>2, Invariance, PTL
    DEF Spec, ImplementsLifecycle, Lifecycle!Spec
=============================================================================
