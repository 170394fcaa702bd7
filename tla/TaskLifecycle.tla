---------------------------- MODULE TaskLifecycle ----------------------------
(***************************************************************************)
(* What the generator promises the publishing side of the latency server:  *)
(* it serves one task text at a time, a task waits for its subscriptions   *)
(* before it runs, it runs with consecutive sequences from its first batch *)
(* on, and between two tasks there is always a moment without one.         *)
(***************************************************************************)
EXTENDS Integers

CONSTANTS Task, NoText, MaxSequence

VARIABLES
    phase,     \* "idle", "waiting" for subscriptions, or "running"
    current,   \* the task that waits or runs, or NoText
    sequence   \* sequence of the current task's last batch, 0 before it

vars == <<phase, current, sequence>>

Init == phase = "idle" /\ current = NoText /\ sequence = 0

\* A task is accepted; it runs at once if its subscriptions are complete.
Accept(t) ==
    /\ phase = "idle"
    /\ phase' \in {"waiting", "running"}
    /\ current' = t
    /\ sequence' = 0

\* The subscriptions of the waiting task became complete.
Run ==
    /\ phase = "waiting"
    /\ phase' = "running"
    /\ UNCHANGED <<current, sequence>>

Publish ==
    /\ phase = "running"
    /\ sequence' = (sequence + 1) % MaxSequence
    /\ UNCHANGED <<phase, current>>

\* Stopped, cancelled, failed to start, or shut down.
End ==
    /\ phase # "idle"
    /\ phase' = "idle"
    /\ current' = NoText
    /\ sequence' = 0

Next == (\E t \in Task : Accept(t)) \/ Run \/ Publish \/ End

Spec == Init /\ [][Next]_vars
=============================================================================
