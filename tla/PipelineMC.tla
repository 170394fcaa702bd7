------------------------------ MODULE PipelineMC ------------------------------
(* A benchmark run of two publications for TLC. *)
EXTENDS Pipeline

\* A Quote and a Trade: the smallest publication that can be partial.
QuoteAndTrade ==
    [k \in Kind |-> IF k \in {"QUOTE", "TRADE"} THEN 1 ELSE 0]

Alternating ==
    [tick \in Publication |->
        IF tick % 2 = 1 THEN <<"QUOTE", "TRADE">> ELSE <<"TRADE", "QUOTE">>]

Lists(S, n) == UNION { [1..m -> S] : m \in 0..n }

\* Every list of the events such a run can have, up to the given lengths.
AnyList ==
    [l \in Listener |->
        CASE l = "market" ->
               Lists([type : {"market"}, kind : {"QUOTE", "TRADE"},
                      sequence : Publication], 4)
          [] l = "control" ->
               Lists([type : {"marker"}, sequence : Publication,
                      time : 1..MaxTime + MaxSkew], 2)
          [] l = "profiles" ->
               Lists([type : {"profile"}, symbol : Symbol], Cardinality(Symbol))]

\* No step of a critical section reads what the server, QD, the clock or
\* another listener changes, and none of them reads what it writes: the steps
\* commute, and it is enough to take them while the mutex is free.
Serial ==
    mutex # "free" =>
        /\ UNCHANGED <<clock, task, ticks, channel, faults>>
        /\ \A l \in Listener \ {mutex} : UNCHANGED callback[l]

\* Until the measurement begins, which waits for them, Profiles commute with
\* everything else: they come first.
ProfilesFirst ==
    ReceivedProfiles(callback'["profiles"].events) # {}
        \/ channel'["profiles"] # <<>>
      => ticks' = 0 /\ now' = 1

\* What is published or lost after the measurement is refused or missed by
\* it anyway, and once the last window is taken nothing counts any more
\* (PipelineProofs!TotalsFrozen).
EndIsQuiet ==
    /\ stage \notin {"warmup", "measuring"} => UNCHANGED <<ticks, faults>>
    /\ stage \in {"reporting", "closing"} => UNCHANGED <<clock, channel>>

\* One disturbance per run: a clock that leads, FEED, or a fault.  A fault
\* hits the first publication, before any of it is delivered, which is as
\* good as any later moment; the second publication follows it or not.
OneDisturbance ==
    /\ skew > 0 => ~allowConflation
    /\ faults' > 0 => ~allowConflation /\ skew = 0
    /\ faults' > faults =>
         ticks = 1 /\ \A k \in Kind : CountOf(channel["market"], ticks, k) = Expected[k]

\* One window row within the measurement, and one that has something to say.
OneWindow ==
    stage = "measuring" /\ mutex # "main" /\ mutex' = "main" =>
        reported = Zero /\ (window # Zero \/ expiring' # {})

Reduced == Serial /\ ProfilesFirst /\ EndIsQuiet /\ OneDisturbance /\ OneWindow
===============================================================================
