------------------------------- MODULE Pipeline -------------------------------
(***************************************************************************)
(* A whole benchmark run: the server publishes (server.cpp), QD carries    *)
(* market events and publication markers on separate subscriptions, and    *)
(* the Collector (client.cpp) correlates what its callbacks receive until  *)
(* main() has stopped the task, drained the channels and taken the totals. *)
(*                                                                         *)
(* The two channels are ordered each, and unordered against one another.   *)
(* With the STREAM_FEED role QD keeps every event; with FEED the market    *)
(* channel keeps one state per record and symbol, and a newer event takes  *)
(* the place of the queued one (benchmark-results/QD-FEED-DELIVERY-PATH).  *)
(* History variables remember what no counter of the client can know.      *)
(***************************************************************************)
EXTENDS Collector

Seqs == INSTANCE SequencesExt
Analyzer == INSTANCE Monitoring

CONSTANTS
    PoolOrder,        \* order of the pools in each publication: the shuffle
    MaxPublications,  \* bound: publications of the server's task
    MaxFaults,        \* bound: events and markers lost or delivered twice
    MaxSkew           \* bound: lead of the server's clock over the client's

ASSUME PipelineAssumption ==
    /\ MaxPublications \in Nat /\ MaxPublications < MaxSequence
    /\ \A tick \in 1..MaxPublications :
         PoolOrder[tick] \in Seqs!SetToSeqs({ k \in Kind : Expected[k] > 0 })
    /\ MaxFaults \in Nat
    /\ MaxSkew \in Nat
    /\ IsFiniteSet(Symbol) /\ Symbol # {}    \* TaskConfig::parse: no empty pattern
    /\ Symbol = 0..Cardinality(Symbol) - 1

VARIABLES
    task,        \* control symbol: "active", "removed" by the client, "stopped"
    ticks,       \* ActiveTask::tick: publications so far
    skew,        \* lead of the server's clock
    channel,     \* QD: per listener, the messages it has not delivered yet
    superseded,  \* history: per publication, events replaced in FEED storage
    heard,       \* history: publications the measurement has accepted
    faults,      \* messages lost or repeated so far
    disturbed    \* history: a fault, an expiry or a drain that gave up

history == <<superseded, heard, faults, disturbed>>
environment == <<task, ticks, skew, channel, history>>
pipelineVars == <<vars, environment>>

Publication == 1..MaxPublications

Message(e, symbol) == [event |-> e, symbol |-> symbol]

-----------------------------------------------------------------------------
(* The publisher and QD.                                                   *)

\* The events of one pool: its quantity, rotating through the symbols.
Pool(k, tick) ==
    [i \in 1..Expected[k] |->
        Message([type |-> "market", kind |-> k, sequence |-> tick],
                ((tick - 1) * Expected[k] + i - 1) % Cardinality(Symbol))]

\* The pools follow each other in an order that the seed of the task fixes.
MarketEvents(tick) ==
    Seqs!FlattenSeq([i \in DOMAIN PoolOrder[tick] |->
                        Pool(PoolOrder[tick][i], tick)])

Key(message) == <<message.event.kind, message.symbol>>

\* Keyed TICKER storage: an event takes the place of the queued one with its
\* record and symbol, and joins the queue only if there is none.
Conflate(queue, message) ==
    IF \E i \in DOMAIN queue : Key(queue[i]) = Key(message)
    THEN [i \in DOMAIN queue |->
            IF Key(queue[i]) = Key(message) THEN message ELSE queue[i]]
    ELSE Append(queue, message)

Enqueue(queue, messages) ==
    IF allowConflation THEN Seqs!FoldLeft(Conflate, queue, messages)
    ELSE queue \o messages

CountOf(queue, p, k) ==
    Cardinality({ i \in DOMAIN queue :
        queue[i].event.sequence = p /\ queue[i].event.kind = k })

\* publish: the market events and the marker leave in one publishEvents, with
\* the sequence of the tick and the server's time.
Publish ==
    /\ task # "stopped"
    /\ stage # "closed"
    /\ ticks < MaxPublications
    /\ ticks' = ticks + 1
    /\ LET events == MarketEvents(ticks + 1)
           queue == Enqueue(channel["market"], events)
           marker == [type |-> "marker", sequence |-> ticks + 1,
                      time |-> now + skew]
       IN /\ channel' = [channel EXCEPT
                !["market"] = queue,
                !["control"] = Append(@, Message(marker, 0))]
          /\ superseded' = [p \in Publication |-> [k \in Kind |->
                superseded[p][k] + CountOf(channel["market"] \o events, p, k)
                  - CountOf(queue, p, k)]]
    /\ UNCHANGED <<vars, task, skew, heard, faults, disturbed>>

\* A subscription hands its listener what has queued up, at most as much as
\* one callback may hold (the events batch limit bounds Callbacks).
Deliver(l) ==
    /\ \E n \in 1..Len(channel[l]) :
         LET events == [i \in 1..n |-> channel[l][i].event]
         IN /\ events \in Callbacks[l]
            /\ ReceiveEvents(l, events)
            /\ channel' = [channel EXCEPT ![l] = SubSeq(@, n + 1, Len(@))]
    /\ UNCHANGED <<task, ticks, skew, history>>

\* QD drops a message that is still queued.
Lose(l) ==
    /\ faults < MaxFaults
    /\ \E i \in DOMAIN channel[l] :
         channel' = [channel EXCEPT ![l] = Seqs!RemoveAt(@, i)]
    /\ faults' = faults + 1
    /\ disturbed' = TRUE
    /\ UNCHANGED <<vars, task, ticks, skew, superseded, heard>>

\* QD sends a message once more, as after a reconnection.
Repeat(l) ==
    /\ faults < MaxFaults
    /\ \E i \in DOMAIN channel[l] :
         channel' = [channel EXCEPT ![l] = Append(@, @[i])]
    /\ faults' = faults + 1
    /\ disturbed' = TRUE
    /\ UNCHANGED <<vars, task, ticks, skew, superseded, heard>>

\* The server sees the removal of the control symbol some time later.
StopTask ==
    /\ task = "removed"
    /\ task' = "stopped"
    /\ UNCHANGED <<vars, ticks, skew, channel, history>>

-----------------------------------------------------------------------------
(* The client: the steps of the Collector in the order main() takes them.  *)

\* One event of a callback; the publications it is counted for are noted.
Handle(l) ==
    /\ HandleEvent(l)
    /\ LET e == Head(callback[l].events)
       IN heard' = heard \cup (IF Correlates(e) THEN {e.sequence} ELSE {})
    /\ UNCHANGED <<task, ticks, skew, channel, superseded, faults, disturbed>>

ListenOnly(l) ==
    /\ HandleWarmup(l) \/ HandleMeasured(l) \/ LeaveCallback(l)
    /\ UNCHANGED environment

\* waitForProfiles has seen every symbol, then the warm-up passes.
Begin ==
    /\ profileSymbolsReceived = Symbol
    /\ BeginMeasurement
    /\ UNCHANGED environment

\* Windows are taken while the measurement lasts.
Window ==
    /\ task = "active"
    /\ TakeWindow(FALSE)
    /\ UNCHANGED environment

\* control->removeSymbols(task): the measurement is over, the drain begins.
RemoveTask ==
    /\ stage = "measuring"
    /\ mutex # "main"
    /\ task = "active"
    /\ task' = "removed"
    /\ UNCHANGED <<vars, ticks, skew, channel, history>>

Drained ==
    /\ task = "stopped"
    /\ \A l \in Listener : channel[l] = <<>> /\ callback[l] = Idle

\* The drain ends when both subscriptions are quiet (and, for STREAM_FEED,
\* nothing is pending), or else at its deadline or by a signal.  Quiet does
\* not imply drained: the loop polls, it is not told.
EndDrain ==
    /\ task # "active"
    /\ EndMeasurement
    /\ disturbed' = (disturbed \/ ~Drained)
    /\ UNCHANGED <<task, ticks, skew, channel, superseded, heard, faults>>

\* A batch that times out while the measurement runs.
Expire ==
    /\ ExpireBatch
    /\ disturbed' = (disturbed \/ ~expireAll)
    /\ UNCHANGED <<task, ticks, skew, channel, superseded, heard, faults>>

Finishing ==
    /\ TakeWindow(TRUE) \/ ReturnWindow \/ TakeTotals \/ Close
    /\ UNCHANGED environment

Idling ==
    /\ Tick \/ Exited
    /\ UNCHANGED environment

-----------------------------------------------------------------------------

PipelineInit ==
    /\ Init
    /\ task = "active"
    /\ ticks = 0
    /\ skew \in 0..MaxSkew
    /\ channel = [l \in Listener |->
         IF l = "profiles"
         THEN [i \in 1..Cardinality(Symbol) |->
                 Message([type |-> "profile", symbol |-> i - 1], i - 1)]
         ELSE <<>>]
    /\ superseded = [p \in Publication |-> NoneOfKind]
    /\ heard = {}
    /\ faults = 0
    /\ disturbed = FALSE

PipelineNext ==
    \/ Publish
    \/ StopTask
    \/ \E l \in Listener : Deliver(l) \/ Handle(l) \/ ListenOnly(l)
    \/ \E l \in {"market", "control"} : Lose(l) \/ Repeat(l)
    \/ Begin
    \/ Window
    \/ RemoveTask
    \/ EndDrain
    \/ Expire
    \/ Finishing
    \/ Idling

PipelineSpec == PipelineInit /\ [][PipelineNext]_pipelineVars

-----------------------------------------------------------------------------
(* Properties.                                                             *)

\* Publications no part of which was seen during the warm-up.
Measured == (1..ticks) \ preMeasurementSequences

SupersededOf(k) ==
    SumFunctionOnSet([p \in Publication |-> superseded[p][k]], Measured)

\* CleanRunExact: without a fault, an expiry or a drain that gave up, the
\* totals are the truth about the server: every publication the warm-up did
\* not touch has exactly one outcome, nothing is in excess, uncorrelated or
\* missing, and the listener deficit of each kind is exactly the number of
\* events FEED superseded, none for STREAM_FEED.
CleanRunExact ==
    final # <<>> /\ ~disturbed =>
        LET c == final[1]
        IN /\ c.full + c.partial + c.empty = Cardinality(Measured)
           /\ c.excess = NoneOfKind
           /\ c.uncorrelated = 0
           /\ c.missing = 0
           /\ \A k \in Kind : c.listenerDeficit[k] = SupersededOf(k)

\* The event rows of the summary, as the analyzer reads them: one per kind,
\* under the numbers the whole run shares.
TotalRow(k) ==
    [batches |-> final[1].batches, clockAnomalies |-> final[1].negative,
     missing |-> final[1].missing, pending |-> Cardinality(DOMAIN pending),
     exactDelivery |-> Analyzer!ExactDelivery(k, allowConflation,
                         final[1].listenerDeficit[k], final[1].excess[k])]

Passed == \A k \in Kind : Analyzer!LatencyIntegrity(TotalRow(k))

\* PassedRunExact: whatever QD lost or repeated and whatever expired, a run
\* that readLatencyTotals (monitoring.cpp:818) accepts has delivered every
\* publication it heard of in full, with one latency sample per event and
\* one per publication.  For STREAM_FEED only: a FEED row passes anyway.
PassedRunExact ==
    final # <<>> /\ ~allowConflation /\ Passed =>
        LET c == final[1]
        IN /\ c.full = Cardinality(heard)
           /\ c.batches = c.full
           /\ c.uncorrelated = 0
           /\ \A k \in Kind :
                /\ c.published[k] = Expected[k] * c.full
                /\ c.delivered[k] = c.published[k]
                /\ c.events[k] = c.delivered[k]
===============================================================================
