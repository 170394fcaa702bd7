------------------------------ MODULE TimeSeries -----------------------------
(***************************************************************************)
(* TimeAndSale histories: the active task of the latency server retains a  *)
(* bounded history per symbol and answers a time-series request with a     *)
(* snapshot, then with live events (src/server.cpp); the TimeSeriesTracker *)
(* of the latency client (src/client.cpp) follows the snapshot protocol    *)
(* and measures the live events after it.                                  *)
(*                                                                         *)
(* The feed between them keeps the order of each symbol's events and       *)
(* splits them into callbacks as it likes.  A record is named by the       *)
(* publication it belongs to.                                              *)
(***************************************************************************)
EXTENDS Integers, Sequences, FiniteSets

CONSTANTS
    Symbol,        \* base symbols of the task
    Batch,         \* the symbol sets one publication has TimeAndSales for
    HistoryLimit,  \* --time-series-history
    Modes,         \* of BOOLEAN: prefilled (FALSE) or delayed (TRUE) snapshots
    MaxTime,       \* bound: wall clock, in milliseconds
    MaxRecords,    \* bound: publications
    MaxCallback    \* bound: events of one symbol in a callback

ASSUME TimeSeriesAssumption ==
    /\ IsFiniteSet(Symbol) /\ Symbol # {}
    /\ Batch \subseteq SUBSET Symbol
    /\ HistoryLimit \in Nat \ {0}
    /\ Modes \subseteq BOOLEAN
    /\ MaxTime \in Nat
    /\ MaxRecords \in Nat
    /\ MaxCallback \in Nat

VARIABLES
    delayed,     \* --time-series-subscribe-after: measuring comes first
    now,         \* wall clock
    published,   \* ActiveTask::publications
    history,     \* TimeAndSaleHistory::records by symbol
    truncated,   \* TimeAndSaleHistory::truncated by symbol
    subscribed,  \* subscribedSymbols_ of TimeAndSale
    adding,      \* subscription requests on their way to the server
    removing,    \* unsubscriptions on their way to the server
    wire,        \* events on their way to the client, by symbol
    stage,       \* main() of the client
    fromTime,    \* the requested lower bound
    subscribedAt, \* subscribedAtNs_
    callback,    \* events left to a listener inside handle(), by symbol
    observed,    \* its clock reading
    started,     \* SymbolState::started by symbol
    complete,    \* SymbolState::complete by symbol
    indices,     \* SymbolState::indices by symbol
    expected,    \* expectedSymbols_
    completed,   \* completedSymbols_
    completedAt, \* completedAtNs_, 0 while unset
    measuring,   \* measuring_
    count,       \* counters of the report
    sampled,     \* records in liveLatencies_, by symbol
    live,        \* history: records counted as live, by symbol
    record,      \* history: publication time of every record, by symbol
    flawless     \* history: symbols whose snapshot ended in SNAPSHOT_END

server == <<published, history, truncated, subscribed, record>>
requests == <<adding, removing>>
listener == <<callback, observed>>
tracker == <<started, complete, indices, completed, completedAt, count, live,
             flawless>>
client == <<delayed, stage, fromTime, subscribedAt, expected, measuring>>
vars == <<now, server, requests, wire, listener, tracker, sampled, client>>

\* A TimeAndSale event of a known symbol, with a subset of the flags BEGIN, END,
\* SNIP and REMOVE; Boundary removes what is older.
Event(id, flags) == [id |-> id, flags |-> flags]
Boundary == 0

NoSymbols == [s \in Symbol |-> {}]
NoEvents == [snapshot |-> 0, removed |-> 0, duplicate |-> 0, premature |-> 0]

-----------------------------------------------------------------------------
(* The server: the worker thread of the generator, one batch or one request *)
(* at a time.                                                               *)

\* Wall-clock milliseconds pass; several publications may share one.
Clock ==
    /\ now < MaxTime
    /\ now' = now + 1
    /\ UNCHANGED <<server, requests, wire, listener, tracker, sampled, client>>

\* retainTimeAndSale: the oldest record goes when the limit is exceeded.
Retained(records, r) ==
    LET longer == Append(records, r)
    IN  IF Len(longer) > HistoryLimit THEN Tail(longer) ELSE longer

\* Fault: live events go out for symbols nobody asked for yet.
SendsAlways(s, batch) == s \in batch

\* Only subscribed symbols get live events.
Sends(s, batch) == s \in batch \cap subscribed

\* The TimeAndSale part of publish(): every record is retained, also of
\* symbols without a subscription.
Publish ==
    /\ published < MaxRecords
    /\ published' = published + 1
    /\ \E batch \in Batch :
         LET r == [id |-> published', time |-> now]
         IN  /\ history' = [s \in Symbol |->
                    IF s \in batch THEN Retained(history[s], r) ELSE history[s]]
             /\ truncated' = [s \in Symbol |->
                    truncated[s] \/ (s \in batch /\ Len(history[s]) = HistoryLimit)]
             /\ record' = [s \in Symbol |->
                    IF s \in batch THEN record[s] \cup {r} ELSE record[s]]
             /\ wire' = [s \in Symbol |->
                    IF Sends(s, batch)
                    THEN Append(wire[s], Event(published', {})) ELSE wire[s]]
    /\ UNCHANGED <<now, subscribed, requests, listener, tracker, sampled, client>>

\* Fault: the comparison is one millisecond late.
IsTruncatedLate(s, from) ==
    truncated[s] /\ history[s] # <<>> /\ Head(history[s]).time > from + 1

\* Older records fell out of a history that is asked for all of its time.
IsTruncated(s, from) ==
    truncated[s] /\ history[s] # <<>> /\ Head(history[s]).time > from

\* The newest record first, up to the first one that is older than from.
Wanted(records, from) ==
    LET last == Len(records)
        size == CHOOSE n \in 0 .. last :
                    /\ \A i \in last - n + 1 .. last : records[i].time >= from
                    /\ n < last => records[last - n].time < from
    IN  [i \in 1 .. size |-> records[last + 1 - i]]

\* Fault: an empty range gets no snapshot at all.
SnapshotUnlessEmpty(s, from) ==
    LET wanted == Wanted(history[s], from)
    IN  [i \in 1 .. Len(wanted) |->
            Event(wanted[i].id, (IF i = 1 THEN {"BEGIN"} ELSE {}) \cup
                                (IF i = Len(wanted) THEN {"END"} ELSE {}))]

\* Fault: the snapshot starts one record before the newest.
SnapshotWithoutNewest(s, from) ==
    LET older == SubSeq(history[s], 1, Len(history[s]) - 1)
        wanted == Wanted(older, from)
    IN  [i \in 1 .. Len(wanted) |->
            Event(wanted[i].id, IF i = 1 THEN {"BEGIN"} ELSE {})]
        \o <<Event(Boundary, {"END", "REMOVE"} \cup
                             (IF wanted = <<>> THEN {"BEGIN"} ELSE {}))>>

\* publishTimeSeriesSnapshots for one request: the newest record first, down
\* to the requested time, and either SNIP on the last record or a boundary.
Snapshot(s, from) ==
    LET wanted == Wanted(history[s], from)
        snipped == IsTruncated(s, from) /\ wanted # <<>>
        first(i) == IF i = 1 THEN {"BEGIN"} ELSE {}
        last(i) == IF snipped /\ i = Len(wanted) THEN {"SNIP"} ELSE {}
        events == [i \in 1 .. Len(wanted) |->
                      Event(wanted[i].id, first(i) \cup last(i))]
    IN  IF snipped THEN events
        ELSE Append(events, Event(Boundary,
                                  first(Len(wanted) + 1) \cup {"END", "REMOVE"}))

\* SYMBOLS_ADDED with a time-series request of one symbol.
HandleRequest(s) ==
    /\ s \in adding
    /\ adding' = adding \ {s}
    /\ subscribed' = subscribed \cup {s}
    /\ wire' = [wire EXCEPT ![s] = @ \o Snapshot(s, fromTime)]
    /\ UNCHANGED <<now, published, history, truncated, record, removing,
                   listener, tracker, sampled, client>>

\* SYMBOLS_REMOVED of one symbol.
HandleRemoval(s) ==
    /\ s \in removing
    /\ removing' = removing \ {s}
    /\ subscribed' = subscribed \ {s}
    /\ UNCHANGED <<now, published, history, truncated, record, adding, wire,
                   listener, tracker, sampled, client>>

-----------------------------------------------------------------------------
(* The tracker: handle() under its mutex, one event at a time.             *)

MutexFree == callback = [s \in Symbol |-> 0]

\* A listener reads the clock and enters with the next events of some symbols.
EnterCallback ==
    /\ MutexFree
    /\ \E n \in [Symbol -> 0 .. MaxCallback] :
         /\ \A s \in Symbol : n[s] <= Len(wire[s])
         /\ callback' = n
    /\ callback' # callback
    /\ observed' = now
    /\ UNCHANGED <<now, server, requests, wire, tracker, sampled, client>>

\* The n-th completed symbol is the last one.
CompletionTime(n) == IF n = expected THEN observed ELSE completedAt

\* An event that belongs to a snapshot, and what completes its symbol.
HandleSnapshotEvent(s, e) ==
    LET removed == "REMOVE" \in e.flags
        again == ~removed /\ e.id \in indices[s]
        completes == {"END", "SNIP"} \cap e.flags # {} /\ ~complete[s]
    IN  /\ started' = [started EXCEPT ![s] = @ \/ "BEGIN" \in e.flags]
        /\ count' = [count EXCEPT
               !.removed = IF removed THEN @ + 1 ELSE @,
               !.snapshot = IF removed THEN @ ELSE @ + 1,
               !.duplicate = IF again THEN @ + 1 ELSE @]
        /\ indices' = [indices EXCEPT
               ![s] = IF removed THEN @ ELSE @ \cup {e.id}]
        /\ complete' = [complete EXCEPT ![s] = @ \/ completes]
        /\ completed' = completed + (IF completes THEN 1 ELSE 0)
        /\ completedAt' = IF completes THEN CompletionTime(completed')
                          ELSE completedAt
        /\ flawless' = IF completes /\ "END" \in e.flags
                       THEN flawless \cup {s} ELSE flawless
        /\ UNCHANGED <<live, sampled>>

\* An event outside its symbol's snapshot: premature, or live and, while
\* measuring, a latency sample.
HandleLiveEvent(s, e) ==
    /\ IF complete[s]
       THEN /\ live' = [live EXCEPT ![s] = @ \cup {e.id}]
            /\ sampled' = IF measuring
                          THEN [sampled EXCEPT ![s] = @ \cup {e.id}]
                          ELSE sampled
            /\ UNCHANGED count
       ELSE /\ count' = [count EXCEPT !.premature = @ + 1]
            /\ UNCHANGED <<live, sampled>>
    /\ UNCHANGED <<started, complete, indices, completed, completedAt, flawless>>

HandleEvent(s) ==
    /\ callback[s] > 0
    /\ callback' = [callback EXCEPT ![s] = @ - 1]
    /\ wire' = [wire EXCEPT ![s] = Tail(@)]
    /\ LET e == Head(wire[s])
           inSnapshot == started[s] /\ ~complete[s]
       IN  IF inSnapshot \/ {"BEGIN", "END", "SNIP"} \cap e.flags # {}
           THEN HandleSnapshotEvent(s, e) ELSE HandleLiveEvent(s, e)
    /\ UNCHANGED <<now, server, requests, observed, client>>

-----------------------------------------------------------------------------
(* The client's main thread.                                               *)

\* The lower bound: the start of the prefill, or the prefill before now; the
\* listener's counters expect every symbol before any is requested.
BeginSnapshot ==
    /\ stage = IF delayed THEN "measuring" ELSE "prefill"
    /\ MutexFree
    /\ expected = 0
    /\ stage' = "subscribing"
    /\ fromTime' \in 1 .. now
    /\ subscribedAt' = now
    /\ expected' = Cardinality(Symbol)
    /\ UNCHANGED <<now, delayed, server, requests, wire, listener, tracker, sampled,
                   measuring>>

AddSymbols ==
    /\ stage = "subscribing"
    /\ stage' = "waiting"
    /\ adding' = Symbol
    /\ UNCHANGED <<now, delayed, server, removing, wire, listener, tracker, sampled,
                   fromTime, subscribedAt, expected, measuring>>

\* waitForSnapshot and snapshotComplete.
SnapshotDone ==
    /\ stage = "waiting"
    /\ MutexFree
    /\ completed >= expected
    /\ stage' = IF delayed THEN "after" ELSE "warmup"
    /\ UNCHANGED <<now, delayed, server, requests, wire, listener, tracker, sampled,
                   fromTime, subscribedAt, expected, measuring>>

\* --time-series-unsubscribe-after-snapshot
RemoveSymbols ==
    /\ delayed
    /\ stage = "after"
    /\ stage' = "unsubscribed"
    /\ removing' = Symbol
    /\ UNCHANGED <<now, delayed, server, adding, wire, listener, tracker, sampled,
                   fromTime, subscribedAt, expected, measuring>>

\* The startup timeout passed, or a signal came, before the snapshot did.
GiveUp ==
    /\ stage = "waiting"
    /\ MutexFree
    /\ completed < expected
    /\ stage' = "timedOut"
    /\ UNCHANGED <<now, delayed, server, requests, wire, listener, tracker, sampled,
                   fromTime, subscribedAt, expected, measuring>>

BeginMeasurement ==
    /\ stage = IF delayed THEN "prefill" ELSE "warmup"
    /\ MutexFree
    /\ stage' = IF delayed THEN "measuring" ELSE "after"
    /\ measuring' = TRUE
    /\ sampled' = NoSymbols
    /\ UNCHANGED <<now, delayed, server, requests, wire, listener, tracker, fromTime,
                   subscribedAt, expected>>

\* A signal during the prefill or the warm-up: main() returns at once.
Interrupt ==
    /\ stage \in {"prefill", "warmup"}
    /\ stage' = "timedOut"
    /\ UNCHANGED <<now, delayed, server, requests, wire, listener, tracker, sampled,
                   fromTime, subscribedAt, expected, measuring>>

\* The end of the run, or a signal; a delayed snapshot may be open then.
EndMeasurement ==
    /\ stage \in {"measuring", "after", "unsubscribed", "timedOut"}
    /\ measuring
    /\ MutexFree
    /\ stage' = "ended"
    /\ measuring' = FALSE
    /\ UNCHANGED <<now, delayed, server, requests, wire, listener, tracker, sampled,
                   fromTime, subscribedAt, expected>>

-----------------------------------------------------------------------------
Init ==
    /\ now = 1
    /\ delayed \in Modes
    /\ published = 0
    /\ history = [s \in Symbol |-> <<>>]
    /\ truncated = [s \in Symbol |-> FALSE]
    /\ subscribed = {}
    /\ record = NoSymbols
    /\ adding = {}
    /\ removing = {}
    /\ wire = [s \in Symbol |-> <<>>]
    /\ callback = [s \in Symbol |-> 0]
    /\ observed = 0
    /\ started = [s \in Symbol |-> FALSE]
    /\ complete = [s \in Symbol |-> FALSE]
    /\ indices = NoSymbols
    /\ completed = 0
    /\ completedAt = 0
    /\ count = NoEvents
    /\ live = NoSymbols
    /\ flawless = {}
    /\ sampled = NoSymbols
    /\ stage = "prefill"
    /\ fromTime = 0
    /\ subscribedAt = 0
    /\ expected = 0
    /\ measuring = FALSE

\* The client's run is over.
Finished ==
    /\ stage = "ended" \/ (stage = "timedOut" /\ ~measuring)
    /\ UNCHANGED vars

Serve == \E s \in Symbol : HandleRequest(s) \/ HandleRemoval(s)

Listen == EnterCallback \/ \E s \in Symbol : HandleEvent(s)

Main ==
    \/ BeginSnapshot \/ AddSymbols \/ SnapshotDone \/ RemoveSymbols
    \/ BeginMeasurement \/ EndMeasurement

Next ==
    Clock \/ Publish \/ Serve \/ Listen \/ Main \/ GiveUp \/ Interrupt \/ Finished

Spec == Init /\ [][Next]_vars

\* The server answers, the feed delivers and the client goes on.
FairSpec == Spec /\ WF_vars(Serve) /\ WF_vars(Listen) /\ WF_vars(Main)

-----------------------------------------------------------------------------
(* Properties.                                                             *)

OnWire(s) == { wire[s][i].id : i \in 1 .. Len(wire[s]) } \ {Boundary}

\* The records of s that reached the client or are on their way.
Got(s) == indices[s] \cup live[s] \cup OnWire(s)

\* A snapshot that ends in SNAPSHOT_END leaves out nothing newer than the
\* requested time, and while s stays subscribed nothing published since,
\* although the history is bounded and the request races the publications.
CompleteSnapshotHasAll ==
    \A s \in flawless \cap subscribed : \A r \in record[s] :
        r.time > fromTime => r.id \in Got(s)

\* Snapshot and live events together have no hole: with two records the
\* client gets every record between them, also if the snapshot is snipped.
NoHoles ==
    \A s \in Symbol : \A i, k \in Got(s) : \A r \in record[s] :
        i < r.id /\ r.id < k => r.id \in Got(s)

\* The cutover from the snapshot to live events is exact: no record arrives
\* in both or twice in the snapshot, none arrives before its symbol's
\* snapshot, and every live event, hence every latency sample, is newer than
\* the snapshot.
ExactCutover ==
    /\ count.duplicate = 0
    /\ count.premature = 0
    /\ \A s \in Symbol : \A i \in live[s], j \in indices[s] : j < i

\* Every request is answered completely, unless the client gives up first.
RequestAnswered ==
    (stage = "waiting") ~> (completed = expected \/ stage = "timedOut")
=============================================================================
