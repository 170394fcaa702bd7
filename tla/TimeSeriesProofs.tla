-------------------------- MODULE TimeSeriesProofs --------------------------
(***************************************************************************)
(* Proofs about TimeSeries: the snapshot of a symbol and the live events    *)
(* that follow it have no hole, no overlap and, if the snapshot ends in     *)
(* SNAPSHOT_END, leave out nothing.                                         *)
(***************************************************************************)
EXTENDS TimeSeries, FiniteSetTheorems, WellFoundedInduction, TLAPS

-----------------------------------------------------------------------------
(* Types.                                                                   *)

Flags == {"BEGIN", "END", "SNIP", "REMOVE"}
WireEvent == [id : Nat, flags : SUBSET Flags]
Record == [id : Nat, time : Nat]
Counters == [snapshot : Nat, removed : Nat, duplicate : Nat, premature : Nat]

Stage == {"prefill", "measuring", "subscribing", "waiting", "warmup", "after",
          "unsubscribed", "timedOut", "ended"}

TypeOK ==
    /\ delayed \in BOOLEAN
    /\ now \in Nat
    /\ published \in Nat
    /\ history \in [Symbol -> Seq(Record)]
    /\ truncated \in [Symbol -> BOOLEAN]
    /\ subscribed \in SUBSET Symbol
    /\ record \in [Symbol -> SUBSET Record]
    /\ adding \in SUBSET Symbol
    /\ removing \in SUBSET Symbol
    /\ wire \in [Symbol -> Seq(WireEvent)]
    /\ stage \in Stage
    /\ fromTime \in Nat
    /\ subscribedAt \in Nat
    /\ callback \in [Symbol -> Nat]
    /\ observed \in Nat
    /\ started \in [Symbol -> BOOLEAN]
    /\ complete \in [Symbol -> BOOLEAN]
    /\ indices \in [Symbol -> SUBSET Nat]
    /\ expected \in Nat
    /\ completed \in Nat
    /\ completedAt \in Nat
    /\ measuring \in BOOLEAN
    /\ count \in Counters
    /\ sampled \in [Symbol -> SUBSET Nat]
    /\ live \in [Symbol -> SUBSET Nat]
    /\ flawless \in SUBSET Symbol
    /\ \A s \in Symbol : callback[s] <= Len(wire[s])

-----------------------------------------------------------------------------
(* What a snapshot is made of.                                              *)

\* LeastNumber: a set of natural numbers that has one has a least one.
LEMMA LeastNumber ==
    ASSUME NEW S \in SUBSET Nat, S # {}
    PROVE  \E n \in S : \A m \in S : n <= m
PROOF
<1>1. IsWellFoundedOn(OpToRel(<, Nat), Nat)
    BY NatLessThanWellFounded
<1>2. PICK n \in S : \A m \in S : ~ (<<m, n>> \in OpToRel(<, Nat))
    BY <1>1, WFMin
<1>3. \A m \in S : ~ (m < n)
    BY <1>2 DEF OpToRel
<1> QED
    BY <1>3

\* The n newest records are those not older than from.
Newest(h, from, n) ==
    /\ \A i \in Len(h) - n + 1 .. Len(h) : h[i].time >= from
    /\ n < Len(h) => h[Len(h) - n].time < from

\* WantedIsNewest: the loop of publishTimeSeriesSnapshots ends, and yields the
\* newest records in descending order.
LEMMA WantedIsNewest ==
    ASSUME NEW h \in Seq(Record), NEW from \in Nat
    PROVE  \E n \in 0 .. Len(h) :
              /\ Newest(h, from, n)
              /\ Wanted(h, from) = [i \in 1 .. n |-> h[Len(h) + 1 - i]]
PROOF
<1> DEFINE last == Len(h)
           S == { n \in 0 .. last : n < last => h[last - n].time < from }
           size == CHOOSE n \in 0 .. last : Newest(h, from, n)
<1>1. last \in Nat
    OBVIOUS
<1>7. last \in S /\ S \subseteq Nat
    BY <1>1
<1> HIDE DEF S
<1>2. PICK n \in S : \A m \in S : n <= m
    BY <1>7, LeastNumber
<1>8. n \in 0 .. last /\ (n < last => h[last - n].time < from)
    BY <1>2 DEF S
<1>3. ASSUME NEW i \in last - n + 1 .. last PROVE h[i].time >= from
    <2>1. last - i \in 0 .. last /\ last - i < n /\ last - (last - i) = i
        BY <1>1, <1>8, <1>3
    <2>2. last - i \notin S
        <3>1. n \in Nat /\ last - i \in Nat
            BY <1>8, <2>1
        <3>2. ~ (n <= last - i)
            BY <2>1, <3>1
        <3> QED
            BY <1>2, <3>2
    <2>3. ~ (h[i].time < from)
        BY <2>1, <2>2 DEF S
    <2>6. DOMAIN h = 1 .. last
        OBVIOUS
    <2>4. i \in DOMAIN h
        BY <1>1, <1>8, <1>3, <2>6
    <2>7. h[i] \in Record
        BY <2>4
    <2>5. h[i].time \in Nat
        BY <2>7 DEF Record
    <2> QED
        BY <2>3, <2>5
<1>4. n \in 0 .. last /\ Newest(h, from, n)
    BY <1>8, <1>3 DEF Newest
<1>5. size \in 0 .. last /\ Newest(h, from, size)
    BY <1>4
<1>6. Wanted(h, from) = [i \in 1 .. size |-> h[Len(h) + 1 - i]]
    BY DEF Wanted, Newest
<1> HIDE DEF size
<1> QED
    BY <1>5, <1>6

\* Streamed: what a snapshot looks like.  Its n newest records go down, the
\* first begins it, and the last one, or a boundary after it, ends it.
Streamed(s, n, ev) ==
    LET h == history[s]
        m == Len(ev)
    IN  /\ ev \in Seq(WireEvent)
        /\ m = n \/ m = n + 1
        /\ m >= 1
        /\ \A i \in 1 .. n : ev[i].id = h[Len(h) + 1 - i].id
        /\ m = n + 1 => ev[m].id = Boundary
        /\ \A i \in 1 .. m : /\ "BEGIN" \in ev[i].flags <=> i = 1
                             /\ "END" \in ev[i].flags <=> i = m /\ m = n + 1
                             /\ "SNIP" \in ev[i].flags <=> i = m /\ m = n
                             /\ "REMOVE" \in ev[i].flags <=> i = m /\ m = n + 1

\* SnapshotIsStream: publishTimeSeriesSnapshots sends such a snapshot, snipped
\* exactly if older records fell out of the history.
LEMMA SnapshotIsStream ==
    ASSUME NEW s \in Symbol, history[s] \in Seq(Record), NEW from \in Nat
    PROVE  \E n \in 0 .. Len(history[s]) :
              /\ Newest(history[s], from, n)
              /\ Streamed(s, n, Snapshot(s, from))
              /\ Len(Snapshot(s, from)) = n <=> IsTruncated(s, from) /\ n # 0
PROOF
<1> DEFINE h == history[s]
           wanted == Wanted(h, from)
<1>1. PICK n \in 0 .. Len(h) :
         /\ Newest(h, from, n)
         /\ wanted = [i \in 1 .. n |-> h[Len(h) + 1 - i]]
    BY WantedIsNewest
<1>2. n \in Nat /\ Len(h) \in Nat
    BY <1>1
<1>4. \A i \in 1 .. n : h[Len(h) + 1 - i] \in Record
    <2>1. ASSUME NEW i \in 1 .. n PROVE h[Len(h) + 1 - i] \in Record
        <3>1. Len(h) + 1 - i \in 1 .. Len(h)
            BY <1>1, <1>2
        <3> QED
            BY <3>1
    <2> QED
        BY <2>1
<1>13. wanted \in Seq(Record) /\ DOMAIN wanted = 1 .. n
    BY <1>1, <1>2, <1>4
<1>3. /\ Len(wanted) = n
      /\ \A i \in 1 .. n : wanted[i] = h[Len(h) + 1 - i]
      /\ wanted # <<>> <=> n # 0
    <2>1. Len(wanted) = n
        BY <1>2, <1>13
    <2>2. \A i \in 1 .. n : wanted[i] = h[Len(h) + 1 - i]
        BY <1>1
    <2>3. \A f \in Seq(Record) : f # <<>> <=> Len(f) # 0
        OBVIOUS
    <2> QED
        BY <1>13, <2>1, <2>2, <2>3
<1> HIDE DEF wanted
<1>5. \A i \in 1 .. n : wanted[i].id = h[Len(h) + 1 - i].id /\ wanted[i].id \in Nat
    BY <1>3, <1>4 DEF Record
<1> DEFINE snipped == IsTruncated(s, from) /\ wanted # <<>>
           first(i) == IF i = 1 THEN {"BEGIN"} ELSE {}
           last(i) == IF snipped /\ i = n THEN {"SNIP"} ELSE {}
           events == [i \in 1 .. n |->
                         Event(wanted[i].id, first(i) \cup last(i))]
           end == Event(Boundary, first(n + 1) \cup {"END", "REMOVE"})
           ev == IF snipped THEN events ELSE Append(events, end)
<1>6. Snapshot(s, from) = ev
    BY <1>3 DEF Snapshot, wanted
<1>7. events \in Seq(WireEvent) /\ Len(events) = n
    BY <1>2, <1>5 DEF Event, WireEvent, Flags
<1>8. end \in WireEvent
    BY DEF Event, WireEvent, Flags, Boundary
<1>9. \A i \in 1 .. n : /\ events[i].id = wanted[i].id
                        /\ events[i].flags = first(i) \cup last(i)
    BY DEF Event
<1>10. end.id = Boundary /\ end.flags = first(n + 1) \cup {"END", "REMOVE"}
    BY DEF Event
<1> HIDE DEF events, end
<1>11. CASE snipped
    <2>1. ev = events /\ n # 0
        BY <1>3, <1>11
    <2>2. Streamed(s, n, ev)
        BY <1>2, <1>5, <1>7, <1>9, <1>11, <2>1 DEF Streamed
    <2> QED
        BY <1>1, <1>3, <1>6, <1>7, <1>11, <2>1, <2>2
<1>12. CASE ~ snipped
    <2>1. ev = Append(events, end)
        BY <1>12
    <2>2. /\ ev \in Seq(WireEvent) /\ Len(ev) = n + 1
          /\ \A i \in 1 .. n : ev[i] = events[i]
          /\ ev[n + 1] = end
        BY <1>2, <1>7, <1>8, <2>1
    <2> HIDE DEF ev
    <2>3. Streamed(s, n, ev)
        BY <1>2, <1>5, <1>7, <1>9, <1>10, <1>12, <2>2, SMTT(20) DEF Streamed
    <2> QED
        BY <1>1, <1>2, <1>3, <1>6, <1>12, <2>2, <2>3
<1> QED
    BY <1>11, <1>12

-----------------------------------------------------------------------------
(* Type correctness.                                                        *)

\* TypeInit: the types hold before anything was published.
LEMMA TypeInit == Init => TypeOK
PROOF
<1> SUFFICES ASSUME Init PROVE TypeOK
    OBVIOUS
<1>1. /\ wire \in [Symbol -> Seq(WireEvent)]
      /\ history \in [Symbol -> Seq(Record)]
      /\ callback \in [Symbol -> Nat]
    BY DEF Init
<1>2. \A s \in Symbol : callback[s] <= Len(wire[s])
    <2>1. Len(<<>>) = 0
        OBVIOUS
    <2> QED
        BY <2>1 DEF Init
<1>3. /\ delayed \in BOOLEAN /\ stage \in Stage /\ count \in Counters
    BY TimeSeriesAssumption
    DEF TimeSeriesAssumption, Init, NoEvents, Counters, Stage
<1>4. /\ truncated \in [Symbol -> BOOLEAN]
      /\ started \in [Symbol -> BOOLEAN] /\ complete \in [Symbol -> BOOLEAN]
      /\ record \in [Symbol -> SUBSET Record]
      /\ indices \in [Symbol -> SUBSET Nat]
      /\ live \in [Symbol -> SUBSET Nat] /\ sampled \in [Symbol -> SUBSET Nat]
    BY DEF Init, NoSymbols
<1> QED
    BY <1>1, <1>2, <1>3, <1>4 DEF Init, TypeOK

\* PublishedRecord: the record of the publication that is being made.
PublishedRecord == [id |-> published + 1, time |-> now]

\* Published(batch): the part of a publication that the batch decides.
Published(batch) ==
    /\ history' = [s \in Symbol |->
           IF s \in batch THEN Retained(history[s], PublishedRecord)
           ELSE history[s]]
    /\ truncated' = [s \in Symbol |->
           truncated[s] \/ (s \in batch /\ Len(history[s]) = HistoryLimit)]
    /\ record' = [s \in Symbol |->
           IF s \in batch THEN record[s] \cup {PublishedRecord} ELSE record[s]]
    /\ wire' = [s \in Symbol |->
           IF s \in batch \cap subscribed
           THEN Append(wire[s], Event(published + 1, {})) ELSE wire[s]]

\* PublishFacts: Publish, with its batch.
LEMMA PublishFacts ==
    ASSUME Publish
    PROVE  /\ published' = published + 1
           /\ \E batch \in Batch : Published(batch)
           /\ UNCHANGED <<now, subscribed, requests, listener, tracker, sampled,
                          client>>
BY DEF Publish, Published, PublishedRecord, Sends

\* PublishType: a publication keeps the types of the server and the wire.
LEMMA PublishType ==
    ASSUME TypeOK, Publish
    PROVE  TypeOK'
PROOF
<1> USE DEF requests, listener, tracker, client
<1>1. /\ published' = published + 1
      /\ UNCHANGED <<now, subscribed, requests, listener, tracker, sampled,
                     client>>
    BY PublishFacts
<1>2. PICK batch \in Batch : Published(batch)
    BY PublishFacts
<1>3. /\ history \in [Symbol -> Seq(Record)]
      /\ truncated \in [Symbol -> BOOLEAN]
      /\ record \in [Symbol -> SUBSET Record]
      /\ wire \in [Symbol -> Seq(WireEvent)]
      /\ published \in Nat /\ now \in Nat
      /\ \A s \in Symbol : callback[s] <= Len(wire[s]) /\ callback[s] \in Nat
    BY DEF TypeOK
<1>4. PublishedRecord \in Record
    BY <1>3 DEF PublishedRecord, Record
<1>5. Event(published + 1, {}) \in WireEvent
    BY <1>3 DEF Event, WireEvent
<1>6. \A h \in Seq(Record) : Retained(h, PublishedRecord) \in Seq(Record)
    <2>1. ASSUME NEW h \in Seq(Record)
          PROVE  Retained(h, PublishedRecord) \in Seq(Record)
        <3>3. \A r \in Record : /\ Append(h, r) \in Seq(Record)
                                /\ Append(h, r) # <<>>
            <4>1. \A r \in Record : /\ Append(h, r) \in Seq(Record)
                                    /\ Len(Append(h, r)) = Len(h) + 1
                OBVIOUS
            <4>2. Len(h) \in Nat /\ Len(<<>>) = 0
                OBVIOUS
            <4> QED
                BY <4>1, <4>2
        <3>1. /\ Append(h, PublishedRecord) \in Seq(Record)
              /\ Append(h, PublishedRecord) # <<>>
            BY <1>4, <3>3
        <3>2. \A f \in Seq(Record) : f # <<>> => Tail(f) \in Seq(Record)
            OBVIOUS
        <3> QED
            BY <3>1, <3>2 DEF Retained
    <2> QED
        BY <2>1
<1>7. history' \in [Symbol -> Seq(Record)]
    BY <1>2, <1>3, <1>6 DEF Published
<1>8. truncated' \in [Symbol -> BOOLEAN]
    BY <1>2, <1>3 DEF Published
<1>9. record' \in [Symbol -> SUBSET Record]
    BY <1>2, <1>3, <1>4 DEF Published
<1> DEFINE event == Event(published + 1, {})
<1>10. \A w \in Seq(WireEvent) : /\ Append(w, event) \in Seq(WireEvent)
                                 /\ Len(Append(w, event)) = Len(w) + 1
    BY <1>5
<1> HIDE DEF event
<1>11. wire' = [s \in Symbol |-> IF s \in batch \cap subscribed
                                 THEN Append(wire[s], event) ELSE wire[s]]
    BY <1>2 DEF Published, event
<1>12. wire' \in [Symbol -> Seq(WireEvent)]
    BY <1>3, <1>10, <1>11
<1>13. \A s \in Symbol : callback'[s] <= Len(wire'[s])
    <2>1. ASSUME NEW s \in Symbol PROVE callback'[s] <= Len(wire'[s])
        <3>1. wire[s] \in Seq(WireEvent) /\ Len(wire[s]) \in Nat
            BY <1>3
        <3>2. callback'[s] = callback[s]
            BY <1>1
        <3>3. CASE s \in batch \cap subscribed
            <4>1. wire'[s] = Append(wire[s], event)
                BY <1>11, <3>3
            <4>2. Len(wire'[s]) = Len(wire[s]) + 1
                BY <1>10, <3>1, <4>1
            <4>3. callback[s] <= Len(wire[s]) /\ callback[s] \in Nat
                BY <1>3
            <4> QED
                BY <3>1, <3>2, <4>2, <4>3
        <3>4. CASE s \notin batch \cap subscribed
            <4>1. wire'[s] = wire[s]
                BY <1>11, <3>4
            <4> QED
                BY <1>3, <3>2, <4>1
        <3> QED
            BY <3>3, <3>4
    <2> QED
        BY <2>1
<1> QED
    BY <1>1, <1>3, <1>7, <1>8, <1>9, <1>12, <1>13 DEF TypeOK

\* RequestType: so does an answer.
LEMMA RequestType ==
    ASSUME TypeOK, NEW s \in Symbol, HandleRequest(s)
    PROVE  TypeOK'
PROOF
<1> USE DEF listener, tracker, client
<1>1. /\ adding' = adding \ {s} /\ subscribed' = subscribed \cup {s}
      /\ wire' = [wire EXCEPT ![s] = @ \o Snapshot(s, fromTime)]
      /\ UNCHANGED <<now, published, history, truncated, record, removing,
                     listener, tracker, sampled, client>>
    BY DEF HandleRequest
<1>2. /\ wire \in [Symbol -> Seq(WireEvent)] /\ history[s] \in Seq(Record)
      /\ fromTime \in Nat
      /\ \A u \in Symbol : callback[u] <= Len(wire[u]) /\ callback[u] \in Nat
    BY DEF TypeOK
<1>3. Snapshot(s, fromTime) \in Seq(WireEvent)
    BY <1>2, SnapshotIsStream DEF Streamed
<1> DEFINE longer == wire[s] \o Snapshot(s, fromTime)
<1>4. longer \in Seq(WireEvent) /\ Len(longer) >= Len(wire[s])
    BY <1>2, <1>3
<1>5. wire' = [wire EXCEPT ![s] = longer]
    BY <1>1
<1> HIDE DEF longer
<1>6. wire' \in [Symbol -> Seq(WireEvent)]
    BY <1>2, <1>4, <1>5
<1>7. \A u \in Symbol : callback'[u] <= Len(wire'[u])
    <2>1. ASSUME NEW u \in Symbol PROVE callback'[u] <= Len(wire'[u])
        <3>1. callback'[u] = callback[u]
            BY <1>1
        <3>2. CASE u = s
            <4>1. wire'[u] = longer
                BY <1>2, <1>5, <3>2
            <4>2. callback[u] <= Len(wire[s]) /\ callback[u] \in Nat
                BY <1>2, <3>2
            <4>3. Len(longer) \in Nat /\ Len(wire[s]) \in Nat
                BY <1>2, <1>4
            <4> QED
                BY <1>4, <3>1, <4>1, <4>2, <4>3
        <3>3. CASE u # s
            BY <1>2, <1>5, <3>1, <3>3
        <3> QED
            BY <3>2, <3>3
    <2> QED
        BY <2>1
<1> QED
    BY <1>1, <1>6, <1>7 DEF TypeOK

\* EventType: so does a step of the tracker.
LEMMA EventType ==
    ASSUME TypeOK, NEW s \in Symbol, HandleEvent(s)
    PROVE  TypeOK'
PROOF
<1> USE DEF server, requests, client
<1> DEFINE e == Head(wire[s])
<1>1. /\ wire \in [Symbol -> Seq(WireEvent)]
      /\ callback \in [Symbol -> Nat]
      /\ \A u \in Symbol : callback[u] <= Len(wire[u]) /\ callback[u] \in Nat
      /\ callback[s] > 0
    BY DEF TypeOK, HandleEvent
<1>2. wire[s] \in Seq(WireEvent) /\ wire[s] # <<>>
    BY <1>1
<1>3. e \in WireEvent /\ Tail(wire[s]) \in Seq(WireEvent)
      /\ Len(Tail(wire[s])) = Len(wire[s]) - 1
    BY <1>2
<1>4. /\ callback' = [callback EXCEPT ![s] = callback[s] - 1]
      /\ wire' = [wire EXCEPT ![s] = Tail(wire[s])]
      /\ UNCHANGED <<now, server, requests, observed, client>>
      /\ HandleSnapshotEvent(s, e) \/ HandleLiveEvent(s, e)
    BY DEF HandleEvent
<1> DEFINE rest == Tail(wire[s])
<1>5. callback' \in [Symbol -> Nat]
    BY <1>1, <1>4
<1>6. wire' \in [Symbol -> Seq(WireEvent)]
    BY <1>1, <1>3, <1>4
<1>7. \A u \in Symbol : callback'[u] <= Len(wire'[u])
    <2>1. ASSUME NEW u \in Symbol PROVE callback'[u] <= Len(wire'[u])
        <3>1. CASE u = s
            <4>1. wire'[u] = rest /\ callback'[u] = callback[s] - 1
                BY <1>1, <1>4, <3>1
            <4>2. Len(wire[s]) \in Nat /\ callback[s] <= Len(wire[s])
                BY <1>1
            <4> QED
                BY <1>1, <1>3, <4>1, <4>2
        <3>2. CASE u # s
            BY <1>1, <1>4, <3>2
        <3> QED
            BY <3>1, <3>2
    <2> QED
        BY <2>1
<1>8. e.id \in Nat
    BY <1>3 DEF WireEvent
<1> HIDE DEF e
<1>9. CASE HandleLiveEvent(s, e)
    <2>1. /\ live' \in [Symbol -> SUBSET Nat]
          /\ sampled' \in [Symbol -> SUBSET Nat]
          /\ count' \in Counters
        <3>1. count \in Counters
            BY DEF TypeOK
        <3>2. [count EXCEPT !.premature = @ + 1] \in Counters
            BY <3>1 DEF Counters
        <3>3. count' \in Counters
            BY <1>9, <3>1, <3>2 DEF HandleLiveEvent
        <3>6. /\ live' = [live EXCEPT ![s] = live[s] \cup {e.id}]
                 \/ live' = live
              /\ sampled' = [sampled EXCEPT ![s] = sampled[s] \cup {e.id}]
                 \/ sampled' = sampled
            <4>1. CASE complete[s]
                BY <1>9, <4>1 DEF HandleLiveEvent
            <4>2. CASE ~ complete[s]
                BY <1>9, <4>2 DEF HandleLiveEvent
            <4> QED
                BY <4>1, <4>2
        <3>7. live \in [Symbol -> SUBSET Nat] /\ sampled \in [Symbol -> SUBSET Nat]
            BY DEF TypeOK
        <3>4. live' \in [Symbol -> SUBSET Nat]
            BY <1>8, <3>6, <3>7
        <3>5. sampled' \in [Symbol -> SUBSET Nat]
            BY <1>8, <3>6, <3>7
        <3> QED
            BY <3>3, <3>4, <3>5
    <2>2. UNCHANGED <<started, complete, indices, completed, completedAt,
                      flawless>>
        BY <1>9 DEF HandleLiveEvent
    <2> QED
        BY <1>4, <1>5, <1>6, <1>7, <2>1, <2>2 DEF TypeOK
<1>10. CASE HandleSnapshotEvent(s, e)
    <2>1. started' \in [Symbol -> BOOLEAN] /\ complete' \in [Symbol -> BOOLEAN]
        BY <1>10 DEF HandleSnapshotEvent, TypeOK
    <2>2. indices' \in [Symbol -> SUBSET Nat]
        BY <1>8, <1>10 DEF HandleSnapshotEvent, TypeOK
    <2>3. count' \in Counters
        <3>1. count \in Counters
            BY DEF TypeOK
        <3>2. \E a, b, c \in Nat :
                 count' = [count EXCEPT !.removed = a, !.snapshot = b,
                                        !.duplicate = c]
            <4>1. /\ count.removed \in Nat /\ count.snapshot \in Nat
                  /\ count.duplicate \in Nat
                BY <3>1 DEF Counters
            <4>2. count.removed + 1 \in Nat /\ count.snapshot + 1 \in Nat
                  /\ count.duplicate + 1 \in Nat
                BY <4>1
            <4> QED
                BY <1>10, <4>1, <4>2 DEF HandleSnapshotEvent
        <3> QED
            BY <3>1, <3>2 DEF Counters
    <2>4. flawless' \in SUBSET Symbol
        BY <1>10 DEF HandleSnapshotEvent, TypeOK
    <2>5. completed' \in Nat /\ completedAt' \in Nat
        BY <1>10 DEF HandleSnapshotEvent, CompletionTime, TypeOK
    <2>6. UNCHANGED <<live, sampled>>
        BY <1>10 DEF HandleSnapshotEvent
    <2> QED
        BY <1>4, <1>5, <1>6, <1>7, <2>1, <2>2, <2>3, <2>4, <2>5, <2>6
        DEF TypeOK
<1> QED
    BY <1>4, <1>9, <1>10

\* EnterType: a callback takes no more events than are on their way.
LEMMA EnterType ==
    ASSUME TypeOK, EnterCallback
    PROVE  TypeOK'
PROOF
<1> USE DEF server, requests, tracker, client
<1>1. PICK n \in [Symbol -> 0 .. MaxCallback] :
         /\ \A s \in Symbol : n[s] <= Len(wire[s])
         /\ callback' = n
    BY DEF EnterCallback
<1>2. callback' \in [Symbol -> Nat]
    BY <1>1, TimeSeriesAssumption DEF TimeSeriesAssumption
<1>3. \A s \in Symbol : callback'[s] <= Len(wire'[s])
    BY <1>1 DEF EnterCallback
<1> QED
    BY <1>2, <1>3 DEF EnterCallback, TypeOK

\* ControlType: so does everything else.
LEMMA ControlType ==
    ASSUME TypeOK,
           \/ Clock \/ \E s \in Symbol : HandleRemoval(s)
           \/ Main \/ GiveUp \/ Interrupt \/ UNCHANGED vars
    PROVE  TypeOK'
PROOF
<1> USE DEF server, requests, listener, tracker, client
<1>1. CASE Clock
    BY <1>1 DEF Clock, TypeOK
<1>2. CASE \E s \in Symbol : HandleRemoval(s)
    BY <1>2 DEF HandleRemoval, TypeOK
<1>3. CASE BeginSnapshot
    <2>1. fromTime' \in Nat /\ subscribedAt' \in Nat
        BY <1>3 DEF BeginSnapshot, TypeOK
    <2>2. expected' \in Nat
        BY <1>3, TimeSeriesAssumption, FS_CardinalityType
        DEF BeginSnapshot, TimeSeriesAssumption
    <2> QED
        BY <1>3, <2>1, <2>2 DEF BeginSnapshot, TypeOK, Stage
<1>4. CASE AddSymbols
    BY <1>4 DEF AddSymbols, TypeOK, Stage
<1>5. CASE SnapshotDone
    BY <1>5 DEF SnapshotDone, TypeOK, Stage
<1>6. CASE RemoveSymbols
    BY <1>6 DEF RemoveSymbols, TypeOK, Stage
<1>7. CASE BeginMeasurement
    BY <1>7 DEF BeginMeasurement, TypeOK, Stage, NoSymbols
<1>8. CASE EndMeasurement
    BY <1>8 DEF EndMeasurement, TypeOK, Stage
<1>9. CASE GiveUp
    BY <1>9 DEF GiveUp, TypeOK, Stage
<1>10. CASE Interrupt
    BY <1>10 DEF Interrupt, TypeOK, Stage
<1>11. CASE UNCHANGED vars
    BY <1>11 DEF vars, TypeOK
<1> QED
    BY <1>1, <1>2, <1>3, <1>4, <1>5, <1>6, <1>7, <1>8, <1>9, <1>10, <1>11
    DEF Main

\* TypeStep: every step keeps the types.
LEMMA TypeStep == TypeOK /\ [Next]_vars => TypeOK'
PROOF
<1> SUFFICES ASSUME TypeOK, [Next]_vars PROVE TypeOK'
    OBVIOUS
<1> QED
    BY PublishType, RequestType, EventType, EnterType, ControlType
    DEF Next, Serve, Listen, Finished

\* TypeCorrect: the server, the wire and the tracker keep their types; a
\* callback never takes more events than are on their way.
THEOREM TypeCorrect == Spec => []TypeOK
PROOF
<1>1. TypeOK /\ [Next]_vars => TypeOK'
    BY TypeStep
<1> QED
    BY TypeInit, <1>1, PTL DEF Spec
-----------------------------------------------------------------------------
(* The inductive invariant.                                                 *)

\* The request of s has been answered.
Asked == expected # 0 /\ stage # "subscribing"
Answered(s) == Asked /\ s \notin adding

\* The records of s: numbered by publication, in the order of their times.
RecordsOrdered(s) ==
    /\ \A r \in record[s] : r.id \in 1 .. published /\ r.time <= now
    /\ \A q, r \in record[s] : /\ q.id < r.id => q.time <= r.time
                               /\ q.id = r.id => q = r

\* The history is the newest end of the records, all of them unless truncated.
HistoryIsNewest(s) ==
    LET h == history[s]
    IN  /\ Len(h) <= HistoryLimit
        /\ \A i \in 1 .. Len(h) : h[i] \in record[s]
        /\ \A i, j \in 1 .. Len(h) : i < j => h[i].id < h[j].id
        /\ Len(h) = 0 => record[s] = {}
        /\ \A r \in record[s] :
              ~ truncated[s] \/ h[1].id <= r.id
                  => \E i \in 1 .. Len(h) : h[i] = r

\* Nothing of s is sent before its request is answered.
Unasked(s) ==
    ~ Answered(s) =>
        /\ s \notin subscribed
        /\ Len(wire[s]) = 0
        /\ indices[s] = {}
        /\ live[s] = {}
        /\ ~ started[s]
        /\ ~ complete[s]
        /\ s \notin flawless

\* What reaches the client is a gapless part of the records, up to the newest
\* one while s is subscribed.
Contiguous(s) ==
    /\ \A i \in Got(s) : \E r \in record[s] : r.id = i
    /\ \A i, k \in Got(s) : \A r \in record[s] :
          i < r.id /\ r.id < k => r.id \in Got(s)
    /\ s \in subscribed =>
          \A i \in Got(s) : \A r \in record[s] : i < r.id => r.id \in Got(s)

\* The first n events on their way are the rest of the snapshot, the others
\* are live ones.
SnapshotLeft(s, n) ==
    LET w == wire[s]
    IN  /\ complete[s] <=> n = 0
        /\ \A i \in 1 .. n :
              /\ {"END", "SNIP"} \cap w[i].flags # {} <=> i = n
              /\ "BEGIN" \in w[i].flags <=> i = 1 /\ ~ started[s]
              /\ "REMOVE" \in w[i].flags <=> w[i].id = Boundary
              /\ w[i].id = Boundary => i = n
        /\ \A i \in n + 1 .. Len(w) : w[i].flags = {} /\ w[i].id # Boundary

\* The snapshot goes down, and all that is live is newer.
Cutover(s, n) ==
    LET w == wire[s]
    IN  /\ \A i, j \in 1 .. n : i < j => w[j].id < w[i].id
        /\ \A k \in indices[s], i \in 1 .. n : w[i].id < k
        /\ \A i \in n + 1 .. Len(w), j \in 1 .. n : w[j].id < w[i].id
        /\ \A i \in n + 1 .. Len(w), k \in indices[s] : k < w[i].id
        /\ \A k \in live[s] : n = 0 /\ \A j \in indices[s] : j < k

\* A snapshot that is to end in SNAPSHOT_END, or did, has all.
EndHasAll(s, n) ==
    /\ s \in subscribed
    /\ s \in flawless \/ (n > 0 /\ "END" \in wire[s][n].flags)
    => \A r \in record[s] : r.time > fromTime => r.id \in Got(s)

Split(s, n) == SnapshotLeft(s, n) /\ Cutover(s, n) /\ EndHasAll(s, n)

SymbolInv(s) ==
    /\ RecordsOrdered(s)
    /\ HistoryIsNewest(s)
    /\ Unasked(s)
    /\ Contiguous(s)
    /\ Answered(s) => \E n \in 0 .. Len(wire[s]) : Split(s, n)

\* The stages at which nothing has been requested, and the counters that stay.
PhaseInv ==
    /\ expected = 0 =>
          /\ stage \in {"prefill", "measuring", "timedOut", "ended"}
          /\ adding = {}
    /\ stage = "subscribing" => adding = {}
    /\ count.duplicate = 0 /\ count.premature = 0

SeriesInv == PhaseInv /\ \A s \in Symbol : SymbolInv(s)

-----------------------------------------------------------------------------
(* Steps that leave a symbol alone.                                         *)

\* GotIs: the members of Got, here and after a step.
LEMMA GotIs ==
    ASSUME NEW s \in Symbol
    PROVE  \A k : k \in Got(s) <=>
              \/ k \in indices[s] \/ k \in live[s]
              \/ k # Boundary /\ \E i \in 1 .. Len(wire[s]) : wire[s][i].id = k
BY DEF Got, OnWire

\* GotIsNext: the same after a step.
LEMMA GotIsNext ==
    ASSUME NEW s \in Symbol
    PROVE  \A k : k \in Got(s)' <=>
              \/ k \in indices'[s] \/ k \in live'[s]
              \/ k # Boundary
                 /\ \E i \in 1 .. Len(wire'[s]) : wire'[s][i].id = k
BY DEF Got, OnWire, Boundary

\* Undisturbed: nothing of s that the invariant speaks of is new, but for the
\* wall clock, other publications and the end of its subscription.
Undisturbed(s) ==
    /\ history'[s] = history[s] /\ truncated'[s] = truncated[s]
    /\ record'[s] = record[s]
    /\ published' >= published /\ now' >= now
    /\ wire'[s] = wire[s]
    /\ started'[s] = started[s] /\ complete'[s] = complete[s]
    /\ indices'[s] = indices[s] /\ live'[s] = live[s]
    /\ s \in flawless' <=> s \in flawless
    /\ s \in subscribed' => s \in subscribed
    /\ Answered(s)' <=> Answered(s)
    /\ Answered(s) => fromTime' = fromTime

\* UndisturbedKept: then its invariants hold again.
LEMMA UndisturbedKept ==
    ASSUME TypeOK, TypeOK', NEW s \in Symbol, SymbolInv(s), Undisturbed(s)
    PROVE  SymbolInv(s)'
PROOF
<1> USE DEF Undisturbed
<1>1. Got(s)' = Got(s)
    BY DEF Got, OnWire
<1>2. RecordsOrdered(s)'
    <2>1. \A r \in record[s] : r.id \in Nat /\ r.time \in Nat
        BY SMTT(20) DEF TypeOK, Record
    <2>2. /\ published \in Nat /\ now \in Nat
          /\ published' \in Nat /\ now' \in Nat
        BY DEF TypeOK
    <2>3. \A r \in record'[s] : r.id \in 1 .. published' /\ r.time <= now'
        BY <2>1, <2>2 DEF SymbolInv, RecordsOrdered
    <2> QED
        BY <2>3 DEF SymbolInv, RecordsOrdered
<1>3. HistoryIsNewest(s)'
    BY DEF SymbolInv, HistoryIsNewest
<1>4. Unasked(s)'
    BY DEF SymbolInv, Unasked
<1>5. Contiguous(s)'
    BY <1>1 DEF SymbolInv, Contiguous
<1>6. ASSUME Answered(s)' PROVE \E n \in 0 .. Len(wire'[s]) : Split(s, n)'
    <2>1. PICK n \in 0 .. Len(wire[s]) : Split(s, n)
        BY <1>6 DEF SymbolInv
    <2>2. SnapshotLeft(s, n)'
        BY <2>1 DEF Split, SnapshotLeft
    <2>3. Cutover(s, n)'
        BY <2>1 DEF Split, Cutover
    <2>4. EndHasAll(s, n)'
        BY <1>1, <1>6, <2>1 DEF Split, EndHasAll
    <2> QED
        BY <2>1, <2>2, <2>3, <2>4 DEF Split
<1> QED
    BY <1>2, <1>3, <1>4, <1>5, <1>6 DEF SymbolInv

\* RequestsKept: the answered requests stay the answered ones, and a lower
\* bound that was used stays.
LEMMA RequestsKept ==
    ASSUME UNCHANGED <<expected, adding, fromTime>>,
           stage' = "subscribing" <=> stage = "subscribing"
    PROVE  \A s \in Symbol : (Answered(s)' <=> Answered(s)) /\ fromTime' = fromTime
BY DEF Answered, Asked

\* ControlKept: the main thread, the clock, a new callback and the end of a
\* subscription disturb no symbol.
LEMMA ControlKept ==
    ASSUME TypeOK, TypeOK', SeriesInv,
           \/ Clock \/ \E s \in Symbol : HandleRemoval(s)
           \/ EnterCallback \/ Main \/ GiveUp \/ Interrupt \/ UNCHANGED vars
    PROVE  SeriesInv'
PROOF
<1> USE DEF server, requests, listener, tracker, client
<1>1. /\ published' = published /\ now' >= now
      /\ UNCHANGED <<history, truncated, record, wire, started, complete,
                     indices, live, flawless, count>>
      /\ \A s \in Symbol : s \in subscribed' => s \in subscribed
    <2>1. now \in Nat
        BY DEF TypeOK
    <2> QED
        BY <2>1 DEF Clock, HandleRemoval, EnterCallback, Main, GiveUp, Interrupt,
           BeginSnapshot, AddSymbols, SnapshotDone, RemoveSymbols,
           BeginMeasurement, EndMeasurement, vars
<1>2. published \in Nat
    BY DEF TypeOK
<1>3. /\ PhaseInv'
      /\ \A s \in Symbol : /\ Answered(s)' <=> Answered(s)
                           /\ Answered(s) => fromTime' = fromTime
    <2>1. CASE BeginSnapshot
        <3>1. Cardinality(Symbol) # 0
            BY TimeSeriesAssumption, FS_EmptySet DEF TimeSeriesAssumption
        <3>2. expected' # 0
            BY <2>1, <3>1 DEF BeginSnapshot
        <3> QED
            BY <1>1, <2>1, <3>2
            DEF BeginSnapshot, SeriesInv, PhaseInv, Answered, Asked
    <2>2. CASE AddSymbols
        BY <1>1, <2>2 DEF AddSymbols, SeriesInv, PhaseInv, Answered, Asked
    <2>3. CASE ~ BeginSnapshot /\ ~ AddSymbols
        <3>1. /\ UNCHANGED <<expected, adding, fromTime>>
              /\ stage' = "subscribing" <=> stage = "subscribing"
            BY <2>3 DEF Clock, HandleRemoval, EnterCallback, Main, GiveUp,
               Interrupt, SnapshotDone, RemoveSymbols, BeginMeasurement,
               EndMeasurement, vars
        <3>2. expected = 0 /\ stage' # stage
                 => stage' \in {"prefill", "measuring", "timedOut", "ended"}
            BY <2>3 DEF Clock, HandleRemoval, EnterCallback, Main, GiveUp,
               Interrupt, SnapshotDone, RemoveSymbols, BeginMeasurement,
               EndMeasurement, vars, SeriesInv, PhaseInv
        <3>3. PhaseInv'
            BY <1>1, <3>1, <3>2 DEF SeriesInv, PhaseInv
        <3> QED
            BY <3>1, <3>3, RequestsKept
    <2> QED
        BY <2>1, <2>2, <2>3
<1>4. ASSUME NEW s \in Symbol PROVE SymbolInv(s)'
    <2>1. Undisturbed(s)
        BY <1>1, <1>2, <1>3 DEF Undisturbed
    <2> QED
        BY <2>1, UndisturbedKept DEF SeriesInv
<1> QED
    BY <1>3, <1>4 DEF SeriesInv
-----------------------------------------------------------------------------
(* The tracker takes an event.                                              *)

\* Taken: what every step of the tracker does to the symbol of its event.
Taken(s) ==
    /\ Len(wire[s]) > 0
    /\ Len(wire'[s]) = Len(wire[s]) - 1
    /\ \A i \in 1 .. Len(wire'[s]) : wire'[s][i] = wire[s][i + 1]
    /\ record'[s] = record[s]
    /\ s \in subscribed' <=> s \in subscribed
    /\ fromTime' = fromTime

\* EventTaken: HandleEvent takes the first event of s.
LEMMA EventTaken ==
    ASSUME TypeOK, NEW s \in Symbol, HandleEvent(s)
    PROVE  /\ Taken(s)
           /\ \A u \in Symbol \ {s} : wire'[u] = wire[u]
           /\ UNCHANGED <<now, server, requests, observed, client>>
           /\ Len(wire[s]) \in Nat
           /\ Head(wire[s]) = wire[s][1] /\ wire[s][1] \in WireEvent
PROOF
<1> USE DEF server, requests, client
<1>1. /\ wire \in [Symbol -> Seq(WireEvent)]
      /\ callback[s] <= Len(wire[s]) /\ callback[s] \in Nat /\ callback[s] > 0
    BY DEF TypeOK, HandleEvent
<1>2. wire' = [wire EXCEPT ![s] = Tail(wire[s])]
      /\ UNCHANGED <<now, server, requests, observed, client>>
    BY DEF HandleEvent
<1>3. \A w \in Seq(WireEvent) : Len(w) > 0 =>
         /\ Len(Tail(w)) = Len(w) - 1
         /\ \A i \in 1 .. Len(Tail(w)) : Tail(w)[i] = w[i + 1]
         /\ Head(w) = w[1] /\ w[1] \in WireEvent
    OBVIOUS
<1>4. wire[s] \in Seq(WireEvent) /\ Len(wire[s]) \in Nat /\ Len(wire[s]) > 0
    BY <1>1
<1>5. wire'[s] = Tail(wire[s]) /\ \A u \in Symbol \ {s} : wire'[u] = wire[u]
    BY <1>1, <1>2
<1> QED
    BY <1>2, <1>3, <1>4, <1>5 DEF Taken

\* TakenRemains: the events on their way afterwards are all but the first.
LEMMA TakenRemains ==
    ASSUME TypeOK, NEW s \in Symbol, Taken(s)
    PROVE  \A k : (\E i \in 1 .. Len(wire[s]) : wire[s][i].id = k) <=>
              \/ wire[s][1].id = k
              \/ \E i \in 1 .. Len(wire'[s]) : wire'[s][i].id = k
PROOF
<1>1. Len(wire[s]) \in Nat
    BY DEF TypeOK
<1>2. ASSUME NEW k, NEW i \in 1 .. Len(wire[s]), wire[s][i].id = k
      PROVE  \/ wire[s][1].id = k
             \/ \E j \in 1 .. Len(wire'[s]) : wire'[s][j].id = k
    <2>1. CASE i = 1
        BY <1>2, <2>1
    <2>2. CASE i # 1
        <3>1. i - 1 \in 1 .. Len(wire'[s]) /\ (i - 1) + 1 = i
            BY <1>1, <1>2, <2>2 DEF Taken
        <3>2. wire'[s][i - 1] = wire[s][i]
            BY <3>1 DEF Taken
        <3> QED
            BY <1>2, <3>1, <3>2
    <2> QED
        BY <2>1, <2>2
<1>3. ASSUME NEW k, NEW i \in 1 .. Len(wire'[s]), wire'[s][i].id = k
      PROVE  \E j \in 1 .. Len(wire[s]) : wire[s][j].id = k
    <2>1. i + 1 \in 1 .. Len(wire[s]) /\ wire'[s][i] = wire[s][i + 1]
        BY <1>1, <1>3 DEF Taken
    <2> QED
        BY <1>3, <2>1
<1>4. 1 \in 1 .. Len(wire[s])
    BY <1>1 DEF Taken
<1> QED
    BY <1>2, <1>3, <1>4

\* LiveKept: a live event is newer than the snapshot it follows.
LEMMA LiveKept ==
    ASSUME TypeOK, NEW s \in Symbol, Taken(s), Split(s, 0),
           live'[s] = live[s] \cup {wire[s][1].id},
           indices'[s] = indices[s], complete'[s] = complete[s],
           started'[s] = started[s], s \in flawless' <=> s \in flawless
    PROVE  Split(s, 0)' /\ \A k : k \in Got(s)' <=> k \in Got(s)
PROOF
<1>1. Len(wire[s]) \in Nat /\ 1 \in 1 .. Len(wire[s])
    BY DEF TypeOK, Taken
<1>2. wire[s][1].id # Boundary
    BY <1>1 DEF Split, SnapshotLeft
<1>3. \A k : k \in Got(s)' <=> k \in Got(s)
    BY <1>2, GotIs, GotIsNext, TakenRemains
<1>4. \A i \in 1 .. Len(wire'[s]) :
         i + 1 \in 1 .. Len(wire[s]) /\ wire'[s][i] = wire[s][i + 1]
    BY <1>1 DEF Taken
<1>5. SnapshotLeft(s, 0)'
    BY <1>4, SMTT(20) DEF Split, SnapshotLeft, Boundary
<1>6. Cutover(s, 0)'
    <2>1. \A k \in indices'[s], i \in 1 .. Len(wire'[s]) : k < wire'[s][i].id
        BY <1>4 DEF Split, Cutover
    <2>2. \A k \in live'[s], j \in indices'[s] : j < k
        BY <1>1 DEF Split, Cutover
    <2> QED
        BY <2>1, <2>2 DEF Cutover
<1>7. EndHasAll(s, 0)'
    BY <1>3 DEF Split, EndHasAll, Taken
<1> QED
    BY <1>3, <1>5, <1>6, <1>7 DEF Split

\* SnapshotTaken: what an event of the snapshot does to its symbol.
SnapshotTaken(s) ==
    LET e == wire[s][1]
    IN  /\ live'[s] = live[s]
        /\ indices'[s] = IF "REMOVE" \in e.flags THEN indices[s]
                         ELSE indices[s] \cup {e.id}
        /\ started'[s] = (started[s] \/ "BEGIN" \in e.flags)
        /\ complete'[s] = (complete[s] \/ {"END", "SNIP"} \cap e.flags # {})
        /\ s \in flawless' => s \in flawless \/ "END" \in e.flags

\* SnapshotKept: an event of the snapshot is older than those before it; the
\* one that ends it completes its symbol.
LEMMA SnapshotKept ==
    ASSUME TypeOK, NEW s \in Symbol, Taken(s), NEW n \in Nat, n > 0,
           n <= Len(wire[s]), Split(s, n), SnapshotTaken(s)
    PROVE  Split(s, n - 1)' /\ \A k : k \in Got(s)' <=> k \in Got(s)
PROOF
<1> DEFINE e == wire[s][1]
           m == n - 1
<1>1. /\ Len(wire[s]) \in Nat /\ 1 \in 1 .. Len(wire[s]) /\ 1 \in 1 .. n
      /\ m \in Nat /\ ~ complete[s]
    BY DEF TypeOK, Taken, Split, SnapshotLeft
<1>2. /\ "REMOVE" \in e.flags <=> e.id = Boundary
      /\ e.id = Boundary => n = 1
      /\ {"END", "SNIP"} \cap e.flags # {} <=> n = 1
      /\ "BEGIN" \in e.flags <=> ~ started[s]
    BY <1>1 DEF Split, SnapshotLeft
<1>3. ASSUME NEW k PROVE k \in Got(s)' <=> k \in Got(s)
    <2> DEFINE OnTheirWay == \E i \in 1 .. Len(wire[s]) : wire[s][i].id = k
               Remaining == \E i \in 1 .. Len(wire'[s]) : wire'[s][i].id = k
    <2>1. OnTheirWay <=> e.id = k \/ Remaining
        BY TakenRemains
    <2>4. k \in Got(s) <=>
             \/ k \in indices[s] \/ k \in live[s]
             \/ k # Boundary /\ OnTheirWay
        BY GotIs
    <2>5. k \in Got(s)' <=>
             \/ k \in indices'[s] \/ k \in live'[s]
             \/ k # Boundary /\ Remaining
        BY GotIsNext
    <2> HIDE DEF OnTheirWay, Remaining
    <2>2. CASE e.id = Boundary
        BY <1>2, <2>1, <2>2, <2>4, <2>5 DEF SnapshotTaken
    <2>3. CASE e.id # Boundary
        BY <1>2, <2>1, <2>3, <2>4, <2>5 DEF SnapshotTaken
    <2> QED
        BY <2>2, <2>3
<1>4. /\ \A i \in 1 .. m : i + 1 \in 1 .. n /\ wire'[s][i] = wire[s][i + 1]
      /\ \A i \in m + 1 .. Len(wire'[s]) :
            i + 1 \in n + 1 .. Len(wire[s]) /\ wire'[s][i] = wire[s][i + 1]
    <2>1. /\ Len(wire'[s]) = Len(wire[s]) - 1
          /\ \A i \in 1 .. Len(wire'[s]) : wire'[s][i] = wire[s][i + 1]
        BY DEF Taken
    <2>2. Len(wire[s]) \in Nat /\ n \in Nat /\ m = n - 1 /\ n <= Len(wire[s])
        BY <1>1
    <2> HIDE DEF m
    <2>3. \A i \in 1 .. m : i + 1 \in 1 .. n /\ i \in 1 .. Len(wire'[s])
        BY <2>1, <2>2
    <2>4. \A i \in m + 1 .. Len(wire'[s]) :
             i + 1 \in n + 1 .. Len(wire[s]) /\ i \in 1 .. Len(wire'[s])
        BY <1>1, <2>1, <2>2
    <2> QED
        BY <2>1, <2>3, <2>4
<1>5. /\ complete'[s] <=> m = 0
      /\ started'[s]
    <2>1. (n = 1 <=> m = 0) /\ started[s] \in BOOLEAN
        BY DEF TypeOK
    <2>2. complete'[s] <=> {"END", "SNIP"} \cap e.flags # {}
        BY <1>1, Zenon DEF SnapshotTaken
    <2>3. started'[s] <=> started[s] \/ "BEGIN" \in e.flags
        BY Zenon DEF SnapshotTaken
    <2> QED
        BY <1>2, <2>1, <2>2, <2>3
<1> HIDE DEF e
<1>6. SnapshotLeft(s, m)'
    <2>1. \A i \in 1 .. m :
             /\ {"END", "SNIP"} \cap wire'[s][i].flags # {} <=> i = m
             /\ ~ ("BEGIN" \in wire'[s][i].flags)
             /\ "REMOVE" \in wire'[s][i].flags <=> wire'[s][i].id = Boundary
             /\ wire'[s][i].id = Boundary => i = m
        <3>1. ASSUME NEW i \in 1 .. m
              PROVE  /\ {"END", "SNIP"} \cap wire'[s][i].flags # {} <=> i = m
                     /\ ~ ("BEGIN" \in wire'[s][i].flags)
                     /\ "REMOVE" \in wire'[s][i].flags
                           <=> wire'[s][i].id = Boundary
                     /\ wire'[s][i].id = Boundary => i = m
            <4>1. i + 1 \in 1 .. n /\ wire'[s][i] = wire[s][i + 1]
                BY <1>4
            <4>2. (i + 1 = n <=> i = m) /\ i + 1 # 1
                BY <1>1
            <4>3. SnapshotLeft(s, n)
                BY DEF Split
            <4> HIDE DEF m
            <4> QED
                BY <4>1, <4>2, <4>3 DEF SnapshotLeft
        <3> QED
            BY <3>1
    <2>2. \A i \in m + 1 .. Len(wire'[s]) :
             wire'[s][i].flags = {} /\ wire'[s][i].id # Boundary
        BY <1>4 DEF Split, SnapshotLeft
    <2> QED
        BY <1>5, <2>1, <2>2 DEF SnapshotLeft, Boundary
<1>7. Cutover(s, m)'
    <2>1. /\ \A i, j \in 1 .. m : i < j => wire'[s][j].id < wire'[s][i].id
          /\ \A i \in m + 1 .. Len(wire'[s]), j \in 1 .. m :
                wire'[s][j].id < wire'[s][i].id
        <3>1. \A i, j \in 1 .. m : i < j => i + 1 < j + 1
            BY <1>1
        <3> QED
            BY <1>4, <3>1 DEF Split, Cutover
    <2>2. \A k \in indices'[s] : k \in indices[s] \/ k = e.id
        BY DEF SnapshotTaken, e
    <2>3. \A i \in 1 .. m : wire'[s][i].id < e.id
        <3>1. \A i \in 1 .. m : 1 < i + 1
            BY <1>1
        <3> QED
            BY <1>1, <1>4, <3>1 DEF Split, Cutover, e
    <2>4. \A i \in m + 1 .. Len(wire'[s]) : e.id < wire'[s][i].id
        BY <1>1, <1>4 DEF Split, Cutover, e
    <2>5. \A k \in indices[s], i \in 1 .. m : wire'[s][i].id < k
        BY <1>4 DEF Split, Cutover
    <2>6. \A k \in indices[s], i \in m + 1 .. Len(wire'[s]) : k < wire'[s][i].id
        BY <1>4 DEF Split, Cutover
    <2>7. live'[s] = {}
        BY DEF SnapshotTaken, Split, Cutover
    <2> QED
        BY <2>1, <2>2, <2>3, <2>4, <2>5, <2>6, <2>7 DEF Cutover
<1>8. EndHasAll(s, m)'
    <2>1. ASSUME s \in subscribed',
                 s \in flawless' \/ (m > 0 /\ "END" \in wire'[s][m].flags)
          PROVE  s \in flawless \/ "END" \in wire[s][n].flags
        <3>1. CASE s \in flawless'
            <4>1. CASE "END" \in e.flags
                <5>1. n = 1
                    BY <1>2, <4>1
                <5> QED
                    BY <4>1, <5>1 DEF e
            <4> QED
                BY <3>1, <4>1 DEF SnapshotTaken, e
        <3>2. CASE m > 0 /\ "END" \in wire'[s][m].flags
            <4>1. m \in 1 .. m /\ m + 1 = n
                BY <1>1, <3>2
            <4> QED
                BY <1>4, <3>2, <4>1
        <3> QED
            BY <2>1, <3>1, <3>2
    <2> QED
        BY <1>3, <2>1 DEF Split, EndHasAll, Taken
<1> QED
    BY <1>3, <1>6, <1>7, <1>8 DEF Split

\* EventKept: the tracker keeps the invariant, and no event is a duplicate or
\* premature.
LEMMA EventKept ==
    ASSUME TypeOK, TypeOK', SeriesInv, NEW s \in Symbol, HandleEvent(s)
    PROVE  SeriesInv'
PROOF
<1> USE DEF server, requests, client
<1> DEFINE e == wire[s][1]
<1>1. /\ Taken(s)
      /\ \A u \in Symbol \ {s} : wire'[u] = wire[u]
      /\ UNCHANGED <<now, server, requests, observed, client>>
      /\ Len(wire[s]) \in Nat
      /\ Head(wire[s]) = e /\ e \in WireEvent
    BY EventTaken
<1>2. SymbolInv(s) /\ PhaseInv
    BY DEF SeriesInv
<1>3. Answered(s)
    <2>1. Len(wire[s]) # 0
        BY <1>1 DEF Taken
    <2> QED
        BY <1>2, <2>1 DEF SymbolInv, Unasked
<1>4. \A u \in Symbol : (Answered(u)' <=> Answered(u)) /\ fromTime' = fromTime
    BY <1>1 DEF Answered, Asked
<1>5. PICK n \in 0 .. Len(wire[s]) : Split(s, n)
    BY <1>2, <1>3 DEF SymbolInv
<1>6. n \in Nat /\ 1 \in 1 .. Len(wire[s])
    BY <1>1, <1>5 DEF Taken
<1>7. /\ started \in [Symbol -> BOOLEAN] /\ complete \in [Symbol -> BOOLEAN]
      /\ live \in [Symbol -> SUBSET Nat] /\ indices \in [Symbol -> SUBSET Nat]
    BY DEF TypeOK
<1>8. /\ UNCHANGED <<count.duplicate, count.premature>>
      /\ \A u \in Symbol \ {s} :
            /\ started'[u] = started[u] /\ complete'[u] = complete[u]
            /\ indices'[u] = indices[u] /\ live'[u] = live[u]
            /\ u \in flawless' <=> u \in flawless
      /\ \E m \in 0 .. Len(wire'[s]) :
            Split(s, m)' /\ \A k : k \in Got(s)' <=> k \in Got(s)
    <2>1. CASE n = 0
        <3>1. complete[s] /\ e.flags = {}
            BY <1>5, <1>6, <2>1 DEF Split, SnapshotLeft
        <3>2. HandleLiveEvent(s, e)
            BY <1>1, <3>1 DEF HandleEvent
        <3>3. /\ live' = [live EXCEPT ![s] = live[s] \cup {e.id}]
              /\ UNCHANGED <<count, started, complete, indices, flawless>>
            BY <3>1, <3>2 DEF HandleLiveEvent
        <3>4. live'[s] = live[s] \cup {e.id}
            BY <1>7, <3>3
        <3>5. Split(s, 0)' /\ \A k : k \in Got(s)' <=> k \in Got(s)
            BY <1>1, <1>5, <2>1, <3>3, <3>4, LiveKept
        <3>6. 0 \in 0 .. Len(wire'[s])
            BY <1>1 DEF Taken
        <3> QED
            BY <1>7, <3>3, <3>5, <3>6
    <2>2. CASE n # 0
        <3>1. n > 0 /\ n <= Len(wire[s]) /\ 1 \in 1 .. n
            BY <1>1, <1>5, <1>6, <2>2
        <3>2. ~ complete[s] /\ (started[s] \/ "BEGIN" \in e.flags)
            BY <1>5, <2>2, <3>1 DEF Split, SnapshotLeft
        <3>3. HandleSnapshotEvent(s, e)
            BY <1>1, <3>2 DEF HandleEvent
        <3>4. e.id \notin indices[s]
            <4>1. e.id \in Nat
                BY <1>1 DEF WireEvent
            <4>2. \A k \in indices[s] : e.id < k
                BY <1>5, <3>1 DEF Split, Cutover
            <4> QED
                BY <4>1, <4>2
        <3>5. UNCHANGED <<count.duplicate, count.premature>>
            <4>1. count \in Counters
                BY DEF TypeOK
            <4> QED
                BY <3>3, <3>4, <4>1 DEF HandleSnapshotEvent, Counters
        <3>6. SnapshotTaken(s)
            BY <1>7, <3>2, <3>3 DEF HandleSnapshotEvent, SnapshotTaken
        <3>7. Split(s, n - 1)' /\ \A k : k \in Got(s)' <=> k \in Got(s)
            BY <1>1, <1>5, <1>6, <3>1, <3>6, SnapshotKept
        <3>8. n - 1 \in 0 .. Len(wire'[s])
            BY <1>1, <1>6, <3>1 DEF Taken
        <3>9. \A u \in Symbol \ {s} :
                 /\ started'[u] = started[u] /\ complete'[u] = complete[u]
                 /\ indices'[u] = indices[u] /\ live'[u] = live[u]
                 /\ u \in flawless' <=> u \in flawless
            BY <1>7, <3>3 DEF HandleSnapshotEvent
        <3> QED
            BY <3>5, <3>7, <3>8, <3>9
    <2> QED
        BY <2>1, <2>2
<1>9. PhaseInv'
    BY <1>1, <1>2, <1>8 DEF PhaseInv
<1>10. ASSUME NEW u \in Symbol, u # s PROVE SymbolInv(u)'
    <2>1. published \in Nat /\ now \in Nat
        BY DEF TypeOK
    <2>2. Undisturbed(u)
        BY <1>1, <1>4, <1>8, <1>10, <2>1 DEF Undisturbed
    <2> QED
        BY <2>2, UndisturbedKept DEF SeriesInv
<1>11. SymbolInv(s)'
    <2>1. RecordsOrdered(s)'
        BY <1>1, <1>2 DEF SymbolInv, RecordsOrdered
    <2>2. HistoryIsNewest(s)'
        BY <1>1, <1>2 DEF SymbolInv, HistoryIsNewest
    <2>3. Unasked(s)'
        BY <1>3, <1>4 DEF Unasked
    <2>4. Contiguous(s)'
        BY <1>1, <1>2, <1>8 DEF SymbolInv, Contiguous
    <2> QED
        BY <1>8, <2>1, <2>2, <2>3, <2>4 DEF SymbolInv
<1> QED
    BY <1>9, <1>10, <1>11 DEF SeriesInv
-----------------------------------------------------------------------------
(* The server answers a request.                                            *)

\* HistoryOrder: the history goes up in publications and times.
LEMMA HistoryOrder ==
    ASSUME TypeOK, NEW s \in Symbol, SymbolInv(s)
    PROVE  LET h == history[s]
           IN  /\ h \in Seq(Record) /\ Len(h) \in Nat
               /\ \A i \in 1 .. Len(h) : /\ h[i] \in record[s]
                                         /\ h[i].id \in Nat /\ h[i].time \in Nat
                                         /\ h[i].id > 0
               /\ \A i, j \in 1 .. Len(h) : h[i].id < h[j].id => i < j
               /\ \A i, j \in 1 .. Len(h) :
                     i <= j => h[i].id <= h[j].id /\ h[i].time <= h[j].time
PROOF
<1> DEFINE h == history[s]
<1>1. h \in Seq(Record) /\ Len(h) \in Nat /\ record[s] \subseteq Record
    BY DEF TypeOK
<1>2. \A i \in 1 .. Len(h) :
         /\ h[i] \in record[s] /\ h[i] \in Record
         /\ h[i].id \in 1 .. published
    BY <1>1 DEF SymbolInv, HistoryIsNewest, RecordsOrdered
<1>3. \A i \in 1 .. Len(h) : /\ h[i].id \in Nat /\ h[i].time \in Nat
                             /\ h[i].id > 0
    BY <1>2 DEF Record, TypeOK
<1>4. \A i, j \in 1 .. Len(h) : i < j => h[i].id < h[j].id
    BY DEF SymbolInv, HistoryIsNewest
<1>5. ASSUME NEW i \in 1 .. Len(h), NEW j \in 1 .. Len(h), h[i].id < h[j].id
      PROVE  i < j
    <2>1. CASE i = j
        BY <1>3, <1>5, <2>1
    <2>2. CASE j < i
        <3>1. h[j].id < h[i].id
            BY <1>4, <2>2
        <3> QED
            BY <1>3, <1>5, <3>1
    <2> QED
        BY <1>1, <2>1, <2>2
<1>6. ASSUME NEW i \in 1 .. Len(h), NEW j \in 1 .. Len(h), i <= j
      PROVE  h[i].id <= h[j].id /\ h[i].time <= h[j].time
    <2>1. CASE i = j
        BY <1>3, <2>1
    <2>2. CASE i < j
        <3>1. h[i].id < h[j].id
            BY <1>4, <2>2
        <3>2. h[i].time <= h[j].time
            BY <1>2, <3>1 DEF SymbolInv, RecordsOrdered
        <3> QED
            BY <1>3, <3>1, <3>2
    <2> QED
        BY <1>1, <1>6, <2>1, <2>2
<1> QED
    BY <1>1, <1>2, <1>3, <1>5, <1>6

\* NewestHasAll: the n newest records are all that are newer than from, unless
\* the snapshot has to be snipped.
LEMMA NewestHasAll ==
    ASSUME TypeOK, NEW s \in Symbol, SymbolInv(s), NEW from \in Nat,
           NEW n \in 0 .. Len(history[s]), Newest(history[s], from, n),
           ~ (IsTruncated(s, from) /\ n # 0),
           NEW r \in record[s], r.time > from
    PROVE  \E i \in 1 .. n : history[s][Len(history[s]) + 1 - i] = r
PROOF
<1> DEFINE h == history[s]
<1>1. /\ h \in Seq(Record) /\ Len(h) \in Nat
      /\ \A i \in 1 .. Len(h) : /\ h[i] \in record[s]
                                /\ h[i].id \in Nat /\ h[i].time \in Nat
      /\ \A i, j \in 1 .. Len(h) :
            i <= j => h[i].id <= h[j].id /\ h[i].time <= h[j].time
    BY HistoryOrder
<1>2. r.id \in Nat /\ r.time \in Nat
    BY DEF TypeOK, Record
<1>3. Len(h) # 0
    BY DEF SymbolInv, HistoryIsNewest
<1>4. n \in Nat /\ 1 \in 1 .. Len(h) /\ Len(h) \in 1 .. Len(h)
    BY <1>1, <1>3
<1>5. ~ truncated[s] \/ h[1].time <= from
    <2>1. CASE n # 0
        <3>1. h # <<>> /\ Head(h) = h[1]
            BY <1>1, <1>3
        <3>2. ~ truncated[s] \/ ~ (h[1].time > from)
            BY <2>1, <3>1 DEF IsTruncated
        <3> QED
            BY <1>1, <1>4, <3>2
    <2>2. CASE n = 0
        <3>1. Len(h) - n = Len(h)
            BY <1>1, <2>2
        <3>2. h[Len(h)].time < from
            BY <1>1, <1>3, <2>2, <3>1 DEF Newest
        <3>3. h[1].time <= h[Len(h)].time
            BY <1>1, <1>4
        <3> QED
            BY <1>1, <1>4, <3>2, <3>3
    <2> QED
        BY <2>1, <2>2
<1>6. ~ truncated[s] \/ h[1].id <= r.id
    <2>1. ASSUME truncated[s], ~ (h[1].id <= r.id) PROVE FALSE
        <3>1. r.id < h[1].id
            BY <1>1, <1>2, <1>4, <2>1
        <3>2. r.time <= h[1].time
            BY <1>1, <1>4, <3>1 DEF SymbolInv, RecordsOrdered
        <3>3. h[1].time <= from /\ h[1].time \in Nat
            BY <1>1, <1>4, <1>5, <2>1
        <3> QED
            BY <1>2, <3>2, <3>3
    <2> QED
        BY <2>1
<1>7. PICK j \in 1 .. Len(h) : h[j] = r
    BY <1>6 DEF SymbolInv, HistoryIsNewest
<1>8. j > Len(h) - n
    <2>1. ASSUME j <= Len(h) - n PROVE FALSE
        <3>1. n < Len(h) /\ Len(h) - n \in 1 .. Len(h)
            BY <1>1, <1>4, <2>1
        <3>2. h[Len(h) - n].time < from
            BY <3>1 DEF Newest
        <3>3. h[j].time <= h[Len(h) - n].time /\ h[Len(h) - n].time \in Nat
            BY <1>1, <2>1, <3>1
        <3> QED
            BY <1>2, <1>7, <3>2, <3>3
    <2> QED
        BY <1>1, <1>4, <2>1
<1>9. Len(h) + 1 - j \in 1 .. n /\ Len(h) + 1 - (Len(h) + 1 - j) = j
    BY <1>1, <1>4, <1>8
<1> QED
    BY <1>7, <1>9

\* RequestKept: the answer is a snapshot that is still to come, and live events
\* will follow it.
LEMMA RequestKept ==
    ASSUME TypeOK, TypeOK', SeriesInv, NEW s \in Symbol, HandleRequest(s)
    PROVE  SeriesInv'
PROOF
<1> USE DEF listener, tracker, client
<1> DEFINE ev == Snapshot(s, fromTime)
           h == history[s]
<1>1. /\ s \in adding /\ adding' = adding \ {s}
      /\ subscribed' = subscribed \cup {s}
      /\ UNCHANGED <<now, published, history, truncated, record, removing,
                     listener, tracker, sampled, client>>
    BY DEF HandleRequest
<1>2. PhaseInv /\ SymbolInv(s)
    BY DEF SeriesInv
<1>3. PhaseInv'
    BY <1>1, <1>2 DEF PhaseInv
<1>4. ~ Answered(s) /\ Answered(s)' /\ fromTime' = fromTime
      /\ \A u \in Symbol \ {s} : Answered(u)' <=> Answered(u)
    BY <1>1, <1>2 DEF Answered, Asked, PhaseInv
<1>5. /\ Len(wire[s]) = 0 /\ indices[s] = {} /\ live[s] = {}
      /\ ~ started[s] /\ ~ complete[s] /\ s \notin flawless
    BY <1>2, <1>4 DEF SymbolInv, Unasked
<1>6. /\ h \in Seq(Record) /\ Len(h) \in Nat
      /\ \A i \in 1 .. Len(h) : /\ h[i] \in record[s]
                                /\ h[i].id \in Nat /\ h[i].time \in Nat
                                /\ h[i].id > 0
      /\ \A i, j \in 1 .. Len(h) : h[i].id < h[j].id => i < j
    BY <1>2, HistoryOrder
<1>7. fromTime \in Nat /\ wire \in [Symbol -> Seq(WireEvent)]
    BY DEF TypeOK
<1>8. PICK n \in 0 .. Len(h) : /\ Newest(h, fromTime, n)
                               /\ Streamed(s, n, ev)
                               /\ Len(ev) = n <=> IsTruncated(s, fromTime) /\ n # 0
    BY <1>6, <1>7, SnapshotIsStream
<1>21. PICK m \in Nat : m = Len(ev)
    BY <1>8 DEF Streamed
<1>9. /\ n \in Nat /\ m \in Nat /\ m >= 1 /\ (m = n \/ m = n + 1)
      /\ ev \in Seq(WireEvent)
      /\ \A i \in 1 .. n : i \in 1 .. m
    BY <1>6, <1>8, <1>21 DEF Streamed
<1> HIDE DEF ev
<1>10. /\ Len(wire'[s]) = m
       /\ \A i \in 1 .. m : wire'[s][i] = ev[i]
       /\ \A u \in Symbol \ {s} : wire'[u] = wire[u]
    <2>1. \A w \in Seq(WireEvent), v \in Seq(WireEvent) :
             Len(w) = 0 => /\ Len(w \o v) = Len(v)
                           /\ \A i \in 1 .. Len(v) : (w \o v)[i] = v[i]
        OBVIOUS
    <2>2. wire' = [wire EXCEPT ![s] = wire[s] \o ev]
        BY DEF HandleRequest, ev
    <2>3. wire'[s] = wire[s] \o ev /\ \A u \in Symbol \ {s} : wire'[u] = wire[u]
        BY <1>7, <2>2
    <2> QED
        BY <1>5, <1>7, <1>9, <1>21, <2>1, <2>3
\* The place in the history of an event of the snapshot.
<1> DEFINE at(i) == Len(h) + 1 - i
<1>11. \A i \in 1 .. n : /\ at(i) \in 1 .. Len(h)
                         /\ wire'[s][i].id = h[at(i)].id
                         /\ wire'[s][i].id \in Nat /\ wire'[s][i].id > 0
    <2>1. \A i \in 1 .. n : at(i) \in 1 .. Len(h)
        BY <1>6, <1>8, <1>9
    <2>2. \A i \in 1 .. n : wire'[s][i].id = h[at(i)].id
        BY <1>8, <1>9, <1>10, <1>21 DEF Streamed
    <2> QED
        BY <1>6, <2>1, <2>2
<1>12. m = n + 1 => wire'[s][m].id = 0
    BY <1>8, <1>9, <1>10, <1>21 DEF Streamed, Boundary
<1>13. \A k : k \in Got(s)' <=> \E i \in 1 .. n : h[at(i)].id = k
    <2>1. ASSUME NEW k, k \in Got(s)' PROVE \E i \in 1 .. n : h[at(i)].id = k
        <3>1. k # 0 /\ \E i \in 1 .. m : wire'[s][i].id = k
            BY <1>1, <1>5, <1>10, <2>1, GotIsNext DEF Boundary
        <3>2. PICK i \in 1 .. m : wire'[s][i].id = k
            BY <3>1
        <3>3. i \in 1 .. n
            BY <1>9, <1>12, <3>1, <3>2
        <3> QED
            BY <1>11, <3>2, <3>3
    <2>2. ASSUME NEW k, NEW i \in 1 .. n, h[at(i)].id = k PROVE k \in Got(s)'
        <3>1. k # 0 /\ i \in 1 .. Len(wire'[s]) /\ wire'[s][i].id = k
            <4>1. wire'[s][i].id = k /\ k > 0 /\ k \in Nat
                BY <1>11, <2>2
            <4> QED
                BY <1>9, <1>10, <4>1
        <3> QED
            BY <3>1, GotIsNext DEF Boundary
    <2> QED
        BY <2>1, <2>2
<1>14. ASSUME NEW k \in Got(s)', NEW r \in record[s], k < r.id
       PROVE  r.id \in Got(s)'
    <2>1. PICK i \in 1 .. n : h[at(i)].id = k
        BY <1>13, <1>14
    <2>2. at(i) \in 1 .. Len(h) /\ 1 \in 1 .. Len(h)
        BY <1>6, <1>11
    <2>3. h[1].id <= k /\ h[1].id \in Nat /\ k \in Nat /\ r.id \in Nat
        <3>1. r.id \in Nat
            BY SMTT(20) DEF TypeOK, Record
        <3>2. \A a, b \in 1 .. Len(h) : a <= b => h[a].id <= h[b].id
            BY <1>2, HistoryOrder
        <3>3. 1 <= at(i)
            BY <2>2
        <3>4. h[1].id <= h[at(i)].id
            BY <2>2, <3>2, <3>3
        <3> QED
            BY <1>6, <2>1, <2>2, <3>1, <3>4
    <2>4. PICK j \in 1 .. Len(h) : h[j] = r
        BY <1>2, <1>14, <2>3 DEF SymbolInv, HistoryIsNewest
    <2>5. at(i) < j
        BY <1>6, <1>14, <2>1, <2>2, <2>4
    <2>6. at(j) \in 1 .. n /\ at(at(j)) = j
        BY <1>6, <1>9, <2>2, <2>5
    <2> QED
        BY <1>13, <2>4, <2>6
<1>15. Contiguous(s)'
    <2>1. \A i \in Got(s)' : \E r \in record[s] : r.id = i
        BY <1>6, <1>11, <1>13
    <2> QED
        BY <1>1, <1>14, <2>1 DEF Contiguous
<1>16. SnapshotLeft(s, m)'
    <2>1. \A i \in 1 .. m :
             /\ "BEGIN" \in wire'[s][i].flags <=> i = 1
             /\ "END" \in wire'[s][i].flags <=> i = m /\ m = n + 1
             /\ "SNIP" \in wire'[s][i].flags <=> i = m /\ m = n
             /\ "REMOVE" \in wire'[s][i].flags <=> i = m /\ m = n + 1
        BY <1>8, <1>10, <1>21 DEF Streamed
    <2>2. \A i \in 1 .. m : wire'[s][i].id = Boundary <=> i = m /\ m = n + 1
        <3>1. ASSUME NEW i \in 1 .. m
              PROVE  wire'[s][i].id = Boundary <=> i = m /\ m = n + 1
            <4>1. CASE i \in 1 .. n
                BY <1>9, <1>11, <4>1 DEF Boundary
            <4>2. CASE i \notin 1 .. n
                BY <1>9, <1>12, <4>2 DEF Boundary
            <4> QED
                BY <4>1, <4>2
        <3> QED
            BY <3>1
    <2>3. ASSUME NEW i \in 1 .. m
          PROVE  /\ {"END", "SNIP"} \cap wire'[s][i].flags # {} <=> i = m
                 /\ "BEGIN" \in wire'[s][i].flags <=> i = 1 /\ ~ started'[s]
                 /\ "REMOVE" \in wire'[s][i].flags <=>
                       wire'[s][i].id = Boundary
                 /\ wire'[s][i].id = Boundary => i = m
        BY <1>1, <1>5, <1>9, <2>1, <2>2
    <2>4. complete'[s] <=> m = 0
        BY <1>1, <1>5, <1>9
    <2>5. \A i \in m + 1 .. Len(wire'[s]) : FALSE
        BY <1>9, <1>10
    <2> QED
        BY <2>3, <2>4, <2>5 DEF SnapshotLeft, Boundary
<1>17. Cutover(s, m)'
    <2>1. ASSUME NEW i \in 1 .. m, NEW j \in 1 .. m, i < j
          PROVE  wire'[s][j].id < wire'[s][i].id
        <3>1. i \in 1 .. n
            BY <1>9, <2>1
        <3>2. CASE j \in 1 .. n
            <4>1. at(j) < at(i)
                BY <1>6, <1>9, <2>1
            <4>2. h[at(j)].id < h[at(i)].id
                BY <1>2, <1>11, <3>1, <3>2, <4>1 DEF SymbolInv, HistoryIsNewest
            <4> QED
                BY <1>11, <3>1, <3>2, <4>2
        <3>3. CASE j \notin 1 .. n
            <4>1. m = n + 1 /\ j = m
                BY <1>9, <3>3
            <4> QED
                BY <1>11, <1>12, <3>1, <4>1
        <3> QED
            BY <3>2, <3>3
    <2>2. indices'[s] = {} /\ live'[s] = {}
        BY <1>1, <1>5
    <2>3. \A i \in m + 1 .. Len(wire'[s]) : FALSE
        BY <1>9, <1>10
    <2> QED
        BY <2>1, <2>2, <2>3 DEF Cutover
<1>18. EndHasAll(s, m)'
    <2>1. ASSUME "END" \in wire'[s][m].flags, NEW r \in record[s],
                 r.time > fromTime
          PROVE  r.id \in Got(s)'
        <3>1. m = n + 1
            <4>1. m \in 1 .. m
                BY <1>9
            <4> QED
                BY <1>8, <1>10, <1>21, <2>1, <4>1 DEF Streamed
        <3>2. ~ (IsTruncated(s, fromTime) /\ n # 0)
            BY <1>8, <1>9, <1>21, <3>1
        <3>3. PICK i \in 1 .. n : h[at(i)] = r
            BY <1>2, <1>7, <1>8, <2>1, <3>2, NewestHasAll
        <3> QED
            BY <1>13, <3>3
    <2> QED
        BY <1>1, <1>4, <1>5, <2>1 DEF EndHasAll
<1>19. SymbolInv(s)'
    <2>1. RecordsOrdered(s)'
        BY <1>1, <1>2 DEF SymbolInv, RecordsOrdered
    <2>2. HistoryIsNewest(s)'
        BY <1>1, <1>2 DEF SymbolInv, HistoryIsNewest
    <2>3. Unasked(s)'
        BY <1>4 DEF Unasked
    <2>4. m \in 0 .. Len(wire'[s]) /\ Split(s, m)'
        BY <1>9, <1>10, <1>16, <1>17, <1>18 DEF Split
    <2> QED
        BY <1>15, <2>1, <2>2, <2>3, <2>4 DEF SymbolInv
<1>20. ASSUME NEW u \in Symbol, u # s PROVE SymbolInv(u)'
    <2>1. published \in Nat /\ now \in Nat
        BY DEF TypeOK
    <2>2. Undisturbed(u)
        BY <1>1, <1>4, <1>10, <1>20, <2>1 DEF Undisturbed
    <2> QED
        BY <2>2, UndisturbedKept DEF SeriesInv
<1> QED
    BY <1>3, <1>19, <1>20 DEF SeriesInv
-----------------------------------------------------------------------------
(* A publication.                                                           *)

\* RetainedIs: the history afterwards ends in the new record; the oldest one
\* goes when the limit is exceeded.
LEMMA RetainedIs ==
    ASSUME NEW h \in Seq(Record), NEW r \in Record, Len(h) <= HistoryLimit
    PROVE  LET g == Retained(h, r)
           IN  \/ /\ Len(h) < HistoryLimit
                  /\ Len(g) = Len(h) + 1 /\ g[Len(h) + 1] = r
                  /\ \A i \in 1 .. Len(h) : g[i] = h[i]
               \/ /\ Len(h) = HistoryLimit
                  /\ Len(g) = Len(h) /\ g[Len(h)] = r
                  /\ \A i \in 1 .. Len(h) - 1 : g[i] = h[i + 1]
PROOF
<1> DEFINE longer == Append(h, r)
<1>1. HistoryLimit \in Nat /\ HistoryLimit > 0 /\ Len(h) \in Nat
    BY TimeSeriesAssumption DEF TimeSeriesAssumption
<1>2. /\ longer \in Seq(Record) /\ Len(longer) = Len(h) + 1
      /\ \A i \in 1 .. Len(h) : longer[i] = h[i]
      /\ longer[Len(h) + 1] = r
    OBVIOUS
<1>3. \A f \in Seq(Record) : Len(f) > 0 =>
         /\ Len(Tail(f)) = Len(f) - 1
         /\ \A i \in 1 .. Len(f) - 1 : Tail(f)[i] = f[i + 1]
    OBVIOUS
<1>4. Retained(h, r) = IF Len(longer) > HistoryLimit THEN Tail(longer)
                       ELSE longer
    BY DEF Retained
<1> HIDE DEF longer
<1>5. CASE Len(h) < HistoryLimit
    <2>1. Retained(h, r) = longer
        BY <1>1, <1>2, <1>4, <1>5
    <2> QED
        BY <1>2, <1>5, <2>1
<1>6. CASE Len(h) = HistoryLimit
    <2>1. Retained(h, r) = Tail(longer)
        BY <1>1, <1>2, <1>4, <1>6
    <2>2. /\ Len(Tail(longer)) = Len(h)
          /\ \A i \in 1 .. Len(h) : Tail(longer)[i] = longer[i + 1]
        BY <1>1, <1>2, <1>3
    <2>3. Tail(longer)[Len(h)] = r
        BY <1>1, <1>2, <1>6, <2>2
    <2>4. \A i \in 1 .. Len(h) - 1 : Tail(longer)[i] = h[i + 1]
        <3>1. \A i \in 1 .. Len(h) - 1 :
                 i \in 1 .. Len(h) /\ i + 1 \in 1 .. Len(h)
            BY <1>1
        <3> QED
            BY <1>2, <2>2, <3>1
    <2> QED
        BY <1>6, <2>1, <2>2, <2>3, <2>4
<1> QED
    BY <1>1, <1>5, <1>6

\* HistoryKept: the history stays the newest end of the records.
LEMMA HistoryKept ==
    ASSUME TypeOK, NEW s \in Symbol, SymbolInv(s),
           history'[s] = Retained(history[s], PublishedRecord),
           truncated'[s] <=> truncated[s] \/ Len(history[s]) = HistoryLimit,
           record'[s] = record[s] \cup {PublishedRecord}
    PROVE  HistoryIsNewest(s)'
PROOF
<1> DEFINE h == history[s]
           g == history'[s]
           p == PublishedRecord
<1>1. /\ h \in Seq(Record) /\ Len(h) \in Nat /\ Len(h) <= HistoryLimit
      /\ \A i \in 1 .. Len(h) : h[i] \in record[s] /\ h[i].id \in Nat
      /\ \A i, j \in 1 .. Len(h) : i < j => h[i].id < h[j].id
    BY HistoryOrder DEF SymbolInv, HistoryIsNewest
<1>2. /\ p \in Record /\ p.id = published + 1 /\ published \in Nat
      /\ HistoryLimit \in Nat /\ HistoryLimit > 0
    BY TimeSeriesAssumption
    DEF PublishedRecord, Record, TypeOK, TimeSeriesAssumption
<1>3. \A r \in record[s] : r.id \in Nat /\ r.id < p.id
    BY <1>2 DEF SymbolInv, RecordsOrdered, TypeOK, Record
<1> HIDE DEF p
<1>4. \/ /\ Len(h) < HistoryLimit
         /\ Len(g) = Len(h) + 1 /\ g[Len(h) + 1] = p
         /\ \A i \in 1 .. Len(h) : g[i] = h[i]
      \/ /\ Len(h) = HistoryLimit
         /\ Len(g) = Len(h) /\ g[Len(h)] = p
         /\ \A i \in 1 .. Len(h) - 1 : g[i] = h[i + 1]
    <2>1. g = Retained(h, p)
        BY DEF p
    <2> QED
        BY <1>1, <1>2, <2>1, RetainedIs
<1>5. \A r \in record'[s] : r \in record[s] \/ r = p
    BY DEF p
<1>6. record[s] \subseteq record'[s] /\ p \in record'[s]
    BY DEF p
<1>7. CASE /\ Len(h) < HistoryLimit
           /\ Len(g) = Len(h) + 1 /\ g[Len(h) + 1] = p
           /\ \A i \in 1 .. Len(h) : g[i] = h[i]
    <2>1. Len(g) \in Nat /\ Len(g) <= HistoryLimit /\ Len(g) # 0
        BY <1>1, <1>2, <1>7
    <2>2. \A i \in 1 .. Len(g) : i \in 1 .. Len(h) \/ i = Len(h) + 1
        BY <1>1, <1>7
    <2>3. \A i \in 1 .. Len(g) : g[i] \in record'[s]
        BY <1>1, <1>6, <1>7, <2>2
    <2>4. ASSUME NEW i \in 1 .. Len(g), NEW j \in 1 .. Len(g), i < j
          PROVE  g[i].id < g[j].id
        <3>1. i \in 1 .. Len(h)
            BY <1>1, <1>7, <2>4
        <3>2. CASE j \in 1 .. Len(h)
            BY <1>1, <1>7, <2>4, <3>1, <3>2
        <3>3. CASE j = Len(h) + 1
            BY <1>1, <1>3, <1>7, <3>1, <3>3
        <3> QED
            BY <2>2, <3>2, <3>3
    <2>5. ASSUME NEW r \in record'[s], ~ truncated'[s] \/ g[1].id <= r.id
          PROVE  \E i \in 1 .. Len(g) : g[i] = r
        <3>1. CASE r = p
            <4>1. Len(h) + 1 \in 1 .. Len(g)
                BY <1>1, <1>7
            <4> QED
                BY <1>7, <3>1, <4>1
        <3>2. CASE r \in record[s]
            <4>1. Len(h) # 0
                BY <1>1, <3>2 DEF SymbolInv, HistoryIsNewest
            <4>2. 1 \in 1 .. Len(h)
                BY <1>1, <4>1
            <4>3. ~ truncated[s] \/ h[1].id <= r.id
                BY <1>1, <1>7, <2>5, <4>2
            <4>4. PICK i \in 1 .. Len(h) : h[i] = r
                BY <3>2, <4>3 DEF SymbolInv, HistoryIsNewest
            <4>5. i \in 1 .. Len(g) /\ g[i] = r
                BY <1>1, <1>7, <4>4
            <4> QED
                BY <4>5
        <3> QED
            BY <1>5, <3>1, <3>2
    <2> QED
        BY <2>1, <2>3, <2>4, <2>5 DEF HistoryIsNewest
<1>8. CASE /\ Len(h) = HistoryLimit
           /\ Len(g) = Len(h) /\ g[Len(h)] = p
           /\ \A i \in 1 .. Len(h) - 1 : g[i] = h[i + 1]
    <2>1. Len(g) \in Nat /\ Len(g) <= HistoryLimit /\ Len(g) # 0 /\ truncated'[s]
        BY <1>1, <1>2, <1>8
    <2>2. \A i \in 1 .. Len(g) : \/ i = Len(h)
                                 \/ /\ i \in 1 .. Len(h) - 1
                                    /\ i + 1 \in 1 .. Len(h)
        BY <1>1, <1>8
    <2>3. \A i \in 1 .. Len(g) : g[i] \in record'[s]
        BY <1>1, <1>6, <1>8, <2>2
    <2>4. ASSUME NEW i \in 1 .. Len(g), NEW j \in 1 .. Len(g), i < j
          PROVE  g[i].id < g[j].id
        <3>1. i \in 1 .. Len(h) - 1 /\ i + 1 \in 1 .. Len(h) /\ g[i] = h[i + 1]
            BY <1>1, <1>8, <2>4
        <3>2. CASE j # Len(h)
            <4>1. j + 1 \in 1 .. Len(h) /\ g[j] = h[j + 1] /\ i + 1 < j + 1
                BY <1>1, <1>8, <2>2, <2>4, <3>2
            <4> QED
                BY <1>1, <3>1, <4>1
        <3>3. CASE j = Len(h)
            BY <1>1, <1>3, <1>8, <3>1, <3>3
        <3> QED
            BY <3>2, <3>3
    <2>5. ASSUME NEW r \in record'[s], g[1].id <= r.id
          PROVE  \E i \in 1 .. Len(g) : g[i] = r
        <3>1. CASE r = p
            <4>1. Len(h) \in 1 .. Len(g)
                BY <1>1, <1>2, <1>8
            <4> QED
                BY <1>8, <3>1, <4>1
        <3>2. CASE r \in record[s] /\ Len(h) = 1
            <4>1. g[1] = p
                BY <1>8, <3>2
            <4> QED
                BY <1>2, <1>3, <2>5, <3>2, <4>1
        <3>3. CASE r \in record[s] /\ Len(h) # 1
            <4>1. 1 \in 1 .. Len(h) - 1 /\ 2 \in 1 .. Len(h) /\ 1 \in 1 .. Len(h)
                BY <1>1, <1>2, <1>8, <3>3
            <4>2. g[1] = h[2] /\ h[1].id < h[2].id
                BY <1>1, <1>8, <4>1
            <4>3. h[1].id < r.id /\ h[1].id <= r.id
                <5>1. h[1].id \in Nat /\ h[2].id \in Nat /\ r.id \in Nat
                    BY <1>1, <1>3, <3>3, <4>1
                <5> QED
                    BY <2>5, <4>2, <5>1
            <4>4. PICK i \in 1 .. Len(h) : h[i] = r
                BY <3>3, <4>3 DEF SymbolInv, HistoryIsNewest
            <4>5. i # 1
                <5>1. h[1].id \in Nat
                    BY <1>1, <4>1
                <5> QED
                    BY <4>3, <4>4, <5>1
            <4>6. i - 1 \in 1 .. Len(g) /\ i - 1 \in 1 .. Len(h) - 1
                  /\ (i - 1) + 1 = i
                BY <1>1, <1>8, <4>4, <4>5
            <4>7. g[i - 1] = r
                BY <1>8, <4>4, <4>6
            <4> QED
                BY <4>6, <4>7
        <3> QED
            BY <1>5, <3>1, <3>2, <3>3
    <2> QED
        BY <2>1, <2>3, <2>4, <2>5 DEF HistoryIsNewest
<1> QED
    BY <1>4, <1>7, <1>8

\* StreamKept: a live event of the new record is sent exactly while its symbol
\* is subscribed, after all that has been sent before.
LEMMA StreamKept ==
    ASSUME TypeOK, TypeOK', NEW s \in Symbol, SymbolInv(s),
           UNCHANGED <<started, complete, indices, live, flawless, subscribed,
                       fromTime>>,
           Answered(s)' <=> Answered(s),
           record'[s] = record[s] \cup {PublishedRecord},
           wire'[s] = IF s \in subscribed
                      THEN Append(wire[s], Event(published + 1, {}))
                      ELSE wire[s]
    PROVE  /\ Unasked(s)'
           /\ Contiguous(s)'
           /\ Answered(s)' => \E n \in 0 .. Len(wire'[s]) : Split(s, n)'
PROOF
<1> DEFINE p == PublishedRecord
           w == wire[s]
<1>1. /\ p.id = published + 1 /\ published \in Nat /\ p.id \in Nat
      /\ w \in Seq(WireEvent) /\ Len(w) \in Nat
    BY DEF PublishedRecord, TypeOK
<1>2. \A r \in record[s] : r.id \in Nat /\ r.id < p.id /\ r.id > 0
    <2>1. \A r \in record[s] : r.id \in 1 .. published
        BY DEF SymbolInv, RecordsOrdered
    <2> HIDE DEF p
    <2> QED
        BY <1>1, <2>1
<1>3. \A r \in record'[s] : r \in record[s] \/ r = p
    BY DEF p
<1>4. \A k \in Got(s) : k \in Nat /\ k < p.id /\ \E r \in record[s] : r.id = k
    BY <1>2 DEF SymbolInv, Contiguous
<1>5. p.id # Boundary
    BY <1>1 DEF Boundary
<1>14. p \in record'[s] /\ record[s] \subseteq record'[s]
    BY DEF p
<1> HIDE DEF p
<1>6. CASE s \notin subscribed
    <2>1. wire'[s] = w
        BY <1>6
    <2>2. Got(s)' = Got(s)
        BY <2>1 DEF Got, OnWire
    <2>3. Unasked(s)'
        BY <2>1 DEF SymbolInv, Unasked
    <2>4. Contiguous(s)'
        <3>1. \A i \in Got(s)' : \E r \in record'[s] : r.id = i
            BY <1>4, <1>14, <2>2
        <3>2. ASSUME NEW i \in Got(s), NEW k \in Got(s), NEW r \in record'[s],
                     i < r.id, r.id < k
              PROVE  r.id \in Got(s)
            <4>1. r # p
                BY <1>1, <1>4, <3>2
            <4> QED
                BY <1>3, <3>2, <4>1 DEF SymbolInv, Contiguous
        <3> QED
            BY <1>6, <2>2, <3>1, <3>2 DEF Contiguous
    <2>5. ASSUME NEW n, Split(s, n) PROVE Split(s, n)'
        <3>1. SnapshotLeft(s, n)'
            BY <2>1, <2>5 DEF Split, SnapshotLeft, Boundary
        <3>2. Cutover(s, n)'
            BY <2>1, <2>5 DEF Split, Cutover
        <3>3. EndHasAll(s, n)'
            BY <1>6 DEF EndHasAll
        <3> QED
            BY <3>1, <3>2, <3>3 DEF Split
    <2> QED
        BY <2>1, <2>3, <2>4, <2>5 DEF SymbolInv
<1>7. CASE s \in subscribed
    <2> DEFINE e == Event(published + 1, {})
    <2>1. e \in WireEvent /\ e.id = p.id /\ e.flags = {}
        BY <1>1 DEF Event, WireEvent
    <2>2. wire'[s] = Append(w, e)
        BY <1>7
    <2> HIDE DEF e
    <2>3. /\ Len(wire'[s]) = Len(w) + 1 /\ wire'[s][Len(w) + 1] = e
          /\ \A i \in 1 .. Len(w) : wire'[s][i] = w[i]
        <3>1. \A v \in Seq(WireEvent), x \in WireEvent :
                 /\ Len(Append(v, x)) = Len(v) + 1
                 /\ Append(v, x)[Len(v) + 1] = x
                 /\ \A i \in 1 .. Len(v) : Append(v, x)[i] = v[i]
            OBVIOUS
        <3>2. w \in Seq(WireEvent) /\ e \in WireEvent
            BY <1>1, <2>1
        <3> HIDE DEF w
        <3>3. /\ Len(Append(w, e)) = Len(w) + 1
              /\ Append(w, e)[Len(w) + 1] = e
              /\ \A i \in 1 .. Len(w) : Append(w, e)[i] = w[i]
            BY <3>1, <3>2, Zenon
        <3> QED
            BY <2>2, <3>3, Zenon
    <2>4. \A i \in 1 .. Len(wire'[s]) : i \in 1 .. Len(w) \/ i = Len(w) + 1
        BY <1>1, <2>3
    <2>5. \A k : k \in Got(s)' <=> k \in Got(s) \/ k = p.id
        <3>1. ASSUME NEW k PROVE (\E i \in 1 .. Len(wire'[s]) :
                                      wire'[s][i].id = k)
                 <=> \/ \E i \in 1 .. Len(w) : w[i].id = k
                     \/ k = p.id
            <4>1. \A i \in 1 .. Len(w) : i \in 1 .. Len(wire'[s])
                BY <1>1, <2>3
            <4>2. Len(w) + 1 \in 1 .. Len(wire'[s])
                BY <1>1, <2>3
            <4> QED
                BY <2>1, <2>3, <2>4, <4>1, <4>2
        <3>2. ASSUME NEW k PROVE k \in Got(s)' <=> k \in Got(s) \/ k = p.id
            <4> DEFINE Was == \E i \in 1 .. Len(w) : w[i].id = k
                       Now == \E i \in 1 .. Len(wire'[s]) : wire'[s][i].id = k
            <4>1. Now <=> Was \/ k = p.id
                BY <3>1
            <4>2. k \in Got(s) <=>
                     k \in indices[s] \/ k \in live[s] \/ (k # Boundary /\ Was)
                BY GotIs
            <4>3. k \in Got(s)' <=>
                     k \in indices'[s] \/ k \in live'[s] \/ (k # Boundary /\ Now)
                BY GotIsNext
            <4> HIDE DEF Was, Now
            <4> QED
                BY <1>5, <4>1, <4>2, <4>3
        <3> QED
            BY <3>2
    <2>6. Answered(s)
        BY <1>7 DEF SymbolInv, Unasked
    <2>7. Unasked(s)'
        BY <2>6 DEF Unasked
    <2>8. Contiguous(s)'
        <3>1. \A i \in Got(s)' : \E r \in record'[s] : r.id = i
            BY <1>4, <1>14, <2>5
        <3>2. ASSUME NEW i \in Got(s)', NEW r \in record'[s], i < r.id
              PROVE  r.id \in Got(s)'
            <4>1. CASE r = p
                BY <2>5, <4>1
            <4>2. CASE r \in record[s]
                <5>1. i \in Got(s)
                    BY <1>1, <1>2, <2>5, <3>2, <4>2
                <5> QED
                    BY <1>7, <2>5, <3>2, <4>2, <5>1 DEF SymbolInv, Contiguous
            <4> QED
                BY <1>3, <4>1, <4>2
        <3> QED
            BY <3>1, <3>2 DEF Contiguous
    <2>9. PICK n \in 0 .. Len(w) : Split(s, n)
        BY <2>6 DEF SymbolInv
    <2>10. n \in Nat /\ n \in 0 .. Len(wire'[s])
           /\ \A i \in 1 .. n : i \in 1 .. Len(w)
        BY <1>1, <2>3, <2>9
    <2>11. \A i \in 1 .. n : wire'[s][i] = w[i]
        BY <2>3, <2>10
    <2>12. \A i \in n + 1 .. Len(wire'[s]) :
              \/ i \in n + 1 .. Len(w) /\ wire'[s][i] = w[i]
              \/ wire'[s][i] = e
        BY <1>1, <2>3, <2>10
    <2>13. SnapshotLeft(s, n)'
        <3>1. \A i \in n + 1 .. Len(wire'[s]) :
                 wire'[s][i].flags = {} /\ wire'[s][i].id # Boundary
            BY <1>5, <2>1, <2>9, <2>12 DEF Split, SnapshotLeft
        <3> QED
            BY <2>9, <2>11, <3>1 DEF Split, SnapshotLeft, Boundary
    <2>14. Cutover(s, n)'
        <3>1. \A i \in 1 .. n : w[i].id < p.id
            <4>1. ASSUME NEW i \in 1 .. n PROVE w[i].id < p.id
                <5>1. i \in 1 .. Len(w)
                    BY <2>10
                <5>2. CASE w[i].id = Boundary
                    BY <1>1, <5>2 DEF Boundary
                <5>3. CASE w[i].id # Boundary
                    BY <1>4, <5>1, <5>3, GotIs
                <5> QED
                    BY <5>2, <5>3
            <4> QED
                BY <4>1
        <3>2. \A k \in indices[s] : k < p.id
            BY <1>4, GotIs
        <3>3. \A i \in n + 1 .. Len(wire'[s]), j \in 1 .. n :
                 wire'[s][j].id < wire'[s][i].id
            BY <2>1, <2>9, <2>11, <2>12, <3>1 DEF Split, Cutover
        <3>4. \A i \in n + 1 .. Len(wire'[s]), k \in indices[s] :
                 k < wire'[s][i].id
            BY <2>1, <2>9, <2>12, <3>2 DEF Split, Cutover
        <3>5. /\ \A i, j \in 1 .. n : i < j => wire'[s][j].id < wire'[s][i].id
              /\ \A k \in indices[s], i \in 1 .. n : wire'[s][i].id < k
              /\ \A k \in live[s] : n = 0 /\ \A j \in indices[s] : j < k
            BY <2>9, <2>11 DEF Split, Cutover
        <3> QED
            BY <3>3, <3>4, <3>5 DEF Cutover
    <2>15. EndHasAll(s, n)'
        <3>1. n > 0 => wire'[s][n] = w[n]
            BY <2>10, <2>11
        <3>2. \A r \in record'[s] : r.id \in Got(s) => r.id \in Got(s)'
            BY <2>5
        <3> QED
            BY <1>3, <2>5, <2>9, <3>1, <3>2 DEF Split, EndHasAll
    <2> QED
        BY <2>7, <2>8, <2>10, <2>13, <2>14, <2>15 DEF Split
<1> QED
    BY <1>6, <1>7

\* PublishKept: a publication keeps the invariant.
LEMMA PublishKept ==
    ASSUME TypeOK, TypeOK', SeriesInv, Publish
    PROVE  SeriesInv'
PROOF
<1> USE DEF requests, listener, tracker, client
<1>1. /\ published' = published + 1
      /\ UNCHANGED <<now, subscribed, requests, listener, tracker, sampled,
                     client>>
    BY PublishFacts
<1>2. PICK batch \in Batch : Published(batch)
    BY PublishFacts
<1>3. PhaseInv'
    BY <1>1 DEF SeriesInv, PhaseInv
<1>4. \A s \in Symbol : Answered(s)' <=> Answered(s)
    BY <1>1 DEF Answered, Asked
<1>5. published \in Nat /\ now \in Nat
    BY DEF TypeOK
<1>6. ASSUME NEW s \in Symbol, s \notin batch PROVE SymbolInv(s)'
    <2>1. /\ history'[s] = history[s] /\ record'[s] = record[s]
          /\ wire'[s] = wire[s]
        BY <1>2, <1>6 DEF Published
    <2>2. truncated'[s] = truncated[s]
        <3>1. truncated[s] \in BOOLEAN
            BY DEF TypeOK
        <3> QED
            BY <1>2, <1>6, <3>1 DEF Published
    <2>3. Undisturbed(s)
        BY <1>1, <1>4, <1>5, <2>1, <2>2 DEF Undisturbed
    <2> QED
        BY <2>3, UndisturbedKept DEF SeriesInv
<1>7. ASSUME NEW s \in Symbol, s \in batch PROVE SymbolInv(s)'
    <2>1. SymbolInv(s)
        BY DEF SeriesInv
    <2>2. /\ history'[s] = Retained(history[s], PublishedRecord)
          /\ truncated'[s] <=> truncated[s] \/ Len(history[s]) = HistoryLimit
          /\ record'[s] = record[s] \cup {PublishedRecord}
          /\ wire'[s] = IF s \in subscribed
                        THEN Append(wire[s], Event(published + 1, {}))
                        ELSE wire[s]
        BY <1>2, <1>7 DEF Published
    <2>3. HistoryIsNewest(s)'
        BY <2>1, <2>2, HistoryKept
    <2>4. RecordsOrdered(s)'
        <3> DEFINE p == PublishedRecord
        <3>1. p.id = published + 1 /\ p.time = now
            BY DEF PublishedRecord
        <3>2. \A r \in record[s] : /\ r.id \in Nat /\ r.time \in Nat
                                   /\ r.id \in 1 .. published /\ r.time <= now
            BY <2>1, SMTT(20) DEF SymbolInv, RecordsOrdered, TypeOK, Record
        <3>3. \A r \in record'[s] : r \in record[s] \/ r = p
            BY <2>2
        <3> HIDE DEF p
        <3>4. \A r \in record'[s] : r.id \in 1 .. published' /\ r.time <= now'
            BY <1>1, <1>5, <3>1, <3>2, <3>3
        <3>5. ASSUME NEW q \in record'[s], NEW r \in record'[s]
              PROVE  /\ q.id < r.id => q.time <= r.time
                     /\ q.id = r.id => q = r
            <4>1. CASE q \in record[s] /\ r \in record[s]
                BY <2>1, <4>1 DEF SymbolInv, RecordsOrdered
            <4>2. CASE q = p /\ r = p
                BY <1>5, <3>1, <4>2
            <4>3. CASE q \in record[s] /\ r = p
                BY <1>5, <3>1, <3>2, <4>3
            <4>4. CASE q = p /\ r \in record[s]
                BY <1>5, <3>1, <3>2, <4>4
            <4> QED
                BY <3>3, <4>1, <4>2, <4>3, <4>4
        <3> QED
            BY <3>4, <3>5 DEF RecordsOrdered
    <2>5. /\ Unasked(s)' /\ Contiguous(s)'
          /\ Answered(s)' => \E n \in 0 .. Len(wire'[s]) : Split(s, n)'
        BY <1>1, <1>4, <2>1, <2>2, StreamKept
    <2> QED
        BY <2>3, <2>4, <2>5 DEF SymbolInv
<1> QED
    BY <1>3, <1>6, <1>7 DEF SeriesInv

-----------------------------------------------------------------------------
(* The theorems.                                                            *)

\* SeriesInit: nothing has been published, requested or sent at first.
LEMMA SeriesInit == Init => SeriesInv
PROOF
<1> SUFFICES ASSUME Init PROVE SeriesInv
    OBVIOUS
<1>1. PhaseInv
    BY DEF Init, PhaseInv, NoEvents
<1>2. ASSUME NEW s \in Symbol PROVE SymbolInv(s)
    <2>1. /\ history[s] = <<>> /\ Len(<<>>) = 0 /\ record[s] = {}
          /\ wire[s] = <<>> /\ indices[s] = {} /\ live[s] = {}
          /\ ~ started[s] /\ ~ complete[s]
        BY DEF Init, NoSymbols
    <2>2. ~ Answered(s)
        BY DEF Init, Answered, Asked
    <2>3. HistoryIsNewest(s)
        BY <2>1, TimeSeriesAssumption
        DEF HistoryIsNewest, TimeSeriesAssumption
    <2>4. RecordsOrdered(s)
        BY <2>1 DEF RecordsOrdered
    <2>5. Unasked(s)
        BY <2>1 DEF Unasked, Init
    <2>6. Contiguous(s)
        <3>1. Got(s) = {}
            BY <2>1 DEF Got, OnWire
        <3> QED
            BY <3>1 DEF Contiguous
    <2> QED
        BY <2>2, <2>3, <2>4, <2>5, <2>6 DEF SymbolInv
<1> QED
    BY <1>1, <1>2 DEF SeriesInv

\* SeriesStep: every step keeps the invariant.
LEMMA SeriesStep == TypeOK /\ SeriesInv /\ [Next]_vars => SeriesInv'
PROOF
<1> SUFFICES ASSUME TypeOK, SeriesInv, [Next]_vars PROVE SeriesInv'
    OBVIOUS
<1>1. TypeOK'
    BY TypeStep
<1> QED
    BY <1>1, PublishKept, RequestKept, EventKept, ControlKept
    DEF Next, Serve, Listen, Finished

\* SeriesCorrect: what is on its way, what arrived and what is retained agree
\* for every symbol at every time.
THEOREM SeriesCorrect == Spec => [](TypeOK /\ SeriesInv)
PROOF
<1>1. Init => TypeOK /\ SeriesInv
    BY TypeInit, SeriesInit
<1>2. TypeOK /\ SeriesInv /\ [Next]_vars => (TypeOK /\ SeriesInv)'
    BY TypeStep, SeriesStep
<1> QED
    BY <1>1, <1>2, PTL DEF Spec

\* SnapshotsComplete: a snapshot that ends in SNAPSHOT_END and the live events
\* after it leave out no record that is newer than the requested time, however
\* small the history and whatever is published meanwhile.
THEOREM SnapshotsComplete == Spec => []CompleteSnapshotHasAll
PROOF
<1>1. TypeOK /\ SeriesInv => CompleteSnapshotHasAll
    <2> SUFFICES ASSUME TypeOK, SeriesInv, NEW s \in flawless \cap subscribed
                 PROVE  \A r \in record[s] : r.time > fromTime => r.id \in Got(s)
        BY DEF CompleteSnapshotHasAll
    <2>1. SymbolInv(s)
        BY DEF TypeOK, SeriesInv
    <2>2. Answered(s)
        BY <2>1 DEF SymbolInv, Unasked
    <2>3. PICK n \in 0 .. Len(wire[s]) : Split(s, n)
        BY <2>1, <2>2 DEF SymbolInv
    <2> QED
        BY <2>3 DEF Split, EndHasAll
<1> QED
    BY <1>1, SeriesCorrect, PTL

\* SeriesGapless: snapshot and live events of a symbol have no hole, also if
\* the snapshot is snipped or cut off by the end of the subscription.
THEOREM SeriesGapless == Spec => []NoHoles
PROOF
<1>1. TypeOK /\ SeriesInv => NoHoles
    BY DEF SeriesInv, SymbolInv, Contiguous, NoHoles
<1> QED
    BY <1>1, SeriesCorrect, PTL

\* CutoverExact: no record is received twice or before its symbol's snapshot,
\* and every live event is newer than the whole snapshot.
THEOREM CutoverExact == Spec => []ExactCutover
PROOF
<1>1. TypeOK /\ SeriesInv => ExactCutover
    <2> SUFFICES ASSUME TypeOK, SeriesInv PROVE ExactCutover
        OBVIOUS
    <2>1. ASSUME NEW s \in Symbol, NEW i \in live[s], NEW j \in indices[s]
          PROVE  j < i
        <3>1. SymbolInv(s)
            BY DEF SeriesInv
        <3>2. Answered(s)
            BY <3>1 DEF SymbolInv, Unasked
        <3>3. PICK n \in 0 .. Len(wire[s]) : Split(s, n)
            BY <3>1, <3>2 DEF SymbolInv
        <3> QED
            BY <3>3 DEF Split, Cutover
    <2> QED
        BY <2>1 DEF SeriesInv, PhaseInv, ExactCutover
<1> QED
    BY <1>1, SeriesCorrect, PTL
=============================================================================
