---------------------------- MODULE PipelineProofs ----------------------------
(***************************************************************************)
(* Proofs about the Collector, for every composition of a publication,     *)
(* every set of callbacks and every timeout, and about a whole benchmark   *)
(* run: whatever the server publishes and QD delivers, a run is a          *)
(* behaviour of the Collector among steps that do not concern it, so that  *)
(* everything proved of Spec holds for PipelineSpec as well.               *)
(*                                                                         *)
(* In this order: the accounting equations and the inductive invariant of  *)
(* the Collector, the conservation of samples, the exactness of the totals *)
(* and of their rows, the whole run as a Collector, what FEED storage and  *)
(* the channels hold, the totals of a run that nothing disturbs, and those *)
(* of a run that passes.                                                   *)
(***************************************************************************)
EXTENDS Pipeline, Sums

-----------------------------------------------------------------------------
(* The accounting equations of a counter record c in which n publications  *)
(* are still open.  They are additive: a step only has to be balanced.     *)

Balanced(c, n) ==
    \A k \in Kind :
        /\ c.published[k] + c.excess[k] =
             c.delivered[k] + c.listenerDeficit[k] + Expected[k] * n
        /\ c.published[k] = Expected[k] * (c.full + c.partial + c.empty + n)

\* Multiplication distributes over the sums the equations are made of.
LEMMA Distributes ==
    ASSUME NEW a \in Int, NEW b \in Int, NEW c \in Int
    PROVE  a * (b + c) = a * b + a * c
  OBVIOUS

\* The zero record counts nothing, and adding two records gives a record.
LEMMA CountersClosed ==
    /\ Zero \in Counters
    /\ \A c, d \in Counters : Add(c, d) \in Counters
  <1>1. Zero \in Counters
    BY DEF Zero, Counters, PerKind, NoneOfKind
  <1>2. ASSUME NEW c \in Counters, NEW d \in Counters
        PROVE  Add(c, d) \in Counters
    <2>1. \A f, g \in PerKind : AddKinds(f, g) \in PerKind
      BY DEF AddKinds, PerKind
    <2>2. QED
      BY <2>1 DEF Add, Counters
  <1>3. QED
    BY <1>1, <1>2

\* Balanced records add up: so does the number of open publications.
LEMMA BalancedAdd ==
    ASSUME NEW c \in Counters, NEW d \in Counters, NEW n \in Int, NEW m \in Int,
           Balanced(c, n), Balanced(d, m)
    PROVE  Balanced(Add(c, d), n + m)
  <1> SUFFICES ASSUME NEW k \in Kind
               PROVE  /\ Add(c, d).published[k] + Add(c, d).excess[k] =
                           Add(c, d).delivered[k] + Add(c, d).listenerDeficit[k]
                             + Expected[k] * (n + m)
                      /\ Add(c, d).published[k] =
                           Expected[k] * (Add(c, d).full + Add(c, d).partial
                                            + Add(c, d).empty + (n + m))
    BY DEF Balanced
  <1> DEFINE x == c.full + c.partial + c.empty + n
             y == d.full + d.partial + d.empty + m
  <1>1. /\ Expected[k] \in Int
        /\ c.published[k] \in Nat /\ c.excess[k] \in Nat
        /\ c.delivered[k] \in Nat /\ c.listenerDeficit[k] \in Nat
        /\ d.published[k] \in Nat /\ d.excess[k] \in Nat
        /\ d.delivered[k] \in Nat /\ d.listenerDeficit[k] \in Nat
        /\ c.full \in Nat /\ c.partial \in Nat /\ c.empty \in Nat
        /\ d.full \in Nat /\ d.partial \in Nat /\ d.empty \in Nat
    BY CollectorAssumption DEF Counters, PerKind
  <1>2. /\ Expected[k] * (n + m) = Expected[k] * n + Expected[k] * m
        /\ x \in Int /\ y \in Int
        /\ Expected[k] * (x + y) = Expected[k] * x + Expected[k] * y
    BY <1>1, Distributes
  <1>3. /\ c.published[k] + c.excess[k] =
             c.delivered[k] + c.listenerDeficit[k] + Expected[k] * n
        /\ c.published[k] = Expected[k] * x
        /\ d.published[k] + d.excess[k] =
             d.delivered[k] + d.listenerDeficit[k] + Expected[k] * m
        /\ d.published[k] = Expected[k] * y
    BY DEF Balanced
  <1>4. /\ Add(c, d).published[k] = c.published[k] + d.published[k]
        /\ Add(c, d).excess[k] = c.excess[k] + d.excess[k]
        /\ Add(c, d).delivered[k] = c.delivered[k] + d.delivered[k]
        /\ Add(c, d).listenerDeficit[k] =
             c.listenerDeficit[k] + d.listenerDeficit[k]
        /\ Add(c, d).full + Add(c, d).partial + Add(c, d).empty + (n + m) = x + y
    BY <1>1 DEF Add, AddKinds
  <1>5. Expected[k] * n \in Int /\ Expected[k] * m \in Int
    BY <1>1
  <1>6. Add(c, d).published[k] + Add(c, d).excess[k] =
          Add(c, d).delivered[k] + Add(c, d).listenerDeficit[k]
            + (Expected[k] * n + Expected[k] * m)
    <2> DEFINE p == Expected[k] * n
               q == Expected[k] * m
    <2>1. p \in Int /\ q \in Int
      BY <1>5
    <2>2. /\ c.published[k] + c.excess[k] =
               c.delivered[k] + c.listenerDeficit[k] + p
          /\ d.published[k] + d.excess[k] =
               d.delivered[k] + d.listenerDeficit[k] + q
      BY <1>3
    <2> HIDE DEF p, q
    <2>3. Add(c, d).published[k] + Add(c, d).excess[k] =
            Add(c, d).delivered[k] + Add(c, d).listenerDeficit[k] + (p + q)
      BY <1>1, <1>4, <2>1, <2>2
    <2>4. QED
      BY <2>3 DEF p, q
  <1>7. Add(c, d).published[k] = Expected[k] * (x + y)
    <2> HIDE DEF x, y
    <2>1. QED
      BY <1>2, <1>3, <1>4
  <1>8. QED
    <2>1. Add(c, d).published[k] + Add(c, d).excess[k] =
            Add(c, d).delivered[k] + Add(c, d).listenerDeficit[k]
              + Expected[k] * (n + m)
      BY ONLY <1>2, <1>6
    <2>2. Add(c, d).published[k] =
            Expected[k] * (Add(c, d).full + Add(c, d).partial
                             + Add(c, d).empty + (n + m))
      BY ONLY <1>4, <1>7
    <2>3. QED
      BY <2>1, <2>2

-----------------------------------------------------------------------------
(* What each source of counts contributes.                                 *)

\* A record that touches none of the accounted fields is balanced.
LEMMA NeutralBalanced ==
    ASSUME NEW d \in Counters,
           d.published = NoneOfKind, d.excess = NoneOfKind,
           d.delivered = NoneOfKind, d.listenerDeficit = NoneOfKind,
           d.full = 0, d.partial = 0, d.empty = 0
    PROVE  Balanced(d, 0)
  BY CollectorAssumption DEF Balanced, NoneOfKind

\* The index set of a finite sequence, and so each of its subsets, is finite.
LEMMA IndicesCounted ==
    ASSUME NEW S, NEW q \in Seq(S), NEW T, T \subseteq DOMAIN q
    PROVE  Cardinality(T) \in Nat
  <1>1. DOMAIN q = 1..Len(q) /\ Len(q) \in Nat
    OBVIOUS
  <1>2. IsFiniteSet(1..Len(q))
    BY <1>1, FS_Interval
  <1>3. IsFiniteSet(T)
    BY <1>1, <1>2, FS_Subset
  <1>4. QED
    BY <1>3, FS_CardinalityType

\* emitEvents only adds event samples and clock anomalies.
LEMMA EmissionBalanced ==
    ASSUME NEW batch \in PendingBatch
    PROVE  Emission(batch) \in Counters /\ Balanced(Emission(batch), 0)
  <1>1. CASE batch.timestamp = NoTime
    BY <1>1, CountersClosed, NeutralBalanced DEF Emission, Zero
  <1>2. CASE batch.timestamp # NoTime
    <2> DEFINE late(k) == { i \in DOMAIN batch.events :
                              /\ batch.events[i].kind = k
                              /\ batch.events[i].observed >= batch.timestamp }
               early == { i \in DOMAIN batch.events :
                              batch.events[i].observed < batch.timestamp }
               d == Emission(batch)
    <2>1. batch.events \in Seq(PendingEvent)
      BY DEF PendingBatch
    <2>2. \A k \in Kind : Cardinality(late(k)) \in Nat
      BY <2>1, IndicesCounted
    <2>3. Cardinality(early) \in Nat
      BY <2>1, IndicesCounted
    <2>4. d = [Zero EXCEPT !.events = [k \in Kind |-> Cardinality(late(k))],
                           !.negative = Cardinality(early)]
      BY <1>2 DEF Emission
    <2> HIDE DEF d, late, early
    <2>5. [k \in Kind |-> Cardinality(late(k))] \in PerKind
      BY <2>2 DEF PerKind
    <2>6. d \in Counters
      BY <2>3, <2>4, <2>5, CountersClosed DEF Counters, Zero
    <2>7. /\ d.published = NoneOfKind /\ d.excess = NoneOfKind
          /\ d.delivered = NoneOfKind /\ d.listenerDeficit = NoneOfKind
          /\ d.full = 0 /\ d.partial = 0 /\ d.empty = 0
      BY <2>4 DEF Zero
    <2>8. QED
      BY <2>6, <2>7, NeutralBalanced DEF d
  <1>3. QED
    BY <1>1, <1>2

\* finish without a marker leaves the publication accounting alone.
LEMMA UncorrelatedBalanced ==
    ASSUME NEW batch \in PendingBatch
    PROVE  /\ FinishUncorrelated(batch) \in Counters
           /\ Balanced(FinishUncorrelated(batch), 0)
  <1> DEFINE d == FinishUncorrelated(batch)
  <1>1. d \in Counters
    BY CountersClosed DEF FinishUncorrelated, Counters, Zero, PendingBatch
  <1>2. /\ d.published = NoneOfKind /\ d.excess = NoneOfKind
        /\ d.delivered = NoneOfKind /\ d.listenerDeficit = NoneOfKind
        /\ d.full = 0 /\ d.partial = 0 /\ d.empty = 0
    BY DEF FinishUncorrelated, Zero
  <1>3. QED
    BY <1>1, <1>2, NeutralBalanced

\* finish with a marker closes exactly one publication.
LEMMA CorrelatedBalanced ==
    ASSUME NEW batch \in PendingBatch
    PROVE  /\ FinishCorrelated(batch) \in Counters
           /\ Balanced(FinishCorrelated(batch), -1)
  <1> DEFINE d == FinishCorrelated(batch)
             got == batch.receivedByKind
  <1>1. /\ got \in [Kind -> Nat] /\ Expected \in [Kind -> Nat]
        /\ batch.received \in Nat
    BY CollectorAssumption DEF PendingBatch
  <1>2. /\ [k \in Kind |-> Shortfall(got[k], Expected[k])] \in PerKind
        /\ [k \in Kind |-> Shortfall(Expected[k], got[k])] \in PerKind
        /\ got \in PerKind
    BY <1>1 DEF Shortfall, PerKind
  <1>3. d \in Counters
    <2> DEFINE complete == HasExpectedComposition(batch)
               some == batch.received > 0
               delta == batch.lastObserved - batch.timestamp
               full == IF complete THEN 1 ELSE 0
               empty == IF ~complete /\ batch.received = 0 THEN 1 ELSE 0
               partial == IF ~complete /\ some THEN 1 ELSE 0
               missing == IF ~complete /\ ~allowConflation THEN 1 ELSE 0
               batches == IF some /\ delta >= 0 THEN 1 ELSE 0
               negative == IF some /\ delta < 0 THEN 1 ELSE 0
               deficit == [k \in Kind |-> Shortfall(got[k], Expected[k])]
               excess == [k \in Kind |-> Shortfall(Expected[k], got[k])]
    <2>1. d = [Zero EXCEPT !.delivered = got, !.listenerDeficit = deficit,
                 !.excess = excess, !.full = full, !.empty = empty,
                 !.partial = partial, !.missing = missing,
                 !.batches = batches, !.negative = negative]
      BY DEF FinishCorrelated
    <2>2. /\ full \in Nat /\ empty \in Nat /\ partial \in Nat
          /\ missing \in Nat /\ batches \in Nat /\ negative \in Nat
          /\ deficit \in PerKind /\ excess \in PerKind /\ got \in PerKind
      BY <1>2
    <2> HIDE DEF d, got, full, empty, partial, missing, batches, negative,
                 deficit, excess
    <2>3. QED
      BY <2>1, <2>2, CountersClosed DEF Counters, Zero
  <1>4. /\ d.published = NoneOfKind
        /\ d.delivered = got
        /\ d.listenerDeficit = [k \in Kind |-> Shortfall(got[k], Expected[k])]
        /\ d.excess = [k \in Kind |-> Shortfall(Expected[k], got[k])]
    BY DEF FinishCorrelated, Zero
  <1>5. d.full + d.partial + d.empty = 1
    <2> DEFINE complete == HasExpectedComposition(batch)
    <2>1. /\ d.full = (IF complete THEN 1 ELSE 0)
          /\ d.empty = (IF ~complete /\ batch.received = 0 THEN 1 ELSE 0)
          /\ d.partial = (IF ~complete /\ batch.received > 0 THEN 1 ELSE 0)
      BY DEF FinishCorrelated, Zero
    <2>2. batch.received = 0 \/ batch.received > 0
      BY <1>1
    <2> HIDE DEF complete, d
    <2>3. QED
      BY <1>1, <2>1, <2>2
  <1> HIDE DEF d, got
  <1>6. ASSUME NEW k \in Kind
        PROVE  /\ d.published[k] + d.excess[k] =
                    d.delivered[k] + d.listenerDeficit[k] + Expected[k] * (-1)
               /\ d.published[k] =
                    Expected[k] * (d.full + d.partial + d.empty + (-1))
    <2>1. Expected[k] \in Nat /\ got[k] \in Nat
      BY <1>1
    <2>2. Expected[k] * (-1) = -Expected[k] /\ Expected[k] * 0 = 0
      BY <2>1
    <2>3. d.full + d.partial + d.empty + (-1) = 0
      BY <1>5
    <2>4. d.published[k] = 0
      BY <1>4 DEF NoneOfKind
    <2>5. d.excess[k] + Expected[k] = got[k] + d.listenerDeficit[k]
      BY <1>4, <2>1 DEF Shortfall
    <2>6. d.excess[k] \in Nat /\ d.listenerDeficit[k] \in Nat
      BY <1>4, <2>1 DEF Shortfall
    <2>7. QED
      BY <1>4, <2>1, <2>2, <2>3, <2>4, <2>5, <2>6
  <1>7. QED
    BY <1>3, <1>6 DEF Balanced, d

\* finish closes the publication if and only if its marker had arrived.
LEMMA FinishBalanced ==
    ASSUME NEW batch \in PendingBatch
    PROVE  /\ Finish(batch) \in Counters
           /\ batch.timestamp = NoTime => Balanced(Finish(batch), 0)
           /\ batch.timestamp # NoTime => Balanced(Finish(batch), -1)
  <1>1. CASE batch.timestamp = NoTime
    BY <1>1, UncorrelatedBalanced DEF Finish
  <1>2. CASE batch.timestamp # NoTime
    <2>1. Balanced(Add(Emission(batch), FinishCorrelated(batch)), 0 + (-1))
      BY EmissionBalanced, CorrelatedBalanced, BalancedAdd
    <2>2. Add(Emission(batch), FinishCorrelated(batch)) \in Counters
      BY EmissionBalanced, CorrelatedBalanced, CountersClosed
    <2>3. QED
      BY <1>2, <2>1, <2>2 DEF Finish
  <1>3. QED
    BY <1>1, <1>2

-----------------------------------------------------------------------------
(* The inductive invariant.                                                *)

\* Stage of main() against the flags and the expiry loop: what makes the
\* delivery totals final once the last window has been taken.
StageInv ==
    /\ stage = "warmup" => ~measuring
    /\ ~measuring => DOMAIN pending = {}
    /\ mutex \in Listener => measuring
    /\ acceptingNewBatches => stage = "measuring"
    /\ mutex = "main" => stage \in {"measuring", "ended"}
    /\ expireAll => mutex = "main" /\ stage = "ended" /\ expiring = DOMAIN pending
    /\ stage \in {"reporting", "closing", "closed"} => DOMAIN pending = {}
    /\ mutex # "main" => expiring = {}

IInv ==
    /\ TypeOK
    /\ Balanced(total, Cardinality(Marked))
    /\ WarmupExcluded
    /\ NoCompleteBatchPending
    /\ StageInv

\* The marked batches are finitely many.
LEMMA MarkedFinite ==
    ASSUME TypeOK
    PROVE  /\ Marked \subseteq DOMAIN pending
           /\ IsFiniteSet(Marked)
           /\ Cardinality(Marked) \in Nat
  <1>1. Marked \subseteq DOMAIN pending
    BY DEF Marked
  <1>2. IsFiniteSet(DOMAIN pending)
    BY DEF TypeOK
  <1>3. IsFiniteSet(Marked)
    BY <1>1, <1>2, FS_Subset
  <1>4. QED
    BY <1>1, <1>3, FS_CardinalityType

\* Erasing a batch keeps pending_ well formed and unmarks that batch only.
LEMMA EraseBatch ==
    ASSUME TypeOK, NEW s, pending' = Erase(s)
    PROVE  /\ DOMAIN pending' = DOMAIN pending \ {s}
           /\ IsFiniteSet(DOMAIN pending')
           /\ pending' \in [DOMAIN pending' -> PendingBatch]
           /\ \A t \in DOMAIN pending' : pending'[t] = pending[t]
           /\ Marked' = Marked \ {s}
           /\ Cardinality(Marked') = IF s \in Marked THEN Cardinality(Marked) - 1
                                     ELSE Cardinality(Marked)
  <1>1. DOMAIN pending' = DOMAIN pending \ {s}
    BY DEF Erase
  <1>2. \A t \in DOMAIN pending' : pending'[t] = pending[t]
    BY <1>1 DEF Erase
  <1>3. IsFiniteSet(DOMAIN pending')
    <2>1. IsFiniteSet(DOMAIN pending)
      BY DEF TypeOK
    <2>2. QED
      BY <1>1, <2>1, FS_RemoveElement
  <1>4. \A t \in DOMAIN pending : pending[t] \in PendingBatch
    BY DEF TypeOK
  <1>5. pending' \in [DOMAIN pending' -> PendingBatch]
    BY <1>1, <1>2, <1>4 DEF Erase
  <1>6. Marked' = Marked \ {s}
    BY <1>1, <1>2 DEF Marked
  <1>7. QED
    BY <1>1, <1>2, <1>3, <1>5, <1>6, MarkedFinite, FS_RemoveElement

\* Storing a batch keeps pending_ well formed and marks it if it has a marker.
LEMMA StoreBatch ==
    ASSUME TypeOK, NEW s \in Int, NEW batch \in PendingBatch,
           pending' = Store(s, batch)
    PROVE  /\ DOMAIN pending' = DOMAIN pending \cup {s}
           /\ IsFiniteSet(DOMAIN pending')
           /\ pending' \in [DOMAIN pending' -> PendingBatch]
           /\ pending'[s] = batch
           /\ \A t \in DOMAIN pending \ {s} : pending'[t] = pending[t]
           /\ Marked' = IF batch.timestamp = NoTime THEN Marked \ {s}
                        ELSE Marked \cup {s}
  <1>1. DOMAIN pending' = DOMAIN pending \cup {s}
    BY DEF Store
  <1>2. /\ pending'[s] = batch
        /\ \A t \in DOMAIN pending \ {s} : pending'[t] = pending[t]
    BY <1>1 DEF Store
  <1>3. IsFiniteSet(DOMAIN pending')
    <2>1. IsFiniteSet(DOMAIN pending)
      BY DEF TypeOK
    <2>2. QED
      BY <1>1, <2>1, FS_AddElement
  <1>4. \A t \in DOMAIN pending : pending[t] \in PendingBatch
    BY DEF TypeOK
  <1>5. pending' \in [DOMAIN pending' -> PendingBatch]
    BY <1>1, <1>2, <1>4 DEF Store
  <1>6. Marked' = IF batch.timestamp = NoTime THEN Marked \ {s}
                  ELSE Marked \cup {s}
    BY <1>1, <1>2 DEF Marked
  <1>7. QED
    BY <1>1, <1>2, <1>3, <1>5, <1>6

\* Emitting clears the retained events and nothing else.
LEMMA EmittedType ==
    ASSUME NEW batch \in PendingBatch
    PROVE  /\ Emitted(batch) \in PendingBatch
           /\ Emitted(batch).timestamp = batch.timestamp
           /\ Emitted(batch).receivedByKind = batch.receivedByKind
  <1>1. <<>> \in Seq(PendingEvent)
    OBVIOUS
  <1>2. CASE batch.timestamp = NoTime
    BY <1>2 DEF Emitted, PendingBatch
  <1>3. CASE batch.timestamp # NoTime
    BY <1>1, <1>3 DEF Emitted, PendingBatch
  <1>4. QED
    BY <1>2, <1>3

\* Settle preserves the accounting.  d is what the handler counted before it
\* settled, and m tells whether it opened the publication just now.
LEMMA SettleStep ==
    ASSUME TypeOK, Balanced(total, Cardinality(Marked)), NoCompleteBatchPending,
           NEW s \in Int, NEW batch \in PendingBatch, NEW d \in Counters,
           NEW m \in {0, 1}, Balanced(d, m),
           m = 1 => batch.timestamp # NoTime /\ s \notin Marked,
           m = 0 => (batch.timestamp # NoTime <=> s \in Marked),
           Settle(s, batch, d)
    PROVE  /\ DOMAIN pending' \subseteq DOMAIN pending \cup {s}
           /\ IsFiniteSet(DOMAIN pending')
           /\ pending' \in [DOMAIN pending' -> PendingBatch]
           /\ window' \in Counters
           /\ total' \in Counters
           /\ Balanced(total', Cardinality(Marked'))
           /\ NoCompleteBatchPending'
  <1> DEFINE emitted == Emitted(batch)
             gained == Add(d, Emission(batch))
             done == batch.timestamp # NoTime /\ HasExpectedComposition(batch)
             n == Cardinality(Marked)
  <1>1. /\ emitted \in PendingBatch
        /\ emitted.timestamp = batch.timestamp
        /\ emitted.receivedByKind = batch.receivedByKind
    BY EmittedType
  <1>2. gained \in Counters /\ Balanced(gained, m)
    <2>1. Balanced(gained, m + 0)
      BY EmissionBalanced, BalancedAdd
    <2>2. QED
      BY <2>1, EmissionBalanced, CountersClosed
  <1>3. window \in Counters /\ total \in Counters /\ n \in Nat
    BY MarkedFinite DEF TypeOK
  <1>4. CASE done
    <2>1. /\ pending' = Erase(s)
          /\ window' = Add(window, Add(gained, Finish(emitted)))
          /\ total' = Add(total, Add(gained, Finish(emitted)))
      BY <1>4 DEF Settle, Accumulate
    <2>2. Finish(emitted) \in Counters /\ Balanced(Finish(emitted), -1)
      BY <1>1, <1>4, FinishBalanced
    <2>3. /\ Add(gained, Finish(emitted)) \in Counters
          /\ Balanced(Add(gained, Finish(emitted)), m + (-1))
      BY <1>2, <2>2, BalancedAdd, CountersClosed
    <2>4. Balanced(total', n + (m + (-1)))
      BY <1>3, <2>1, <2>3, BalancedAdd
    <2>5. Cardinality(Marked') = n + (m + (-1))
      <3>1. Cardinality(Marked') = IF s \in Marked THEN n - 1 ELSE n
        BY <2>1, EraseBatch
      <3>2. /\ m = 1 => s \notin Marked
            /\ m = 0 => s \in Marked
        BY <1>4
      <3> HIDE DEF n
      <3>3. QED
        BY <1>3, <3>1, <3>2
    <2>6. NoCompleteBatchPending'
      BY <2>1, EraseBatch
         DEF NoCompleteBatchPending, HasExpectedComposition, Marked
    <2>7. window' \in Counters /\ total' \in Counters
      BY <1>3, <2>1, <2>3, CountersClosed
    <2>8. QED
      BY <2>1, <2>4, <2>5, <2>6, <2>7, EraseBatch
  <1>5. CASE ~done
    <2>1. /\ pending' = Store(s, emitted)
          /\ window' = Add(window, gained)
          /\ total' = Add(total, gained)
      BY <1>5 DEF Settle, Accumulate
    <2>2. Balanced(total', n + m)
      BY <1>2, <1>3, <2>1, BalancedAdd
    <2>3. Marked' = IF batch.timestamp = NoTime THEN Marked \ {s}
                    ELSE Marked \cup {s}
      BY <1>1, <2>1, StoreBatch, ZenonT(30)
    <2>4. Cardinality(Marked') = n + m
      <3>1. CASE m = 1
        <4>1. Marked' = Marked \cup {s}
          BY <3>1, <2>3
        <4>2. QED
          BY <3>1, <4>1, MarkedFinite, FS_AddElement
      <3>2. CASE m = 0
        <4>1. Marked' = Marked
          BY <3>2, <2>3
        <4>2. QED
          BY <1>3, <3>2, <4>1
      <3>3. QED
        BY <3>1, <3>2
    <2>5. NoCompleteBatchPending'
      <3>1. ASSUME NEW t \in Marked' PROVE ~HasExpectedComposition(pending'[t])
        <4>1. CASE t = s
          BY <1>1, <1>5, <2>1, <2>3, <4>1, StoreBatch
             DEF HasExpectedComposition
        <4>2. CASE t # s
          <5>1. t \in Marked /\ t \in DOMAIN pending
            BY <2>3, <4>2 DEF Marked
          <5>2. pending'[t] = pending[t]
            BY <1>1, <2>1, <4>2, <5>1, StoreBatch
          <5>3. ~HasExpectedComposition(pending[t])
            BY <5>1 DEF NoCompleteBatchPending
          <5>4. QED
            BY <5>2, <5>3 DEF HasExpectedComposition
        <4>3. QED
          BY <4>1, <4>2
      <3>2. QED
        BY <3>1 DEF NoCompleteBatchPending, HasExpectedComposition
    <2>6. window' \in Counters /\ total' \in Counters
      BY <1>2, <1>3, <2>1, CountersClosed
    <2>7. QED
      BY <1>1, <2>1, <2>2, <2>4, <2>5, <2>6, StoreBatch
  <1>6. QED
    BY <1>4, <1>5

-----------------------------------------------------------------------------
(* The event handlers under the mutex.                                     *)

\* The first marker charges its publication: one more is open.
LEMMA ChargeBalanced ==
    LET charge == [Zero EXCEPT !.published = Expected]
    IN charge \in Counters /\ Balanced(charge, 1)
  <1> DEFINE charge == [Zero EXCEPT !.published = Expected]
  <1>1. Expected \in PerKind
    BY CollectorAssumption DEF PerKind
  <1>2. charge \in Counters
    BY <1>1, CountersClosed DEF Counters, Zero
  <1>3. /\ charge.published = Expected
        /\ charge.excess = NoneOfKind /\ charge.delivered = NoneOfKind
        /\ charge.listenerDeficit = NoneOfKind
        /\ charge.full = 0 /\ charge.partial = 0 /\ charge.empty = 0
    BY DEF Zero
  <1> HIDE DEF charge
  <1>4. Balanced(charge, 1)
    BY <1>1, <1>3 DEF Balanced, NoneOfKind, PerKind
  <1>5. QED
    BY <1>2, <1>4 DEF charge

\* The batch an event falls into, existing or new, is a batch; it carries a
\* timestamp only if it is a marked batch of pending_.
LEMMA BatchOfType ==
    ASSUME TypeOK, NEW s
    PROVE  /\ BatchOf(s) \in PendingBatch
           /\ BatchOf(s).timestamp # NoTime <=> s \in Marked
  <1>1. NewBatch \in PendingBatch /\ NewBatch.timestamp = NoTime
    BY DEF NewBatch, PendingBatch, NoneOfKind, NoTime
  <1>2. CASE s \in DOMAIN pending
    BY <1>2 DEF BatchOf, TypeOK, Marked
  <1>3. CASE s \notin DOMAIN pending
    BY <1>1, <1>3 DEF BatchOf, Marked
  <1>4. QED
    BY <1>2, <1>3

\* A marker gives a batch its publication time.
LEMMA MarkerBatchType ==
    ASSUME NEW old \in PendingBatch, NEW e \in MarkerEvent, IsMarker(e),
           NEW observed \in Int
    PROVE  /\ MarkerBatch(old, e, observed) \in PendingBatch
           /\ MarkerBatch(old, e, observed).timestamp # NoTime
  <1>1. e.time \in Int /\ e.time # NoTime
    BY DEF MarkerEvent, IsMarker, NoTime
  <1>2. QED
    BY <1>1 DEF MarkerBatch, PendingBatch, Later

\* A market event joins a batch and leaves its publication time alone.
LEMMA MarketBatchType ==
    ASSUME NEW old \in PendingBatch, NEW e \in MarketEvent, NEW observed \in Int
    PROVE  /\ MarketBatch(old, e, observed) \in PendingBatch
           /\ MarketBatch(old, e, observed).timestamp = old.timestamp
  <1> DEFINE events == Append(old.events,
                              [observed |-> observed, kind |-> e.kind])
             byKind == [old.receivedByKind EXCEPT ![e.kind] = @ + 1]
             first == IF old.received = 0 THEN observed ELSE old.firstObserved
             last == Later(old.lastObserved, observed)
             batch == MarketBatch(old, e, observed)
  <1>1. e.kind \in Kind
    BY DEF MarketEvent
  <1>2. events \in Seq(PendingEvent) /\ byKind \in [Kind -> Nat]
    BY <1>1 DEF PendingBatch, PendingEvent
  <1>3. batch = [old EXCEPT !.firstObserved = first, !.lastObserved = last,
                   !.received = old.received + 1, !.receivedByKind = byKind,
                   !.events = events]
    BY DEF MarketBatch, PendingBatch
  <1>4. first \in Int /\ last \in Int /\ old.received + 1 \in Nat
    BY DEF PendingBatch, Later
  <1> HIDE DEF batch, events, byKind, first, last
  <1>5. batch \in PendingBatch /\ batch.timestamp = old.timestamp
    BY <1>2, <1>3, <1>4 DEF PendingBatch
  <1>6. QED
    BY <1>5 DEF batch

\* What one event of a callback may leave behind.
EventEffect ==
    /\ IsFiniteSet(DOMAIN pending') /\ DOMAIN pending' \subseteq Int
    /\ pending' \in [DOMAIN pending' -> PendingBatch]
    /\ window' \in Counters
    /\ total' \in Counters
    /\ Balanced(total', Cardinality(Marked'))
    /\ NoCompleteBatchPending'

\* A marker keeps the accounting, whether it opens a publication, repeats a
\* marker or completes a batch whose events came first.
LEMMA MarkerStep ==
    ASSUME TypeOK, Balanced(total, Cardinality(Marked)), NoCompleteBatchPending,
           NEW e \in MarkerEvent, IsMarker(e), NEW observed \in Int,
           ApplyMarker(e, observed)
    PROVE  /\ EventEffect
           /\ DOMAIN pending' \subseteq DOMAIN pending \cup {e.sequence}
  <1> DEFINE s == e.sequence
             old == BatchOf(s)
             batch == MarkerBatch(old, e, observed)
             d == IF old.timestamp = NoTime
                  THEN [Zero EXCEPT !.published = Expected] ELSE Zero
             m == IF old.timestamp = NoTime THEN 1 ELSE 0
  <1>1. s \in Int /\ e.time \in Int /\ e.time # NoTime
    BY DEF MarkerEvent, IsMarker, NoTime
  <1>2. old \in PendingBatch /\ (old.timestamp # NoTime <=> s \in Marked)
    BY BatchOfType
  <1>3. batch \in PendingBatch /\ batch.timestamp # NoTime
    BY <1>2, MarkerBatchType
  <1>4. Balanced(Zero, 0)
    BY CountersClosed, NeutralBalanced DEF Zero
  <1>5. d \in Counters /\ Balanced(d, m) /\ m \in {0, 1}
    BY <1>4, ChargeBalanced, CountersClosed
  <1>6. Settle(s, batch, d)
    BY DEF ApplyMarker
  <1>7. /\ m = 1 => batch.timestamp # NoTime /\ s \notin Marked
        /\ m = 0 => (batch.timestamp # NoTime <=> s \in Marked)
    BY <1>2, <1>3
  <1> HIDE DEF s, old, batch, d, m
  <1>8. /\ DOMAIN pending' \subseteq DOMAIN pending \cup {s}
        /\ IsFiniteSet(DOMAIN pending')
        /\ pending' \in [DOMAIN pending' -> PendingBatch]
        /\ window' \in Counters
        /\ total' \in Counters
        /\ Balanced(total', Cardinality(Marked'))
        /\ NoCompleteBatchPending'
    BY <1>1, <1>3, <1>5, <1>6, <1>7, SettleStep
  <1>9. DOMAIN pending' \subseteq Int
    BY <1>1, <1>8 DEF TypeOK
  <1>10. QED
    BY <1>8, <1>9 DEF EventEffect, s

\* A market event keeps the accounting, before and after its marker.
LEMMA MarketStep ==
    ASSUME TypeOK, Balanced(total, Cardinality(Marked)), NoCompleteBatchPending,
           NEW e \in MarketEvent, NEW observed \in Int,
           ApplyMarket(e, observed)
    PROVE  /\ EventEffect
           /\ DOMAIN pending' \subseteq DOMAIN pending \cup {e.sequence}
  <1> DEFINE s == e.sequence
             old == BatchOf(s)
             batch == MarketBatch(old, e, observed)
  <1>1. s \in Int /\ e.kind \in Kind
    BY DEF MarketEvent
  <1>2. old \in PendingBatch /\ (old.timestamp # NoTime <=> s \in Marked)
    BY BatchOfType
  <1>3. batch \in PendingBatch /\ batch.timestamp = old.timestamp
    BY <1>2, MarketBatchType
  <1>4. Zero \in Counters /\ Balanced(Zero, 0)
    BY CountersClosed, NeutralBalanced DEF Zero
  <1>5. Settle(s, batch, Zero)
    BY DEF ApplyMarket
  <1> HIDE DEF s, old, batch
  <1>6. /\ DOMAIN pending' \subseteq DOMAIN pending \cup {s}
        /\ IsFiniteSet(DOMAIN pending')
        /\ pending' \in [DOMAIN pending' -> PendingBatch]
        /\ window' \in Counters
        /\ total' \in Counters
        /\ Balanced(total', Cardinality(Marked'))
        /\ NoCompleteBatchPending'
    BY <1>1, <1>2, <1>3, <1>4, <1>5, SettleStep
  <1>7. DOMAIN pending' \subseteq Int
    BY <1>1, <1>6 DEF TypeOK
  <1>8. QED
    BY <1>6, <1>7 DEF EventEffect, s

-----------------------------------------------------------------------------
(* The invariant is inductive.                                             *)

\* An event that correlates leaves everything but the batches and the
\* counters to its caller; one that does not leaves those alone too.
LEMMA EventStep ==
    ASSUME IInv, NEW e \in Event, NEW observed \in Int,
           preMeasurementSequences' = preMeasurementSequences,
           acceptingNewBatches' = acceptingNewBatches,
           IF ~Correlates(e) THEN UNCHANGED <<pending, window, total>>
           ELSE IF e.type = "marker" THEN ApplyMarker(e, observed)
           ELSE ApplyMarket(e, observed)
    PROVE  /\ EventEffect
           /\ WarmupExcluded'
           /\ DOMAIN pending = {} /\ ~acceptingNewBatches => DOMAIN pending' = {}
  <1> USE DEF IInv
  <1>1. CASE ~Correlates(e)
    <2>1. UNCHANGED <<pending, window, total>>
      BY <1>1
    <2>2. QED
      BY <2>1 DEF TypeOK, EventEffect, WarmupExcluded, Marked,
                  NoCompleteBatchPending, HasExpectedComposition
  <1>2. CASE Correlates(e)
    <2>1. /\ AcceptBatch(e.sequence)
          /\ \/ IsMarker(e) /\ e \in MarkerEvent
             \/ e.type = "market" /\ e \in MarketEvent
      BY <1>2 DEF Correlates, IsMarker, Event, MarkerEvent, MarketEvent,
                  ProfileEvent
    <2>2. EventEffect /\ DOMAIN pending' \subseteq DOMAIN pending \cup {e.sequence}
      <3>1. CASE IsMarker(e) /\ e \in MarkerEvent
        <4>1. ApplyMarker(e, observed)
          BY <1>2, <3>1 DEF IsMarker
        <4>2. QED
          BY <3>1, <4>1, MarkerStep
      <3>2. CASE e.type = "market" /\ e \in MarketEvent
        <4>1. ApplyMarket(e, observed)
          BY <1>2, <3>2
        <4>2. QED
          BY <3>2, <4>1, MarketStep
      <3>3. QED
        BY <2>1, <3>1, <3>2
    <2>3. WarmupExcluded'
      BY <2>1, <2>2 DEF WarmupExcluded, AcceptBatch
    <2>4. DOMAIN pending = {} => acceptingNewBatches
      BY <2>1 DEF AcceptBatch
    <2>5. QED
      BY <2>2, <2>3, <2>4
  <1>3. QED
    BY <1>1, <1>2

\* Expiring a batch closes its publication if its marker had arrived.
LEMMA ExpireStep ==
    ASSUME IInv, ExpireBatch
    PROVE  IInv'
  <1> USE DEF IInv
  <1>1. PICK s \in expiring : /\ Accumulate(Finish(pending[s]))
                              /\ pending' = Erase(s)
                              /\ expiring' = expiring \ {s}
    BY DEF ExpireBatch
  <1>2. s \in DOMAIN pending /\ s \in Int /\ pending[s] \in PendingBatch
    BY <1>1 DEF TypeOK
  <1>3. /\ DOMAIN pending' = DOMAIN pending \ {s}
        /\ IsFiniteSet(DOMAIN pending')
        /\ pending' \in [DOMAIN pending' -> PendingBatch]
        /\ \A t \in DOMAIN pending' : pending'[t] = pending[t]
        /\ Marked' = Marked \ {s}
        /\ Cardinality(Marked') = IF s \in Marked THEN Cardinality(Marked) - 1
                                  ELSE Cardinality(Marked)
    BY <1>1, EraseBatch
  <1>4. /\ Finish(pending[s]) \in Counters
        /\ s \in Marked => Balanced(Finish(pending[s]), -1)
        /\ s \notin Marked => Balanced(Finish(pending[s]), 0)
    BY <1>2, FinishBalanced DEF Marked
  <1>5. /\ window' = Add(window, Finish(pending[s]))
        /\ total' = Add(total, Finish(pending[s]))
        /\ window' \in Counters /\ total' \in Counters
    BY <1>1, <1>4, CountersClosed DEF Accumulate, TypeOK
  <1>6. Balanced(total', Cardinality(Marked'))
    <2> DEFINE n == Cardinality(Marked)
    <2>1. n \in Nat /\ total \in Counters /\ n + 0 = n /\ n + (-1) = n - 1
      BY MarkedFinite DEF TypeOK
    <2>2. CASE s \in Marked
      <3>1. Balanced(total', n + (-1))
        BY <1>4, <1>5, <2>1, <2>2, BalancedAdd
      <3>2. QED
        BY <1>3, <2>1, <2>2, <3>1
    <2>3. CASE s \notin Marked
      <3>1. Balanced(total', n + 0)
        BY <1>4, <1>5, <2>1, <2>3, BalancedAdd
      <3>2. QED
        BY <1>3, <2>1, <2>3, <3>1
    <2>4. QED
      BY <2>2, <2>3
  <1>7. TypeOK'
    BY <1>1, <1>3, <1>5
       DEF TypeOK, ExpireBatch, clock, flags, seen
  <1>8. WarmupExcluded'
    BY <1>3 DEF WarmupExcluded, ExpireBatch, seen
  <1>9. NoCompleteBatchPending'
    BY <1>3 DEF NoCompleteBatchPending, HasExpectedComposition, Marked
  <1>10. StageInv'
    BY <1>1, <1>3 DEF StageInv, ExpireBatch, flags
  <1>11. QED
    BY <1>6, <1>7, <1>8, <1>9, <1>10

\* A step that leaves pending_ alone and adds a neutral record to the
\* counters keeps the accounting.
LEMMA NeutralStep ==
    ASSUME TypeOK, Balanced(total, Cardinality(Marked)), NoCompleteBatchPending,
           NEW d \in Counters, Balanced(d, 0), Accumulate(d),
           pending' = pending
    PROVE  /\ window' \in Counters /\ total' \in Counters
           /\ Balanced(total', Cardinality(Marked'))
           /\ NoCompleteBatchPending'
  <1>1. Marked' = Marked
    BY DEF Marked
  <1>2. Cardinality(Marked) \in Nat /\ total \in Counters /\ window \in Counters
    BY MarkedFinite DEF TypeOK
  <1>3. Cardinality(Marked) + 0 = Cardinality(Marked)
    BY <1>2
  <1>4. Balanced(Add(total, d), Cardinality(Marked) + 0)
    BY <1>2, BalancedAdd
  <1>5. QED
    BY <1>1, <1>2, <1>3, <1>4, CountersClosed
       DEF Accumulate, NoCompleteBatchPending, HasExpectedComposition

\* The callback statistics are neutral.
LEMMA StatisticsNeutral ==
    /\ Zero \in Counters /\ Balanced(Zero, 0)
    /\ [Zero EXCEPT !.callbacks = 1] \in Counters
    /\ Balanced([Zero EXCEPT !.callbacks = 1], 0)
    /\ [Zero EXCEPT !.callbackSizes = 1] \in Counters
    /\ Balanced([Zero EXCEPT !.callbackSizes = 1], 0)
  <1>1. /\ Zero \in Counters
        /\ [Zero EXCEPT !.callbacks = 1] \in Counters
        /\ [Zero EXCEPT !.callbackSizes = 1] \in Counters
    BY CountersClosed DEF Counters, Zero
  <1>2. Balanced(Zero, 0)
    BY <1>1, NeutralBalanced DEF Zero
  <1>3. Balanced([Zero EXCEPT !.callbacks = 1], 0)
    BY <1>1, NeutralBalanced DEF Zero
  <1>4. Balanced([Zero EXCEPT !.callbackSizes = 1], 0)
    BY <1>1, NeutralBalanced DEF Zero
  <1>5. QED
    BY <1>1, <1>2, <1>3, <1>4

\* Steps that touch neither batches nor whole-run counters.
LEMMA UnaccountedStep ==
    ASSUME IInv, UNCHANGED <<pending, total, preMeasurementSequences>>
    PROVE  /\ Balanced(total', Cardinality(Marked'))
           /\ WarmupExcluded'
           /\ NoCompleteBatchPending'
  BY DEF IInv, Marked, WarmupExcluded, NoCompleteBatchPending,
         HasExpectedComposition

\* A list of events delivered by a callback, and its tail, is well typed.
LEMMA CallbackType ==
    ASSUME TypeOK, NEW l \in Listener
    PROVE  /\ callback[l].events \in Seq(Event)
           /\ callback[l].observed \in Int
           /\ callback[l].events # <<>> =>
                /\ Head(callback[l].events) \in Event
                /\ Tail(callback[l].events) \in Seq(Event)
  BY DEF TypeOK

\* The inductive invariant holds before anything was received.
LEMMA InitInvariant == Init => IInv
  <1> SUFFICES ASSUME Init PROVE IInv
    OBVIOUS
  <1>1. DOMAIN pending = {} /\ pending = [s \in {} |-> NewBatch]
    BY DEF Init, EmptyPending
  <1>2. Marked = {} /\ Cardinality(Marked) = 0 /\ IsFiniteSet(DOMAIN pending)
    BY <1>1, FS_EmptySet DEF Marked
  <1>3. TypeOK
    <2>1. callback \in [Listener -> [phase : {"idle", "observed", "handling"},
                                     observed : Int, events : Seq(Event)]]
      BY DEF Init, Idle
    <2>2. pending \in [DOMAIN pending -> PendingBatch]
      BY <1>1
    <2>3. now \in Int /\ arrivals \in Nat /\ <<>> \in Seq(Counters)
      BY DEF Init
    <2> DEFINE Callback == [Listener -> [phase : {"idle", "observed", "handling"},
                                         observed : Int, events : Seq(Event)]]
    <2> HIDE DEF Callback
    <2>4. QED
      BY <1>1, <1>2, <2>1, <2>2, <2>3, CountersClosed
         DEF Init, TypeOK, Stages, Callback
  <1>4. Balanced(total, 0)
    BY StatisticsNeutral DEF Init
  <1>5. WarmupExcluded /\ NoCompleteBatchPending
    BY <1>1, <1>2 DEF WarmupExcluded, NoCompleteBatchPending
  <1>6. StageInv
    BY <1>1 DEF Init, StageInv, Listener
  <1>7. QED
    BY <1>2, <1>3, <1>4, <1>5, <1>6 DEF IInv

\* Each step of a listener thread preserves the invariant.
LEMMA ListenStep ==
    ASSUME IInv, NEW l \in Listener, Listen(l)
    PROVE  IInv'
  <1> USE DEF IInv
  <1>0. l # "main" /\ l # "free"
    BY DEF Listener
  <1>1. CASE Receive(l)
    <2>1. PICK events \in Callbacks[l] :
            callback' = [callback EXCEPT ![l] =
              [phase |-> "observed", observed |-> now, events |-> events]]
      BY <1>1 DEF Receive, ReceiveEvents
    <2>2. events \in Seq(Event)
      BY <2>1, CollectorAssumption
    <2>3. TypeOK'
      BY <1>1, <2>1, <2>2, SMTT(20)
      DEF Receive, ReceiveEvents, TypeOK, flags, seen, counters, main
    <2>4. StageInv'
      BY <1>1 DEF Receive, ReceiveEvents, StageInv, flags, main
    <2>5. QED
      BY <1>1, <2>3, <2>4, UnaccountedStep DEF Receive, ReceiveEvents, seen, counters
  <1>2. CASE HandleWarmup(l)
    <2>1. ReceivedProfiles(callback[l].events) \subseteq Symbol
      BY CallbackType DEF ReceivedProfiles, Event, MarketEvent, MarkerEvent,
                          ProfileEvent
    <2>2. WarmupSequences(callback[l].events) \subseteq Int
      BY CallbackType DEF WarmupSequences, IsMarker, Event, MarketEvent,
                          MarkerEvent, ProfileEvent
    <2>3. TypeOK'
      BY <1>2, <2>1, <2>2
         DEF HandleWarmup, TypeOK, Idle, clock, flags, counters, main
    <2>4. StageInv'
      BY <1>2 DEF HandleWarmup, StageInv, flags, main
    <2>5. WarmupExcluded'
      BY <1>2 DEF HandleWarmup, WarmupExcluded, EmptyPending, StageInv
    <2>6. Balanced(total', Cardinality(Marked')) /\ NoCompleteBatchPending'
      BY <1>2 DEF HandleWarmup, counters, Marked, NoCompleteBatchPending,
                  HasExpectedComposition
    <2>7. QED
      BY <2>3, <2>4, <2>5, <2>6
  <1>3. CASE HandleMeasured(l)
    <2>1. ReceivedProfiles(callback[l].events) \subseteq Symbol
      BY CallbackType DEF ReceivedProfiles, Event, MarketEvent, MarkerEvent,
                          ProfileEvent
    <2>2. /\ window' \in Counters /\ total' \in Counters
          /\ Balanced(total', Cardinality(Marked')) /\ NoCompleteBatchPending'
      BY <1>3, StatisticsNeutral, NeutralStep DEF HandleMeasured
    <2>3. callback' \in [Listener -> [phase : {"idle", "observed", "handling"},
                                      observed : Int, events : Seq(Event)]]
      BY <1>3 DEF HandleMeasured, TypeOK
    <2>4. TypeOK'
      BY <1>3, <2>1, <2>2, <2>3, SMTT(20)
         DEF HandleMeasured, TypeOK, clock, flags, main
    <2>5. StageInv' /\ WarmupExcluded'
      BY <1>0, <1>3 DEF HandleMeasured, StageInv, WarmupExcluded, flags, main
    <2>6. QED
      BY <2>2, <2>4, <2>5
  <1>4. CASE HandleEvent(l)
    <2> DEFINE e == Head(callback[l].events)
    <2>1. /\ e \in Event /\ callback[l].observed \in Int
          /\ Tail(callback[l].events) \in Seq(Event)
      BY <1>4, CallbackType DEF HandleEvent
    <2>2. /\ EventEffect
          /\ WarmupExcluded'
          /\ DOMAIN pending = {} /\ ~acceptingNewBatches => DOMAIN pending' = {}
      BY <1>4, <2>1, EventStep DEF HandleEvent, seen, flags
    <2>3. sourceTimeObserved' \in Nat
      BY <1>4 DEF HandleEvent, TypeOK
    <2>4. expiring = {} /\ expiring' = {} /\ mutex = l /\ mutex' = l
      BY <1>0, <1>4 DEF HandleEvent, StageInv, main
    <2>5. callback' \in [Listener -> [phase : {"idle", "observed", "handling"},
                                      observed : Int, events : Seq(Event)]]
      BY <1>4, <2>1 DEF HandleEvent, TypeOK
    <2>6. TypeOK'
      BY <1>4, <2>2, <2>3, <2>4, <2>5
         DEF HandleEvent, EventEffect, TypeOK, clock, flags, seen, main
    <2>7. StageInv'
      BY <1>0, <1>4, <2>2, <2>4 DEF HandleEvent, StageInv, flags, main
    <2>8. QED
      BY <2>2, <2>6, <2>7 DEF EventEffect
  <1>5. CASE LeaveCallback(l)
    <2> DEFINE d == IF l = "market" THEN [Zero EXCEPT !.callbackSizes = 1]
                    ELSE Zero
    <2>1. /\ window' \in Counters /\ total' \in Counters
          /\ Balanced(total', Cardinality(Marked')) /\ NoCompleteBatchPending'
      <3>1. d \in Counters /\ Balanced(d, 0)
        BY StatisticsNeutral
      <3>2. Accumulate(d) /\ pending' = pending
        BY <1>5 DEF LeaveCallback
      <3> HIDE DEF d
      <3>3. QED
        BY <3>1, <3>2, NeutralStep
    <2>2. TypeOK'
      BY <1>5, <2>1 DEF LeaveCallback, TypeOK, Idle, clock, flags, seen, main
    <2>3. StageInv' /\ WarmupExcluded'
      BY <1>0, <1>5 DEF LeaveCallback, StageInv, WarmupExcluded, flags, seen, main
    <2>4. QED
      BY <2>1, <2>2, <2>3
  <1>6. QED
    BY <1>1, <1>2, <1>3, <1>4, <1>5 DEF Listen

\* Each step of the main thread preserves the invariant.
LEMMA MainStep ==
    ASSUME IInv, Main
    PROVE  IInv'
  <1> USE DEF IInv
  <1>1. CASE BeginMeasurement
    <2>1. /\ DOMAIN pending' = {} /\ pending' \in [DOMAIN pending' -> PendingBatch]
          /\ pending = pending'
      BY <1>1 DEF BeginMeasurement, EmptyPending, StageInv, TypeOK
    <2>2. TypeOK'
      BY <1>1, <2>1, CountersClosed, FS_EmptySet
         DEF BeginMeasurement, TypeOK, Stages, clock, seen, StageInv
    <2>3. StageInv'
      BY <1>1, <2>1 DEF BeginMeasurement, StageInv
    <2>4. QED
      BY <1>1, <2>1, <2>2, <2>3, UnaccountedStep DEF BeginMeasurement, seen
  <1>2. CASE EndMeasurement
    <2>1. TypeOK'
      BY <1>2 DEF EndMeasurement, TypeOK, Stages, clock, seen, counters
    <2>2. StageInv'
      BY <1>2 DEF EndMeasurement, StageInv
    <2>3. QED
      BY <1>2, <2>1, <2>2, UnaccountedStep DEF EndMeasurement, seen, counters
  <1>3. ASSUME NEW all \in BOOLEAN, TakeWindow(all) PROVE IInv'
    <2>1. TypeOK'
      BY <1>3 DEF TakeWindow, TypeOK, Expired, clock, flags, seen, counters
    <2>2. StageInv'
      BY <1>3 DEF TakeWindow, StageInv, Expired, flags, Listener
    <2>3. QED
      BY <1>3, <2>1, <2>2, UnaccountedStep DEF TakeWindow, seen, counters
  <1>4. CASE ExpireBatch
    BY <1>4, ExpireStep
  <1>5. CASE ReturnWindow
    <2>1. reported' \in Counters
      BY <1>5, CountersClosed DEF ReturnWindow, TypeOK
    <2>2. TypeOK'
      BY <1>5, <2>1, CountersClosed
         DEF ReturnWindow, TypeOK, Stages, clock, flags, seen
    <2>3. StageInv'
      BY <1>5 DEF ReturnWindow, StageInv, flags, Listener
    <2>4. QED
      BY <1>5, <2>2, <2>3, UnaccountedStep DEF ReturnWindow, seen
  <1>6. CASE TakeTotals
    <2>1. <<total>> \in Seq(Counters)
      BY DEF TypeOK
    <2>2. TypeOK'
      BY <1>6, <2>1
         DEF TakeTotals, TypeOK, Stages, clock, flags, seen, counters
    <2>3. StageInv'
      BY <1>6 DEF TakeTotals, StageInv, flags
    <2>4. QED
      BY <1>6, <2>2, <2>3, UnaccountedStep DEF TakeTotals, seen, counters
  <1>7. CASE Close
    <2>1. TypeOK'
      BY <1>7 DEF Close, TypeOK, Stages, clock, flags, seen, counters
    <2>2. StageInv'
      BY <1>7 DEF Close, StageInv, flags
    <2>3. QED
      BY <1>7, <2>1, <2>2, UnaccountedStep DEF Close, seen, counters
  <1>8. QED
    BY <1>1, <1>2, <1>3, <1>4, <1>5, <1>6, <1>7 DEF Main

\* Every step keeps the inductive invariant.
LEMMA NextInvariant == IInv /\ [Next]_vars => IInv'
  <1> SUFFICES ASSUME IInv, [Next]_vars PROVE IInv'
    OBVIOUS
  <1>1. ASSUME NEW l \in Listener, Listen(l) PROVE IInv'
    BY <1>1, ListenStep
  <1>2. CASE Main
    BY <1>2, MainStep
  <1>3. CASE Tick
    <2>1. TypeOK' /\ StageInv'
      BY <1>3 DEF IInv, Tick, TypeOK, StageInv, flags, seen, counters, main
    <2>2. QED
      BY <1>3, <2>1, UnaccountedStep DEF Tick, seen, counters, IInv
  <1>4. CASE UNCHANGED vars
    <2>1. TypeOK' /\ StageInv'
      BY <1>4 DEF IInv, vars, TypeOK, StageInv, clock, flags, seen, counters, main
    <2>2. QED
      BY <1>4, <2>1, UnaccountedStep DEF vars, seen, counters, IInv
  <1>5. QED
    BY <1>1, <1>2, <1>3, <1>4 DEF Next, Exited

-----------------------------------------------------------------------------
(* The theorems.                                                           *)

\* IInv holds in every reachable state of the Collector.
LEMMA Invariant == Spec => []IInv
  BY InitInvariant, NextInvariant, PTL DEF Spec

\* Every counter is a natural number in every state: no size_t difference of
\* finish wraps, whatever the callbacks deliver.
THEOREM TypeCorrect == Spec => []TypeOK
  <1>1. IInv => TypeOK
    BY DEF IInv
  <1>2. QED
    BY <1>1, Invariant, PTL

\* Delivery is conserved for every composition, order and loss of events.
THEOREM DeliveryConserved == Spec => []DeliveryConservation
  <1>1. IInv => DeliveryConservation
    BY DEF IInv, Balanced, DeliveryConservation
  <1>2. QED
    BY <1>1, Invariant, PTL

\* Each accepted marker leads to one outcome of its publication.
THEOREM OutcomesExclusive == Spec => []PublicationsClassified
  <1>1. IInv => PublicationsClassified
    BY DEF IInv, Balanced, PublicationsClassified
  <1>2. QED
    BY <1>1, Invariant, PTL

\* No publication seen before the measurement ever becomes a batch.
THEOREM WarmupNeverMeasured == Spec => []WarmupExcluded
  <1>1. IInv => WarmupExcluded
    BY DEF IInv
  <1>2. QED
    BY <1>1, Invariant, PTL

\* No complete publication is left waiting for the timeout.
THEOREM CompleteFinished == Spec => []NoCompleteBatchPending
  <1>1. IInv => NoCompleteBatchPending
    BY DEF IInv
  <1>2. QED
    BY <1>1, Invariant, PTL

\* Adding callback statistics does not show in the delivery counters.
LEMMA StatisticsInvisible ==
    ASSUME NEW c \in Counters,
           NEW d \in { Zero, [Zero EXCEPT !.callbacks = 1],
                       [Zero EXCEPT !.callbackSizes = 1] }
    PROVE  Delivery(Add(c, d)) = Delivery(c)
  <1>1. \A f \in PerKind : AddKinds(f, NoneOfKind) = f
    BY DEF AddKinds, NoneOfKind, PerKind
  <1>2. /\ d.published = NoneOfKind /\ d.delivered = NoneOfKind
        /\ d.listenerDeficit = NoneOfKind /\ d.excess = NoneOfKind
        /\ d.events = NoneOfKind
        /\ d.full = 0 /\ d.partial = 0 /\ d.empty = 0 /\ d.uncorrelated = 0
        /\ d.batches = 0 /\ d.negative = 0 /\ d.missing = 0
    BY DEF Zero
  <1> DEFINE a == Add(c, d)
  <1>3. /\ a.published = c.published /\ a.delivered = c.delivered
        /\ a.listenerDeficit = c.listenerDeficit /\ a.excess = c.excess
        /\ a.events = c.events
    BY <1>1, <1>2 DEF Add, Counters
  <1>4. /\ a.full = c.full /\ a.partial = c.partial /\ a.empty = c.empty
        /\ a.uncorrelated = c.uncorrelated /\ a.batches = c.batches
        /\ a.negative = c.negative /\ a.missing = c.missing
    BY <1>2 DEF Add, Counters
  <1>5. a \in Counters
    <2>1. d \in Counters
      BY StatisticsNeutral
    <2>2. QED
      BY <2>1, CountersClosed
  <1> HIDE DEF a
  <1>6. Delivery(a) = Delivery(c)
    BY <1>3, <1>4, <1>5 DEF Delivery, Counters
  <1>7. QED
    BY <1>6 DEF a

\* FrozenStep: once the last window is taken the delivery totals stand still.
LEMMA FrozenStep ==
    ASSUME IInv, [Next]_vars, stage \in {"reporting", "closing", "closed"}
    PROVE  Delivery(total)' = Delivery(total)
  <1>1. /\ DOMAIN pending = {} /\ ~acceptingNewBatches /\ mutex # "main"
        /\ expiring = {} /\ total \in Counters
      BY DEF IInv, StageInv, TypeOK
  <1>2. ASSUME NEW l \in Listener, Listen(l)
        PROVE  Delivery(total)' = Delivery(total)
      <2>1. CASE HandleMeasured(l)
          <3>1. total' = Add(total, [Zero EXCEPT !.callbacks = 1])
              BY <2>1 DEF HandleMeasured, Accumulate
          <3>2. Delivery(total') = Delivery(total)
              BY <1>1, <3>1, StatisticsInvisible
          <3> QED
              BY <3>2 DEF Delivery
      <2>2. CASE LeaveCallback(l)
          <3>1. total' = Add(total, IF l = "market"
                                    THEN [Zero EXCEPT !.callbackSizes = 1]
                                    ELSE Zero)
              BY <2>2 DEF LeaveCallback, Accumulate
          <3>2. Delivery(total') = Delivery(total)
              BY <1>1, <3>1, StatisticsInvisible
          <3> QED
              BY <3>2 DEF Delivery
      <2>3. CASE HandleEvent(l)
          <3>1. ~Correlates(Head(callback[l].events))
              BY <1>1 DEF Correlates, AcceptBatch
          <3>2. total' = total
              BY <2>3, <3>1 DEF HandleEvent
          <3> QED
              BY <3>2 DEF Delivery
      <2>4. CASE Receive(l) \/ HandleWarmup(l)
          BY <2>4 DEF Receive, ReceiveEvents, HandleWarmup, counters, Delivery
      <2> QED
          BY <1>2, <2>1, <2>2, <2>3, <2>4 DEF Listen
  <1>3. CASE Main
      <2>1. TakeTotals \/ Close
          BY <1>1, <1>3
             DEF Main, BeginMeasurement, EndMeasurement, TakeWindow, ExpireBatch,
                 ReturnWindow
      <2> QED
          BY <2>1 DEF TakeTotals, Close, counters, Delivery
  <1>4. CASE Tick \/ Exited \/ UNCHANGED vars
      BY <1>4 DEF Tick, Exited, vars, counters, Delivery
  <1> QED
      BY <1>2, <1>3, <1>4 DEF Next

\* The delivery totals do not move between the last window and the final
\* report, although callbacks are still running.
THEOREM TotalsFrozen == Spec => DeliveryFrozen
  <1>1. IInv /\ [Next]_vars =>
          [(stage \in {"reporting", "closing"})
             => Delivery(total)' = Delivery(total)]_vars
      BY FrozenStep
  <1> QED
      BY <1>1, Invariant, PTL DEF Spec, DeliveryFrozen

-----------------------------------------------------------------------------
(* Samples.                                                                *)

Publishing == SumKinds(Expected) > 0

\* The sample equation of a counter record c while the open publications
\* have n events between them.  Like Balanced it is additive.
SampleBalanced(c, n) ==
    SumKinds(c.delivered) + n + c.full + c.partial
      = SumKinds(c.events) + c.batches + c.negative

\* A batch counts its events in total and by kind, and retains each of them
\* until its marker arrives.
Retains(batch, n) ==
    /\ batch.received = SumKinds(batch.receivedByKind)
    /\ Len(batch.events) = n

Weighed(batch) ==
    Retains(batch, IF batch.timestamp = NoTime THEN batch.received ELSE 0)

AllWeighed == \A s \in DOMAIN pending : Weighed(pending[s])

Open == SumFunctionOnSet(Received, Marked)

\* A sum over the kinds is a number, and additive.
LEMMA SumKindsType ==
    /\ \A f \in PerKind : SumKinds(f) \in Nat
    /\ \A f, g \in PerKind : SumKinds(AddKinds(f, g)) = SumKinds(f) + SumKinds(g)
    /\ SumKinds(NoneOfKind) = 0
    /\ NoneOfKind \in PerKind
  BY DEF SumKinds, PerKind, AddKinds, NoneOfKind, Kind

\* The sample equation is additive.
LEMMA SampleAdd ==
    ASSUME NEW c \in Counters, NEW d \in Counters, NEW n \in Int, NEW m \in Int,
           SampleBalanced(c, n), SampleBalanced(d, m)
    PROVE  SampleBalanced(Add(c, d), n + m)
  <1> DEFINE a == Add(c, d)
  <1>1. /\ c.delivered \in PerKind /\ d.delivered \in PerKind
        /\ c.events \in PerKind /\ d.events \in PerKind
        /\ c.full \in Nat /\ d.full \in Nat
        /\ c.partial \in Nat /\ d.partial \in Nat
        /\ c.batches \in Nat /\ d.batches \in Nat
        /\ c.negative \in Nat /\ d.negative \in Nat
    BY DEF Counters
  <1>2. /\ a.delivered = AddKinds(c.delivered, d.delivered)
        /\ a.events = AddKinds(c.events, d.events)
        /\ a.full = c.full + d.full /\ a.partial = c.partial + d.partial
        /\ a.batches = c.batches + d.batches
        /\ a.negative = c.negative + d.negative
    BY DEF Add
  <1>3. /\ SumKinds(a.delivered) = SumKinds(c.delivered) + SumKinds(d.delivered)
        /\ SumKinds(a.events) = SumKinds(c.events) + SumKinds(d.events)
        /\ SumKinds(c.delivered) \in Nat /\ SumKinds(d.delivered) \in Nat
        /\ SumKinds(c.events) \in Nat /\ SumKinds(d.events) \in Nat
    BY <1>1, <1>2, SumKindsType
  <1>4. /\ SumKinds(c.delivered) + n + c.full + c.partial
             = SumKinds(c.events) + c.batches + c.negative
        /\ SumKinds(d.delivered) + m + d.full + d.partial
             = SumKinds(d.events) + d.batches + d.negative
    BY DEF SampleBalanced
  <1> HIDE DEF a
  <1>5. SumKinds(a.delivered) + (n + m) + a.full + a.partial
          = SumKinds(a.events) + a.batches + a.negative
    <2> DEFINE left(r) == SumKinds(r.delivered) + r.full + r.partial
               right(r) == SumKinds(r.events) + r.batches + r.negative
    <2>1. left(a) = left(c) + left(d) /\ right(a) = right(c) + right(d)
      BY <1>1, <1>2, <1>3
    <2>2. left(c) + n = right(c) /\ left(d) + m = right(d)
      BY <1>1, <1>3, <1>4
    <2>3. /\ left(c) \in Int /\ left(d) \in Int
          /\ right(c) \in Int /\ right(d) \in Int
      BY <1>1, <1>3
    <2>4. left(a) + (n + m) = right(a)
      <3> HIDE DEF left, right
      <3>1. QED
        BY <2>1, <2>2, <2>3
    <2>5. /\ SumKinds(a.delivered) \in Int
          /\ a.full \in Int /\ a.partial \in Int
      BY <1>1, <1>2, <1>3
    <2>6. QED
      BY <2>4, <2>5
  <1>6. SampleBalanced(a, n + m)
    BY <1>5 DEF SampleBalanced
  <1>7. QED
    BY <1>6 DEF a

\* A record that counts neither deliveries nor samples is balanced.
LEMMA NoSamples ==
    ASSUME NEW d, d.delivered = NoneOfKind, d.events = NoneOfKind,
           d.full = 0, d.partial = 0, d.batches = 0, d.negative = 0
    PROVE  SampleBalanced(d, 0)
  <1>1. SumKinds(d.delivered) = 0 /\ SumKinds(d.events) = 0
    BY SumKindsType, Zenon
  <1>2. QED
    BY <1>1 DEF SampleBalanced

\* Callback statistics and announced events are no samples.
LEMMA OtherCountsNoSamples ==
    /\ SampleBalanced(Zero, 0)
    /\ SampleBalanced([Zero EXCEPT !.callbacks = 1], 0)
    /\ SampleBalanced([Zero EXCEPT !.callbackSizes = 1], 0)
    /\ SampleBalanced([Zero EXCEPT !.published = Expected], 0)
  BY NoSamples DEF Zero

\* Finite sets without a common element.
LEMMA DisjointUnion ==
    ASSUME NEW S, NEW T, IsFiniteSet(S), IsFiniteSet(T), S \cap T = {}
    PROVE  /\ IsFiniteSet(S \cup T)
           /\ Cardinality(S \cup T) = Cardinality(S) + Cardinality(T)
  <1>1. /\ IsFiniteSet(S \cup T)
        /\ Cardinality(S \cup T) =
              Cardinality(S) + Cardinality(T) - Cardinality(S \cap T)
    BY FS_Union
  <1>2. Cardinality(S \cap T) = 0
    BY FS_EmptySet
  <1>3. Cardinality(S) \in Nat /\ Cardinality(T) \in Nat
    BY FS_CardinalityType
  <1>4. QED
    BY <1>1, <1>2, <1>3

\* emitEvents takes a sample or an anomaly of each retained event.
LEMMA EmissionSamples ==
    ASSUME NEW batch \in PendingBatch, batch.timestamp # NoTime
    PROVE  SampleBalanced(Emission(batch), Len(batch.events))
  <1> DEFINE E == batch.events
             D == DOMAIN E
             L(k) == { i \in D : /\ E[i].kind = k
                                 /\ E[i].observed >= batch.timestamp }
             early == { i \in D : E[i].observed < batch.timestamp }
             d == Emission(batch)
  <1>0. E \in Seq(PendingEvent) /\ batch.timestamp \in Int
    BY DEF PendingBatch
  <1>1. /\ D = 1..Len(E) /\ Len(E) \in Nat
        /\ \A i \in D : E[i].kind \in Kind /\ E[i].observed \in Int
    <2>1. D = 1..Len(E) /\ Len(E) \in Nat
      BY <1>0
    <2>2. \A i \in D : E[i] \in PendingEvent
      BY <1>0
    <2>3. QED
      BY <2>1, <2>2 DEF PendingEvent
  <1>2. IsFiniteSet(D) /\ Cardinality(D) = Len(E)
    BY <1>1, FS_Interval
  <1>3. /\ d.delivered = NoneOfKind /\ d.full = 0 /\ d.partial = 0
        /\ d.batches = 0 /\ d.negative = Cardinality(early)
        /\ d.events = [k \in Kind |-> Cardinality(L(k))]
    BY DEF Emission, Zero
  <1> DEFINE q == L("QUOTE")
             t == L("TRADE")
             x == L("TRADE_ETH")
             s == L("SUMMARY")
  <1>4. SumKinds(d.events) =
          Cardinality(q) + Cardinality(t) + Cardinality(x) + Cardinality(s)
    BY <1>3 DEF SumKinds, Kind
  <1>5. /\ q \subseteq D /\ t \subseteq D /\ x \subseteq D /\ s \subseteq D
        /\ early \subseteq D
    OBVIOUS
  <1>6. D = (((q \cup t) \cup x) \cup s) \cup early
    BY <1>0, <1>1 DEF Kind
  <1>7. /\ q \cap t = {} /\ (q \cup t) \cap x = {}
        /\ ((q \cup t) \cup x) \cap s = {}
    OBVIOUS
  <1>8. (((q \cup t) \cup x) \cup s) \cap early = {}
    BY <1>0, <1>1
  <1> HIDE DEF q, t, x, s, early, D, E, d
  <1>9. /\ IsFiniteSet(q) /\ IsFiniteSet(t) /\ IsFiniteSet(x) /\ IsFiniteSet(s)
        /\ IsFiniteSet(early)
    BY <1>2, <1>5, FS_Subset
  <1>10. /\ IsFiniteSet(q \cup t)
         /\ Cardinality(q \cup t) = Cardinality(q) + Cardinality(t)
    BY <1>7, <1>9, DisjointUnion
  <1>11. /\ IsFiniteSet((q \cup t) \cup x)
         /\ Cardinality((q \cup t) \cup x) = Cardinality(q \cup t) + Cardinality(x)
    BY <1>7, <1>9, <1>10, DisjointUnion
  <1>12. /\ IsFiniteSet(((q \cup t) \cup x) \cup s)
         /\ Cardinality(((q \cup t) \cup x) \cup s) =
              Cardinality((q \cup t) \cup x) + Cardinality(s)
    BY <1>7, <1>9, <1>11, DisjointUnion
  <1>13. Cardinality((((q \cup t) \cup x) \cup s) \cup early) =
           Cardinality(((q \cup t) \cup x) \cup s) + Cardinality(early)
    BY <1>8, <1>9, <1>12, DisjointUnion
  <1>14. Cardinality(D) = Cardinality((((q \cup t) \cup x) \cup s) \cup early)
    BY <1>6, Zenon
  <1>15. /\ Cardinality(q) \in Nat /\ Cardinality(t) \in Nat
         /\ Cardinality(x) \in Nat /\ Cardinality(s) \in Nat
         /\ Cardinality(early) \in Nat
    BY <1>9, FS_CardinalityType
  <1>16. Len(E) = Cardinality(q) + Cardinality(t) + Cardinality(x)
                    + Cardinality(s) + Cardinality(early)
    BY ONLY <1>2, <1>10, <1>11, <1>12, <1>13, <1>14, <1>15
  <1>17. SampleBalanced(d, Len(E))
    BY <1>3, <1>4, <1>15, <1>16, SumKindsType DEF SampleBalanced
  <1>18. QED
    BY <1>17 DEF d, E

\* finish with a marker turns the events of the batch into a sample or an
\* anomaly of the whole publication.
LEMMA CorrelatedSamples ==
    ASSUME Publishing, NEW batch \in PendingBatch,
           batch.received = SumKinds(batch.receivedByKind)
    PROVE  SampleBalanced(FinishCorrelated(batch), -batch.received)
  <1> DEFINE d == FinishCorrelated(batch)
             complete == HasExpectedComposition(batch)
             delta == batch.lastObserved - batch.timestamp
             some == batch.received > 0
  <1>1. /\ d.delivered = batch.receivedByKind /\ d.events = NoneOfKind
        /\ d.full = (IF complete THEN 1 ELSE 0)
        /\ d.partial = (IF ~complete /\ some THEN 1 ELSE 0)
        /\ d.batches = (IF some /\ delta >= 0 THEN 1 ELSE 0)
        /\ d.negative = (IF some /\ delta < 0 THEN 1 ELSE 0)
    BY DEF FinishCorrelated, Zero
  <1>2. delta \in Int /\ batch.received \in Nat
    BY DEF PendingBatch
  <1>3. complete => some
    <2>1. complete => SumKinds(batch.receivedByKind) = SumKinds(Expected)
      BY Zenon DEF HasExpectedComposition
    <2>2. QED
      BY <2>1 DEF Publishing
  <1>4. SumKinds(d.delivered) = batch.received
    BY <1>1, Zenon
  <1>5. SumKinds(d.events) = 0
    BY <1>1, SumKindsType, Zenon
  <1> HIDE DEF d, complete, delta
  <1>6. d.full + d.partial = d.batches + d.negative
    BY <1>1, <1>2, <1>3
  <1>7. /\ d.full \in Nat /\ d.partial \in Nat
        /\ d.batches \in Nat /\ d.negative \in Nat
    BY <1>1
  <1>8. SampleBalanced(d, -batch.received)
    BY <1>2, <1>4, <1>5, <1>6, <1>7 DEF SampleBalanced
  <1>9. QED
    BY <1>8 DEF d

\* A batch whose events have been emitted is finished.
LEMMA FinishSamples ==
    ASSUME Publishing, NEW batch \in PendingBatch, Weighed(batch)
    PROVE  SampleBalanced(Finish(batch),
               IF batch.timestamp = NoTime THEN 0 ELSE -batch.received)
  <1>1. CASE batch.timestamp = NoTime
    <2>1. SampleBalanced(FinishUncorrelated(batch), 0)
      BY NoSamples DEF FinishUncorrelated, Zero
    <2>2. QED
      BY <1>1, <2>1 DEF Finish
  <1>2. CASE batch.timestamp # NoTime
    <2>1. /\ batch.received = SumKinds(batch.receivedByKind)
          /\ Len(batch.events) = 0 /\ batch.received \in Nat
      BY <1>2 DEF Weighed, Retains, PendingBatch
    <2>2. SampleBalanced(Emission(batch), 0)
      BY <1>2, <2>1, EmissionSamples
    <2>3. SampleBalanced(FinishCorrelated(batch), -batch.received)
      BY <2>1, CorrelatedSamples
    <2>4. SampleBalanced(Add(Emission(batch), FinishCorrelated(batch)),
                         0 + (-batch.received))
      BY <2>1, <2>2, <2>3, SampleAdd, EmissionBalanced, CorrelatedBalanced
    <2>5. 0 + (-batch.received) = -batch.received
      BY <2>1
    <2>6. QED
      BY <1>2, <2>4, <2>5 DEF Finish
  <1>3. QED
    BY <1>1, <1>2

\* What the events of the open publications come to when pending_ changes.
LEMMA OpenErase ==
    ASSUME TypeOK, NEW s, pending' = Erase(s)
    PROVE  /\ Open \in Int
           /\ Open' = Open - (IF s \in Marked THEN pending[s].received ELSE 0)
  <1>1. /\ Marked' = Marked \ {s}
        /\ \A t \in Marked' : pending'[t] = pending[t] /\ t \in DOMAIN pending'
    BY EraseBatch DEF Marked
  <1>2. /\ IsFiniteSet(Marked) /\ Marked \subseteq DOMAIN pending
        /\ IsFiniteSet(Marked \ {s})
    BY MarkedFinite, FS_Subset
  <1>3. \A t \in Marked : Received[t] = pending[t].received /\ Received[t] \in Int
    BY <1>2 DEF Received, TypeOK, PendingBatch
  <1>4. \A t \in Marked \ {s} : Received'[t] = Received[t]
    BY <1>1, <1>3 DEF Received
  <1>5. SumFunctionOnSet(Received', Marked \ {s}) =
          SumFunctionOnSet(Received, Marked \ {s})
    BY <1>2, <1>4, SumEqual
  <1>6. Open' = SumFunctionOnSet(Received, Marked \ {s})
    BY <1>1, <1>5, Zenon DEF Open
  <1>7. Open \in Int /\ Open' \in Int
    BY <1>2, <1>3, <1>6, SumType DEF Open
  <1>8. CASE s \in Marked
    <2>1. Open = Received[s] + Open'
      BY <1>2, <1>3, <1>6, <1>8, SumRemove DEF Open
    <2>2. QED
      BY <1>3, <1>7, <1>8, <2>1
  <1>9. CASE s \notin Marked
    <2>1. Marked \ {s} = Marked
      BY <1>9
    <2>2. Open' = Open
      BY <1>6, <2>1, Zenon DEF Open
    <2>3. QED
      BY <1>7, <1>9, <2>2
  <1>10. QED
    BY <1>7, <1>8, <1>9

\* The open events after one batch was stored: those of the others and its
\* own.
LEMMA OpenStore ==
    ASSUME TypeOK, NEW s \in Int, NEW batch \in PendingBatch,
           pending' = Store(s, batch),
           batch.timestamp = NoTime => s \notin Marked
    PROVE  /\ Open \in Int
           /\ Open' = Open + (IF batch.timestamp = NoTime THEN 0
                              ELSE batch.received
                                     - (IF s \in Marked
                                        THEN pending[s].received ELSE 0))
  <1>1. /\ Marked' = IF batch.timestamp = NoTime THEN Marked
                     ELSE Marked \cup {s}
        /\ pending'[s] = batch /\ s \in DOMAIN pending'
        /\ DOMAIN pending' = DOMAIN pending \cup {s}
        /\ \A t \in DOMAIN pending \ {s} : pending'[t] = pending[t]
    <2>1. /\ Marked' = IF batch.timestamp = NoTime THEN Marked \ {s}
                       ELSE Marked \cup {s}
          /\ pending'[s] = batch
          /\ DOMAIN pending' = DOMAIN pending \cup {s}
          /\ \A t \in DOMAIN pending \ {s} : pending'[t] = pending[t]
      BY StoreBatch
    <2>2. batch.timestamp = NoTime => Marked \ {s} = Marked
      OBVIOUS
    <2>3. QED
      BY <2>1, <2>2
  <1>2. /\ IsFiniteSet(Marked) /\ Marked \subseteq DOMAIN pending
        /\ IsFiniteSet(Marked \ {s})
    BY MarkedFinite, FS_Subset
  <1>3. \A t \in Marked : Received[t] = pending[t].received /\ Received[t] \in Int
    BY <1>2 DEF Received, TypeOK, PendingBatch
  <1>4. \A t \in Marked \ {s} : Received'[t] = Received[t]
    BY <1>1, <1>2, <1>3 DEF Received
  <1>5. Received'[s] = batch.received /\ batch.received \in Int
    BY <1>1 DEF Received, PendingBatch
  <1> DEFINE Rest == SumFunctionOnSet(Received, Marked \ {s})
  <1>6. SumFunctionOnSet(Received', Marked \ {s}) = Rest /\ Rest \in Int
    BY <1>2, <1>3, <1>4, SumEqual, SumType
  <1>7. Open = Rest + (IF s \in Marked THEN pending[s].received ELSE 0)
    <2>1. CASE s \in Marked
      <3>1. Open = Received[s] + Rest
        BY <1>2, <1>3, <2>1, SumRemove DEF Open
      <3>2. QED
        BY <1>3, <1>6, <2>1, <3>1
    <2>2. CASE s \notin Marked
      <3>1. Marked \ {s} = Marked
        BY <2>2
      <3>2. Open = Rest
        BY <3>1, Zenon DEF Open
      <3>3. QED
        BY <1>6, <2>2, <3>2
    <2>3. QED
      BY <2>1, <2>2
  <1>8. Open \in Int /\ (s \in Marked => pending[s].received \in Int)
    BY <1>2, <1>3, SumType DEF Open
  <1>9. CASE batch.timestamp = NoTime
    <2>1. Marked' = Marked /\ Marked \ {s} = Marked
      BY <1>1, <1>9
    <2>2. SumFunctionOnSet(Received', Marked') = Rest
      BY <1>6, <2>1, Zenon
    <2>3. Open' = Rest
      BY <2>2 DEF Open
    <2>4. QED
      BY <1>6, <1>7, <1>9, <2>3
  <1>10. CASE batch.timestamp # NoTime
    <2>1. Marked' = Marked \cup {s} /\ s \in Marked' /\ Marked' \ {s} = Marked \ {s}
      BY <1>1, <1>10
    <2>2. IsFiniteSet(Marked')
      BY <1>2, <2>1, FS_AddElement
    <2>3. \A t \in Marked' : Received'[t] \in Int
      BY <1>3, <1>4, <1>5, <2>1
    <2>4. Open' = Received'[s] + SumFunctionOnSet(Received', Marked' \ {s})
      <3>1. s \in Marked'
        BY <2>1
      <3>2. SumFunctionOnSet(Received', Marked') =
              Received'[s] + SumFunctionOnSet(Received', Marked' \ {s})
        BY <2>2, <2>3, <3>1, SumRemove, ZenonT(30)
      <3>3. QED
        BY <3>2, Zenon DEF Open
    <2>5. SumFunctionOnSet(Received', Marked' \ {s}) = Rest
      BY <1>6, <2>1, Zenon
    <2>6. QED
      <3> HIDE DEF Rest
      <3>1. Open' = batch.received + Rest
        BY <1>5, <2>4, <2>5
      <3>2. QED
        BY <1>5, <1>6, <1>7, <1>8, <1>10, <3>1
  <1>11. QED
    BY <1>8, <1>9, <1>10

-----------------------------------------------------------------------------
(* Steps.                                                                  *)

\* How many events the batch of sequence s had when it was last emitted.
Before(s) == IF s \in Marked THEN pending[s].received ELSE 0

\* Settle keeps the equation, whether the batch is finished or stored.
LEMMA SettleSamples ==
    ASSUME TypeOK, AllWeighed, Publishing => SampleBalanced(total, Open),
           NEW s \in Int, NEW batch \in PendingBatch,
           batch.timestamp = NoTime => s \notin Marked,
           Retains(batch, batch.received - Before(s)),
           NEW d \in Counters, SampleBalanced(d, 0),
           Settle(s, batch, d)
    PROVE  AllWeighed' /\ (Publishing => SampleBalanced(total', Open'))
  <1> DEFINE emitted == Emitted(batch)
             gained == Add(d, Emission(batch))
             finished == Finish(emitted)
             done == batch.timestamp # NoTime /\ HasExpectedComposition(batch)
             n == IF batch.timestamp = NoTime THEN 0
                  ELSE batch.received - Before(s)
  <1>1. /\ emitted \in PendingBatch
        /\ emitted.timestamp = batch.timestamp
        /\ emitted.received = batch.received
        /\ emitted.receivedByKind = batch.receivedByKind
        /\ emitted.events =
             IF batch.timestamp = NoTime THEN batch.events ELSE <<>>
    BY EmittedType DEF Emitted, PendingBatch
  <1>2. Weighed(emitted)
    <2>1. emitted.received = SumKinds(emitted.receivedByKind)
      BY <1>1, Zenon DEF Retains
    <2>2. CASE batch.timestamp = NoTime
      <3>1. Len(emitted.events) = emitted.received
        <4>1. Len(batch.events) = batch.received - 0 /\ batch.received \in Int
          BY <2>2 DEF Retains, Before, PendingBatch
        <4>2. QED
          BY <1>1, <2>2, <4>1
      <3>2. QED
        BY <1>1, <2>1, <2>2, <3>1 DEF Weighed, Retains
    <2>3. CASE batch.timestamp # NoTime
      BY <1>1, <2>1, <2>3 DEF Weighed, Retains
    <2>4. QED
      BY <2>2, <2>3
  <1>3. n \in Int
    BY SMTT(20) DEF Before, TypeOK, PendingBatch, Marked
  <1>4. SampleBalanced(Emission(batch), n)
    <2>1. CASE batch.timestamp = NoTime
      BY <2>1, OtherCountsNoSamples DEF Emission
    <2>2. CASE batch.timestamp # NoTime
      BY <2>2, EmissionSamples DEF Retains
    <2>3. QED
      BY <2>1, <2>2
  <1>5. gained \in Counters /\ Emission(batch) \in Counters
    BY EmissionBalanced, CountersClosed
  <1>6. SampleBalanced(gained, n)
    <2>1. SampleBalanced(gained, 0 + n)
      BY <1>3, <1>4, <1>5, SampleAdd
    <2>2. QED
      BY <1>3, <2>1
  <1>7. AllWeighed'
    <2>1. CASE pending' = Erase(s)
      BY <2>1 DEF AllWeighed, Erase, Weighed, Retains
    <2>2. CASE pending' = Store(s, emitted)
      <3>1. ASSUME NEW t \in DOMAIN pending' PROVE Weighed(pending'[t])
        BY <1>2, <2>2 DEF AllWeighed, Store
      <3>2. QED
        BY <3>1 DEF AllWeighed, Weighed, Retains
    <2>3. QED
      BY <2>1, <2>2 DEF Settle
  <1>8. ASSUME Publishing PROVE SampleBalanced(total', Open')
    <2>1. total \in Counters /\ SampleBalanced(total, Open)
      BY <1>8 DEF TypeOK
    <2>2. CASE done
      <3>1. /\ pending' = Erase(s)
            /\ total' = Add(total, Add(gained, finished))
        BY <2>2 DEF Settle, Accumulate
      <3>2. finished \in Counters /\ SampleBalanced(finished, -batch.received)
        BY <1>1, <1>2, <1>8, <2>2, FinishBalanced, FinishSamples
      <3>3. batch.received \in Int /\ Before(s) \in Int
            /\ n = batch.received - Before(s)
        BY <2>2 DEF Before, TypeOK, PendingBatch, Marked
      <3>4. Open \in Int /\ Open' = Open - Before(s)
        BY <3>1, OpenErase DEF Before
      <3> HIDE DEF gained, finished, n, done, emitted
      <3>5. /\ Add(gained, finished) \in Counters
            /\ SampleBalanced(Add(gained, finished), n + (-batch.received))
        BY <1>3, <1>5, <1>6, <3>2, <3>3, SampleAdd, CountersClosed
      <3>6. n + (-batch.received) \in Int
        BY <3>3
      <3>7. SampleBalanced(total', Open + (n + (-batch.received)))
        BY <2>1, <3>1, <3>4, <3>5, <3>6, SampleAdd
      <3>8. Open + (n + (-batch.received)) = Open'
        BY <3>3, <3>4
      <3>9. QED
        BY <3>7, <3>8
    <2>3. CASE ~done
      <3>1. pending' = Store(s, emitted) /\ total' = Add(total, gained)
        BY <2>3 DEF Settle, Accumulate
      <3>2. /\ Open \in Int
            /\ Open' = Open + (IF emitted.timestamp = NoTime THEN 0
                               ELSE emitted.received
                                      - (IF s \in Marked
                                         THEN pending[s].received ELSE 0))
        BY <1>1, <3>1, OpenStore
      <3>3. Open' = Open + n
        BY <1>1, <3>2 DEF Before
      <3> HIDE DEF gained, finished, n, done, emitted
      <3>4. SampleBalanced(total', Open + n)
        BY <1>3, <1>5, <1>6, <2>1, <3>1, <3>2, SampleAdd
      <3>5. QED
        BY <3>3, <3>4
    <2>4. QED
      BY <2>2, <2>3
  <1>9. QED
    BY <1>7, <1>8

SamplesAccounted == Publishing => SampleBalanced(total, Open)

SampleInv == IInv /\ AllWeighed /\ SamplesAccounted

\* A batch before an event is added, existing or new.
LEMMA BatchOfWeighed ==
    ASSUME TypeOK, AllWeighed, NEW s
    PROVE  /\ Weighed(BatchOf(s))
           /\ BatchOf(s).timestamp = NoTime => Before(s) = 0
           /\ BatchOf(s).timestamp # NoTime => Before(s) = BatchOf(s).received
  <1>1. CASE s \in DOMAIN pending
    BY <1>1 DEF BatchOf, AllWeighed, Marked, Before
  <1>2. CASE s \notin DOMAIN pending
    <2>1. BatchOf(s) = NewBatch /\ s \notin Marked
      BY <1>2 DEF BatchOf, Marked
    <2>2. Weighed(NewBatch) /\ NewBatch.timestamp = NoTime
      BY SumKindsType DEF Weighed, Retains, NewBatch, NoTime
    <2>3. QED
      BY <2>1, <2>2 DEF Before
  <1>3. QED
    BY <1>1, <1>2

\* A marker adds no event, a market event adds one in every count.
LEMMA MarkerRetains ==
    ASSUME TypeOK, AllWeighed, NEW e \in MarkerEvent, NEW observed \in Int
    PROVE  LET after == MarkerBatch(BatchOf(e.sequence), e, observed)
           IN  Retains(after, after.received - Before(e.sequence))
  <1> DEFINE old == BatchOf(e.sequence)
             after == MarkerBatch(old, e, observed)
  <1>1. old \in PendingBatch
    BY BatchOfType
  <1>2. /\ after.received = old.received /\ after.events = old.events
        /\ after.receivedByKind = old.receivedByKind
        /\ old.received \in Int
    BY <1>1 DEF MarkerBatch, PendingBatch
  <1>3. /\ Weighed(old)
        /\ old.timestamp = NoTime => Before(e.sequence) = 0
        /\ old.timestamp # NoTime => Before(e.sequence) = old.received
    BY BatchOfWeighed
  <1> HIDE DEF old, after
  <1>4. SumKinds(after.receivedByKind) = SumKinds(old.receivedByKind)
    BY <1>2, Zenon
  <1>5. Retains(after, after.received - Before(e.sequence))
    BY <1>2, <1>3, <1>4 DEF Weighed, Retains
  <1>6. QED
    BY <1>5 DEF after, old

\* A market event is counted by kind and retained.
LEMMA MarketRetains ==
    ASSUME TypeOK, AllWeighed, NEW e \in MarketEvent, NEW observed \in Int
    PROVE  LET after == MarketBatch(BatchOf(e.sequence), e, observed)
           IN  Retains(after, after.received - Before(e.sequence))
  <1> DEFINE old == BatchOf(e.sequence)
             after == MarketBatch(old, e, observed)
  <1>1. old \in PendingBatch
    BY BatchOfType
  <1>2. /\ Weighed(old)
        /\ old.timestamp = NoTime => Before(e.sequence) = 0
        /\ old.timestamp # NoTime => Before(e.sequence) = old.received
    BY BatchOfWeighed
  <1>3. /\ old.received \in Int /\ old.events \in Seq(PendingEvent)
        /\ old.receivedByKind \in [Kind -> Nat] /\ e.kind \in Kind
    BY <1>1 DEF PendingBatch, MarketEvent
  <1>4. /\ after.received = old.received + 1
        /\ after.events =
             Append(old.events, [observed |-> observed, kind |-> e.kind])
        /\ after.receivedByKind = [old.receivedByKind EXCEPT ![e.kind] = @ + 1]
    BY <1>1 DEF MarketBatch, PendingBatch
  <1>5. Len(after.events) = Len(old.events) + 1 /\ Len(old.events) \in Nat
    <2>1. [observed |-> observed, kind |-> e.kind] \in PendingEvent
      BY <1>3 DEF PendingEvent
    <2>2. QED
      BY <1>3, <1>4, <2>1
  <1>6. SumKinds(after.receivedByKind) = SumKinds(old.receivedByKind) + 1
    <2> DEFINE f == old.receivedByKind
               g == [f EXCEPT ![e.kind] = @ + 1]
    <2> HIDE DEF f
    <2>1. f \in [Kind -> Nat] /\ e.kind \in Kind
      BY <1>3 DEF f
    <2>2. SumKinds(g) = SumKinds(f) + 1
      <3>1. /\ f["QUOTE"] \in Nat /\ f["TRADE"] \in Nat
            /\ f["TRADE_ETH"] \in Nat /\ f["SUMMARY"] \in Nat
        BY <2>1 DEF Kind
      <3>2. \A k \in Kind : g[k] = IF k = e.kind THEN f[k] + 1 ELSE f[k]
        BY <2>1
      <3>3. e.kind \in {"QUOTE", "TRADE", "TRADE_ETH", "SUMMARY"}
        BY <2>1 DEF Kind
      <3> HIDE DEF g
      <3>4. QED
        BY <3>1, <3>2, <3>3 DEF SumKinds, Kind
    <2>3. after.receivedByKind = g
      BY <1>4 DEF f
    <2> HIDE DEF g
    <2>4. QED
      BY <2>2, <2>3, Zenon DEF f
  <1> HIDE DEF old, after
  <1>7. Before(e.sequence) \in Int
    BY <1>2, <1>3
  <1>8. Len(old.events) = old.received - Before(e.sequence)
    BY <1>2, <1>3 DEF Weighed, Retains
  <1>9. Len(after.events) = after.received - Before(e.sequence)
    <2>1. /\ Len(after.events) = (old.received - Before(e.sequence)) + 1
          /\ after.received = old.received + 1
      BY <1>4, <1>5, <1>8
    <2>2. QED
      BY <1>3, <1>7, <2>1
  <1>10. after.received = SumKinds(after.receivedByKind)
    BY <1>2, <1>4, <1>6 DEF Weighed, Retains
  <1>11. Retains(after, after.received - Before(e.sequence))
    BY <1>9, <1>10 DEF Retains
  <1>12. QED
    BY <1>11 DEF after, old

\* A step that adds no sample and leaves the batches alone.
LEMMA QuietSamples ==
    ASSUME SampleInv, UNCHANGED pending,
           NEW d \in Counters, SampleBalanced(d, 0),
           total' = Add(total, d) \/ total' = total
    PROVE  AllWeighed' /\ SamplesAccounted'
  <1>1. AllWeighed'
    BY DEF SampleInv, AllWeighed, Weighed, Retains
  <1>2. Open' = Open
    BY DEF Open, Received, Marked
  <1>3. Open \in Int
    <2>1. TypeOK
      BY DEF SampleInv, IInv
    <2>2. \A s \in Marked : Received[s] \in Int
      BY <2>1 DEF Marked, Received, TypeOK, PendingBatch
    <2>3. QED
      BY <2>1, <2>2, MarkedFinite, SumType DEF Open
  <1>4. ASSUME Publishing PROVE SampleBalanced(total', Open')
    <2>1. SampleBalanced(total, Open) /\ total \in Counters
      BY <1>4 DEF SampleInv, SamplesAccounted, IInv, TypeOK
    <2>2. CASE total' = Add(total, d)
      <3>1. SampleBalanced(total', Open + 0)
        BY <1>3, <2>1, <2>2, SampleAdd
      <3>2. QED
        BY <1>2, <1>3, <3>1
    <2>3. CASE total' = total
      BY <1>2, <2>1, <2>3
    <2>4. QED
      BY <2>2, <2>3
  <1>5. QED
    BY <1>1, <1>4 DEF SamplesAccounted, Publishing

\* One event of a callback keeps the sample invariant.
LEMMA EventSamples ==
    ASSUME SampleInv, NEW l \in Listener, HandleEvent(l)
    PROVE  AllWeighed' /\ SamplesAccounted'
  <1> DEFINE e == Head(callback[l].events)
             observed == callback[l].observed
             s == e.sequence
             batch == BatchOf(s)
  <1>1. /\ TypeOK /\ AllWeighed /\ SamplesAccounted
        /\ e \in Event /\ observed \in Int
    BY CallbackType DEF HandleEvent, SampleInv, IInv
  <1>2. batch \in PendingBatch /\ (batch.timestamp # NoTime <=> s \in Marked)
    BY <1>1, BatchOfType
  <1>3. CASE ~Correlates(e)
    <2>1. UNCHANGED <<pending, total>>
      BY <1>3 DEF HandleEvent
    <2>2. QED
      BY <2>1, QuietSamples, OtherCountsNoSamples, CountersClosed
  <1>4. CASE Correlates(e) /\ e.type = "marker"
    <2>1. /\ IsMarker(e) /\ e \in MarkerEvent /\ s \in Int
          /\ ApplyMarker(e, observed)
      BY <1>1, <1>4 DEF HandleEvent, Correlates, IsMarker, Event, MarkerEvent,
                        MarketEvent, ProfileEvent
    <2> DEFINE d == IF batch.timestamp = NoTime
                    THEN [Zero EXCEPT !.published = Expected] ELSE Zero
               after == MarkerBatch(batch, e, observed)
    <2>2. after \in PendingBatch /\ after.timestamp # NoTime
      BY <1>1, <1>2, <2>1, MarkerBatchType
    <2>3. Retains(after, after.received - Before(s))
      BY <1>1, <2>1, MarkerRetains
    <2>4. d \in Counters /\ SampleBalanced(d, 0)
      BY ChargeBalanced, CountersClosed, OtherCountsNoSamples
    <2>5. Settle(s, after, d)
      BY <2>1 DEF ApplyMarker
    <2> HIDE DEF d, after, e, s, batch, observed
    <2>6. AllWeighed' /\ (Publishing => SampleBalanced(total', Open'))
      BY <1>1, <2>1, <2>2, <2>3, <2>4, <2>5, SettleSamples DEF SamplesAccounted
    <2>7. QED
      BY <2>6 DEF SamplesAccounted, Publishing
  <1>5. CASE Correlates(e) /\ e.type # "marker"
    <2>1. e \in MarketEvent /\ s \in Int /\ ApplyMarket(e, observed)
      BY <1>1, <1>5 DEF HandleEvent, Correlates, IsMarker, Event, MarkerEvent,
                        MarketEvent, ProfileEvent
    <2> DEFINE after == MarketBatch(batch, e, observed)
    <2>2. after \in PendingBatch /\ after.timestamp = batch.timestamp
      BY <1>1, <1>2, <2>1, MarketBatchType
    <2>3. Retains(after, after.received - Before(s))
      BY <1>1, <2>1, MarketRetains
    <2>4. Settle(s, after, Zero)
      BY <2>1 DEF ApplyMarket
    <2> HIDE DEF after, e, s, batch, observed
    <2>5. AllWeighed' /\ (Publishing => SampleBalanced(total', Open'))
      BY <1>1, <1>2, <2>1, <2>2, <2>3, <2>4, SettleSamples, CountersClosed,
         OtherCountsNoSamples DEF SamplesAccounted
    <2>6. QED
      BY <2>5 DEF SamplesAccounted, Publishing
  <1>6. QED
    BY <1>3, <1>4, <1>5

\* An expired batch becomes its outcome and its samples.
LEMMA ExpireSamples ==
    ASSUME SampleInv, ExpireBatch
    PROVE  AllWeighed' /\ SamplesAccounted'
  <1>1. PICK s \in expiring : /\ Accumulate(Finish(pending[s]))
                              /\ pending' = Erase(s)
    BY DEF ExpireBatch
  <1> DEFINE batch == pending[s]
             finished == Finish(batch)
  <1>2. /\ TypeOK /\ AllWeighed /\ s \in DOMAIN pending
        /\ batch \in PendingBatch /\ Weighed(batch)
    BY <1>1 DEF SampleInv, IInv, TypeOK, AllWeighed
  <1>3. AllWeighed'
    BY <1>1, <1>2 DEF AllWeighed, Erase, Weighed, Retains
  <1>4. Open \in Int /\ Open' = Open - Before(s)
    BY <1>1, <1>2, OpenErase DEF Before
  <1>5. /\ batch.received \in Int
        /\ Before(s) = (IF batch.timestamp = NoTime THEN 0 ELSE batch.received)
    BY <1>2 DEF Before, Marked, PendingBatch
  <1>6. finished \in Counters
    BY <1>2, FinishBalanced
  <1>7. Publishing => SampleBalanced(finished,
                          IF batch.timestamp = NoTime THEN 0 ELSE -batch.received)
    BY <1>2, FinishSamples
  <1>8. total' = Add(total, finished) /\ total \in Counters
    BY <1>1, <1>2 DEF Accumulate, TypeOK
  <1> DEFINE m == IF batch.timestamp = NoTime THEN 0 ELSE -batch.received
  <1>9. m \in Int /\ Open + m = Open'
    BY <1>4, <1>5
  <1> HIDE DEF finished, m, batch
  <1>10. ASSUME Publishing PROVE SampleBalanced(total', Open')
    <2>1. SampleBalanced(finished, m) /\ SampleBalanced(total, Open)
      BY <1>7, <1>10 DEF SampleInv, SamplesAccounted, m
    <2>2. SampleBalanced(total', Open + m)
      BY <1>4, <1>6, <1>8, <1>9, <2>1, SampleAdd
    <2>3. QED
      BY <1>9, <2>2
  <1>11. QED
    BY <1>3, <1>10 DEF SamplesAccounted, Publishing

\* Every step keeps the sample invariant.
LEMMA SampleStep ==
    ASSUME SampleInv, [Next]_vars
    PROVE  AllWeighed' /\ SamplesAccounted'
  <1>1. ASSUME UNCHANGED <<pending, total>> PROVE AllWeighed' /\ SamplesAccounted'
    BY <1>1, QuietSamples, OtherCountsNoSamples, CountersClosed
  <1>2. ASSUME NEW l \in Listener, Listen(l) PROVE AllWeighed' /\ SamplesAccounted'
    <2>1. CASE Receive(l) \/ HandleWarmup(l)
      BY <1>1, <2>1 DEF Receive, ReceiveEvents, HandleWarmup, counters
    <2>2. CASE HandleMeasured(l)
      <3>1. /\ UNCHANGED pending
            /\ total' = Add(total, [Zero EXCEPT !.callbacks = 1])
        BY <2>2 DEF HandleMeasured, Accumulate
      <3>2. QED
        BY <3>1, QuietSamples, OtherCountsNoSamples, StatisticsNeutral
    <2>3. CASE HandleEvent(l)
      BY <2>3, EventSamples
    <2>4. CASE LeaveCallback(l)
      <3> DEFINE d == IF l = "market" THEN [Zero EXCEPT !.callbackSizes = 1]
                      ELSE Zero
      <3>1. UNCHANGED pending /\ total' = Add(total, d)
        BY <2>4 DEF LeaveCallback, Accumulate
      <3>2. d \in Counters /\ SampleBalanced(d, 0)
        BY OtherCountsNoSamples, StatisticsNeutral
      <3> HIDE DEF d
      <3>3. QED
        BY <3>1, <3>2, QuietSamples
    <2>5. QED
      BY <1>2, <2>1, <2>2, <2>3, <2>4 DEF Listen
  <1>3. CASE Main
    <2>1. CASE BeginMeasurement
      <3>1. pending' = pending
        <4>1. DOMAIN pending = {} /\ pending \in [DOMAIN pending -> PendingBatch]
          BY <2>1 DEF BeginMeasurement, SampleInv, IInv, StageInv, TypeOK
        <4>2. QED
          BY <2>1, <4>1 DEF BeginMeasurement, EmptyPending
      <3>2. QED
        BY <1>1, <2>1, <3>1 DEF BeginMeasurement
    <2>2. CASE EndMeasurement
      BY <1>1, <2>2 DEF EndMeasurement, counters
    <2>3. CASE TakeWindow(FALSE) \/ TakeWindow(TRUE)
      BY <1>1, <2>3 DEF TakeWindow, counters
    <2>4. CASE ExpireBatch
      BY <2>4, ExpireSamples
    <2>5. CASE ReturnWindow
      BY <1>1, <2>5 DEF ReturnWindow
    <2>6. CASE TakeTotals
      BY <1>1, <2>6 DEF TakeTotals, counters
    <2>7. CASE Close
      BY <1>1, <2>7 DEF Close, counters
    <2>8. QED
      BY <1>3, <2>1, <2>2, <2>3, <2>4, <2>5, <2>6, <2>7 DEF Main
  <1>4. CASE Tick
    BY <1>1, <1>4 DEF Tick, counters
  <1>5. CASE Exited \/ UNCHANGED vars
    BY <1>1, <1>5 DEF Exited, vars, counters
  <1>6. QED
    BY <1>2, <1>3, <1>4, <1>5 DEF Next

\* Nothing is open and nothing sampled at first.
LEMMA InitSamples ==
    ASSUME Init
    PROVE  SampleInv
  <1>1. DOMAIN pending = {} /\ total = Zero
    BY DEF Init, EmptyPending
  <1>2. Marked = {}
    BY <1>1 DEF Marked
  <1>3. Open = 0
    <2>1. SumFunctionOnSet(Received, {}) = 0
      BY SumEmpty
    <2>2. QED
      BY <1>2, <2>1, Zenon DEF Open
  <1>4. SampleBalanced(total, Open)
    BY <1>1, <1>3, OtherCountsNoSamples
  <1>5. QED
    BY <1>1, <1>4, InitInvariant DEF SampleInv, AllWeighed, SamplesAccounted

\* Every event of a correlated publication, and every finished publication
\* that received one, has one sample or one clock anomaly, whatever the
\* composition, the order of arrival and the number of open publications.
THEOREM SamplesConserved == Spec => []SampleConservation
  <1>1. Init => SampleInv
    BY InitSamples
  <1>2. SampleInv /\ [Next]_vars => SampleInv'
    BY SampleStep, NextInvariant DEF SampleInv
  <1>3. SampleInv => SampleConservation
    BY DEF SampleInv, SamplesAccounted, Publishing, SampleBalanced, Open,
           SampleConservation
  <1>4. QED
    BY <1>1, <1>2, <1>3, PTL DEF Spec

-----------------------------------------------------------------------------
(* FinalExact and RowsAddUp.  In a STREAM_FEED run everything that can go  *)
(* wrong with a publication counts a missing batch, and a full one has a   *)
(* sample or a clock anomaly: a window that counts neither is empty in all *)
(* it says about delivery, and may be withheld.                            *)

\* A record of counts is honest if it owns up to what is wrong with it.
Honest(c) == allowConflation \/ (c.missing = 0 => Exact(c))

\* The task publishes recurring events, not just time series.
Publishes == \E k \in Kind : Expected[k] > 0

\* A full publication has a latency sample or a clock anomaly.
Sampled(c) == Publishes => c.full <= c.batches + c.negative

Sound(c) == Honest(c) /\ Sampled(c)

\* A batch counts its events in total and by kind.
Counted(batch) == batch.received = 0 => batch.receivedByKind = NoneOfKind

-----------------------------------------------------------------------------
(* What is added to the counters is sound.                                 *)

\* Two sound records add up to a sound one.
LEMMA SoundAdd ==
    ASSUME NEW c \in Counters, NEW d \in Counters, Sound(c), Sound(d)
    PROVE  Sound(Add(c, d))
  <1>1. CASE allowConflation
    BY <1>1 DEF Sound, Sampled, Honest, Add, Counters
  <1>2. CASE ~allowConflation
    <2>1. ASSUME Add(c, d).missing = 0 PROVE Exact(Add(c, d))
      <3>1. c.missing = 0 /\ d.missing = 0
        BY <2>1 DEF Add, Counters
      <3>2. Exact(c) /\ Exact(d)
        BY <1>2, <3>1 DEF Sound, Honest
      <3>3. AddKinds(NoneOfKind, NoneOfKind) = NoneOfKind
        BY DEF AddKinds, NoneOfKind
      <3>4. QED
        BY <3>2, <3>3 DEF Exact, Add
    <2>2. Sampled(Add(c, d))
      BY DEF Sound, Sampled, Add, Counters
    <2>3. QED
      BY <2>1, <2>2 DEF Sound, Honest
  <1>3. QED
    BY <1>1, <1>2

\* A record without outcomes, deficits and excesses is sound.
LEMMA ExactSound ==
    ASSUME NEW d, Exact(d), d.full = 0, d.batches + d.negative >= 0
    PROVE  Sound(d)
  BY DEF Sound, Honest, Sampled

\* Callback statistics, announced events and samples are no outcomes.
LEMMA OtherCountsSound ==
    /\ Sound(Zero)
    /\ Sound([Zero EXCEPT !.callbacks = 1])
    /\ Sound([Zero EXCEPT !.callbackSizes = 1])
    /\ Sound([Zero EXCEPT !.published = Expected])
  BY ExactSound DEF Exact, Zero

\* The samples of a batch are sound: they say nothing about delivery.
LEMMA EmissionSound ==
    ASSUME NEW batch \in PendingBatch
    PROVE  Sound(Emission(batch))
  <1>1. CASE batch.timestamp = NoTime
    BY <1>1, OtherCountsSound DEF Emission
  <1>2. CASE batch.timestamp # NoTime
    <2>1. /\ Exact(Emission(batch)) /\ Emission(batch).full = 0
          /\ Emission(batch).batches = 0
      BY <1>2 DEF Emission, Exact, Zero
    <2>2. Emission(batch).negative \in Nat
      BY EmissionBalanced DEF Counters
    <2>3. QED
      BY <2>1, <2>2, ExactSound
  <1>3. QED
    BY <1>1, <1>2

\* finish without a marker misses the batch.
LEMMA UncorrelatedSound ==
    ASSUME NEW batch \in PendingBatch
    PROVE  Sound(FinishUncorrelated(batch))
  <1> DEFINE d == FinishUncorrelated(batch)
  <1>1. /\ d.missing = (IF allowConflation THEN 0 ELSE 1)
        /\ d.full = 0 /\ d.batches = 0 /\ d.negative = 0
    BY DEF FinishUncorrelated, Zero
  <1> HIDE DEF d
  <1>2. Sound(d)
    BY <1>1 DEF Sound, Honest, Sampled
  <1>3. QED
    BY <1>2 DEF d

\* finish with a marker misses the batch unless its composition is complete,
\* and a complete one has events to take a sample from.
LEMMA CorrelatedSound ==
    ASSUME NEW batch \in PendingBatch, Counted(batch)
    PROVE  Sound(FinishCorrelated(batch))
  <1> DEFINE complete == HasExpectedComposition(batch)
             d == FinishCorrelated(batch)
             got == batch.receivedByKind
             delta == batch.lastObserved - batch.timestamp
  <1>1. /\ d.missing = (IF ~complete /\ ~allowConflation THEN 1 ELSE 0)
        /\ d.full = (IF complete THEN 1 ELSE 0)
        /\ d.empty = (IF ~complete /\ batch.received = 0 THEN 1 ELSE 0)
        /\ d.partial = (IF ~complete /\ batch.received > 0 THEN 1 ELSE 0)
        /\ d.uncorrelated = 0
        /\ d.batches = (IF batch.received > 0 /\ delta >= 0 THEN 1 ELSE 0)
        /\ d.negative = (IF batch.received > 0 /\ delta < 0 THEN 1 ELSE 0)
        /\ d.listenerDeficit = [k \in Kind |-> Shortfall(got[k], Expected[k])]
        /\ d.excess = [k \in Kind |-> Shortfall(Expected[k], got[k])]
    BY DEF FinishCorrelated, Zero
  <1>2. delta \in Int /\ batch.received \in Nat
    BY DEF PendingBatch
  <1>3. CASE complete
    <2>1. \A k \in Kind : got[k] = Expected[k] /\ Expected[k] \in Nat
      BY <1>3, CollectorAssumption DEF HasExpectedComposition
    <2>2. /\ [k \in Kind |-> Shortfall(got[k], Expected[k])] = NoneOfKind
          /\ [k \in Kind |-> Shortfall(Expected[k], got[k])] = NoneOfKind
      BY <2>1 DEF Shortfall, NoneOfKind
    <2>3. Publishes => batch.received > 0
      <3>1. ASSUME Publishes, batch.received = 0 PROVE FALSE
        <4>1. PICK k \in Kind : Expected[k] > 0
          BY <3>1 DEF Publishes
        <4>2. got[k] = 0
          BY <3>1 DEF Counted, NoneOfKind
        <4>3. QED
          BY <2>1, <4>1, <4>2
      <3>2. QED
        BY <1>2, <3>1
    <2> HIDE DEF complete, d, got, delta
    <2>4. Exact(d)
      BY <1>1, <1>3, <2>2 DEF Exact
    <2>5. Publishes => d.full <= d.batches + d.negative
      BY <1>1, <1>2, <1>3, <2>3
    <2>6. Sound(d)
      BY <2>4, <2>5 DEF Sound, Honest, Sampled
    <2>7. QED
      BY <2>6 DEF d
  <1>4. CASE ~complete
    <2> HIDE DEF complete, d, got, delta
    <2>1. Honest(d)
      BY <1>1, <1>4 DEF Honest
    <2>2. Sampled(d)
      BY <1>1, <1>2, <1>4 DEF Sampled
    <2>3. Sound(d)
      BY <2>1, <2>2 DEF Sound
    <2>4. QED
      BY <2>3 DEF d
  <1>5. QED
    BY <1>3, <1>4

\* The outcome of a batch is sound.
LEMMA FinishSound ==
    ASSUME NEW batch \in PendingBatch, Counted(batch)
    PROVE  Sound(Finish(batch))
  <1>1. CASE batch.timestamp = NoTime
    BY <1>1, UncorrelatedSound DEF Finish
  <1>2. CASE batch.timestamp # NoTime
    <2>1. Sound(Add(Emission(batch), FinishCorrelated(batch)))
      BY EmissionBalanced, EmissionSound, CorrelatedBalanced, CorrelatedSound,
         SoundAdd
    <2>2. QED
      BY <1>2, <2>1 DEF Finish
  <1>3. QED
    BY <1>1, <1>2

-----------------------------------------------------------------------------
(* Every step adds a sound record to window and total, if it adds any.     *)

\* What a step may count.
Counts == \E d \in Counters : Sound(d) /\ Accumulate(d)

AllCounted == \A s \in DOMAIN pending : Counted(pending[s])

\* Both event handlers settle their batch.
LEMMA SettleSound ==
    ASSUME TypeOK, AllCounted, NEW s, NEW batch \in PendingBatch, Counted(batch),
           NEW d \in Counters, Sound(d), Settle(s, batch, d)
    PROVE  Counts /\ AllCounted'
  <1> DEFINE emitted == Emitted(batch)
             gained == Add(d, Emission(batch))
             finished == Finish(emitted)
  <1>1. gained \in Counters /\ Sound(gained)
    BY EmissionBalanced, EmissionSound, CountersClosed, SoundAdd
  <1>2. emitted \in PendingBatch /\ Counted(emitted)
    <2>1. emitted.received = batch.received
      BY DEF Emitted, PendingBatch
    <2>2. QED
      BY <2>1, EmittedType DEF Counted
  <1>3. finished \in Counters /\ Sound(finished)
    BY <1>2, FinishBalanced, FinishSound
  <1>4. Add(gained, finished) \in Counters /\ Sound(Add(gained, finished))
    BY <1>1, <1>3, CountersClosed, SoundAdd
  <1>5. \/ Accumulate(Add(gained, finished)) /\ pending' = Erase(s)
        \/ Accumulate(gained) /\ pending' = Store(s, emitted)
    BY DEF Settle
  <1> HIDE DEF gained, finished, emitted
  <1>6. Counts
    BY <1>1, <1>4, <1>5 DEF Counts
  <1>7. AllCounted'
    <2>1. CASE pending' = Erase(s)
      BY <2>1 DEF AllCounted, Erase, Counted
    <2>2. CASE pending' = Store(s, emitted)
      <3>1. ASSUME NEW t \in DOMAIN pending' PROVE Counted(pending'[t])
        BY <1>2, <2>2, <3>1 DEF AllCounted, Store
      <3>2. QED
        BY <3>1 DEF AllCounted, Counted
    <2>3. QED
      BY <1>5, <2>1, <2>2
  <1>8. QED
    BY <1>6, <1>7

\* The batch an event belongs to counts its events, also a fresh one.
LEMMA BatchOfCounted ==
    ASSUME AllCounted, NEW s
    PROVE  Counted(BatchOf(s))
  BY DEF AllCounted, BatchOf, NewBatch, Counted

\* TakeTotals hands over totals without an open publication.
HInv ==
    /\ IInv
    /\ AllCounted
    /\ Sound(total)
    /\ final # <<>> =>
         /\ final[1] \in Counters
         /\ Sound(final[1])
         /\ Balanced(final[1], 0)

\* One event of a callback.
LEMMA EventSound ==
    ASSUME HInv, NEW l \in Listener, HandleEvent(l)
    PROVE  (Counts \/ UNCHANGED <<counters, pending>>) /\ AllCounted'
  <1> DEFINE e == Head(callback[l].events)
             observed == callback[l].observed
             batch == BatchOf(e.sequence)
  <1>1. TypeOK /\ AllCounted /\ e \in Event /\ observed \in Int
    BY CallbackType DEF HandleEvent, HInv, IInv
  <1>2. batch \in PendingBatch /\ Counted(batch)
    BY <1>1, BatchOfType, BatchOfCounted
  <1>3. CASE ~Correlates(e)
    BY <1>1, <1>3 DEF HandleEvent, counters, AllCounted, Counted
  <1>4. CASE Correlates(e) /\ e.type = "marker"
    <2>1. /\ IsMarker(e) /\ e \in MarkerEvent
          /\ ApplyMarker(e, observed)
      BY <1>1, <1>4 DEF HandleEvent, Correlates, IsMarker, Event, MarkerEvent,
                        MarketEvent, ProfileEvent
    <2> DEFINE d == IF batch.timestamp = NoTime
                    THEN [Zero EXCEPT !.published = Expected] ELSE Zero
               after == MarkerBatch(batch, e, observed)
    <2>2. after.received = batch.received
          /\ after.receivedByKind = batch.receivedByKind
      BY <1>2 DEF MarkerBatch, PendingBatch
    <2>3. after \in PendingBatch /\ Counted(after)
      BY <1>1, <1>2, <2>1, <2>2, MarkerBatchType DEF Counted
    <2>4. d \in Counters /\ Sound(d)
      BY ChargeBalanced, CountersClosed, OtherCountsSound
    <2>5. Settle(e.sequence, after, d)
      BY <2>1 DEF ApplyMarker
    <2> HIDE DEF d, after, e, batch
    <2>6. QED
      BY <1>1, <2>3, <2>4, <2>5, SettleSound
  <1>5. CASE Correlates(e) /\ e.type # "marker"
    <2>1. e \in MarketEvent /\ ApplyMarket(e, observed)
      BY <1>1, <1>5 DEF HandleEvent, Correlates, IsMarker, Event, MarkerEvent,
                        MarketEvent, ProfileEvent
    <2> DEFINE after == MarketBatch(batch, e, observed)
    <2>2. after.received = batch.received + 1 /\ batch.received \in Nat
      BY <1>2 DEF MarketBatch, PendingBatch
    <2>3. after \in PendingBatch /\ Counted(after)
      BY <1>1, <1>2, <2>1, <2>2, MarketBatchType, SMTT(20) DEF Counted
    <2>4. Settle(e.sequence, after, Zero)
      BY <2>1 DEF ApplyMarket
    <2> HIDE DEF after, e, batch
    <2>5. QED
      BY <1>1, <2>3, <2>4, CountersClosed, OtherCountsSound, SettleSound
  <1>6. QED
    BY <1>3, <1>4, <1>5

\* A step counts something sound, or leaves the counters alone, but for the
\* beginning of the measurement and the end of a window.
Early == stage \in {"warmup", "measuring", "ended"}

CountingStep ==
    /\ Counts /\ AllCounted'
    /\ UNCHANGED <<stage, reported>> /\ stage # "warmup"

QuietStep ==
    /\ UNCHANGED <<counters, pending, reported>>
    /\ stage' = "warmup" => stage = "warmup"
    /\ Early' => Early

\* One event of a callback counts something sound, or nothing at all.
LEMMA EventCounts ==
    ASSUME HInv, NEW l \in Listener, HandleEvent(l)
    PROVE  CountingStep \/ QuietStep
  <1>1. UNCHANGED <<stage, reported>>
    BY DEF HandleEvent, main
  <1>2. stage # "warmup"
    BY DEF HandleEvent, HInv, IInv, StageInv
  <1>3. QED
    BY <1>1, <1>2, EventSound DEF CountingStep, QuietStep, Early

\* So does every step of a listener.
LEMMA ListenCounts ==
    ASSUME HInv, NEW l \in Listener, Listen(l)
    PROVE  CountingStep \/ QuietStep
  <1>1. CASE Receive(l)
    BY <1>1 DEF Receive, ReceiveEvents, main, QuietStep, Early
  <1>2. CASE HandleWarmup(l)
    BY <1>2 DEF HandleWarmup, main, QuietStep, Early
  <1>3. ASSUME NEW d \in {Zero, [Zero EXCEPT !.callbacks = 1],
                          [Zero EXCEPT !.callbackSizes = 1]},
               Accumulate(d), UNCHANGED <<main, pending>>, measuring
        PROVE  CountingStep
    <2>1. d \in Counters /\ Sound(d)
      BY StatisticsNeutral, OtherCountsSound
    <2>2. Counts
      BY <1>3, <2>1 DEF Counts
    <2>3. AllCounted'
      BY <1>3 DEF HInv, AllCounted, Counted
    <2>4. UNCHANGED <<stage, reported>>
      BY <1>3 DEF main
    <2>5. stage # "warmup"
      BY <1>3 DEF HInv, IInv, StageInv
    <2>6. QED
      BY <2>2, <2>3, <2>4, <2>5 DEF CountingStep
  <1>4. CASE HandleMeasured(l)
    BY <1>3, <1>4 DEF HandleMeasured
  <1>5. CASE LeaveCallback(l)
    <2>1. measuring
      BY <1>5 DEF LeaveCallback, HInv, IInv, StageInv
    <2>2. UNCHANGED <<main, pending>>
      BY <1>5 DEF LeaveCallback
    <2>3. PICK d \in {Zero, [Zero EXCEPT !.callbackSizes = 1]} : Accumulate(d)
      BY <1>5 DEF LeaveCallback
    <2>4. QED
      BY <1>3, <2>1, <2>2, <2>3
  <1>6. CASE HandleEvent(l)
    BY <1>6, EventCounts
  <1>7. QED
    BY <1>1, <1>2, <1>4, <1>5, <1>6 DEF Listen

\* So does the expiry of a batch.
LEMMA ExpireCounts ==
    ASSUME HInv, ExpireBatch
    PROVE  CountingStep
  <1>1. PICK s \in expiring : /\ Accumulate(Finish(pending[s]))
                              /\ pending' = Erase(s)
    BY DEF ExpireBatch
  <1>2. s \in DOMAIN pending /\ pending[s] \in PendingBatch
    BY <1>1 DEF HInv, IInv, TypeOK
  <1>3. Finish(pending[s]) \in Counters /\ Sound(Finish(pending[s]))
    BY <1>2, FinishBalanced, FinishSound DEF HInv, AllCounted
  <1>4. Counts
    BY <1>1, <1>3 DEF Counts
  <1>5. AllCounted'
    BY <1>1 DEF HInv, AllCounted, Erase, Counted
  <1>6. UNCHANGED <<stage, reported>>
    BY DEF ExpireBatch
  <1>7. stage # "warmup"
    BY DEF ExpireBatch, HInv, IInv, StageInv
  <1>8. QED
    BY <1>4, <1>5, <1>6, <1>7 DEF CountingStep

\* A step of the Collector counts, hands over a window, begins, or does
\* neither.
LEMMA StepCounts ==
    ASSUME HInv, [Next]_vars
    PROVE  CountingStep \/ BeginMeasurement \/ ReturnWindow \/ QuietStep
  <1>1. ASSUME NEW l \in Listener, Listen(l) PROVE CountingStep \/ QuietStep
    BY <1>1, ListenCounts
  <1>2. CASE ExpireBatch
    BY <1>2, ExpireCounts
  <1>3. CASE EndMeasurement
    BY <1>3 DEF EndMeasurement, QuietStep, Early
  <1>4. CASE TakeWindow(FALSE) \/ TakeWindow(TRUE)
    BY <1>4 DEF TakeWindow, QuietStep, Early
  <1>5. CASE TakeTotals \/ Close
    BY <1>5 DEF TakeTotals, Close, QuietStep, Early
  <1>6. CASE Tick
    BY <1>6 DEF Tick, main, QuietStep, Early
  <1>7. CASE Exited \/ UNCHANGED vars
    BY <1>7 DEF Exited, vars, main, QuietStep, Early
  <1>8. QED
    BY <1>1, <1>2, <1>3, <1>4, <1>5, <1>6, <1>7 DEF Next, Main

\* Every step leaves the totals sound.
LEMMA TotalSound ==
    ASSUME HInv, [Next]_vars
    PROVE  Sound(total') /\ AllCounted'
  <1>1. Sound(total) /\ AllCounted /\ total \in Counters
    BY DEF HInv, IInv, TypeOK
  <1>2. CASE CountingStep
    BY <1>1, <1>2, SoundAdd DEF CountingStep, Counts, Accumulate
  <1>3. CASE BeginMeasurement
    <2>1. DOMAIN pending' = {}
      BY <1>3 DEF BeginMeasurement, EmptyPending
    <2>2. AllCounted'
      BY <2>1 DEF AllCounted
    <2>3. QED
      BY <1>1, <1>3, <2>2 DEF BeginMeasurement
  <1>4. CASE ReturnWindow
    BY <1>1, <1>4 DEF ReturnWindow, AllCounted, Counted
  <1>5. CASE QuietStep
    BY <1>1, <1>5 DEF QuietStep, counters, AllCounted, Counted
  <1>6. QED
    BY <1>2, <1>3, <1>4, <1>5, StepCounts

\* The role is fixed, and only TakeTotals touches the final totals.
Handed == final' = <<total>> /\ Balanced(total, 0)

\* The final totals are only set when they are handed over.
LEMMA FinalStep ==
    ASSUME HInv, [Next]_vars
    PROVE  allowConflation' = allowConflation /\ (final' = final \/ Handed)
  <1> DEFINE Same == allowConflation' = allowConflation /\ final' = final
  <1>1. ASSUME NEW l \in Listener, Listen(l) PROVE Same
    BY <1>1 DEF Listen, Receive, ReceiveEvents, HandleWarmup, HandleMeasured,
                HandleEvent, LeaveCallback, flags, main
  <1>2. CASE TakeTotals
    <2>1. /\ DOMAIN pending = {} /\ Balanced(total, Cardinality(Marked))
          /\ final' = <<total>> /\ allowConflation' = allowConflation
      <3>1. allowConflation' = allowConflation
        BY <1>2 DEF TakeTotals, flags
      <3>2. final' = <<total>> /\ stage = "reporting"
        BY <1>2 DEF TakeTotals
      <3>3. DOMAIN pending = {} /\ Balanced(total, Cardinality(Marked))
        BY <3>2 DEF HInv, IInv, StageInv
      <3>4. QED
        BY <3>1, <3>2, <3>3
    <2>2. Marked = {}
      BY <2>1 DEF Marked
    <2>3. Balanced(total, 0)
      BY <2>1, <2>2, FS_EmptySet
    <2>4. QED
      BY <2>1, <2>3 DEF Handed
  <1>3. CASE Main /\ ~TakeTotals
    <2>1. CASE BeginMeasurement \/ EndMeasurement
      BY <2>1 DEF BeginMeasurement, EndMeasurement
    <2>2. CASE TakeWindow(FALSE) \/ TakeWindow(TRUE)
      BY <2>2 DEF TakeWindow, flags
    <2>3. CASE ExpireBatch
      BY <2>3 DEF ExpireBatch, flags
    <2>4. CASE ReturnWindow
      BY <2>4 DEF ReturnWindow, flags
    <2>5. CASE Close
      BY <2>5 DEF Close, flags
    <2>6. QED
      BY <1>3, <2>1, <2>2, <2>3, <2>4, <2>5 DEF Main
  <1>4. CASE Tick \/ Exited \/ UNCHANGED vars
    BY <1>4 DEF Tick, Exited, vars, flags, main
  <1> HIDE DEF Same
  <1>5. Same => allowConflation' = allowConflation /\ (final' = final \/ Handed)
    BY DEF Same
  <1>6. QED
    BY <1>1, <1>2, <1>3, <1>4, <1>5 DEF Next

\* Nothing is counted at first.
LEMMA InitSound ==
    ASSUME Init
    PROVE  HInv
  <1>1. AllCounted
    BY DEF Init, EmptyPending, AllCounted
  <1>2. QED
    BY <1>1, InitInvariant, OtherCountsSound DEF HInv, Init

\* The totals are sound in every reachable state.
LEMMA SoundInvariant == Spec => []HInv
  <1>1. Init => HInv
    BY InitSound
  <1>2. ASSUME HInv, [Next]_vars PROVE HInv'
    <2>1. IInv'
      BY <1>2, NextInvariant DEF HInv
    <2>2. Sound(total') /\ AllCounted' /\ total \in Counters
      BY <1>2, TotalSound DEF HInv, IInv, TypeOK
    <2>3. /\ allowConflation' = allowConflation
          /\ final' = final \/ (final' = <<total>> /\ Balanced(total, 0))
      BY <1>2, FinalStep DEF Handed
    <2>4. Sound(total)'
      BY <2>2, <2>3 DEF Sound, Honest, Sampled
    <2>5. final' # <<>> => /\ final'[1] \in Counters
                           /\ Sound(final'[1])
                           /\ Balanced(final'[1], 0)
      BY <1>2, <2>2, <2>3 DEF HInv
    <2>6. final' # <<>> => Sound(final[1])'
      BY <2>3, <2>5 DEF Sound, Honest, Sampled
    <2>7. QED
      BY <2>1, <2>2, <2>4, <2>5, <2>6 DEF HInv, Balanced
  <1>3. QED
    BY <1>1, <1>2, PTL DEF Spec

-----------------------------------------------------------------------------

\* Without a missing batch the final totals of a STREAM_FEED run are exact:
\* "missing" alone decides whether anything went wrong with delivery.
THEOREM FinalTotalsExact == Spec => []FinalExact
  <1>1. HInv => FinalExact
    <2> SUFFICES ASSUME HInv, final # <<>>, ~allowConflation,
                        final[1].missing = 0
                 PROVE  /\ Exact(final[1])
                        /\ \A k \in Kind :
                             /\ final[1].published[k] = Expected[k] * final[1].full
                             /\ final[1].delivered[k] = final[1].published[k]
      BY DEF FinalExact
    <2> DEFINE c == final[1]
    <2>1. c \in Counters /\ Exact(c) /\ Balanced(c, 0)
      BY DEF HInv, Sound, Honest
    <2> HIDE DEF c
    <2>2. ASSUME NEW k \in Kind
          PROVE  /\ c.published[k] = Expected[k] * c.full
                 /\ c.delivered[k] = c.published[k]
      <3>1. /\ c.full \in Nat /\ Expected[k] \in Nat
            /\ c.published[k] \in Nat /\ c.delivered[k] \in Nat
        BY <2>1, CollectorAssumption DEF Counters, PerKind
      <3>2. /\ c.excess[k] = 0 /\ c.listenerDeficit[k] = 0
            /\ c.partial = 0 /\ c.empty = 0
        BY <2>1 DEF Exact, NoneOfKind
      <3>3. c.full + c.partial + c.empty + 0 = c.full /\ Expected[k] * 0 = 0
        BY <3>1, <3>2
      <3>4. c.published[k] = Expected[k] * c.full
        BY <2>1, <3>3 DEF Balanced
      <3>5. c.published[k] + 0 = c.delivered[k] + 0 + 0
        BY <2>1, <3>2, <3>3 DEF Balanced
      <3>6. QED
        BY <3>1, <3>4, <3>5
    <2>3. QED
      BY <2>1, <2>2 DEF c
  <1>2. QED
    BY <1>1, SoundInvariant, PTL

-----------------------------------------------------------------------------
(* The rows add up.                                                        *)

\* What Delivery keeps of a record.
SameDelivery(c, d) ==
    /\ c.published = d.published /\ c.delivered = d.delivered
    /\ c.listenerDeficit = d.listenerDeficit /\ c.excess = d.excess
    /\ c.events = d.events
    /\ c.full = d.full /\ c.partial = d.partial /\ c.empty = d.empty
    /\ c.uncorrelated = d.uncorrelated /\ c.batches = d.batches
    /\ c.negative = d.negative /\ c.missing = d.missing

\* Records that say the same about delivery have the same delivery part.
LEMMA DeliverySame ==
    ASSUME NEW c \in Counters, NEW d \in Counters, SameDelivery(c, d)
    PROVE  Delivery(c) = Delivery(d)
  BY DEF SameDelivery, Delivery, Counters

\* The same record counted in a window and in the totals.
LEMMA CountedTwice ==
    ASSUME NEW r \in Counters, NEW w \in Counters, NEW t \in Counters,
           NEW d \in Counters, SameDelivery(Add(r, w), t)
    PROVE  SameDelivery(Add(r, Add(w, d)), Add(t, d))
  <1>1. ASSUME NEW f \in PerKind, NEW g \in PerKind, NEW h \in PerKind
        PROVE  AddKinds(f, AddKinds(g, h)) = AddKinds(AddKinds(f, g), h)
    BY DEF AddKinds, PerKind
  <1>2. ASSUME NEW i \in Nat, NEW j \in Nat, NEW k \in Nat
        PROVE  i + (j + k) = (i + j) + k
    OBVIOUS
  <1> DEFINE a == Add(r, w)
             b == Add(w, d)
             x == Add(r, b)
             y == Add(t, d)
  <1> HIDE DEF a, b
  <1>3. /\ x.published = AddKinds(r.published, b.published)
        /\ x.delivered = AddKinds(r.delivered, b.delivered)
        /\ x.listenerDeficit = AddKinds(r.listenerDeficit, b.listenerDeficit)
        /\ x.excess = AddKinds(r.excess, b.excess)
        /\ x.events = AddKinds(r.events, b.events)
        /\ x.full = r.full + b.full /\ x.partial = r.partial + b.partial
        /\ x.empty = r.empty + b.empty
        /\ x.uncorrelated = r.uncorrelated + b.uncorrelated
        /\ x.batches = r.batches + b.batches
        /\ x.negative = r.negative + b.negative
        /\ x.missing = r.missing + b.missing
    BY DEF Add
  <1>4. /\ b.published = AddKinds(w.published, d.published)
        /\ b.delivered = AddKinds(w.delivered, d.delivered)
        /\ b.listenerDeficit = AddKinds(w.listenerDeficit, d.listenerDeficit)
        /\ b.excess = AddKinds(w.excess, d.excess)
        /\ b.events = AddKinds(w.events, d.events)
        /\ b.full = w.full + d.full /\ b.partial = w.partial + d.partial
        /\ b.empty = w.empty + d.empty
        /\ b.uncorrelated = w.uncorrelated + d.uncorrelated
        /\ b.batches = w.batches + d.batches
        /\ b.negative = w.negative + d.negative
        /\ b.missing = w.missing + d.missing
    BY DEF Add, b
  <1>5. /\ y.published = AddKinds(t.published, d.published)
        /\ y.delivered = AddKinds(t.delivered, d.delivered)
        /\ y.listenerDeficit = AddKinds(t.listenerDeficit, d.listenerDeficit)
        /\ y.excess = AddKinds(t.excess, d.excess)
        /\ y.events = AddKinds(t.events, d.events)
        /\ y.full = t.full + d.full /\ y.partial = t.partial + d.partial
        /\ y.empty = t.empty + d.empty
        /\ y.uncorrelated = t.uncorrelated + d.uncorrelated
        /\ y.batches = t.batches + d.batches
        /\ y.negative = t.negative + d.negative
        /\ y.missing = t.missing + d.missing
    BY DEF Add
  <1>6. /\ t.published = AddKinds(r.published, w.published)
        /\ t.delivered = AddKinds(r.delivered, w.delivered)
        /\ t.listenerDeficit = AddKinds(r.listenerDeficit, w.listenerDeficit)
        /\ t.excess = AddKinds(r.excess, w.excess)
        /\ t.events = AddKinds(r.events, w.events)
        /\ t.full = r.full + w.full /\ t.partial = r.partial + w.partial
        /\ t.empty = r.empty + w.empty
        /\ t.uncorrelated = r.uncorrelated + w.uncorrelated
        /\ t.batches = r.batches + w.batches
        /\ t.negative = r.negative + w.negative
        /\ t.missing = r.missing + w.missing
    BY DEF SameDelivery, Add
  <1> HIDE DEF a, b, x, y
  <1>7. /\ x.published = y.published /\ x.delivered = y.delivered
        /\ x.listenerDeficit = y.listenerDeficit /\ x.excess = y.excess
        /\ x.events = y.events
    <2>1. /\ {r.published, w.published, d.published} \subseteq PerKind
          /\ {r.delivered, w.delivered, d.delivered} \subseteq PerKind
          /\ {r.listenerDeficit, w.listenerDeficit, d.listenerDeficit}
               \subseteq PerKind
          /\ {r.excess, w.excess, d.excess} \subseteq PerKind
          /\ {r.events, w.events, d.events} \subseteq PerKind
      BY DEF Counters
    <2>2. x.published = y.published
      BY <1>1, <1>3, <1>4, <1>5, <1>6, <2>1, SMTT(20)
    <2>3. x.delivered = y.delivered
      BY <1>1, <1>3, <1>4, <1>5, <1>6, <2>1, SMTT(20)
    <2>4. x.listenerDeficit = y.listenerDeficit
      BY <1>1, <1>3, <1>4, <1>5, <1>6, <2>1, SMTT(20)
    <2>5. x.excess = y.excess
      BY <1>1, <1>3, <1>4, <1>5, <1>6, <2>1, SMTT(20)
    <2>6. x.events = y.events
      BY <1>1, <1>3, <1>4, <1>5, <1>6, <2>1
    <2>7. QED
      BY <2>2, <2>3, <2>4, <2>5, <2>6
  <1>8. /\ x.full = y.full /\ x.partial = y.partial /\ x.empty = y.empty
        /\ x.uncorrelated = y.uncorrelated /\ x.batches = y.batches
        /\ x.negative = y.negative /\ x.missing = y.missing
    <2>1. /\ {r.full, w.full, d.full} \subseteq Nat
          /\ {r.partial, w.partial, d.partial} \subseteq Nat
          /\ {r.empty, w.empty, d.empty} \subseteq Nat
          /\ {r.uncorrelated, w.uncorrelated, d.uncorrelated} \subseteq Nat
          /\ {r.batches, w.batches, d.batches} \subseteq Nat
          /\ {r.negative, w.negative, d.negative} \subseteq Nat
          /\ {r.missing, w.missing, d.missing} \subseteq Nat
      BY DEF Counters
    <2>2. QED
      BY <1>2, <1>3, <1>4, <1>5, <1>6, <2>1
  <1>9. QED
    BY <1>7, <1>8 DEF SameDelivery, x, y, b

\* A window that says nothing about delivery may be added or left out.
LEMMA WindowLeftOut ==
    ASSUME NEW r \in Counters, NEW w \in Counters, SameDelivery(w, Zero)
    PROVE  SameDelivery(Add(r, Zero), Add(r, w))
  BY DEF SameDelivery, Add

\* A window that starts again from zero adds nothing to what was reported.
LEMMA WindowHandedOver ==
    ASSUME NEW c \in Counters
    PROVE  SameDelivery(Add(c, Zero), c)
  <1>1. \A f \in PerKind : AddKinds(f, NoneOfKind) = f
    BY DEF AddKinds, NoneOfKind, PerKind
  <1>2. QED
    BY <1>1 DEF SameDelivery, Add, Zero, Counters

\* Saying the same about delivery is transitive.
LEMMA SameDeliveryTransitive ==
    ASSUME NEW a, NEW b, NEW c, SameDelivery(a, b), SameDelivery(b, c)
    PROVE  SameDelivery(a, c)
  BY DEF SameDelivery

\* What a balanced sum and one balanced part leave for the other part.
LEMMA BalancedSubtract ==
    ASSUME NEW c \in Counters, NEW d \in Counters, NEW n \in Int, NEW m \in Int,
           Balanced(c, n), Balanced(Add(c, d), m)
    PROVE  Balanced(d, m - n)
  <1> DEFINE a == Add(c, d)
  <1> SUFFICES ASSUME NEW k \in Kind
               PROVE  /\ d.published[k] + d.excess[k] =
                           d.delivered[k] + d.listenerDeficit[k]
                             + Expected[k] * (m - n)
                      /\ d.published[k] =
                           Expected[k] * (d.full + d.partial + d.empty + (m - n))
    BY DEF Balanced
  <1> DEFINE x == c.full + c.partial + c.empty + n
             y == d.full + d.partial + d.empty + (m - n)
             z == a.full + a.partial + a.empty + m
  <1>1. /\ Expected[k] \in Int
        /\ c.published[k] \in Nat /\ c.excess[k] \in Nat
        /\ c.delivered[k] \in Nat /\ c.listenerDeficit[k] \in Nat
        /\ d.published[k] \in Nat /\ d.excess[k] \in Nat
        /\ d.delivered[k] \in Nat /\ d.listenerDeficit[k] \in Nat
        /\ c.full \in Nat /\ c.partial \in Nat /\ c.empty \in Nat
        /\ d.full \in Nat /\ d.partial \in Nat /\ d.empty \in Nat
    BY CollectorAssumption DEF Counters, PerKind
  <1>2. /\ a.published[k] = c.published[k] + d.published[k]
        /\ a.excess[k] = c.excess[k] + d.excess[k]
        /\ a.delivered[k] = c.delivered[k] + d.delivered[k]
        /\ a.listenerDeficit[k] = c.listenerDeficit[k] + d.listenerDeficit[k]
        /\ a.full = c.full + d.full /\ a.partial = c.partial + d.partial
        /\ a.empty = c.empty + d.empty
    BY DEF Add, AddKinds
  <1>3. /\ c.published[k] + c.excess[k] =
             c.delivered[k] + c.listenerDeficit[k] + Expected[k] * n
        /\ c.published[k] = Expected[k] * x
        /\ a.published[k] + a.excess[k] =
             a.delivered[k] + a.listenerDeficit[k] + Expected[k] * m
        /\ a.published[k] = Expected[k] * z
    BY DEF Balanced
  <1> HIDE DEF a
  <1>4. x \in Int /\ y \in Int /\ z = x + y
    BY <1>1, <1>2
  <1>5. /\ Expected[k] * z = Expected[k] * x + Expected[k] * y
        /\ Expected[k] * m = Expected[k] * n + Expected[k] * (m - n)
    <2>1. Expected[k] * (x + y) = Expected[k] * x + Expected[k] * y
      BY <1>1, <1>4, Distributes
    <2>2. Expected[k] * (n + (m - n)) = Expected[k] * n + Expected[k] * (m - n)
      BY <1>1, Distributes
    <2>3. n + (m - n) = m
      OBVIOUS
    <2>4. QED
      BY <1>4, <2>1, <2>2, <2>3
  <1>6. d.published[k] + d.excess[k] =
          d.delivered[k] + d.listenerDeficit[k] + Expected[k] * (m - n)
    <2> DEFINE p == Expected[k] * n
               q == Expected[k] * (m - n)
               r == Expected[k] * m
    <2>1. p \in Int /\ q \in Int /\ r = p + q
      BY <1>1, <1>5
    <2>2. /\ c.published[k] + c.excess[k] =
               c.delivered[k] + c.listenerDeficit[k] + p
          /\ a.published[k] + a.excess[k] =
               a.delivered[k] + a.listenerDeficit[k] + r
      BY <1>3
    <2> HIDE DEF p, q, r
    <2>3. (c.published[k] + d.published[k]) + (c.excess[k] + d.excess[k]) =
            (c.delivered[k] + d.delivered[k])
              + (c.listenerDeficit[k] + d.listenerDeficit[k]) + (p + q)
      BY ONLY <1>2, <2>1, <2>2
    <2> DEFINE cp == c.published[k]  ce == c.excess[k]
               cd == c.delivered[k]  cl == c.listenerDeficit[k]
               dp == d.published[k]  de == d.excess[k]
               dd == d.delivered[k]  dl == d.listenerDeficit[k]
    <2>4. /\ cp \in Nat /\ ce \in Nat /\ cd \in Nat /\ cl \in Nat
          /\ dp \in Nat /\ de \in Nat /\ dd \in Nat /\ dl \in Nat
          /\ cp + ce = cd + cl + p
          /\ (cp + dp) + (ce + de) = (cd + dd) + (cl + dl) + (p + q)
      BY <1>1, <2>2, <2>3
    <2> HIDE DEF cp, ce, cd, cl, dp, de, dd, dl
    <2>5. dp + de = dd + dl + q
      BY <2>1, <2>4
    <2>6. QED
      BY <2>5 DEF q, dp, de, dd, dl
  <1>7. d.published[k] = Expected[k] * y
    <2> DEFINE p == Expected[k] * x
               q == Expected[k] * y
               r == Expected[k] * z
    <2>1. p \in Int /\ q \in Int /\ r = p + q
      BY <1>1, <1>4, <1>5
    <2>2. c.published[k] = p /\ a.published[k] = r
      BY <1>3
    <2> HIDE DEF p, q, r
    <2>3. d.published[k] = q
      BY <1>1, <1>2, <2>1, <2>2
    <2>4. QED
      BY <2>3 DEF q
  <1>8. QED
    BY <1>6, <1>7

\* A window in which publications only ended, none of them wrong and none
\* full, has counted nothing: n of them were open when it began.
LEMMA EmptyWindow ==
    ASSUME NEW w \in Counters, Sound(w), ~allowConflation, Publishes,
           NEW n \in Nat, Balanced(w, 0 - n),
           w.events = NoneOfKind, w.batches = 0, w.missing = 0, w.negative = 0
    PROVE  SameDelivery(w, Zero)
  <1>1. /\ w.partial = 0 /\ w.empty = 0 /\ w.uncorrelated = 0
        /\ w.listenerDeficit = NoneOfKind /\ w.excess = NoneOfKind
    BY DEF Sound, Honest, Exact
  <1>2. w.full = 0
    <2>1. w.full \in Nat /\ w.full <= w.batches + w.negative
      BY DEF Sound, Sampled, Counters
    <2>2. QED
      BY <2>1
  <1>3. ASSUME NEW k \in Kind
        PROVE  w.published[k] = 0 /\ w.delivered[k] = 0
    <2>1. /\ w.published[k] \in Nat /\ w.delivered[k] \in Nat
          /\ Expected[k] \in Nat
      BY CollectorAssumption DEF Counters, PerKind
    <2>2. w.full + w.partial + w.empty + (0 - n) = 0 - n
      BY <1>1, <1>2
    <2>3. w.published[k] = Expected[k] * (0 - n)
      BY <2>2 DEF Balanced
    <2>4. Expected[k] * (0 - n) <= 0
      BY <2>1
    <2>5. w.published[k] = 0
      BY <2>1, <2>3, <2>4
    <2>6. w.excess[k] = 0 /\ w.listenerDeficit[k] = 0
      BY <1>1 DEF NoneOfKind
    <2>7. w.published[k] + w.excess[k] =
            w.delivered[k] + w.listenerDeficit[k] + Expected[k] * (0 - n)
      BY DEF Balanced
    <2>8. w.delivered[k] = 0
      BY <2>1, <2>3, <2>5, <2>6, <2>7
    <2>9. QED
      BY <2>5, <2>8
  <1>4. w.published = NoneOfKind /\ w.delivered = NoneOfKind
    BY <1>3 DEF Counters, PerKind, NoneOfKind
  <1>5. QED
    BY <1>1, <1>2, <1>4 DEF SameDelivery, Zero

\* The counters of the window are balanced against the publications that were
\* open when it began, and the rows agree with the totals as long as they are
\* promised to.
RInv ==
    /\ HInv
    /\ Sound(window)
    /\ \E n \in Nat : Balanced(window, Cardinality(Marked) - n)
    /\ stage = "warmup" => window = Zero
    /\ ~allowConflation \/ Early => SameDelivery(Add(reported, window), total)

\* The marked batches can still be counted after a step.
LEMMA MarkedFiniteAfter ==
    ASSUME TypeOK'
    PROVE  Cardinality(Marked') \in Nat
  <1>1. IsFiniteSet(DOMAIN pending') /\ Marked' \subseteq DOMAIN pending'
    BY DEF TypeOK, Marked
  <1>2. QED
    BY <1>1, FS_Subset, FS_CardinalityType

\* A step that counts.
LEMMA CountingAddsUp ==
    ASSUME RInv, HInv', CountingStep, allowConflation' = allowConflation
    PROVE  RInv'
  <1>1. PICK d \in Counters : Sound(d) /\ Accumulate(d)
    BY DEF CountingStep, Counts
  <1>2. /\ window \in Counters /\ total \in Counters /\ reported \in Counters
        /\ Balanced(total, Cardinality(Marked)) /\ Cardinality(Marked) \in Nat
    BY MarkedFinite DEF RInv, HInv, IInv, TypeOK
  <1>3. /\ Balanced(total', Cardinality(Marked')) /\ Cardinality(Marked') \in Nat
    <2>1. TypeOK' /\ Balanced(total, Cardinality(Marked))'
      BY DEF HInv, IInv
    <2>2. Cardinality(Marked') \in Nat
      BY <2>1, MarkedFiniteAfter
    <2>3. QED
      BY <2>1, <2>2 DEF Balanced
  <1>4. window' = Add(window, d) /\ total' = Add(total, d)
    BY <1>1 DEF Accumulate
  <1>5. Sound(window)'
    <2>1. Sound(window')
      BY <1>1, <1>2, <1>4, SoundAdd DEF RInv
    <2>2. QED
      BY <2>1 DEF Sound, Honest, Sampled
  <1>6. \E n \in Nat : Balanced(window', Cardinality(Marked') - n)
    <2>1. PICK n \in Nat : Balanced(window, Cardinality(Marked) - n)
      BY DEF RInv
    <2> DEFINE m == Cardinality(Marked)
               m1 == Cardinality(Marked')
    <2>2. m \in Nat /\ m1 \in Nat /\ Balanced(total, m)
          /\ Balanced(Add(total, d), m1) /\ Balanced(window, m - n)
      BY <1>2, <1>3, <1>4, <2>1
    <2> HIDE DEF m, m1
    <2>3. Balanced(d, m1 - m)
      BY <1>2, <2>2, BalancedSubtract
    <2>4. m - n \in Int /\ m1 - m \in Int /\ (m - n) + (m1 - m) = m1 - n
      BY <2>2
    <2>5. Balanced(window', m1 - n)
      BY <1>2, <1>4, <2>2, <2>3, <2>4, BalancedAdd
    <2>6. QED
      BY <2>5 DEF m1
  <1>7. ~allowConflation \/ Early =>
          SameDelivery(Add(reported, window'), total')
    BY <1>2, <1>4, CountedTwice DEF RInv
  <1>8. stage' = stage /\ reported' = reported /\ stage # "warmup"
    BY DEF CountingStep
  <1>9. (\E n \in Nat : Balanced(window, Cardinality(Marked) - n))'
    BY <1>6 DEF Balanced
  <1>10. (~allowConflation \/ Early => SameDelivery(Add(reported, window), total))'
    BY <1>7, <1>8 DEF Early
  <1>11. QED
    BY <1>5, <1>8, <1>9, <1>10 DEF RInv

\* A window begins: it owes what is open.
LEMMA WindowBegins ==
    ASSUME TypeOK', window' = Zero, allowConflation' = allowConflation
    PROVE  /\ Sound(window)'
           /\ (\E n \in Nat : Balanced(window, Cardinality(Marked) - n))'
  <1>1. Sound(window)'
    <2>1. Sound(Zero)
      BY OtherCountsSound
    <2>2. QED
      BY <2>1 DEF Sound, Honest, Sampled
  <1>2. Balanced(Zero, 0)
    BY StatisticsNeutral
  <1>3. Cardinality(Marked') \in Nat /\ Cardinality(Marked') - Cardinality(Marked') = 0
    BY MarkedFiniteAfter
  <1>4. \E n \in Nat : Balanced(window', Cardinality(Marked') - n)
    BY <1>2, <1>3
  <1>5. QED
    BY <1>1, <1>4 DEF Balanced

\* The end of a window, handed to the Reporter or withheld.
LEMMA ReturnAddsUp ==
    ASSUME RInv, HInv', Publishes, ReturnWindow
    PROVE  RInv'
  <1>1. /\ window' = Zero /\ total' = total /\ allowConflation' = allowConflation
        /\ reported' = IF Reports(window) THEN Add(reported, window) ELSE reported
        /\ stage' = (IF expireAll THEN "reporting" ELSE stage)
        /\ mutex = "main" /\ expiring = {}
    BY DEF ReturnWindow, flags
  <1>2. /\ window \in Counters /\ total \in Counters /\ reported \in Counters
        /\ stage \in {"measuring", "ended"}
    BY <1>1 DEF RInv, HInv, IInv, TypeOK, StageInv
  <1>3. /\ Sound(window)'
        /\ (\E n \in Nat : Balanced(window, Cardinality(Marked) - n))'
    BY <1>1, WindowBegins DEF HInv, IInv
  <1>4. SameDelivery(Add(reported, window), total)
    BY <1>2 DEF RInv, Early
  <1>5. CASE Reports(window)
    <2>1. SameDelivery(Add(Add(reported, window), Zero), Add(reported, window))
      BY <1>2, CountersClosed, WindowHandedOver
    <2>2. SameDelivery(Add(reported', window'), total')
      BY <1>1, <1>4, <1>5, <2>1, SameDeliveryTransitive
    <2>3. QED
      BY <1>1, <1>2, <1>3, <2>2 DEF RInv
  <1>6. CASE ~Reports(window) /\ ~allowConflation
    <2>1. /\ expireAll
          /\ \A k \in Kind : ~(window.events[k] > 0)
          /\ ~(window.batches > 0) /\ ~(window.missing > 0)
          /\ ~(window.negative > 0)
      BY <1>6 DEF Reports
    <2>2. /\ window.events = NoneOfKind /\ window.batches = 0
          /\ window.missing = 0 /\ window.negative = 0
      BY <1>2, <2>1 DEF Counters, PerKind, NoneOfKind
    <2>3. Marked = {}
      BY <1>1, <2>1 DEF RInv, HInv, IInv, StageInv, Marked
    <2>4. PICK n \in Nat : Balanced(window, 0 - n)
      <3>1. Cardinality(Marked) = 0
        BY <2>3, FS_EmptySet
      <3>2. QED
        BY <3>1 DEF RInv
    <2>5. SameDelivery(window, Zero)
      BY <1>2, <1>6, <2>2, <2>4, EmptyWindow DEF RInv
    <2>6. SameDelivery(Add(reported, Zero), Add(reported, window))
      BY <1>2, <2>5, WindowLeftOut
    <2>7. SameDelivery(Add(reported', window'), total')
      BY <1>1, <1>4, <1>6, <2>6, SameDeliveryTransitive
    <2>8. QED
      BY <1>1, <1>2, <1>3, <2>7 DEF RInv
  <1>7. CASE ~Reports(window) /\ allowConflation
    <2>1. expireAll
      BY <1>7 DEF Reports
    <2>2. allowConflation' /\ ~Early' /\ stage' # "warmup"
      BY <1>1, <1>7, <2>1 DEF Early
    <2>3. QED
      BY <1>3, <2>2 DEF RInv
  <1>8. QED
    BY <1>5, <1>6, <1>7

\* Until the end of the run every row is part of the totals and the other way
\* round, and for STREAM_FEED the last window is only withheld if it counted
\* nothing that the totals would show.
THEOREM RowsMatchTotals == Spec => [](Publishes => RowsAddUp)
  <1>1. ASSUME Init, Publishes PROVE RInv
    <2>1. HInv
      BY <1>1, InitSound
    <2>2. /\ window = Zero /\ total = Zero /\ reported = Zero /\ Marked = {}
      BY <1>1 DEF Init, Marked, EmptyPending
    <2>3. Balanced(window, Cardinality(Marked) - 0)
      <3>1. Cardinality(Marked) - 0 = 0
        BY <2>2, FS_EmptySet
      <3>2. QED
        BY <2>2, <3>1, StatisticsNeutral
    <2>4. SameDelivery(Add(reported, window), total)
      BY <2>2, CountersClosed, WindowHandedOver
    <2>5. 0 \in Nat
      OBVIOUS
    <2>6. QED
      BY <2>1, <2>2, <2>3, <2>4, <2>5, OtherCountsSound DEF RInv
  <1>2. ASSUME RInv, Publishes, HInv', [Next]_vars PROVE RInv'
    <2>1. allowConflation' = allowConflation
      BY <1>2, FinalStep DEF RInv
    <2>2. CASE CountingStep
      BY <1>2, <2>1, <2>2, CountingAddsUp
    <2>3. CASE ReturnWindow
      BY <1>2, <2>3, ReturnAddsUp
    <2>4. CASE BeginMeasurement
      <3>1. /\ window' = Zero /\ total' = total /\ reported' = reported
            /\ stage = "warmup" /\ window = Zero
        BY <1>2, <2>4 DEF BeginMeasurement, RInv
      <3>2. SameDelivery(Add(reported', window'), total')
        BY <1>2, <3>1 DEF RInv, Early
      <3>3. QED
        BY <1>2, <2>1, <2>4, <3>1, <3>2, WindowBegins
           DEF RInv, HInv, IInv, BeginMeasurement
    <2>5. CASE QuietStep
      <3>1. /\ window' = window /\ total' = total /\ pending' = pending
            /\ reported' = reported
            /\ stage' = "warmup" => stage = "warmup"
            /\ Early' => Early
        BY <2>5 DEF QuietStep, counters
      <3>2. Sound(window)'
        BY <1>2, <2>1, <3>1 DEF RInv, Sound, Honest, Sampled
      <3>3. (\E n \in Nat : Balanced(window, Cardinality(Marked) - n))'
        <4>1. Marked' = Marked
          BY <3>1 DEF Marked
        <4>2. PICK n \in Nat : Balanced(window, Cardinality(Marked) - n)
          BY <1>2 DEF RInv
        <4>3. Balanced(window', Cardinality(Marked') - n)
          BY <3>1, <4>1, <4>2
        <4>4. QED
          BY <4>3 DEF Balanced
      <3>4. QED
        BY <1>2, <2>1, <3>1, <3>2, <3>3 DEF RInv
    <2>6. QED
      BY <1>2, <2>2, <2>3, <2>4, <2>5, StepCounts DEF RInv
  <1>3. RInv => RowsAddUp
    <2> SUFFICES ASSUME RInv, ~allowConflation \/ Early
                 PROVE  Delivery(Add(reported, window)) = Delivery(total)
      BY DEF RowsAddUp, Early
    <2>1. /\ Add(reported, window) \in Counters /\ total \in Counters
          /\ SameDelivery(Add(reported, window), total)
      BY CountersClosed DEF RInv, HInv, IInv, TypeOK
    <2>2. QED
      BY <2>1, DeliverySame
  <1>4. CASE Publishes
    BY <1>1, <1>2, <1>3, <1>4, SoundInvariant, PTL DEF Spec
  <1>5. CASE ~Publishes
    BY <1>5, PTL
  <1>6. QED
    BY <1>4, <1>5

-----------------------------------------------------------------------------
(* Every step of the pipeline is one of the Collector, or none.            *)

\* What the server and QD do leaves the Collector alone, unless QD delivers.
LEMMA DeliverIsReceive ==
    ASSUME NEW l \in Listener, Deliver(l)
    PROVE  Receive(l)
  BY DEF Deliver, Receive

\* Each action of the pipeline is one of the Collector, or leaves it alone.
LEMMA StepIsCollectorStep ==
    ASSUME PipelineNext
    PROVE  [Next]_vars
  <1>1. CASE Publish \/ StopTask \/ RemoveTask
    BY <1>1 DEF Publish, StopTask, RemoveTask
  <1>2. CASE \E l \in {"market", "control"} : Lose(l) \/ Repeat(l)
    BY <1>2 DEF Lose, Repeat
  <1>3. ASSUME NEW l \in Listener, Deliver(l) \/ Handle(l) \/ ListenOnly(l)
        PROVE  Listen(l)
    BY <1>3, DeliverIsReceive DEF Handle, ListenOnly, Listen
  <1>4. CASE Begin \/ Window \/ EndDrain \/ Expire \/ Finishing
    BY <1>4 DEF Begin, Window, EndDrain, Expire, Finishing, Main, Next
  <1>5. CASE Idling
    BY <1>5 DEF Idling, Next
  <1>6. QED
    BY <1>1, <1>2, <1>3, <1>4, <1>5 DEF PipelineNext, Next

\* A benchmark run is a run of the Collector: the publisher, the conflating,
\* lossy and repeating channels and the drain of main() add no behaviour the
\* Collector was not verified for.
THEOREM PipelineIsCollector == PipelineSpec => Spec
  <1>1. PipelineInit => Init
    BY DEF PipelineInit
  <1>2. [PipelineNext]_pipelineVars => [Next]_vars
    BY StepIsCollectorStep DEF pipelineVars
  <1>3. QED
    BY <1>1, <1>2, PTL DEF PipelineSpec, Spec

\* Loss, repetition, conflation and expiry included, the totals of a whole
\* run balance, every delivered event has one sample or anomaly, no warm-up
\* publication is counted, the rows agree with the totals, and STREAM_FEED
\* totals that miss no batch are exact.
THEOREM RunKeepsAccounts ==
    PipelineSpec => [](/\ DeliveryConservation
                       /\ PublicationsClassified
                       /\ WarmupExcluded
                       /\ SampleConservation
                       /\ Publishes => RowsAddUp
                       /\ FinalExact)
  BY PipelineIsCollector, DeliveryConserved, OutcomesExclusive,
     WarmupNeverMeasured, SamplesConserved, RowsMatchTotals, FinalTotalsExact,
     PTL

-----------------------------------------------------------------------------
(* FEED storage.                                                           *)

Top(s) == CHOOSE x \in s : \A y \in s : x >= y

\* it[s] is the queue after the messages at the places s have been enqueued.
Conflation(queue, messages, it) ==
    it = [s \in SUBSET DOMAIN messages |->
            IF s = {} THEN queue
            ELSE Conflate(it[s \ {Top(s)}], messages[Top(s)])]

\* The same for at most n messages.
ConflationUpTo(queue, messages, n, it) ==
    it = [s \in { t \in SUBSET DOMAIN messages : Cardinality(t) <= n } |->
            IF s = {} THEN queue
            ELSE Conflate(it[s \ {Top(s)}], messages[Top(s)])]

\* A finite set of integers that is not empty has a largest element.
LEMMA TopIn ==
    ASSUME NEW n \in Nat, NEW s \in SUBSET (1..n), s # {}
    PROVE  Top(s) \in s /\ \A y \in s : Top(s) >= y
  <1> DEFINE N == { m \in Nat : \A t \in SUBSET (1..m) :
                       t # {} => \E x \in t : \A y \in t : x >= y }
  <1>1. 0 \in N
      <2>1. \A t \in SUBSET (1..0) : t = {}
          OBVIOUS
      <2> QED
          BY <2>1
  <1>2. ASSUME NEW m \in Nat, m \in N PROVE m + 1 \in N
      <2>1. ASSUME NEW t \in SUBSET (1..m + 1), t # {}
            PROVE  \E x \in t : \A y \in t : x >= y
          <3>1. CASE m + 1 \in t
              BY <3>1
          <3>2. CASE m + 1 \notin t
              <4>1. t \in SUBSET (1..m)
                  BY <3>2
              <4> QED
                  BY <1>2, <2>1, <4>1
          <3> QED
              BY <3>1, <3>2
      <2> QED
          BY <2>1
  <1> HIDE DEF N
  <1>3. n \in N
      BY <1>1, <1>2, NatSetInduction
  <1>4. \E x \in s : \A y \in s : x >= y
      BY <1>3 DEF N
  <1> QED
      BY <1>4 DEF Top

\* The conflations of up to n messages exist, for every n.
LEMMA ConflationUpToExists ==
    ASSUME NEW queue, NEW M, NEW messages \in Seq(M)
    PROVE  \A n \in Nat : \E it : ConflationUpTo(queue, messages, n, it)
  <1> DEFINE S == DOMAIN messages
             D(n) == { t \in SUBSET S : Cardinality(t) <= n }
             N == { n \in Nat : \E it : ConflationUpTo(queue, messages, n, it) }
  <1>0. S = 1..Len(messages) /\ Len(messages) \in Nat /\ IsFiniteSet(S)
      BY FS_Interval
  <1>1. \A t \in SUBSET S : IsFiniteSet(t) /\ Cardinality(t) \in Nat
      BY <1>0, FS_Subset, FS_CardinalityType
  <1>2. 0 \in N
      <2> DEFINE it == [s \in D(0) |-> queue]
      <2>1. ASSUME NEW s \in D(0) PROVE s = {}
          BY <1>1, FS_EmptySet
      <2>2. it = [s \in D(0) |->
                    IF s = {} THEN queue
                    ELSE Conflate(it[s \ {Top(s)}], messages[Top(s)])]
          BY <2>1
      <2>3. ConflationUpTo(queue, messages, 0, it)
          BY <2>2 DEF ConflationUpTo
      <2> QED
          BY <2>3
  <1>3. ASSUME NEW n \in Nat, n \in N PROVE n + 1 \in N
      <2>1. PICK it : ConflationUpTo(queue, messages, n, it)
          BY <1>3
      <2> DEFINE V(g, s) == IF s = {} THEN queue
                            ELSE Conflate(g[s \ {Top(s)}], messages[Top(s)])
                 next == [s \in D(n + 1) |-> V(it, s)]
      <2>2. \A s \in D(n) : s \in D(n + 1)
          BY <1>1
      <2>3. \A s \in D(n) : it[s] = V(it, s)
          BY <2>1 DEF ConflationUpTo
      <2>4. \A s \in D(n) : next[s] = it[s]
          BY <2>2, <2>3
      <2>5. ASSUME NEW s \in D(n + 1), s # {} PROVE s \ {Top(s)} \in D(n)
          <3>1. Top(s) \in s
              BY <2>5, <1>0, TopIn
          <3>2. Cardinality(s \ {Top(s)}) = Cardinality(s) - 1
              BY <3>1, <1>1, SmallerSet
          <3>3. Cardinality(s \ {Top(s)}) <= n
              BY <3>2, <1>1
          <3> QED
              BY <3>3
      <2>6. \A s \in D(n + 1) : V(it, s) = V(next, s)
          BY <2>4, <2>5
      <2>7. next = [s \in D(n + 1) |-> V(next, s)]
          BY <2>6
      <2>8. ConflationUpTo(queue, messages, n + 1, next)
          BY <2>7 DEF ConflationUpTo
      <2> QED
          BY <2>8
  <1> HIDE DEF N
  <1>4. Nat \subseteq N
      BY <1>2, <1>3, NatSetInduction
  <1> QED
      BY <1>4 DEF N

\* FEED storage takes the messages one after the other.
LEMMA FoldConflates ==
    ASSUME NEW queue, NEW M, NEW messages \in Seq(M)
    PROVE  \E it : /\ Conflation(queue, messages, it)
                   /\ Seqs!FoldLeft(Conflate, queue, messages) =
                          it[DOMAIN messages]
  <1> DEFINE S == DOMAIN messages
  <1>1. S = 1..Len(messages) /\ Len(messages) \in Nat /\ IsFiniteSet(S)
      BY FS_Interval
  <1>2. Cardinality(S) \in Nat
      BY <1>1, FS_CardinalityType
  <1>3. PICK it : ConflationUpTo(queue, messages, Cardinality(S), it)
      BY <1>2, ConflationUpToExists
  <1>4. { t \in SUBSET S : Cardinality(t) <= Cardinality(S) } = SUBSET S
      BY <1>1, FS_Subset
  <1>5. \E g : Conflation(queue, messages, g)
      BY <1>3, <1>4 DEF Conflation, ConflationUpTo
  <1>6. LET g == CHOOSE g : Conflation(queue, messages, g)
        IN  /\ Conflation(queue, messages, g)
            /\ Seqs!FoldLeft(Conflate, queue, messages) = g[DOMAIN messages]
      BY <1>5 DEF Seqs!FoldLeft, Seqs!MapThenFoldSet, Seqs!Max, Conflation, Top
  <1> QED
      BY <1>6

\* In keyed storage no two messages have the same record and symbol.
Keyed(queue) ==
    \A i, j \in DOMAIN queue : Key(queue[i]) = Key(queue[j]) => i = j

\* One message: it takes a place in the queue or joins it, so that of no
\* event there is more than before, but for the message itself.
LEMMA ConflateStep ==
    ASSUME NEW M, NEW queue \in Seq(M), NEW m \in M, Keyed(queue)
    PROVE  /\ Conflate(queue, m) \in Seq(M)
           /\ Keyed(Conflate(queue, m))
           /\ \A V : Occ(Conflate(queue, m), V)
                        <= Occ(queue, V) + (IF m \in V THEN 1 ELSE 0)
  <1> DEFINE r == Conflate(queue, m)
  <1>1. DOMAIN queue = 1..Len(queue) /\ Len(queue) \in Nat
      OBVIOUS
  <1>2. CASE \E i \in DOMAIN queue : Key(queue[i]) = Key(m)
      <2>1. PICK i \in DOMAIN queue : Key(queue[i]) = Key(m)
          BY <1>2
      <2>2. r = [j \in DOMAIN queue |->
                    IF Key(queue[j]) = Key(m) THEN m ELSE queue[j]]
          BY <1>2 DEF Conflate
      <2>3. \A j \in DOMAIN queue : Key(queue[j]) = Key(m) <=> j = i
          BY <2>1 DEF Keyed
      <2>4. /\ DOMAIN r = DOMAIN queue
            /\ r[i] = m
            /\ \A j \in DOMAIN queue : j # i => r[j] = queue[j]
          BY <2>1, <2>2, <2>3
      <2>5. r \in Seq(M)
          <3>1. \A j \in DOMAIN queue : queue[j] \in M
              OBVIOUS
          <3>2. r \in [1..Len(queue) -> M]
              BY <1>1, <2>2, <3>1
          <3> QED
              BY <1>1, <3>2
      <2> HIDE DEF r
      <2>6. \A j \in DOMAIN r : Key(r[j]) = Key(queue[j])
          BY <2>1, <2>4
      <2>7. Keyed(r)
          BY <2>4, <2>6 DEF Keyed
      <2>8. ASSUME NEW V
            PROVE  Occ(r, V) <= Occ(queue, V) + (IF m \in V THEN 1 ELSE 0)
          <3>1. /\ IsFiniteSet(Places(queue, V)) /\ IsFiniteSet(Places(r, V))
                /\ Occ(queue, V) \in Nat /\ Occ(r, V) \in Nat
              BY <2>5, OccType
          <3>2. CASE m \in V
              <4>1. Places(r, V) \subseteq Places(queue, V) \cup {i}
                  BY <2>4 DEF Places
              <4>2. /\ IsFiniteSet(Places(queue, V) \cup {i})
                    /\ Cardinality(Places(queue, V) \cup {i})
                           <= Cardinality(Places(queue, V)) + 1
                  <5>1. CASE i \in Places(queue, V)
                      <6>1. Places(queue, V) \cup {i} = Places(queue, V)
                          BY <5>1
                      <6>2. Cardinality(Places(queue, V)) \in Nat
                          BY <3>1 DEF Occ
                      <6>3. \A x \in Nat : x <= x + 1
                          OBVIOUS
                      <6> QED
                          BY <3>1, <6>1, <6>2, <6>3, Zenon
                  <5>2. CASE i \notin Places(queue, V)
                      <6>1. Cardinality(Places(queue, V)) \in Nat
                          BY <3>1 DEF Occ
                      <6>2. /\ IsFiniteSet(Places(queue, V) \cup {i})
                            /\ Cardinality(Places(queue, V) \cup {i}) =
                                   Cardinality(Places(queue, V)) + 1
                          BY <3>1, <5>2, FS_AddElement
                      <6>3. \A x \in Nat : x + 1 <= x + 1
                          OBVIOUS
                      <6> QED
                          BY <6>1, <6>2, <6>3, Zenon
                  <5> QED
                      BY <5>1, <5>2
              <4>3. Cardinality(Places(r, V))
                        <= Cardinality(Places(queue, V) \cup {i})
                  BY <4>1, <4>2, FS_Subset
              <4>4. /\ Cardinality(Places(r, V)) \in Nat
                    /\ Cardinality(Places(queue, V)) \in Nat
                    /\ Cardinality(Places(queue, V) \cup {i}) \in Nat
                  BY <3>1, <4>2, FS_CardinalityType
              <4> QED
                  BY <3>2, <4>2, <4>3, <4>4 DEF Occ
          <3>3. CASE m \notin V
              <4>1. Places(r, V) \subseteq Places(queue, V)
                  BY <2>4, <3>3 DEF Places
              <4>2. Cardinality(Places(r, V)) <= Cardinality(Places(queue, V))
                  BY <3>1, <4>1, FS_Subset
              <4> QED
                  BY <3>1, <3>3, <4>2 DEF Occ
          <3> QED
              BY <3>2, <3>3
      <2> QED
          BY <2>5, <2>7, <2>8 DEF r
  <1>3. CASE ~ \E i \in DOMAIN queue : Key(queue[i]) = Key(m)
      <2>1. r = Append(queue, m)
          BY <1>3 DEF Conflate
      <2>2. \A V : Occ(queue, V) \in Nat
          BY OccType
      <2>3. \A V : Occ(Append(queue, m), V) =
                       Occ(queue, V) + (IF m \in V THEN 1 ELSE 0)
          BY OccAppend
      <2>4. /\ Append(queue, m) \in Seq(M)
            /\ Len(Append(queue, m)) = Len(queue) + 1
            /\ \A j \in 1..Len(queue) : Append(queue, m)[j] = queue[j]
            /\ Append(queue, m)[Len(queue) + 1] = m
          BY AppendProperties
      <2> HIDE DEF r
      <2>5. Keyed(r)
          <3>1. DOMAIN r = 1..Len(queue) + 1
              BY <2>1, <2>4
          <3>2. \A j \in 1..Len(queue) : r[j] = queue[j] /\ Key(r[j]) # Key(m)
              BY <1>1, <1>3, <2>1, <2>4
          <3>3. \A j \in 1..Len(queue) + 1 : j \in 1..Len(queue) \/ r[j] = m
              BY <1>1, <2>1, <2>4
          <3>4. \A j \in 1..Len(queue) + 1 :
                    j \in 1..Len(queue) \/ j = Len(queue) + 1
              BY <1>1
          <3>5. \A i, j \in 1..Len(queue) : Key(r[i]) = Key(r[j]) => i = j
              BY <1>1, <3>2 DEF Keyed
          <3> QED
              BY <3>1, <3>2, <3>3, <3>4, <3>5 DEF Keyed
      <2>6. \A V : Occ(r, V) <= Occ(queue, V) + (IF m \in V THEN 1 ELSE 0)
          <3>1. \A V : Occ(queue, V) + (IF m \in V THEN 1 ELSE 0) \in Nat
              BY <2>2
          <3> QED
              BY <2>1, <2>3, <3>1
      <2> QED
          BY <2>1, <2>4, <2>5, <2>6 DEF r
  <1> QED
      BY <1>2, <1>3

\* Many messages, one after the other.
LEMMA ConflateAll ==
    ASSUME NEW M, NEW queue \in Seq(M), NEW messages \in Seq(M), Keyed(queue)
    PROVE  LET r == Seqs!FoldLeft(Conflate, queue, messages)
           IN  /\ r \in Seq(M)
               /\ Keyed(r)
               /\ \A V : Occ(r, V) <= Occ(queue, V) + Occ(messages, V)
  <1> DEFINE n == Len(messages)
             first(j) == SubSeq(messages, 1, j)
  <1>1. DOMAIN messages = 1..n /\ n \in Nat
      OBVIOUS
  <1>2. PICK it : /\ Conflation(queue, messages, it)
                  /\ Seqs!FoldLeft(Conflate, queue, messages) = it[DOMAIN messages]
      BY FoldConflates
  <1>3. \A V : Occ(queue, V) \in Nat
      BY OccType
  <1>4. it[1..0] = queue
      <2>1. 1..0 = {}
          OBVIOUS
      <2>2. {} \in SUBSET DOMAIN messages
          OBVIOUS
      <2>3. it[{}] = queue
          BY <1>2, <2>2 DEF Conflation
      <2> QED
          BY <2>1, <2>3
  <1>5. ASSUME NEW j \in Nat, j + 1 <= n
        PROVE  /\ it[1..j + 1] = Conflate(it[1..j], messages[j + 1])
               /\ messages[j + 1] \in M
               /\ first(j) \in Seq(M)
               /\ first(j + 1) = Append(first(j), messages[j + 1])
      <2>1. j + 1 \in 1..n
          BY <1>1, <1>5
      <2>2. (1..j + 1) \in SUBSET (1..n) /\ (1..j + 1) # {} /\ DOMAIN messages = 1..n
          <3>1. \A i \in 1..j + 1 : i \in 1..n
              BY <1>1, <1>5
          <3>2. j + 1 \in 1..j + 1
              OBVIOUS
          <3> QED
              BY <1>1, <3>1, <3>2
      <2>3. Top(1..j + 1) = j + 1
          <3>1. /\ Top(1..j + 1) \in 1..j + 1
                /\ \A y \in 1..j + 1 : Top(1..j + 1) >= y
              BY <1>1, <2>2, TopIn
          <3>2. j + 1 \in 1..j + 1
              OBVIOUS
          <3>3. Top(1..j + 1) >= j + 1
              BY <3>1, <3>2, Zenon
          <3> QED
              BY <3>1, <3>3
      <2>4. (1..j + 1) \ {j + 1} = 1..j
          OBVIOUS
      <2>5. it[1..j + 1] = Conflate(it[(1..j + 1) \ {Top(1..j + 1)}],
                                    messages[Top(1..j + 1)])
          BY <1>2, <2>2 DEF Conflation
      <2>6. it[1..j + 1] = Conflate(it[1..j], messages[j + 1])
          BY <2>3, <2>4, <2>5
      <2>7. messages[j + 1] \in M
          BY <1>1, <2>1, ElementOfSeq
      <2>8. first(j) \in Seq(M)
          <3>1. \A i \in 1..j : i \in 1..n
              BY <1>1, <1>5
          <3>2. \A i \in 1..j : messages[i] \in M
              BY <3>1, ElementOfSeq
          <3> QED
              BY <3>2, SubSeqProperties
      <2>9. first(j + 1) = Append(first(j), messages[j + 1])
          <3>1. 1 \in 1..n /\ j + 1 \in 1..n /\ (j + 1) - 1 = j
              BY <1>1, <2>1
          <3>2. SubSeq(messages, 1, j + 1) =
                   SubSeq(messages, 1, (j + 1) - 1) \o <<messages[j + 1]>>
              BY <3>1, SubSeqRecursiveSecond
          <3>3. SubSeq(messages, 1, j + 1) =
                   SubSeq(messages, 1, j) \o <<messages[j + 1]>>
              BY <3>1, <3>2
          <3>4. Append(first(j), messages[j + 1]) = first(j) \o <<messages[j + 1]>>
              BY <2>7, <2>8, AppendIsConcat
          <3> QED
              BY <3>3, <3>4
      <2> HIDE DEF first
      <2> QED
          BY <2>6, <2>7, <2>8, <2>9
  <1> DEFINE Good(j) == /\ it[1..j] \in Seq(M)
                        /\ Keyed(it[1..j])
                        /\ \A V : Occ(it[1..j], V) <= Occ(queue, V) + Occ(first(j), V)
             N == { j \in Nat : j <= n => Good(j) }
  <1>6. 0 \in N
      <2>1. first(0) = <<>>
          BY SubSeqEmpty
      <2>2. \A V : Occ(first(0), V) = 0
          BY <2>1, OccEmpty
      <2> HIDE DEF first
      <2>3. \A V : Occ(queue, V) <= Occ(queue, V) + Occ(first(0), V)
          BY <1>3, <2>2
      <2>4. Good(0)
          BY <1>4, <2>3
      <2> QED
          BY <2>4
  <1>7. ASSUME NEW j \in Nat, j \in N PROVE j + 1 \in N
      <2> HIDE DEF first
      <2>1. SUFFICES ASSUME j + 1 <= n PROVE Good(j + 1)
          OBVIOUS
      <2>2. Good(j)
          BY <1>1, <1>7, <2>1
      <2> DEFINE a == it[1..j]
                 m == messages[j + 1]
      <2>3. a \in Seq(M) /\ m \in M /\ Keyed(a) /\ it[1..j + 1] = Conflate(a, m)
          BY <1>5, <2>1, <2>2
      <2> HIDE DEF a, m
      <2>4. /\ Conflate(a, m) \in Seq(M) /\ Keyed(Conflate(a, m))
            /\ \A V : Occ(Conflate(a, m), V)
                          <= Occ(a, V) + (IF m \in V THEN 1 ELSE 0)
          BY <2>3, ConflateStep
      <2>5. ASSUME NEW V
            PROVE  Occ(Conflate(a, m), V) <= Occ(queue, V) + Occ(first(j + 1), V)
          <3>1. Occ(a, V) <= Occ(queue, V) + Occ(first(j), V)
              BY <2>2 DEF a
          <3>2. Occ(first(j + 1), V) =
                   Occ(first(j), V) + (IF m \in V THEN 1 ELSE 0)
              <4>1. first(j) \in Seq(M) /\ first(j + 1) = Append(first(j), m)
                  BY <1>5, <2>1 DEF m
              <4>2. Occ(Append(first(j), m), V) =
                       Occ(first(j), V) + (IF m \in V THEN 1 ELSE 0)
                  BY <2>3, <4>1, OccAppend
              <4> QED
                  BY <4>1, <4>2
          <3>3. /\ Occ(first(j), V) \in Nat /\ Occ(a, V) \in Nat
                /\ Occ(Conflate(a, m), V) \in Nat
              BY <1>5, <2>1, <2>3, <2>4, OccType
          <3>4. Occ(Conflate(a, m), V) <= Occ(a, V) + (IF m \in V THEN 1 ELSE 0)
              BY <2>4
          <3>5. Occ(queue, V) \in Nat
              BY <1>3
          <3> QED
              BY <3>1, <3>2, <3>3, <3>4, <3>5
      <2> QED
          BY <2>3, <2>4, <2>5
  <1> HIDE DEF N
  <1>8. n \in N
      BY <1>1, <1>6, <1>7, NatSetInduction
  <1>9. Good(n)
      BY <1>1, <1>8 DEF N
  <1>10. first(n) = messages
      BY SubSeqFull
  <1>11. it[1..n] = Seqs!FoldLeft(Conflate, queue, messages)
      BY <1>1, <1>2
  <1> HIDE DEF first, n
  <1> QED
      BY <1>9, <1>10, <1>11

-----------------------------------------------------------------------------
(* The market events of a publication.                                     *)

\* it[i] is the concatenation of the first i sequences.
Flattening(seqs, n, it) ==
    it = [i \in 1..n |-> IF i = 1 THEN seqs[i] ELSE it[i - 1] \o seqs[i]]

\* The concatenations of the first n sequences exist, for every n.
LEMMA FlatteningExists ==
    ASSUME NEW seqs
    PROVE  \A n \in Nat : \E it : Flattening(seqs, n, it)
  <1> DEFINE N == { n \in Nat : \E it : Flattening(seqs, n, it) }
  <1>1. 0 \in N
      <2> DEFINE it == [i \in 1..0 |-> 0]
      <2>1. \A i \in 1..0 : FALSE
          OBVIOUS
      <2>2. it = [i \in 1..0 |-> IF i = 1 THEN seqs[i] ELSE it[i - 1] \o seqs[i]]
          BY <2>1
      <2>3. Flattening(seqs, 0, it)
          BY <2>2 DEF Flattening
      <2> QED
          BY <2>3
  <1>2. ASSUME NEW n \in Nat, n \in N PROVE n + 1 \in N
      <2>1. PICK it : Flattening(seqs, n, it)
          BY <1>2
      <2> DEFINE V(g, i) == IF i = 1 THEN seqs[i] ELSE g[i - 1] \o seqs[i]
                 next == [i \in 1..n + 1 |-> V(it, i)]
      <2>2. \A i \in 1..n : it[i] = V(it, i) /\ i \in 1..n + 1
          <3>1. \A i \in 1..n : it[i] = V(it, i)
              BY <2>1, Zenon DEF Flattening
          <3>2. \A i \in 1..n : i \in 1..n + 1
              OBVIOUS
          <3> QED
              BY <3>1, <3>2
      <2>3. \A i \in 1..n : next[i] = it[i]
          BY <2>2
      <2>4. \A i \in 1..n + 1 : i = 1 \/ i - 1 \in 1..n
          OBVIOUS
      <2>5. \A i \in 1..n + 1 : V(it, i) = V(next, i)
          BY <2>3, <2>4
      <2>6. next = [i \in 1..n + 1 |-> V(next, i)]
          BY <2>5
      <2>7. Flattening(seqs, n + 1, next)
          BY <2>6 DEF Flattening
      <2> QED
          BY <2>7
  <1> HIDE DEF N
  <1>3. Nat \subseteq N
      BY <1>1, <1>2, NatSetInduction
  <1> QED
      BY <1>3 DEF N

\* FlattenSeq has the value of such a function.
LEMMA FlattenIs ==
    ASSUME NEW seqs, Len(seqs) \in Nat \ {0}
    PROVE  \E it : /\ Flattening(seqs, Len(seqs), it)
                   /\ Seqs!FlattenSeq(seqs) = it[Len(seqs)]
  <1>1. \E g : Flattening(seqs, Len(seqs), g)
      BY FlatteningExists
  <1>2. LET g == CHOOSE g : Flattening(seqs, Len(seqs), g)
        IN  /\ Flattening(seqs, Len(seqs), g)
            /\ Seqs!FlattenSeq(seqs) = g[Len(seqs)]
      BY <1>1 DEF Seqs!FlattenSeq, Flattening
  <1> QED
      BY <1>2

\* Only the sequence at i0 has elements of V.
OnlyAt(seqs, n, V, i0) == \A i \in 1..n : i # i0 => Occ(seqs[i], V) = 0

\* The concatenation has c elements of V.
Flattened(seqs, M, V, c) ==
    Seqs!FlattenSeq(seqs) \in Seq(M) /\ Occ(Seqs!FlattenSeq(seqs), V) = c

\* FlattenCounts: if at most one of the sequences has elements of V, the
\* i0-th or none, the
\* concatenation has as many as that one.
LEMMA FlattenCounts ==
    ASSUME NEW M, NEW n \in Nat, NEW seqs \in [1..n -> Seq(M)], NEW V,
           NEW i0 \in Nat, NEW c, 1 <= i0, i0 <= n + 1,
           OnlyAt(seqs, n, V, i0), c = IF i0 <= n THEN Occ(seqs[i0], V) ELSE 0
    PROVE  Flattened(seqs, M, V, c)
  <1>0. \A i \in 1..n : i # i0 => Occ(seqs[i], V) = 0
      BY DEF OnlyAt
  <1>1. Len(seqs) = n
      OBVIOUS
  <1>2. CASE n = 0
      <2>1. Seqs!FlattenSeq(seqs) = seqs
          BY <1>1, <1>2 DEF Seqs!FlattenSeq
      <2>2. seqs = <<>> /\ ~(i0 <= n)
          BY <1>2
      <2> QED
          BY <2>1, <2>2, OccEmpty DEF Flattened
  <1>3. CASE n # 0
      <2>1. PICK it : /\ Flattening(seqs, n, it)
                      /\ Seqs!FlattenSeq(seqs) = it[n]
          BY <1>1, <1>3, FlattenIs
      <2> DEFINE Good(j) == /\ it[j] \in Seq(M)
                            /\ Occ(it[j], V) = IF i0 <= j THEN Occ(seqs[i0], V) ELSE 0
                 N == { j \in Nat : j \in 1..n => Good(j) }
      <2>2. \A j \in 1..n :
               it[j] = IF j = 1 THEN seqs[j] ELSE it[j - 1] \o seqs[j]
          BY <2>1 DEF Flattening
      <2>3. \A j \in 1..n : seqs[j] \in Seq(M)
          OBVIOUS
      <2>4. 0 \in N
          OBVIOUS
      <2>5. ASSUME NEW j \in Nat, j \in N PROVE j + 1 \in N
          <3>1. SUFFICES ASSUME j + 1 \in 1..n PROVE Good(j + 1)
              OBVIOUS
          <3>2. CASE j = 0
              <4>1. it[1] = seqs[1] /\ 1 \in 1..n /\ j + 1 = 1
                  BY <2>2, <3>1, <3>2
              <4>2. seqs[1] \in Seq(M)
                  BY <2>3, <4>1
              <4>3. CASE i0 = 1
                  BY <4>1, <4>2, <4>3
              <4>4. CASE i0 # 1
                  <5>1. Occ(seqs[1], V) = 0 /\ ~(i0 <= 1)
                      BY <1>0, <4>1, <4>4
                  <5> QED
                      BY <4>1, <4>2, <5>1
              <4> QED
                  BY <4>3, <4>4
          <3>3. CASE j # 0
              <4>1. j \in 1..n /\ Good(j)
                  BY <2>5, <3>1, <3>3
              <4>2. it[j + 1] = it[j] \o seqs[j + 1] /\ seqs[j + 1] \in Seq(M)
                  <5>1. j + 1 # 1 /\ (j + 1) - 1 = j
                      BY <3>3
                  <5> QED
                      BY <2>2, <2>3, <3>1, <5>1
              <4>3. /\ it[j + 1] \in Seq(M)
                    /\ Occ(it[j + 1], V) = Occ(it[j], V) + Occ(seqs[j + 1], V)
                  <5> DEFINE a == it[j]
                             b == seqs[j + 1]
                  <5>1. a \in Seq(M) /\ b \in Seq(M) /\ it[j + 1] = a \o b
                      BY <4>1, <4>2
                  <5> HIDE DEF a, b
                  <5>2. a \o b \in Seq(M) /\ Occ(a \o b, V) = Occ(a, V) + Occ(b, V)
                      BY <5>1, OccConcat, ConcatProperties
                  <5> QED
                      BY <5>1, <5>2 DEF a, b
              <4>4. Occ(it[j], V) \in Nat /\ Occ(seqs[j + 1], V) \in Nat
                  BY <4>1, <4>2, OccType
              <4>5. CASE i0 = j + 1
                  <5>1. Occ(it[j], V) = 0
                      BY <4>1, <4>5
                  <5> QED
                      BY <4>3, <4>4, <4>5, <5>1
              <4>6. CASE i0 # j + 1
                  <5>1. Occ(seqs[j + 1], V) = 0
                      BY <1>0, <3>1, <4>6
                  <5>2. i0 <= j + 1 <=> i0 <= j
                      BY <4>6
                  <5>3. Occ(it[j + 1], V) = Occ(it[j], V)
                      BY <4>3, <4>4, <5>1
                  <5> QED
                      BY <4>1, <4>3, <5>2, <5>3
              <4> QED
                  BY <4>5, <4>6
          <3> QED
              BY <3>2, <3>3
      <2> HIDE DEF N
      <2>6. n \in N
          BY <2>4, <2>5, NatSetInduction
      <2>7. Good(n)
          BY <1>3, <2>6 DEF N
      <2> QED
          BY <2>1, <2>7 DEF Flattened
  <1> QED
      BY <1>2, <1>3

\* What a listener may be sent after n publications, and the messages of it.
Sent(l, n) ==
    IF l = "market" THEN { e \in MarketEvent : e.sequence \in 1..n }
    ELSE IF l = "control"
         THEN { e \in MarkerEvent : e.sequence \in 1..n /\ e.time > 0 }
         ELSE ProfileEvent

Messages(l, n) == [event : Sent(l, n), symbol : Int]

\* The events of a kind, and the markers, of the publication p.
EventsOf(p, k) == { e \in MarketEvent : e.sequence = p /\ e.kind = k }

MarkersOf(p) == { e \in MarkerEvent : e.sequence = p }

\* The messages that carry events of V.
Carrying(V) == { m \in [event : Event, symbol : Int] : m.event \in V }

\* The events of a queue.
Contents(queue) == [i \in DOMAIN queue |-> queue[i].event]

\* ContentsAre: the contents of a queue are a sequence of events, of which
\* there are as many as messages that carry them.
LEMMA ContentsAre ==
    ASSUME NEW E, E \subseteq Event, NEW queue \in Seq([event : E, symbol : Int])
    PROVE  /\ Contents(queue) \in Seq(E)
           /\ Len(Contents(queue)) = Len(queue)
           /\ \A V : Occ(Contents(queue), V) = Occ(queue, Carrying(V))
           /\ \A p, k : CountOf(queue, p, k) =
                Cardinality({ i \in DOMAIN queue :
                    queue[i].event.sequence = p /\ queue[i].event.kind = k })
  <1>1. /\ DOMAIN queue = 1..Len(queue) /\ Len(queue) \in Nat
        /\ \A i \in DOMAIN queue : queue[i] \in [event : E, symbol : Int]
      BY LenProperties, ElementOfSeq
  <1>2. \A i \in DOMAIN queue : queue[i].event \in E
      BY <1>1
  <1>3. Contents(queue) \in Seq(E) /\ Len(Contents(queue)) = Len(queue)
      <2>1. Contents(queue) \in [1..Len(queue) -> E]
          BY <1>1, <1>2 DEF Contents
      <2> QED
          BY <1>1, <2>1
  <1>4. ASSUME NEW V PROVE Occ(Contents(queue), V) = Occ(queue, Carrying(V))
      <2>1. \A i \in DOMAIN queue : queue[i] \in [event : Event, symbol : Int]
          BY <1>1
      <2>2. \A i \in DOMAIN queue : queue[i].event \in V <=> queue[i] \in Carrying(V)
          BY <2>1 DEF Carrying
      <2>3. Places(Contents(queue), V) = Places(queue, Carrying(V))
          BY <2>2 DEF Places, Contents
      <2> QED
          BY <2>3 DEF Occ
  <1> QED
      BY <1>3, <1>4 DEF CountOf

\* CountIs: what the model counts of a market queue.
LEMMA CountIs ==
    ASSUME NEW n \in Nat, NEW queue \in Seq(Messages("market", n)), NEW p \in Int,
           NEW k \in Kind
    PROVE  /\ CountOf(queue, p, k) = Occ(queue, Carrying(EventsOf(p, k)))
           /\ CountOf(queue, p, k) = Occ(Contents(queue), EventsOf(p, k))
           /\ CountOf(queue, p, k) \in Nat
  <1>1. /\ Sent("market", n) \subseteq Event /\ Sent("market", n) \subseteq MarketEvent
        /\ Messages("market", n) = [event : Sent("market", n), symbol : Int]
      BY DEF Sent, Messages, Event
  <1>2. /\ Contents(queue) \in Seq(Sent("market", n))
        /\ \A V : Occ(Contents(queue), V) = Occ(queue, Carrying(V))
      BY <1>1, ContentsAre
  <1>3. \A i \in DOMAIN queue : queue[i] \in [event : Sent("market", n), symbol : Int]
      <2>1. DOMAIN queue = 1..Len(queue)
          OBVIOUS
      <2> QED
          BY <1>1, <2>1, ElementOfSeq
  <1>4. \A i \in DOMAIN queue : queue[i].event \in MarketEvent
      BY <1>1, <1>3
  <1>5. Places(Contents(queue), EventsOf(p, k)) =
          { i \in DOMAIN queue :
              queue[i].event.sequence = p /\ queue[i].event.kind = k }
      BY <1>4 DEF Places, Contents, EventsOf
  <1>6. CountOf(queue, p, k) = Occ(Contents(queue), EventsOf(p, k))
      BY <1>5 DEF CountOf, Occ
  <1>7. Occ(Contents(queue), EventsOf(p, k)) \in Nat
      BY <1>2, OccType
  <1> QED
      BY <1>2, <1>6, <1>7

\* PoolIs: the events of one pool.
LEMMA PoolIs ==
    ASSUME NEW k \in Kind, NEW tick \in Nat \ {0}
    PROVE  /\ Pool(k, tick) \in Seq(Messages("market", tick))
           /\ Len(Pool(k, tick)) = Expected[k]
           /\ \A i \in 1..Expected[k] :
                 Pool(k, tick)[i].event =
                    [type |-> "market", kind |-> k, sequence |-> tick]
  <1> DEFINE e == [type |-> "market", kind |-> k, sequence |-> tick]
             symbol(i) == ((tick - 1) * Expected[k] + i - 1) % Cardinality(Symbol)
  <1>1. Expected[k] \in Nat
      BY CollectorAssumption
  <1>2. Cardinality(Symbol) \in Nat /\ Cardinality(Symbol) > 0
      BY PipelineAssumption, FS_CardinalityType, FS_EmptySet
  <1>3. \A i \in 1..Expected[k] : symbol(i) \in Int
      <2>1. \A x \in Int, c \in Nat : c > 0 => x % c \in Int
          OBVIOUS
      <2>2. (tick - 1) * Expected[k] \in Int
          BY <1>1
      <2>3. \A i \in 1..Expected[k] : (tick - 1) * Expected[k] + i - 1 \in Int
          BY <2>2
      <2> QED
          BY <1>2, <2>1, <2>3
  <1>4. e \in Sent("market", tick)
      BY DEF Sent, MarketEvent
  <1> HIDE DEF symbol
  <1>5. Pool(k, tick) = [i \in 1..Expected[k] |-> [event |-> e, symbol |-> symbol(i)]]
      BY DEF Pool, Message, symbol
  <1> HIDE DEF e
  <1>6. Pool(k, tick) \in [1..Expected[k] -> Messages("market", tick)]
      BY <1>3, <1>4, <1>5 DEF Messages
  <1>7. Pool(k, tick) \in Seq(Messages("market", tick)) /\ Len(Pool(k, tick)) = Expected[k]
      BY <1>1, <1>6
  <1>8. \A i \in 1..Expected[k] : Pool(k, tick)[i].event = e
      BY <1>5
  <1> QED
      BY <1>7, <1>8 DEF e

\* PoolCounts: a pool has the quantity of its own kind and nothing else.
LEMMA PoolCounts ==
    ASSUME NEW k \in Kind, NEW tick \in Nat \ {0}, NEW p \in Int, NEW j \in Kind
    PROVE  Occ(Pool(k, tick), Carrying(EventsOf(p, j))) =
              IF p = tick /\ j = k THEN Expected[k] ELSE 0
  <1> DEFINE q == Pool(k, tick)
             V == Carrying(EventsOf(p, j))
  <1>1. /\ q \in Seq(Messages("market", tick)) /\ Len(q) = Expected[k]
        /\ Expected[k] \in Nat
        /\ \A i \in 1..Expected[k] :
              q[i].event = [type |-> "market", kind |-> k, sequence |-> tick]
      BY PoolIs, CollectorAssumption
  <1> HIDE DEF q
  <1>2. \A i \in DOMAIN q : q[i] \in [event : Event, symbol : Int]
      <2>1. Messages("market", tick) \subseteq [event : Event, symbol : Int]
          BY DEF Messages, Sent, Event
      <2> QED
          BY <1>1, <2>1
  <1>3. DOMAIN q = 1..Expected[k]
      BY <1>1
  <1>4. \A i \in DOMAIN q : q[i] \in V <=> p = tick /\ j = k
      BY <1>1, <1>2, <1>3 DEF Carrying, EventsOf, MarketEvent
  <1> HIDE DEF V
  <1>5. CASE p = tick /\ j = k
      <2>1. Places(q, V) = 1..Expected[k]
          BY <1>3, <1>4, <1>5 DEF Places
      <2>2. Cardinality(1..Expected[k]) = Expected[k]
          BY <1>1, UpToCount
      <2> QED
          BY <1>5, <2>1, <2>2 DEF Occ, q, V
  <1>6. CASE ~(p = tick /\ j = k)
      <2>1. Places(q, V) = {}
          BY <1>3, <1>4, <1>6 DEF Places
      <2> QED
          BY <1>6, <2>1, FS_EmptySet DEF Occ, q, V
  <1> QED
      BY <1>5, <1>6

\* MarketEventsAre: a publication carries exactly the expected events.
LEMMA MarketEventsAre ==
    ASSUME NEW tick \in 1..MaxPublications
    PROVE  /\ MarketEvents(tick) \in Seq(Messages("market", tick))
           /\ \A p \in Int, k \in Kind :
                 Occ(MarketEvents(tick), Carrying(EventsOf(p, k))) =
                     IF p = tick THEN Expected[k] ELSE 0
  <1> DEFINE S == { k \in Kind : Expected[k] > 0 }
             n == Cardinality(S)
             order == PoolOrder[tick]
             pools == [i \in DOMAIN order |-> Pool(order[i], tick)]
             M == Messages("market", tick)
  <1>1. tick \in Nat \ {0}
      BY PipelineAssumption
  <1>2. IsFiniteSet(Kind)
      <2>1. IsFiniteSet({}) /\ IsFiniteSet({} \cup {"QUOTE"})
            /\ IsFiniteSet({"QUOTE"} \cup {"TRADE"})
            /\ IsFiniteSet({"QUOTE", "TRADE"} \cup {"TRADE_ETH"})
            /\ IsFiniteSet({"QUOTE", "TRADE", "TRADE_ETH"} \cup {"SUMMARY"})
          <3>1. IsFiniteSet({"QUOTE"})
              BY FS_Singleton
          <3>2. IsFiniteSet({"QUOTE"} \cup {"TRADE"})
              BY <3>1, FS_AddElement
          <3>3. {"QUOTE"} \cup {"TRADE"} = {"QUOTE", "TRADE"}
              OBVIOUS
          <3>4. IsFiniteSet({"QUOTE", "TRADE"} \cup {"TRADE_ETH"})
              BY <3>2, <3>3, FS_AddElement
          <3>5. {"QUOTE", "TRADE"} \cup {"TRADE_ETH"} = {"QUOTE", "TRADE", "TRADE_ETH"}
              OBVIOUS
          <3>6. IsFiniteSet({"QUOTE", "TRADE", "TRADE_ETH"} \cup {"SUMMARY"})
              BY <3>4, <3>5, FS_AddElement
          <3>7. {} \cup {"QUOTE"} = {"QUOTE"}
              OBVIOUS
          <3> QED
              BY <3>1, <3>2, <3>4, <3>6, <3>7, FS_EmptySet
      <2>2. {"QUOTE", "TRADE", "TRADE_ETH"} \cup {"SUMMARY"} = Kind
          BY DEF Kind
      <2> QED
          BY <2>1, <2>2
  <1>3. IsFiniteSet(S) /\ n \in Nat
      BY <1>2, FS_Subset, FS_CardinalityType
  <1>4. /\ order \in [1..n -> S]
        /\ \A i, j \in 1..n : i # j => order[i] # order[j]
      <2>1. order \in Seqs!SetToSeqs(S)
          BY PipelineAssumption
      <2> HIDE DEF S, order
      <2>2. order \in { f \in [1..n -> S] : \A i, j \in 1..n : i # j => f[i] # f[j] }
          <3>1. Seqs!Cardinality(S) = Cardinality(S)
              BY DEF Seqs!Cardinality, Cardinality
          <3> QED
              BY <2>1, <3>1, Zenon DEF Seqs!SetToSeqs
      <2> HIDE DEF n
      <2> QED
          BY <2>2
  <1>5. \A k \in S : \E i \in 1..n : order[i] = k
      <2> HIDE DEF S, order
      <2>1. order \in Injection(1..n, S)
          BY <1>4 DEF Injection, IsInjective
      <2>2. Cardinality(1..n) = n
          BY <1>3, UpToCount
      <2>3. order \in Surjection(1..n, S)
          BY <1>3, <2>1, <2>2, FS_Injection
      <2> QED
          BY <2>3 DEF Surjection
  <1>6. pools \in [1..n -> Seq(M)] /\ \A i \in 1..n : order[i] \in Kind
                                       /\ pools[i] = Pool(order[i], tick)
      <2>1. \A i \in 1..n : order[i] \in Kind
          BY <1>4
      <2> HIDE DEF order, M, S
      <2>2. \A i \in 1..n : Pool(order[i], tick) \in Seq(M)
          BY <1>1, <2>1, PoolIs DEF M
      <2>3. DOMAIN order = 1..n
          BY <1>4
      <2> QED
          BY <2>1, <2>2, <2>3
  <1>7. MarketEvents(tick) = Seqs!FlattenSeq(pools)
      BY DEF MarketEvents
  <1> HIDE DEF pools
  <1>8. ASSUME NEW p \in Int, NEW k \in Kind
        PROVE  /\ MarketEvents(tick) \in Seq(M)
               /\ Occ(MarketEvents(tick), Carrying(EventsOf(p, k))) =
                       IF p = tick THEN Expected[k] ELSE 0
      <2> DEFINE V == Carrying(EventsOf(p, k))
      <2>1. \A i \in 1..n : Occ(pools[i], V) =
               IF p = tick /\ k = order[i] THEN Expected[order[i]] ELSE 0
          BY <1>1, <1>6, PoolCounts
      <2>2. Expected[k] \in Nat
          BY CollectorAssumption
      <2>5. k \in S <=> Expected[k] > 0
          OBVIOUS
      <2> HIDE DEF V, M, order, n, S
      <2>3. CASE k \in S
          <3>1. PICK i0 \in 1..n : order[i0] = k
              BY <1>5, <2>3
          <3>2. \A i \in 1..n : i # i0 => Occ(pools[i], V) = 0
              BY <1>4, <2>1, <3>1
          <3>3. i0 \in Nat /\ 1 <= i0 /\ i0 <= n + 1 /\ i0 <= n
              BY <1>3
          <3>4. /\ Seqs!FlattenSeq(pools) \in Seq(M)
                /\ Occ(Seqs!FlattenSeq(pools), V) = Occ(pools[i0], V)
              <4> DEFINE c == Occ(pools[i0], V)
              <4>1. OnlyAt(pools, n, V, i0)
                  BY <3>2 DEF OnlyAt
              <4>2. c = IF i0 <= n THEN Occ(pools[i0], V) ELSE 0
                  BY <3>3
              <4>3. pools \in [1..n -> Seq(M)] /\ n \in Nat
                  BY <1>3, <1>6
              <4> HIDE DEF c
              <4>4. Flattened(pools, M, V, c)
                  BY <3>3, <4>1, <4>2, <4>3, FlattenCounts
              <4> QED
                  BY <4>4 DEF Flattened, c
          <3>5. Occ(pools[i0], V) = IF p = tick THEN Expected[k] ELSE 0
              BY <2>1, <3>1
          <3> QED
              BY <1>7, <3>4, <3>5 DEF V
      <2>4. CASE k \notin S
          <3>1. \A i \in 1..n : order[i] # k
              BY <1>4, <2>4
          <3>2. \A i \in 1..n : Occ(pools[i], V) = 0
              BY <2>1, <3>1
          <3>3. n + 1 \in Nat /\ 1 <= n + 1 /\ ~(n + 1 <= n)
              BY <1>3
          <3>4. /\ Seqs!FlattenSeq(pools) \in Seq(M)
                /\ Occ(Seqs!FlattenSeq(pools), V) = 0
              <4> DEFINE i0 == n + 1
                         c == 0
              <4>1. OnlyAt(pools, n, V, i0)
                  BY <3>2 DEF OnlyAt
              <4>2. c = IF i0 <= n THEN Occ(pools[i0], V) ELSE 0
                  BY <3>3
              <4>3. /\ pools \in [1..n -> Seq(M)] /\ n \in Nat
                    /\ i0 \in Nat /\ 1 <= i0 /\ i0 <= n + 1
                  BY <1>3, <1>6
              <4> HIDE DEF i0, c
              <4>4. Flattened(pools, M, V, c)
                  BY <4>1, <4>2, <4>3, FlattenCounts
              <4> QED
                  BY <4>4 DEF Flattened, c
          <3>5. Expected[k] = 0
              BY <2>2, <2>4, <2>5
          <3> QED
              BY <1>7, <3>3, <3>4, <3>5 DEF V
      <2> QED
          BY <2>3, <2>4
  <1>9. "QUOTE" \in Kind /\ 0 \in Int
      BY DEF Kind
  <1> QED
      BY <1>8, <1>9

-----------------------------------------------------------------------------
(* The truth about a clean run.                                            *)

\* The messages of V on their way to a listener: still in its channel, or in
\* a callback that has not handled them yet.
Flight(l, V) == Occ(callback[l].events, V) + Occ(Contents(channel[l]), V)

\* Events of a kind, and markers, of the publication p on their way.
Due(p, k) == Flight("market", EventsOf(p, k))

Announced(p) == Flight("control", MarkersOf(p))

\* What has been received of a publication that is not finished.
Got(p) == IF p \in DOMAIN pending THEN pending[p].receivedByKind ELSE NoneOfKind

\* The publication p is finished.
Done(p) == p \notin DOMAIN pending /\ Announced(p) = 0

Closed == { p \in Measured : Done(p) }

SupersededIn(S) ==
    [k \in Kind |-> SumFunctionOnSet([p \in Publication |-> superseded[p][k]], S)]

\* A counter record of n finished publications that lost f to conflation and
\* nothing to anything else.
Outcomes(c, n, f) ==
    /\ c.full + c.partial + c.empty = n
    /\ c.excess = NoneOfKind
    /\ c.uncorrelated = 0
    /\ c.missing = 0
    /\ c.listenerDeficit = f

\* What the channels and the callbacks hold, and the flags of the stages.
RunInv ==
    /\ ticks \in 0..MaxPublications
    /\ DOMAIN channel = Listener
    /\ \A l \in Listener :
         /\ channel[l] \in Seq(Messages(l, ticks))
         /\ callback[l].events \in Seq(Sent(l, ticks))
         /\ callback[l].phase = "idle" => callback[l].events = <<>>
    /\ superseded \in [Publication -> [Kind -> Int]]
    /\ DOMAIN pending \subseteq 1..ticks
    /\ preMeasurementSequences \subseteq 1..ticks
    /\ measuring <=> stage # "warmup"
    /\ stage = "measuring" => acceptingNewBatches
    /\ now \in Nat \ {0} /\ skew \in Nat

\* Each expected event of an unfinished publication is on its way, received
\* or superseded, and its marker is on its way or was received.
Accounted(p) ==
    /\ Announced(p) \in {0, 1}
    /\ p \in DOMAIN pending => (p \in Marked <=> Announced(p) = 0)
    /\ ~measuring => Announced(p) = 1
    /\ \A k \in Kind :
         /\ superseded[p][k] >= 0
         /\ allowConflation \/ superseded[p][k] = 0
         /\ IF Done(p) THEN Due(p, k) = 0
            ELSE Due(p, k) + Got(p)[k] + superseded[p][k] = Expected[k]

\* Nothing is on its way any more.
Quiet ==
    /\ task = "stopped"
    /\ \A l \in Listener : channel[l] = <<>> /\ callback[l].events = <<>>

CleanInv ==
    /\ allowConflation => Keyed(channel["market"])
    /\ \A p \in Publication \ (1..ticks) : superseded[p] = NoneOfKind
    /\ \A p \in Measured : Accounted(p)
    /\ Outcomes(total, Cardinality(Closed), SupersededIn(Closed))
    /\ stage \notin {"warmup", "measuring"} => Quiet
    /\ final # <<>> =>
         /\ stage \in {"closing", "closed"}
         /\ Outcomes(final[1], Cardinality(Measured), SupersededIn(Measured))

-----------------------------------------------------------------------------
(* Types of the run.                                                       *)

\* SentGrows: what may be sent after some publications may be sent after more.
LEMMA SentGrows ==
    ASSUME NEW l, NEW n \in Nat, NEW m \in Nat, n <= m
    PROVE  /\ Sent(l, n) \subseteq Sent(l, m)
           /\ Seq(Sent(l, n)) \subseteq Seq(Sent(l, m))
           /\ Seq(Messages(l, n)) \subseteq Seq(Messages(l, m))
  <1>1. \A x \in 1..n : x \in 1..m
      OBVIOUS
  <1>2. Sent(l, n) \subseteq Sent(l, m)
      BY <1>1 DEF Sent
  <1>3. Messages(l, n) \subseteq Messages(l, m)
      BY <1>2 DEF Messages
  <1>4. \A S, T : S \subseteq T => Seq(S) \subseteq Seq(T)
      OBVIOUS
  <1> QED
      BY <1>2, <1>3, <1>4

\* SentIs: the events of each listener.
LEMMA SentIs ==
    ASSUME NEW n \in Nat
    PROVE  /\ \A e \in Sent("market", n) :
                e \in MarketEvent /\ e.type = "market" /\ e.sequence \in 1..n
           /\ \A e \in Sent("control", n) :
                e \in MarkerEvent /\ e.type = "marker" /\ e.sequence \in 1..n
                /\ e.time > 0
           /\ \A e \in Sent("profiles", n) : e \in ProfileEvent /\ e.type = "profile"
           /\ \A l \in Listener : Sent(l, n) \subseteq Event
  BY DEF Sent, MarketEvent, MarkerEvent, ProfileEvent, Event, Listener

\* DeliveryTypes: QD hands over what it has.
LEMMA DeliveryTypes ==
    ASSUME RunInv, NEW l \in Listener, NEW n \in 1..Len(channel[l])
    PROVE  LET events == [i \in 1..n |-> channel[l][i].event]
               rest == SubSeq(channel[l], n + 1, Len(channel[l]))
           IN  /\ events \in Seq(Sent(l, ticks))
               /\ rest \in Seq(Messages(l, ticks))
               /\ \A V : Occ(Contents(channel[l]), V) =
                             Occ(events, V) + Occ(Contents(rest), V)
  <1> DEFINE q == channel[l]
             S == Sent(l, ticks)
             M == Messages(l, ticks)
             events == [i \in 1..n |-> q[i].event]
             rest == SubSeq(q, n + 1, Len(q))
             first == SubSeq(q, 1, n)
  <1>1. q \in Seq(M)
      BY DEF RunInv
  <1>2. M = [event : S, symbol : Int]
      BY DEF Messages
  <1> HIDE DEF q
  <1>3. Len(q) \in Nat /\ n \in 1..Len(q)
      BY <1>1 DEF q
  <1> HIDE DEF M
  <1>4. \A i \in 1..Len(q) : q[i] \in M
      BY <1>1, ElementOfSeq
  <1>5. first \in Seq(M) /\ rest \in Seq(M) /\ q = first \o rest
      <2>1. first \in Seq(M) /\ rest \in Seq(M)
          BY <1>1, <1>3
      <2>2. q = first \o rest
          BY <1>1, <1>3
      <2> QED
          BY <2>1, <2>2
  <1>6. events \in Seq(S)
      <2>1. \A i \in 1..n : q[i].event \in S
          BY <1>2, <1>3, <1>4
      <2> HIDE DEF S
      <2> QED
          BY <1>3, <2>1
  <1>7. Contents(first) = events
      <2>1. DOMAIN first = 1..n /\ \A i \in 1..n : first[i] = q[i]
          BY <1>1, <1>3
      <2> HIDE DEF first
      <2> QED
          BY <2>1 DEF Contents
  <1> HIDE DEF first, rest, events, S
  <1>8. ASSUME NEW V
        PROVE  Occ(Contents(q), V) = Occ(events, V) + Occ(Contents(rest), V)
      <2>1. S \subseteq Event /\ q \in Seq([event : S, symbol : Int])
            /\ first \in Seq([event : S, symbol : Int])
            /\ rest \in Seq([event : S, symbol : Int])
          <3>1. S \subseteq Event
              BY SentIs DEF S, RunInv
          <3> QED
              BY <1>1, <1>2, <1>5, <3>1
      <2>2. /\ Occ(Contents(q), V) = Occ(q, Carrying(V))
            /\ Occ(Contents(first), V) = Occ(first, Carrying(V))
            /\ Occ(Contents(rest), V) = Occ(rest, Carrying(V))
          BY <2>1, ContentsAre
      <2>3. Occ(first \o rest, Carrying(V)) =
              Occ(first, Carrying(V)) + Occ(rest, Carrying(V))
          BY <1>5, OccConcat
      <2> QED
          BY <1>5, <1>7, <2>2, <2>3
  <1> QED
      BY <1>5, <1>6, <1>8 DEF q, S, M, events, rest

\* Of an event there are in a channel as many messages as contents.
LEMMA ChannelCounts ==
    ASSUME NEW l \in Listener, NEW n \in Nat, NEW q \in Seq(Messages(l, n)), NEW V
    PROVE  Occ(Contents(q), V) = Occ(q, Carrying(V)) /\ Occ(Contents(q), V) \in Nat
  <1>1. Sent(l, n) \subseteq Event /\ q \in Seq([event : Sent(l, n), symbol : Int])
      BY SentIs DEF Messages
  <1>2. Contents(q) \in Seq(Sent(l, n)) /\ Occ(Contents(q), V) = Occ(q, Carrying(V))
      BY <1>1, ContentsAre
  <1> QED
      BY <1>2, OccType

\* Enqueueing adds the messages, or less of them where they conflate.
LEMMA EnqueueCounts ==
    ASSUME NEW M, NEW q \in Seq(M), NEW messages \in Seq(M),
           allowConflation => Keyed(q)
    PROVE  /\ Enqueue(q, messages) \in Seq(M)
           /\ allowConflation => Keyed(Enqueue(q, messages))
           /\ \A V : /\ Occ(Enqueue(q, messages), V) <= Occ(q, V) + Occ(messages, V)
                     /\ allowConflation \/ Occ(Enqueue(q, messages), V) =
                                             Occ(q, V) + Occ(messages, V)
  <1>1. CASE allowConflation
      <2>1. Enqueue(q, messages) = Seqs!FoldLeft(Conflate, q, messages)
          BY <1>1 DEF Enqueue
      <2> QED
          BY <1>1, <2>1, ConflateAll
  <1>2. CASE ~allowConflation
      <2>1. Enqueue(q, messages) = q \o messages
          BY <1>2 DEF Enqueue
      <2>2. q \o messages \in Seq(M)
          OBVIOUS
      <2>3. \A V : Occ(q \o messages, V) = Occ(q, V) + Occ(messages, V)
          BY OccConcat
      <2>4. \A V : Occ(q, V) \in Nat /\ Occ(messages, V) \in Nat
          BY OccType
      <2> HIDE DEF Enqueue
      <2> QED
          BY <1>2, <2>1, <2>2, <2>3, <2>4
  <1> QED
      BY <1>1, <1>2

\* How often the events of a kind of publication p, and its markers, are in
\* the channels.
InMarket(p, k) == Occ(Contents(channel["market"]), EventsOf(p, k))

InControl(p) == Occ(Contents(channel["control"]), MarkersOf(p))

\* PublishMarket: what a publication puts into the market channel, or
\* supersedes there.
LEMMA PublishMarket ==
    ASSUME RunInv, Publish, allowConflation => Keyed(channel["market"])
    PROVE  /\ channel'["market"] \in Seq(Messages("market", ticks'))
           /\ allowConflation => Keyed(channel'["market"])
           /\ \A p \in Publication, k \in Kind :
                /\ InMarket(p, k) \in Nat /\ InMarket(p, k)' \in Nat
                /\ InMarket(p, k)' <=
                     InMarket(p, k) + (IF p = ticks' THEN Expected[k] ELSE 0)
                /\ allowConflation \/ InMarket(p, k)' =
                     InMarket(p, k) + (IF p = ticks' THEN Expected[k] ELSE 0)
                /\ superseded'[p][k] = superseded[p][k] + InMarket(p, k)
                     + (IF p = ticks' THEN Expected[k] ELSE 0) - InMarket(p, k)'
  <1> DEFINE t == ticks + 1
             q == channel["market"]
             events == MarketEvents(t)
             queue == Enqueue(q, events)
             M == Messages("market", t)
  <1>1. /\ t \in 1..MaxPublications /\ t \in Nat /\ ticks \in Nat /\ ticks <= t
        /\ ticks' = t
        /\ "market" \in Listener /\ "market" \in DOMAIN channel
      BY PipelineAssumption, SMTT(20) DEF RunInv, Publish, Listener
  <1>2. /\ channel'["market"] = queue
        /\ \A p \in Publication, k \in Kind :
              superseded'[p][k] = superseded[p][k] + CountOf(q \o events, p, k)
                                    - CountOf(queue, p, k)
      BY <1>1 DEF Publish
  <1>3. q \in Seq(M)
      <2>1. q \in Seq(Messages("market", ticks))
          BY <1>1 DEF RunInv
      <2> QED
          BY <1>1, <2>1, SentGrows
  <1>4. /\ events \in Seq(M)
        /\ \A p \in Int, k \in Kind :
              Occ(events, Carrying(EventsOf(p, k))) = IF p = t THEN Expected[k] ELSE 0
      BY <1>1, MarketEventsAre
  <1> HIDE DEF t, q, events, M
  <1>5. /\ queue \in Seq(M)
        /\ allowConflation => Keyed(queue)
        /\ \A V : /\ Occ(queue, V) <= Occ(q, V) + Occ(events, V)
                  /\ allowConflation \/ Occ(queue, V) = Occ(q, V) + Occ(events, V)
      <2>1. allowConflation => Keyed(q)
          BY DEF q
      <2> QED
          BY <1>3, <1>4, <2>1, EnqueueCounts
  <1> HIDE DEF queue
  <1>6. ASSUME NEW p \in Publication, NEW k \in Kind
        PROVE  /\ InMarket(p, k) \in Nat /\ InMarket(p, k)' \in Nat
               /\ InMarket(p, k)' <=
                    InMarket(p, k) + (IF p = ticks' THEN Expected[k] ELSE 0)
               /\ allowConflation \/ InMarket(p, k)' =
                    InMarket(p, k) + (IF p = ticks' THEN Expected[k] ELSE 0)
               /\ superseded'[p][k] = superseded[p][k] + InMarket(p, k)
                    + (IF p = ticks' THEN Expected[k] ELSE 0) - InMarket(p, k)'
      <2> DEFINE V == Carrying(EventsOf(p, k))
                 a == Occ(q, V)
                 b == Occ(events, V)
                 c == Occ(queue, V)
      <2>1. p \in Int
          BY DEF Publication
      <2>2. InMarket(p, k) = a /\ InMarket(p, k)' = c
          <3>1. \A x \in Seq(M) : Occ(Contents(x), EventsOf(p, k)) = Occ(x, V)
              BY <1>1, ChannelCounts DEF M
          <3>2. InMarket(p, k) = Occ(Contents(q), EventsOf(p, k))
              BY DEF InMarket, q
          <3>3. InMarket(p, k)' = Occ(Contents(queue), EventsOf(p, k))
              BY <1>2 DEF InMarket
          <3> QED
              BY <1>3, <1>5, <3>1, <3>2, <3>3
      <2>3. a \in Nat /\ b \in Nat /\ c \in Nat
          BY <1>3, <1>4, <1>5, OccType
      <2>4. CountOf(q \o events, p, k) = a + b
          <3>1. q \o events \in Seq(M)
              BY <1>3, <1>4
          <3>2. CountOf(q \o events, p, k) = Occ(q \o events, V)
              BY <1>1, <2>1, <3>1, CountIs DEF M
          <3> QED
              BY <1>3, <1>4, <3>2, OccConcat
      <2>5. CountOf(queue, p, k) = c
          BY <1>1, <1>5, <2>1, CountIs DEF M
      <2>6. b = IF p = t THEN Expected[k] ELSE 0
          BY <1>4, <2>1
      <2>7. c <= a + b /\ (allowConflation \/ c = a + b)
          BY <1>5
      <2>8. superseded'[p][k] = superseded[p][k] + (a + b) - c
          BY <1>2, <2>4, <2>5
      <2>9. superseded[p][k] \in Int
          BY DEF RunInv
      <2> HIDE DEF a, b, c, V
      <2> QED
          BY <1>1, <2>2, <2>3, <2>6, <2>7, <2>8, <2>9
  <1> QED
      BY <1>1, <1>2, <1>5, <1>6 DEF M

\* PublishControl: the marker follows.
LEMMA PublishControl ==
    ASSUME RunInv, Publish
    PROVE  /\ channel'["control"] \in Seq(Messages("control", ticks'))
           /\ \A p \in Publication :
                /\ InControl(p) \in Nat
                /\ InControl(p)' = InControl(p) + (IF p = ticks' THEN 1 ELSE 0)
  <1> DEFINE t == ticks + 1
             q == channel["control"]
             e == [type |-> "marker", sequence |-> t, time |-> now + skew]
             m == Message(e, 0)
             M == Messages("control", t)
  <1>1. /\ t \in Nat /\ ticks \in Nat /\ ticks <= t /\ t \in 1..t
        /\ ticks' = t
        /\ "control" \in Listener /\ "control" \in DOMAIN channel
      BY PipelineAssumption DEF RunInv, Publish, Listener
  <1>2. channel'["control"] = Append(q, m)
      BY <1>1 DEF Publish
  <1>3. q \in Seq(M)
      <2>1. q \in Seq(Messages("control", ticks))
          BY <1>1 DEF RunInv
      <2> QED
          BY <1>1, <2>1, SentGrows
  <1>4. e \in Sent("control", t) /\ m \in M /\ m.event = e
      <2>1. now + skew \in Int /\ now + skew > 0
          BY DEF RunInv
      <2>2. e \in Sent("control", t)
          BY <1>1, <2>1 DEF Sent, MarkerEvent
      <2> HIDE DEF e
      <2> QED
          BY <2>2 DEF Messages, Message
  <1>5. \A p : e \in MarkersOf(p) <=> p = t
      BY <1>4, SentIs, <1>1 DEF MarkersOf
  <1> HIDE DEF e, m, M
  <1>6. Append(q, m) \in Seq(M)
      BY <1>3, <1>4
  <1>7. ASSUME NEW p \in Publication
        PROVE  /\ InControl(p) \in Nat
               /\ InControl(p)' = InControl(p) + (IF p = ticks' THEN 1 ELSE 0)
      <2> DEFINE V == Carrying(MarkersOf(p))
      <2>1. \A x \in Seq(M) : /\ Occ(Contents(x), MarkersOf(p)) = Occ(x, V)
                              /\ Occ(Contents(x), MarkersOf(p)) \in Nat
          BY <1>1, ChannelCounts DEF M
      <2>2. InControl(p) = Occ(q, V) /\ InControl(p) \in Nat
          BY <1>3, <2>1 DEF InControl
      <2>3. InControl(p)' = Occ(Append(q, m), V)
          BY <1>2, <1>6, <2>1 DEF InControl
      <2>4. m \in V <=> p = t
          <3>1. m \in [event : Event, symbol : Int]
              BY <1>1, <1>4, SentIs DEF M, Messages
          <3> QED
              BY <1>4, <1>5, <3>1 DEF Carrying
      <2> HIDE DEF V
      <2>5. Occ(Append(q, m), V) = Occ(q, V) + (IF m \in V THEN 1 ELSE 0)
          BY <1>3, <1>4, OccAppend
      <2> QED
          BY <1>1, <2>2, <2>3, <2>4, <2>5
  <1> QED
      BY <1>1, <1>2, <1>6, <1>7 DEF M

-----------------------------------------------------------------------------
(* What the steps of the Collector do to a clean run.                      *)

\* Outcomes of two records add up.
LEMMA OutcomesAdd ==
    ASSUME NEW c \in Counters, NEW d \in Counters, NEW n \in Int, NEW m \in Int,
           NEW f, NEW g, Outcomes(c, n, f), Outcomes(d, m, g)
    PROVE  Outcomes(Add(c, d), n + m, AddKinds(f, g))
  <1> DEFINE a == Add(c, d)
  <1>1. /\ a.full = c.full + d.full /\ a.partial = c.partial + d.partial
        /\ a.empty = c.empty + d.empty /\ a.missing = c.missing + d.missing
        /\ a.uncorrelated = c.uncorrelated + d.uncorrelated
        /\ a.excess = AddKinds(c.excess, d.excess)
        /\ a.listenerDeficit = AddKinds(c.listenerDeficit, d.listenerDeficit)
      BY DEF Add
  <1>2. /\ c.full \in Nat /\ c.partial \in Nat /\ c.empty \in Nat
        /\ d.full \in Nat /\ d.partial \in Nat /\ d.empty \in Nat
      BY DEF Counters
  <1>3. AddKinds(NoneOfKind, NoneOfKind) = NoneOfKind
      BY DEF AddKinds, NoneOfKind
  <1> HIDE DEF a
  <1>4. /\ c.full + c.partial + c.empty = n /\ d.full + d.partial + d.empty = m
        /\ c.excess = NoneOfKind /\ d.excess = NoneOfKind
        /\ c.uncorrelated = 0 /\ d.uncorrelated = 0
        /\ c.missing = 0 /\ d.missing = 0
        /\ c.listenerDeficit = f /\ d.listenerDeficit = g
      BY DEF Outcomes
  <1>5. a.full + a.partial + a.empty = n + m
      <2>1. \A x, y, z, u, v, w \in Nat :
               (x + u) + (y + v) + (z + w) = (x + y + z) + (u + v + w)
          OBVIOUS
      <2>2. (c.full + d.full) + (c.partial + d.partial) + (c.empty + d.empty) =
               (c.full + c.partial + c.empty) + (d.full + d.partial + d.empty)
          BY <1>2, <2>1
      <2> QED
          BY <1>1, <1>4, <2>2
  <1>6. a.excess = NoneOfKind /\ a.listenerDeficit = AddKinds(f, g)
      BY <1>1, <1>3, <1>4
  <1>7. a.uncorrelated = 0 /\ a.missing = 0
      BY <1>1, <1>4
  <1>8. Outcomes(a, n + m, AddKinds(f, g))
      BY <1>5, <1>6, <1>7 DEF Outcomes
  <1> QED
      BY <1>8 DEF a

\* Adding no outcome changes none.
LEMMA OutcomesNone ==
    ASSUME NEW c \in Counters, NEW d \in Counters, NEW n \in Int,
           NEW f \in [Kind -> Int], Outcomes(c, n, f), Outcomes(d, 0, NoneOfKind)
    PROVE  Outcomes(Add(c, d), n, f)
  <1>1. AddKinds(f, NoneOfKind) = f /\ n + 0 = n
      BY DEF AddKinds, NoneOfKind
  <1>2. Outcomes(Add(c, d), n + 0, AddKinds(f, NoneOfKind))
      BY OutcomesAdd
  <1> QED
      BY <1>1, <1>2

\* Charges, callback statistics and samples are no outcomes.
LEMMA NoOutcome ==
    /\ Outcomes(Zero, 0, NoneOfKind)
    /\ Outcomes([Zero EXCEPT !.published = Expected], 0, NoneOfKind)
    /\ Outcomes([Zero EXCEPT !.callbacks = 1], 0, NoneOfKind)
    /\ Outcomes([Zero EXCEPT !.callbackSizes = 1], 0, NoneOfKind)
    /\ [Zero EXCEPT !.published = Expected] \in Counters
    /\ \A batch \in PendingBatch : /\ Outcomes(Emission(batch), 0, NoneOfKind)
                                   /\ Emission(batch) \in Counters
  <1>1. \A f : Outcomes([Zero EXCEPT !.published = f], 0, NoneOfKind)
      BY DEF Outcomes, Zero
  <1>2. /\ Outcomes(Zero, 0, NoneOfKind)
        /\ Outcomes([Zero EXCEPT !.callbacks = 1], 0, NoneOfKind)
        /\ Outcomes([Zero EXCEPT !.callbackSizes = 1], 0, NoneOfKind)
      BY DEF Outcomes, Zero
  <1>3. [Zero EXCEPT !.published = Expected] \in Counters
      BY CountersClosed, CollectorAssumption DEF Zero, Counters, PerKind
  <1>4. ASSUME NEW batch \in PendingBatch
        PROVE  Outcomes(Emission(batch), 0, NoneOfKind)
      <2>1. \A f, x : Outcomes([Zero EXCEPT !.events = f, !.negative = x], 0, NoneOfKind)
          BY DEF Outcomes, Zero
      <2> QED
          BY <1>2, <2>1 DEF Emission
  <1> QED
      BY <1>1, <1>2, <1>3, <1>4, EmissionBalanced

\* FinishOutcome: a publication with a marker, of which nothing came in
\* excess, has one outcome.
LEMMA FinishOutcome ==
    ASSUME NEW batch \in PendingBatch, batch.timestamp # NoTime,
           \A k \in Kind : batch.receivedByKind[k] <= Expected[k],
           allowConflation \/ HasExpectedComposition(batch)
    PROVE  Outcomes(Finish(batch), 1,
                    [k \in Kind |-> Expected[k] - batch.receivedByKind[k]])
  <1> DEFINE complete == HasExpectedComposition(batch)
             got == batch.receivedByKind
             missed == [k \in Kind |-> Expected[k] - got[k]]
             d == FinishCorrelated(batch)
  <1>1. /\ d.missing = (IF ~complete /\ ~allowConflation THEN 1 ELSE 0)
        /\ d.full = (IF complete THEN 1 ELSE 0)
        /\ d.empty = (IF ~complete /\ batch.received = 0 THEN 1 ELSE 0)
        /\ d.partial = (IF ~complete /\ batch.received > 0 THEN 1 ELSE 0)
        /\ d.uncorrelated = 0
        /\ d.listenerDeficit = [k \in Kind |-> Shortfall(got[k], Expected[k])]
        /\ d.excess = [k \in Kind |-> Shortfall(Expected[k], got[k])]
      BY DEF FinishCorrelated, Zero
  <1>2. \A k \in Kind : got[k] \in Nat /\ Expected[k] \in Nat /\ got[k] <= Expected[k]
      BY CollectorAssumption DEF PendingBatch
  <1>3. batch.received \in Nat /\ d \in Counters
      BY CorrelatedBalanced DEF PendingBatch
  <1>4. Finish(batch) = Add(Emission(batch), d)
      BY DEF Finish
  <1> HIDE DEF complete, d, got
  <1>5. /\ [k \in Kind |-> Shortfall(got[k], Expected[k])] = missed
        /\ [k \in Kind |-> Shortfall(Expected[k], got[k])] = NoneOfKind
      BY <1>2 DEF Shortfall, NoneOfKind
  <1>6. d.full + d.partial + d.empty = 1
      BY <1>1, <1>3
  <1>7. d.missing = 0
      BY <1>1 DEF complete
  <1>8. Outcomes(d, 1, missed)
      BY <1>1, <1>5, <1>6, <1>7 DEF Outcomes
  <1>9. Outcomes(Add(Emission(batch), d), 0 + 1, AddKinds(NoneOfKind, missed))
      BY <1>3, <1>8, NoOutcome, OutcomesAdd
  <1>10. AddKinds(NoneOfKind, missed) = missed
      BY <1>2 DEF AddKinds, NoneOfKind
  <1> QED
      BY <1>4, <1>9, <1>10 DEF got

\* SettleIs: the batch is stored, or erased and counted.
LEMMA SettleIs ==
    ASSUME TypeOK, NEW s \in Int, NEW batch \in PendingBatch, NEW d,
           Settle(s, batch, d)
    PROVE  /\ DOMAIN pending' \subseteq DOMAIN pending \cup {s}
           /\ \A t \in DOMAIN pending \ {s} :
                t \in DOMAIN pending' /\ pending'[t] = pending[t]
           /\ s \notin DOMAIN pending' <=>
                batch.timestamp # NoTime /\ HasExpectedComposition(batch)
           /\ s \in DOMAIN pending' =>
                /\ pending'[s].receivedByKind = batch.receivedByKind
                /\ pending'[s].timestamp = batch.timestamp
           /\ total' = Add(total,
                IF s \in DOMAIN pending' THEN Add(d, Emission(batch))
                ELSE Add(Add(d, Emission(batch)), Finish(Emitted(batch))))
  <1>1. /\ Emitted(batch).timestamp = batch.timestamp
        /\ Emitted(batch).receivedByKind = batch.receivedByKind
      BY EmittedType
  <1>2. CASE batch.timestamp # NoTime /\ HasExpectedComposition(batch)
      <2>1. /\ pending' = Erase(s)
            /\ total' = Add(total, Add(Add(d, Emission(batch)), Finish(Emitted(batch))))
          BY <1>2 DEF Settle, Accumulate
      <2>2. /\ DOMAIN pending' = DOMAIN pending \ {s}
            /\ \A t \in DOMAIN pending \ {s} : pending'[t] = pending[t]
          BY <2>1 DEF Erase
      <2> QED
          BY <1>2, <2>1, <2>2
  <1>3. CASE ~(batch.timestamp # NoTime /\ HasExpectedComposition(batch))
      <2>1. /\ pending' = Store(s, Emitted(batch))
            /\ total' = Add(total, Add(d, Emission(batch)))
          BY <1>3 DEF Settle, Accumulate
      <2>2. /\ DOMAIN pending' = DOMAIN pending \cup {s}
            /\ \A t \in DOMAIN pending \ {s} : pending'[t] = pending[t]
            /\ pending'[s] = Emitted(batch)
          BY <2>1 DEF Store
      <2> QED
          BY <1>1, <1>3, <2>1, <2>2
  <1> QED
      BY <1>2, <1>3

\* SettleOutcome: of a publication that is complete nothing is missed.
LEMMA SettleOutcome ==
    ASSUME TypeOK, NEW s \in Int, NEW batch \in PendingBatch, NEW d \in Counters,
           Outcomes(d, 0, NoneOfKind), Settle(s, batch, d)
    PROVE  \E g \in Counters :
              /\ total' = Add(total, g)
              /\ Outcomes(g, IF s \in DOMAIN pending' THEN 0 ELSE 1, NoneOfKind)
  <1> DEFINE g1 == Add(d, Emission(batch))
             e == Emitted(batch)
             g2 == Add(g1, Finish(e))
  <1>1. Emission(batch) \in Counters /\ Outcomes(Emission(batch), 0, NoneOfKind)
      BY NoOutcome
  <1>2. /\ e \in PendingBatch
        /\ e.timestamp = batch.timestamp
        /\ e.receivedByKind = batch.receivedByKind
      BY EmittedType
  <1>3. AddKinds(NoneOfKind, NoneOfKind) = NoneOfKind
      BY DEF AddKinds, NoneOfKind
  <1> HIDE DEF e
  <1>4. g1 \in Counters /\ Outcomes(g1, 0, NoneOfKind)
      <2>1. Outcomes(g1, 0 + 0, AddKinds(NoneOfKind, NoneOfKind))
          BY <1>1, OutcomesAdd
      <2> QED
          BY <1>1, <1>3, <2>1, CountersClosed
  <1> HIDE DEF g1
  <1>5. CASE s \in DOMAIN pending'
      <2>1. total' = Add(total, g1)
          BY <1>5, SettleIs DEF g1
      <2> QED
          BY <1>4, <1>5, <2>1
  <1>6. CASE s \notin DOMAIN pending'
      <2>1. /\ batch.timestamp # NoTime /\ HasExpectedComposition(batch)
            /\ total' = Add(total, g2)
          BY <1>6, SettleIs DEF g1, e
      <2>2. HasExpectedComposition(e)
          BY <1>2, <2>1 DEF HasExpectedComposition
      <2>3. \A k \in Kind : e.receivedByKind[k] = Expected[k] /\ Expected[k] \in Nat
          BY <2>2, CollectorAssumption DEF HasExpectedComposition
      <2>4. [k \in Kind |-> Expected[k] - e.receivedByKind[k]] = NoneOfKind
          BY <2>3 DEF NoneOfKind
      <2>5. Finish(e) \in Counters /\ Outcomes(Finish(e), 1, NoneOfKind)
          <3>1. Outcomes(Finish(e), 1,
                         [k \in Kind |-> Expected[k] - e.receivedByKind[k]])
              BY <1>2, <2>1, <2>2, <2>3, FinishOutcome
          <3> QED
              BY <1>2, <2>4, <3>1, FinishBalanced
      <2>6. g2 \in Counters /\ Outcomes(g2, 1, NoneOfKind)
          <3>1. Outcomes(g2, 0 + 1, AddKinds(NoneOfKind, NoneOfKind))
              BY <1>4, <2>5, OutcomesAdd
          <3> QED
              BY <1>3, <1>4, <2>5, <3>1, CountersClosed
      <2> HIDE DEF g2
      <2> QED
          BY <1>6, <2>1, <2>6
  <1> QED
      BY <1>5, <1>6

\* FlightType: what is on its way is counted.
LEMMA FlightType ==
    ASSUME RunInv, NEW l \in Listener, NEW V
    PROVE  /\ Occ(callback[l].events, V) \in Nat
           /\ Occ(Contents(channel[l]), V) \in Nat
           /\ Flight(l, V) \in Nat
  <1>1. /\ callback[l].events \in Seq(Sent(l, ticks))
        /\ channel[l] \in Seq(Messages(l, ticks)) /\ ticks \in Nat
      BY PipelineAssumption DEF RunInv
  <1>2. Occ(callback[l].events, V) \in Nat
      BY <1>1, OccType
  <1>3. Occ(Contents(channel[l]), V) \in Nat
      BY <1>1, ChannelCounts
  <1> QED
      BY <1>2, <1>3 DEF Flight

\* The same for the two kinds of messages a publication has.
LEMMA DueType ==
    ASSUME RunInv, NEW p
    PROVE  Announced(p) \in Nat /\ \A k : Due(p, k) \in Nat
  <1>1. "market" \in Listener /\ "control" \in Listener
      BY DEF Listener
  <1> QED
      BY <1>1, FlightType DEF Announced, Due

\* The publications of a run are finitely many.
LEMMA PublicationsFinite ==
    ASSUME RunInv
    PROVE  /\ IsFiniteSet(Publication)
           /\ Measured \subseteq Publication /\ Closed \subseteq Measured
           /\ \A S \in SUBSET Publication :
                IsFiniteSet(S) /\ Cardinality(S) \in Nat
  <1>1. IsFiniteSet(Publication)
      BY PipelineAssumption, FS_Interval DEF Publication
  <1>2. Measured \subseteq Publication
      BY PipelineAssumption DEF Measured, Publication, RunInv
  <1>3. \A S \in SUBSET Publication : IsFiniteSet(S)
      BY <1>1, FS_Subset
  <1> QED
      BY <1>1, <1>2, <1>3, FS_CardinalityType DEF Closed

\* SupersededType: what conflation took from some publications.
LEMMA SupersededType ==
    ASSUME RunInv, NEW S \in SUBSET Publication
    PROVE  SupersededIn(S) \in [Kind -> Int]
  <1>1. ASSUME NEW k \in Kind
        PROVE  SumFunctionOnSet([p \in Publication |-> superseded[p][k]], S) \in Int
      <2> DEFINE f == [p \in Publication |-> superseded[p][k]]
      <2>1. IsFiniteSet(S)
          BY PublicationsFinite
      <2>2. \A p \in S : f[p] \in Int
          BY DEF RunInv
      <2> HIDE DEF f
      <2> QED
          BY <2>1, <2>2, SumType DEF f
  <1> QED
      BY <1>1 DEF SupersededIn

\* SupersededAdd: one publication more.
LEMMA SupersededAdd ==
    ASSUME RunInv, NEW S \in SUBSET Publication, NEW p \in Publication \ S
    PROVE  SupersededIn(S \cup {p}) = AddKinds(SupersededIn(S), superseded[p])
  <1>1. ASSUME NEW k \in Kind
        PROVE  SumFunctionOnSet([q \in Publication |-> superseded[q][k]], S \cup {p}) =
                 SumFunctionOnSet([q \in Publication |-> superseded[q][k]], S)
                   + superseded[p][k]
      <2> DEFINE f == [q \in Publication |-> superseded[q][k]]
      <2>1. IsFiniteSet(S)
          BY PublicationsFinite
      <2>2. (\A q \in S : f[q] \in Int) /\ f[p] \in Int /\ f[p] = superseded[p][k]
          BY DEF RunInv
      <2> HIDE DEF f
      <2>3. SumFunctionOnSet(f, S \cup {p}) = SumFunctionOnSet(f, S) + f[p]
          BY <2>1, <2>2, SumAdd
      <2> QED
          BY <2>2, <2>3 DEF f
  <1>2. SupersededIn(S \cup {p}) = [k \in Kind |->
           SumFunctionOnSet([q \in Publication |-> superseded[q][k]], S)
             + superseded[p][k]]
      BY <1>1 DEF SupersededIn
  <1> QED
      BY <1>2 DEF SupersededIn, AddKinds

\* SupersededSame: it does not change if it does not for any of them.
LEMMA SupersededSame ==
    ASSUME RunInv, RunInv', NEW S \in SUBSET Publication,
           \A p \in S : superseded'[p] = superseded[p]
    PROVE  [k \in Kind |->
              SumFunctionOnSet([p \in Publication |-> superseded'[p][k]], S)]
            = SupersededIn(S)
  <1>1. ASSUME NEW k \in Kind
        PROVE  SumFunctionOnSet([p \in Publication |-> superseded'[p][k]], S) =
                 SumFunctionOnSet([p \in Publication |-> superseded[p][k]], S)
      <2> DEFINE f == [p \in Publication |-> superseded'[p][k]]
                 g == [p \in Publication |-> superseded[p][k]]
      <2>1. IsFiniteSet(S)
          BY PublicationsFinite
      <2>2. \A p \in S : f[p] = g[p]
          OBVIOUS
      <2> HIDE DEF f, g
      <2>3. SumFunctionOnSet(f, S) = SumFunctionOnSet(g, S)
          BY <2>1, <2>2, SumEqual
      <2> QED
          BY <2>3 DEF f, g
  <1> QED
      BY <1>1 DEF SupersededIn

\* AccountedKept: a publication that a step does not touch.
LEMMA AccountedKept ==
    ASSUME NEW p, Accounted(p),
           Announced(p)' = Announced(p), \A k \in Kind : Due(p, k)' = Due(p, k),
           p \in DOMAIN pending' <=> p \in DOMAIN pending,
           p \in DOMAIN pending => pending'[p] = pending[p],
           superseded'[p] = superseded[p], allowConflation' = allowConflation,
           measuring => measuring'
    PROVE  Accounted(p)' /\ (Done(p)' <=> Done(p))
  <1>1. Done(p)' <=> Done(p)
      BY DEF Done
  <1>2. Got(p)' = Got(p)
      BY DEF Got
  <1>3. p \in DOMAIN pending => (p \in Marked' <=> p \in Marked)
      BY DEF Marked
  <1>4. ASSUME NEW k \in Kind
        PROVE  /\ superseded'[p][k] >= 0
               /\ allowConflation' \/ superseded'[p][k] = 0
               /\ IF Done(p)' THEN Due(p, k)' = 0
                  ELSE Due(p, k)' + Got(p)'[k] + superseded'[p][k] = Expected[k]
      BY <1>1, <1>2 DEF Accounted
  <1> QED
      BY <1>1, <1>3, <1>4 DEF Accounted

\* BatchSettled: a publication that a handled event belongs to.
LEMMA BatchSettled ==
    ASSUME RunInv, TypeOK, NEW p \in Publication, Accounted(p), ~Done(p),
           NEW batch \in PendingBatch, NEW d, Settle(p, batch, d),
           superseded' = superseded, allowConflation' = allowConflation, measuring',
           Announced(p)' \in {0, 1}, batch.timestamp # NoTime <=> Announced(p)' = 0,
           \A k \in Kind : Due(p, k)' \in Nat /\
               Due(p, k)' + batch.receivedByKind[k] = Due(p, k) + Got(p)[k]
    PROVE  /\ Accounted(p)'
           /\ Done(p)' <=> p \notin DOMAIN pending'
           /\ Done(p)' => superseded[p] = NoneOfKind
  <1>1. /\ p \notin DOMAIN pending' <=>
              batch.timestamp # NoTime /\ HasExpectedComposition(batch)
        /\ p \in DOMAIN pending' =>
              /\ pending'[p].receivedByKind = batch.receivedByKind
              /\ pending'[p].timestamp = batch.timestamp
      <2>1. p \in Int
          BY DEF Publication
      <2> QED
          BY <2>1, SettleIs
  <1>2. Done(p)' <=> p \notin DOMAIN pending'
      BY <1>1 DEF Done
  <1>3. p \in DOMAIN pending' => (p \in Marked' <=> Announced(p)' = 0)
      BY <1>1 DEF Marked
  <1>4. \A k \in Kind :
           /\ Due(p, k) + Got(p)[k] + superseded[p][k] = Expected[k]
           /\ superseded[p][k] >= 0 /\ (allowConflation \/ superseded[p][k] = 0)
      BY DEF Accounted
  <1>5. \A k \in Kind : /\ superseded[p][k] \in Int /\ Expected[k] \in Nat
                        /\ batch.receivedByKind[k] \in Nat
      BY CollectorAssumption DEF RunInv, PendingBatch
  <1>6. \A k \in Kind : Due(p, k)' + batch.receivedByKind[k] + superseded[p][k] =
                           Expected[k]
      BY <1>4
  <1>7. CASE p \in DOMAIN pending'
      <2>1. \A k \in Kind : Got(p)'[k] = batch.receivedByKind[k]
          BY <1>1, <1>7 DEF Got
      <2>2. \A k \in Kind : Due(p, k)' + Got(p)'[k] + superseded'[p][k] = Expected[k]
          BY <1>6, <2>1
      <2> QED
          BY <1>2, <1>3, <1>4, <1>7, <2>2 DEF Accounted
  <1>8. CASE p \notin DOMAIN pending'
      <2>1. \A k \in Kind : batch.receivedByKind[k] = Expected[k]
          BY <1>1, <1>8 DEF HasExpectedComposition
      <2>2. \A k \in Kind : Due(p, k)' = 0 /\ superseded[p][k] = 0
          <3>1. \A x, y \in Nat, z \in Int : x + y + z = y /\ z >= 0 => x = 0 /\ z = 0
              OBVIOUS
          <3> QED
              BY <1>4, <1>5, <1>6, <2>1, <3>1
      <2>3. superseded[p] = NoneOfKind
          BY <2>2 DEF NoneOfKind, RunInv
      <2> QED
          BY <1>2, <1>4, <1>8, <2>2, <2>3 DEF Accounted
  <1> QED
      BY <1>7, <1>8

\* OutcomesKept: a step that finishes no publication.
LEMMA OutcomesKept ==
    ASSUME RunInv, RunInv', TypeOK, NEW d \in Counters, Outcomes(d, 0, NoneOfKind),
           total' = Add(total, d), Closed' = Closed,
           \A p \in Closed : superseded'[p] = superseded[p],
           Outcomes(total, Cardinality(Closed), SupersededIn(Closed))
    PROVE  Outcomes(total, Cardinality(Closed), SupersededIn(Closed))'
  <1>1. PICK S : S = Closed
      OBVIOUS
  <1>2. /\ S \in SUBSET Publication /\ Cardinality(S) \in Int
        /\ SupersededIn(S) \in [Kind -> Int]
      <2>1. S \in SUBSET Publication /\ Cardinality(S) \in Nat
          BY <1>1, PublicationsFinite
      <2> QED
          BY <2>1, SupersededType
  <1>3. Outcomes(total', Cardinality(S), SupersededIn(S))
      BY <1>1, <1>2, OutcomesNone DEF TypeOK
  <1>4. SupersededIn(S)' = SupersededIn(S)
      BY <1>1, <1>2, SupersededSame DEF SupersededIn
  <1>5. Closed' = S
      BY <1>1
  <1> QED
      BY <1>3, <1>4, <1>5

\* OutcomesGrow: a step that finishes one.
LEMMA OutcomesGrow ==
    ASSUME RunInv, RunInv', TypeOK, NEW p \in Publication, p \notin Closed,
           NEW d \in Counters, Outcomes(d, 1, superseded[p]),
           total' = Add(total, d), Closed' = Closed \cup {p},
           superseded' = superseded,
           Outcomes(total, Cardinality(Closed), SupersededIn(Closed))
    PROVE  Outcomes(total, Cardinality(Closed), SupersededIn(Closed))'
  <1>1. PICK S : S = Closed
      OBVIOUS
  <1>2. /\ S \in SUBSET Publication /\ Cardinality(S) \in Int /\ IsFiniteSet(S)
        /\ S \cup {p} \in SUBSET Publication
      BY <1>1, PublicationsFinite
  <1>3. Outcomes(total', Cardinality(S) + 1, AddKinds(SupersededIn(S), superseded[p]))
      BY <1>1, <1>2, OutcomesAdd DEF TypeOK
  <1>4. Cardinality(S \cup {p}) = Cardinality(S) + 1
      BY <1>1, <1>2, FS_AddElement
  <1>5. SupersededIn(S \cup {p}) = AddKinds(SupersededIn(S), superseded[p])
      BY <1>1, <1>2, SupersededAdd
  <1>6. PICK T : T = S \cup {p}
      OBVIOUS
  <1>7. SupersededIn(T)' = SupersededIn(T)
      BY DEF SupersededIn
  <1>8. Closed' = T
      BY <1>1, <1>6
  <1> QED
      BY <1>3, <1>4, <1>5, <1>6, <1>7, <1>8

-----------------------------------------------------------------------------
(* The steps of a clean run.                                               *)

\* RunKept: RunInv after a step that publishes and delivers nothing.
LEMMA RunKept ==
    ASSUME RunInv, UNCHANGED <<ticks, skew, channel, superseded>>,
           \A l \in Listener :
             /\ callback'[l].events \in Seq(Sent(l, ticks))
             /\ callback'[l].phase = "idle" => callback'[l].events = <<>>,
           DOMAIN pending' \subseteq 1..ticks,
           preMeasurementSequences' \subseteq 1..ticks,
           measuring' <=> stage' # "warmup",
           stage' = "measuring" => acceptingNewBatches',
           now' \in {now, now + 1}
    PROVE  RunInv'
  <1>1. now' \in Nat \ {0}
      BY DEF RunInv
  <1> QED
      BY <1>1 DEF RunInv

\* RunSame: a step that moves no message and starts no batch.
LEMMA RunSame ==
    ASSUME RunInv,
           UNCHANGED <<ticks, skew, channel, superseded, preMeasurementSequences>>,
           DOMAIN pending' \subseteq DOMAIN pending,
           \A l \in Listener :
             /\ callback'[l].events = callback[l].events
             /\ callback'[l].phase = "idle" => callback[l].events = <<>>,
           measuring' <=> stage' # "warmup",
           stage' = "measuring" => acceptingNewBatches',
           now' \in {now, now + 1}
    PROVE  RunInv'
  <1>1. \A m \in Listener :
           /\ callback'[m].events \in Seq(Sent(m, ticks))
           /\ callback'[m].phase = "idle" => callback'[m].events = <<>>
      BY DEF RunInv
  <1>2. preMeasurementSequences' \subseteq 1..ticks /\ DOMAIN pending' \subseteq 1..ticks
      BY DEF RunInv
  <1> QED
      BY <1>1, <1>2, RunKept

\* DeliverFlights: a callback takes the messages that its channel loses.
LEMMA DeliverFlights ==
    ASSUME RunInv, TypeOK, NEW l \in Listener, Deliver(l)
    PROVE  /\ RunInv'
           /\ \A m \in Listener : \A V : Flight(m, V)' = Flight(m, V)
  <1>1. PICK n \in 1..Len(channel[l]) :
          LET events == [i \in 1..n |-> channel[l][i].event]
          IN /\ ReceiveEvents(l, events)
             /\ channel' = [channel EXCEPT ![l] = SubSeq(@, n + 1, Len(@))]
      BY DEF Deliver
  <1> DEFINE events == [i \in 1..n |-> channel[l][i].event]
             rest == SubSeq(channel[l], n + 1, Len(channel[l]))
  <1>2. /\ events \in Seq(Sent(l, ticks)) /\ rest \in Seq(Messages(l, ticks))
        /\ \A V : Occ(Contents(channel[l]), V) = Occ(events, V) + Occ(Contents(rest), V)
      BY DeliveryTypes
  <1>3. /\ callback[l].phase = "idle" /\ callback[l].events = <<>>
        /\ callback' = [callback EXCEPT ![l] =
              [phase |-> "observed", observed |-> now, events |-> events]]
        /\ channel' = [channel EXCEPT ![l] = rest]
      BY <1>1 DEF ReceiveEvents, RunInv
  <1> HIDE DEF events, rest
  <1>4. /\ callback'[l].events = events /\ callback'[l].phase = "observed"
        /\ channel'[l] = rest /\ DOMAIN channel' = Listener
        /\ \A m \in Listener \ {l} :
              callback'[m] = callback[m] /\ channel'[m] = channel[m]
      BY <1>3 DEF TypeOK, RunInv
  <1>5. UNCHANGED <<ticks, skew, superseded, pending, preMeasurementSequences,
                    measuring, stage, acceptingNewBatches, now>>
      BY <1>1 DEF Deliver, ReceiveEvents, history, flags, seen, main
  <1>6. RunInv'
      <2>1. \A m \in Listener :
              /\ channel'[m] \in Seq(Messages(m, ticks))
              /\ callback'[m].events \in Seq(Sent(m, ticks))
              /\ callback'[m].phase = "idle" => callback'[m].events = <<>>
          BY <1>2, <1>4 DEF RunInv
      <2> QED
          BY <1>4, <1>5, <2>1 DEF RunInv
  <1>7. ASSUME NEW m \in Listener, NEW V PROVE Flight(m, V)' = Flight(m, V)
      <2>1. CASE m = l
          <3>1. Flight(l, V) = Occ(<<>>, V) + Occ(Contents(channel[l]), V)
              BY <1>3 DEF Flight
          <3>2. Flight(l, V)' = Occ(events, V) + Occ(Contents(rest), V)
              BY <1>4 DEF Flight
          <3>3. Occ(<<>>, V) = 0 /\ Occ(Contents(channel[l]), V) \in Nat
              BY OccEmpty, FlightType
          <3> QED
              BY <1>2, <2>1, <3>1, <3>2, <3>3
      <2>2. CASE m # l
          BY <1>4, <2>2 DEF Flight
      <2> QED
          BY <2>1, <2>2
  <1> QED
      BY <1>6, <1>7

\* HandleFlights: a callback hands over its first event.
LEMMA HandleFlights ==
    ASSUME RunInv, TypeOK, NEW l \in Listener, HandleEvent(l), channel' = channel
    PROVE  LET e == Head(callback[l].events)
           IN  /\ e \in Sent(l, ticks)
               /\ \A m \in Listener :
                    /\ callback'[m].events \in Seq(Sent(m, ticks))
                    /\ callback'[m].phase = "idle" => callback'[m].events = <<>>
               /\ \A m \in Listener : \A V :
                    Flight(m, V) = Flight(m, V)' +
                        (IF m = l /\ e \in V THEN 1 ELSE 0)
  <1> DEFINE q == callback[l].events
             e == Head(q)
             S == Sent(l, ticks)
  <1>1. q \in Seq(S) /\ q # <<>>
      BY DEF RunInv, HandleEvent
  <1>2. callback' = [callback EXCEPT ![l].events = Tail(q)]
      BY DEF HandleEvent
  <1>3. /\ callback'[l].events = Tail(q) /\ callback'[l].phase = callback[l].phase
        /\ \A m \in Listener \ {l} : callback'[m] = callback[m]
      BY <1>2 DEF TypeOK
  <1>4. e \in S /\ Tail(q) \in Seq(S)
      BY <1>1
  <1>5. callback[l].phase # "idle"
      BY <1>1 DEF RunInv
  <1>6. \A m \in Listener :
           /\ callback'[m].events \in Seq(Sent(m, ticks))
           /\ callback'[m].phase = "idle" => callback'[m].events = <<>>
      BY <1>3, <1>4, <1>5 DEF RunInv
  <1>7. ASSUME NEW m \in Listener, NEW V
        PROVE  Flight(m, V) = Flight(m, V)' + (IF m = l /\ e \in V THEN 1 ELSE 0)
      <2>0. Flight(m, V) \in Nat
          BY FlightType
      <2>1. CASE m = l
          <3> DEFINE c == Occ(Contents(channel[l]), V)
          <3>1. c \in Nat
              BY FlightType
          <3>2. Occ(Tail(q), V) \in Nat
              BY <1>4, OccType
          <3>3. Occ(q, V) = (IF e \in V THEN 1 ELSE 0) + Occ(Tail(q), V)
              BY <1>1, OccTail
          <3>4. Flight(l, V) = Occ(q, V) + c /\ Flight(l, V)' = Occ(Tail(q), V) + c
              BY <1>3 DEF Flight
          <3> HIDE DEF c, e, q
          <3> QED
              BY <2>1, <3>1, <3>2, <3>3, <3>4
      <2>2. CASE m # l
          <3>1. Flight(m, V)' = Flight(m, V)
              BY <1>3, <2>2 DEF Flight
          <3> QED
              BY <2>0, <2>2, <3>1
      <2> QED
          BY <2>1, <2>2
  <1> QED
      BY <1>4, <1>6, <1>7

\* PublishRun: publishing keeps the types.
LEMMA PublishRun ==
    ASSUME RunInv, Publish, allowConflation => Keyed(channel["market"])
    PROVE  RunInv'
  <1>1. /\ ticks' = ticks + 1 /\ ticks' \in 0..MaxPublications
        /\ ticks \in Nat /\ ticks' \in Nat /\ ticks <= ticks'
      BY PipelineAssumption DEF Publish, RunInv
  <1>2. channel'["market"] \in Seq(Messages("market", ticks'))
      BY PublishMarket
  <1>3. channel'["control"] \in Seq(Messages("control", ticks'))
      BY PublishControl
  <1>4. DOMAIN channel' = Listener /\ channel'["profiles"] = channel["profiles"]
      BY DEF Publish, RunInv, Listener
  <1>5. \A l \in Listener : channel'[l] \in Seq(Messages(l, ticks'))
      <2>1. channel["profiles"] \in Seq(Messages("profiles", ticks))
          BY DEF RunInv, Listener
      <2>2. channel'["profiles"] \in Seq(Messages("profiles", ticks'))
          BY <1>1, <1>4, <2>1, SentGrows
      <2> QED
          BY <1>2, <1>3, <2>2 DEF Listener
  <1>6. UNCHANGED <<callback, pending, preMeasurementSequences, measuring, stage,
                    acceptingNewBatches, now, skew>>
      BY DEF Publish, vars, clock, flags, seen, main
  <1>7. \A l \in Listener : callback[l].events \in Seq(Sent(l, ticks'))
      BY <1>1, SentGrows DEF RunInv
  <1>8. superseded' \in [Publication -> [Kind -> Int]]
      <2>1. \A p \in Publication, k \in Kind : superseded'[p][k] \in Int
          <3>1. TAKE p \in Publication, k \in Kind
          <3>2. superseded'[p][k] = superseded[p][k] + InMarket(p, k)
                   + (IF p = ticks' THEN Expected[k] ELSE 0) - InMarket(p, k)'
                /\ InMarket(p, k) \in Nat /\ InMarket(p, k)' \in Nat
              BY PublishMarket
          <3>3. superseded[p][k] \in Int /\ Expected[k] \in Nat
              BY CollectorAssumption DEF RunInv
          <3> QED
              BY <3>2, <3>3
      <2> DEFINE queue == Enqueue(channel["market"], MarketEvents(ticks + 1))
                 c(p, k) == superseded[p][k]
                    + CountOf(channel["market"] \o MarketEvents(ticks + 1), p, k)
                    - CountOf(queue, p, k)
      <2>2. superseded' = [p \in Publication |-> [k \in Kind |-> c(p, k)]]
          BY DEF Publish
      <2> HIDE DEF c
      <2>3. \A p \in Publication : superseded'[p] = [k \in Kind |-> c(p, k)]
          BY <2>2
      <2>4. \A p \in Publication, k \in Kind : c(p, k) \in Int
          BY <2>1, <2>3
      <2> QED
          BY <2>2, <2>4
  <1> QED
      <2>1. \A l \in Listener :
              /\ callback'[l].events \in Seq(Sent(l, ticks'))
              /\ callback'[l].phase = "idle" => callback'[l].events = <<>>
          BY <1>6, <1>7 DEF RunInv
      <2>2. /\ DOMAIN pending' \subseteq 1..ticks'
            /\ preMeasurementSequences' \subseteq 1..ticks'
          <3>1. 1..ticks \subseteq 1..ticks'
              BY <1>1
          <3> QED
              BY <1>6, <3>1 DEF RunInv
      <2>3. /\ measuring' <=> stage' # "warmup"
            /\ stage' = "measuring" => acceptingNewBatches'
            /\ now' \in Nat \ {0} /\ skew' \in Nat
          BY <1>6 DEF RunInv
      <2> QED
          BY <1>1, <1>4, <1>5, <1>8, <2>1, <2>2, <2>3 DEF RunInv

\* FutureNone: of a publication that is not published yet nothing is on its way.
LEMMA FutureNone ==
    ASSUME RunInv, NEW p, p \notin 1..ticks
    PROVE  Announced(p) = 0 /\ \A k : Due(p, k) = 0 /\ InMarket(p, k) = 0
  <1> USE DEF Listener
  <1>0. ticks \in Nat
      BY PipelineAssumption DEF RunInv
  <1>1. ASSUME NEW l \in Listener, NEW V, \A e \in Sent(l, ticks) : e \notin V
        PROVE  Flight(l, V) = 0 /\ Occ(Contents(channel[l]), V) = 0
      <2>1. /\ callback[l].events \in Seq(Sent(l, ticks))
            /\ channel[l] \in Seq([event : Sent(l, ticks), symbol : Int])
          BY DEF RunInv, Messages
      <2>2. Contents(channel[l]) \in Seq(Sent(l, ticks))
          BY <1>0, <2>1, SentIs, ContentsAre
      <2>3. \A q \in Seq(Sent(l, ticks)) : Occ(q, V) = 0
          <3>1. TAKE q \in Seq(Sent(l, ticks))
          <3>2. \A i \in DOMAIN q : q[i] \in Sent(l, ticks)
              <4>1. DOMAIN q = 1..Len(q)
                  OBVIOUS
              <4> QED
                  BY <4>1, ElementOfSeq
          <3> QED
              BY <1>1, <3>2, OccNone
      <2> QED
          BY <2>1, <2>2, <2>3 DEF Flight
  <1>2. Announced(p) = 0
      <2>1. \A e \in Sent("control", ticks) : e \notin MarkersOf(p)
          BY <1>0, SentIs DEF MarkersOf
      <2> QED
          BY <1>1, <2>1 DEF Announced
  <1>3. ASSUME NEW k PROVE Due(p, k) = 0 /\ InMarket(p, k) = 0
      <2>1. \A e \in Sent("market", ticks) : e \notin EventsOf(p, k)
          BY <1>0, SentIs DEF EventsOf
      <2> QED
          BY <1>1, <2>1 DEF Due, InMarket
  <1> QED
      BY <1>2, <1>3

\* PublishDue: what a publication adds to what is on its way.
LEMMA PublishDue ==
    ASSUME RunInv, RunInv', Publish, allowConflation => Keyed(channel["market"]),
           NEW p \in Publication
    PROVE  /\ Announced(p)' = Announced(p) + (IF p = ticks' THEN 1 ELSE 0)
           /\ \A k \in Kind :
                /\ Due(p, k)' + superseded'[p][k] =
                     Due(p, k) + superseded[p][k]
                       + (IF p = ticks' THEN Expected[k] ELSE 0)
                /\ Due(p, k) \in Nat /\ Due(p, k)' \in Nat
                /\ superseded'[p][k] >= superseded[p][k]
                /\ allowConflation \/ superseded'[p][k] = superseded[p][k]
                /\ Due(p, k) = 0 /\ p # ticks' =>
                     Due(p, k)' = 0 /\ superseded'[p][k] = superseded[p][k]
  <1> USE DEF Listener
  <1>1. callback' = callback
      BY DEF Publish, vars
  <1>2. Announced(p)' = Announced(p) + (IF p = ticks' THEN 1 ELSE 0)
      <2> DEFINE a == Occ(callback["control"].events, MarkersOf(p))
      <2>1. Announced(p) = a + InControl(p) /\ Announced(p)' = a + InControl(p)'
          BY <1>1 DEF Announced, Flight, InControl
      <2>2. a \in Nat
          BY FlightType
      <2>3. /\ InControl(p) \in Nat
            /\ InControl(p)' = InControl(p) + (IF p = ticks' THEN 1 ELSE 0)
          BY PublishControl
      <2> HIDE DEF a
      <2> QED
          BY <2>1, <2>2, <2>3
  <1>3. ASSUME NEW k \in Kind
        PROVE  /\ Due(p, k)' + superseded'[p][k] =
                    Due(p, k) + superseded[p][k]
                      + (IF p = ticks' THEN Expected[k] ELSE 0)
               /\ Due(p, k) \in Nat /\ Due(p, k)' \in Nat
               /\ superseded'[p][k] >= superseded[p][k]
               /\ allowConflation \/ superseded'[p][k] = superseded[p][k]
               /\ Due(p, k) = 0 /\ p # ticks' =>
                    Due(p, k)' = 0 /\ superseded'[p][k] = superseded[p][k]
      <2> DEFINE a == Occ(callback["market"].events, EventsOf(p, k))
                 m == InMarket(p, k)
                 n == InMarket(p, k)'
                 x == IF p = ticks' THEN Expected[k] ELSE 0
                 s == superseded[p][k]
      <2>1. Due(p, k) = a + m /\ Due(p, k)' = a + n
          BY <1>1 DEF Due, Flight, InMarket
      <2>2. a \in Nat
          BY FlightType
      <2>3. /\ m \in Nat /\ n \in Nat
            /\ n <= m + x /\ (allowConflation \/ n = m + x)
            /\ superseded'[p][k] = s + m + x - n
          BY PublishMarket
      <2>4. s \in Int /\ x \in Nat /\ (p # ticks' => x = 0)
          BY CollectorAssumption DEF RunInv
      <2> HIDE DEF a, m, n, x, s
      <2>5. /\ Due(p, k)' + superseded'[p][k] = Due(p, k) + s + x
            /\ Due(p, k) \in Nat /\ Due(p, k)' \in Nat
            /\ superseded'[p][k] >= s
            /\ allowConflation \/ superseded'[p][k] = s
          BY <2>1, <2>2, <2>3, <2>4
      <2>6. ASSUME Due(p, k) = 0, p # ticks'
            PROVE  Due(p, k)' = 0 /\ superseded'[p][k] = s
          <3>1. x = 0 /\ a = 0 /\ m = 0
              BY <2>1, <2>2, <2>3, <2>4, <2>6
          <3> QED
              BY <2>1, <2>3, <2>4, <3>1
      <2> QED
          BY <2>5, <2>6 DEF x, s
  <1> QED
      BY <1>2, <1>3

\* PublishClean: publishing keeps the account of every publication.
LEMMA PublishClean ==
    ASSUME RunInv, RunInv', TypeOK, CleanInv, Publish
    PROVE  CleanInv'
  <1>0. /\ ticks' = ticks + 1 /\ ticks \in Nat /\ ticks' \in Publication
        /\ allowConflation => Keyed(channel["market"])
      BY PipelineAssumption DEF Publish, RunInv, CleanInv, Publication
  <1>1. UNCHANGED <<pending, preMeasurementSequences, measuring, stage, final, total,
                    allowConflation, task>>
      BY DEF Publish, vars, seen, flags, main, counters
  <1>2. stage \in {"warmup", "measuring"} /\ final = <<>>
      BY DEF Publish, CleanInv, Quiet
  <1>3. allowConflation' => Keyed(channel'["market"])
      BY <1>0, <1>1, PublishMarket
  <1>4. Measured' = Measured \cup {ticks'} /\ ticks' \notin Measured
      <2>1. preMeasurementSequences \subseteq 1..ticks
          BY DEF RunInv
      <2>2. 1..ticks' = 1..ticks \cup {ticks'} /\ ticks' \notin 1..ticks
          BY <1>0
      <2> QED
          BY <1>1, <2>1, <2>2 DEF Measured
  <1>5. \A p \in Publication, k \in Kind :
           superseded[p][k] \in Int /\ Expected[k] \in Nat
           /\ Due(p, k) \in Nat /\ Due(p, k)' \in Nat
      BY <1>0, CollectorAssumption, PublishDue DEF RunInv
  <1>6. ASSUME NEW p \in Measured
        PROVE  /\ Accounted(p)' /\ (Done(p)' <=> Done(p))
               /\ Done(p) => superseded'[p] = superseded[p]
      <2>1. p \in Publication /\ p # ticks' /\ Accounted(p)
          BY <1>4, PublicationsFinite DEF CleanInv
      <2>2. /\ Announced(p)' = Announced(p) + (IF p = ticks' THEN 1 ELSE 0)
            /\ \A k \in Kind :
                  /\ Due(p, k)' + superseded'[p][k] =
                       Due(p, k) + superseded[p][k]
                         + (IF p = ticks' THEN Expected[k] ELSE 0)
                  /\ superseded'[p][k] >= superseded[p][k]
                  /\ allowConflation \/ superseded'[p][k] = superseded[p][k]
                  /\ Due(p, k) = 0 /\ p # ticks' =>
                       Due(p, k)' = 0 /\ superseded'[p][k] = superseded[p][k]
          BY <1>0, <2>1, PublishDue
      <2>3. Announced(p)' = Announced(p)
          BY <2>1, <2>2, DueType
      <2>4. (Done(p)' <=> Done(p)) /\ Got(p)' = Got(p)
            /\ (p \in Marked' <=> p \in Marked)
          BY <1>1, <2>3 DEF Done, Got, Marked
      <2>5. superseded'[p] \in [Kind -> Int] /\ superseded[p] \in [Kind -> Int]
          BY <2>1 DEF RunInv
      <2>6. \A k \in Kind : Got(p)[k] \in Nat
          BY DEF Got, TypeOK, PendingBatch, NoneOfKind
      <2>7. ASSUME NEW k \in Kind
            PROVE  /\ superseded'[p][k] >= 0
                   /\ allowConflation' \/ superseded'[p][k] = 0
                   /\ IF Done(p)' THEN Due(p, k)' = 0
                      ELSE Due(p, k)' + Got(p)'[k] + superseded'[p][k] = Expected[k]
                   /\ Done(p) => superseded'[p][k] = superseded[p][k]
          <3>1. /\ superseded[p][k] >= 0
                /\ allowConflation \/ superseded[p][k] = 0
                /\ IF Done(p) THEN Due(p, k) = 0
                   ELSE Due(p, k) + Got(p)[k] + superseded[p][k] = Expected[k]
              BY <2>1 DEF Accounted
          <3>2. /\ superseded'[p][k] \in Int /\ superseded[p][k] \in Int
                /\ Due(p, k) \in Nat /\ Due(p, k)' \in Nat /\ Got(p)[k] \in Nat
              BY <1>5, <2>1, <2>5, <2>6
          <3>3. /\ Due(p, k)' + superseded'[p][k] = Due(p, k) + superseded[p][k]
                /\ superseded'[p][k] >= superseded[p][k]
                /\ allowConflation \/ superseded'[p][k] = superseded[p][k]
                /\ Due(p, k) = 0 =>
                     Due(p, k)' = 0 /\ superseded'[p][k] = superseded[p][k]
              BY <2>1, <2>2, <3>2
          <3>4. superseded'[p][k] >= 0 /\ (allowConflation' \/ superseded'[p][k] = 0)
              BY <1>1, <3>1, <3>2, <3>3
          <3>5. CASE Done(p)
              BY <2>4, <3>1, <3>3, <3>4, <3>5
          <3>6. CASE ~Done(p)
              <4>1. Due(p, k)' + Got(p)[k] + superseded'[p][k] = Expected[k]
                  BY <3>1, <3>2, <3>3, <3>6
              <4> QED
                  BY <2>4, <3>4, <3>6, <4>1
          <3> QED
              BY <3>5, <3>6
      <2>8. Done(p) => superseded'[p] = superseded[p]
          BY <2>5, <2>7
      <2>9. Accounted(p)'
          BY <1>1, <2>1, <2>3, <2>4, <2>7 DEF Accounted
      <2> QED
          BY <2>4, <2>8, <2>9
  <1>7. ASSUME NEW p \in Publication, p = ticks'
        PROVE  Accounted(p)' /\ ~Done(p)'
      <2>1. p \notin 1..ticks /\ p \notin DOMAIN pending
          BY <1>0, <1>7 DEF RunInv
      <2>2. Announced(p) = 0 /\ \A k \in Kind : Due(p, k) = 0
          BY <2>1, FutureNone
      <2>3. superseded[p] = NoneOfKind
          BY <2>1 DEF CleanInv
      <2>5. /\ Announced(p)' = 1
            /\ \A k \in Kind :
                  /\ Due(p, k)' + superseded'[p][k] = Expected[k]
                  /\ superseded'[p][k] >= 0
                  /\ allowConflation \/ superseded'[p][k] = 0
          <3>1. /\ Announced(p)' = Announced(p) + (IF p = ticks' THEN 1 ELSE 0)
                /\ \A k \in Kind :
                  /\ Due(p, k)' + superseded'[p][k] =
                       Due(p, k) + superseded[p][k]
                         + (IF p = ticks' THEN Expected[k] ELSE 0)
                  /\ superseded'[p][k] >= superseded[p][k]
                  /\ allowConflation \/ superseded'[p][k] = superseded[p][k]
              BY <1>0, PublishDue
          <3>2. \A k \in Kind : superseded[p][k] = 0 /\ Due(p, k) = 0
                                /\ Expected[k] \in Nat
              BY <2>2, <2>3, CollectorAssumption DEF NoneOfKind
          <3> QED
              BY <1>7, <2>2, <3>1, <3>2
      <2>6. p \notin DOMAIN pending' /\ ~Done(p)' /\ Got(p)' = NoneOfKind
          BY <1>1, <2>1, <2>5 DEF Done, Got
      <2>7. \A k \in Kind :
               Due(p, k)' + Got(p)'[k] + superseded'[p][k] = Expected[k]
          <3>1. \A k \in Kind : Due(p, k)' \in Nat
              BY <1>5
          <3> QED
              BY <2>5, <2>6, <3>1 DEF NoneOfKind
      <2>8. Accounted(p)'
          BY <1>1, <2>5, <2>6, <2>7 DEF Accounted
      <2> QED
          BY <2>6, <2>8
  <1>8. \A p \in Measured' : Accounted(p)'
      BY <1>0, <1>4, <1>6, <1>7
  <1>9. Closed' = Closed /\ \A p \in Closed : superseded'[p] = superseded[p]
      <2>1. Closed' = { p \in Measured' : Done(p)' }
          BY DEF Closed
      <2>2. \A p \in Measured' : Done(p)' <=> p \in Measured /\ Done(p)
          BY <1>0, <1>4, <1>6, <1>7
      <2>3. Closed' = Closed
          BY <1>4, <2>1, <2>2 DEF Closed
      <2> QED
          BY <1>6, <2>3 DEF Closed
  <1>10. Outcomes(total, Cardinality(Closed), SupersededIn(Closed))'
      <2>1. total' = Add(total, Zero)
          <3>1. \A f \in PerKind : AddKinds(f, NoneOfKind) = f
              BY DEF AddKinds, NoneOfKind, PerKind
          <3>2. total \in Counters
              BY DEF TypeOK
          <3> QED
              BY <1>1, <3>1, <3>2 DEF Add, Zero, Counters
      <2> QED
          BY <1>9, <2>1, OutcomesKept, NoOutcome, CountersClosed DEF CleanInv
  <1>11. \A p \in Publication \ (1..ticks') : superseded'[p] = NoneOfKind
      <2>1. TAKE p \in Publication \ (1..ticks')
      <2>2. p \notin 1..ticks /\ p # ticks' /\ superseded[p] = NoneOfKind
          BY <1>0 DEF CleanInv, Publication
      <2>3. \A k \in Kind : superseded'[p][k] = superseded[p][k]
          <3>1. \A k \in Kind : Due(p, k) = 0
              BY <2>2, FutureNone
          <3>2. \A k \in Kind : Due(p, k) = 0 /\ p # ticks' =>
                                  superseded'[p][k] = superseded[p][k]
              BY <1>0, PublishDue
          <3> QED
              BY <2>2, <3>1, <3>2
      <2> QED
          BY <2>2, <2>3 DEF RunInv, NoneOfKind
  <1> QED
      BY <1>1, <1>2, <1>3, <1>8, <1>10, <1>11 DEF CleanInv

\* Steady: the publications after a step that moves no message and touches no
\* batch.
Steady ==
    /\ allowConflation' => Keyed(channel'["market"])
    /\ \A p \in Publication \ (1..ticks') : superseded'[p] = NoneOfKind
    /\ \A p \in Measured' : Accounted(p)'
    /\ Measured' = Measured /\ SupersededIn(Measured)' = SupersededIn(Measured)
    /\ Outcomes(total, Cardinality(Closed), SupersededIn(Closed))'

\* SteadyStep: it may add something to the counters that is no outcome.
LEMMA SteadyStep ==
    ASSUME RunInv, RunInv', TypeOK, CleanInv,
           UNCHANGED <<ticks, superseded, pending, preMeasurementSequences,
                       allowConflation>>,
           allowConflation => Keyed(channel'["market"]),
           \A l \in Listener : \A V : Flight(l, V)' = Flight(l, V),
           measuring => measuring',
           total' = total \/ \E d \in Counters :
              Outcomes(d, 0, NoneOfKind) /\ total' = Add(total, d)
    PROVE  Steady
  <1>1. Measured' = Measured /\ SupersededIn(Measured)' = SupersededIn(Measured)
      BY DEF Measured, SupersededIn
  <1>2. \A p : Announced(p)' = Announced(p) /\ \A k : Due(p, k)' = Due(p, k)
      BY DEF Announced, Due, Listener
  <1>3. \A p \in Measured : Accounted(p)' /\ (Done(p)' <=> Done(p))
      <2>1. TAKE p \in Measured
      <2>2. Accounted(p) /\ superseded'[p] = superseded[p] /\ pending' = pending
          BY DEF CleanInv
      <2> QED
          BY <1>2, <2>2, AccountedKept
  <1>4. Closed' = Closed
      <2>1. \A p \in Measured' : Done(p)' <=> Done(p)
          BY <1>1, <1>3
      <2>2. Closed' = { p \in Measured' : Done(p)' }
          BY DEF Closed
      <2> QED
          BY <1>1, <2>1, <2>2 DEF Closed
  <1>5. Outcomes(total, Cardinality(Closed), SupersededIn(Closed))'
      <2>1. CASE total' = total
          <3>1. SupersededIn(Closed)' = SupersededIn(Closed)
              BY <1>4 DEF SupersededIn
          <3> QED
              BY <1>4, <2>1, <3>1 DEF CleanInv
      <2>2. CASE \E d \in Counters :
                    Outcomes(d, 0, NoneOfKind) /\ total' = Add(total, d)
          <3>1. PICK d \in Counters :
                   Outcomes(d, 0, NoneOfKind) /\ total' = Add(total, d)
              BY <2>2
          <3> QED
              BY <1>4, <3>1, OutcomesKept DEF CleanInv
      <2> QED
          BY <2>1, <2>2
  <1>6. \A p \in Publication \ (1..ticks') : superseded'[p] = NoneOfKind
      BY DEF CleanInv
  <1> QED
      BY <1>1, <1>3, <1>5, <1>6 DEF Steady

\* SteadyFlights: what is on its way if no channel and no list of events moves.
LEMMA SteadyFlights ==
    ASSUME channel' = channel,
           \A l \in Listener : callback'[l].events = callback[l].events
    PROVE  \A l \in Listener : \A V : Flight(l, V)' = Flight(l, V)
  BY DEF Flight

\* KeyedRest: storage stays keyed when messages leave it.
LEMMA KeyedRest ==
    ASSUME NEW M, NEW q \in Seq(M), Keyed(q), NEW n \in 1..Len(q)
    PROVE  Keyed(SubSeq(q, n + 1, Len(q)))
  <1> DEFINE r == SubSeq(q, n + 1, Len(q))
  <1>1. /\ Len(q) \in Nat /\ DOMAIN r = 1..Len(q) - n
        /\ \A i \in 1..Len(q) - n : r[i] = q[n + i]
      OBVIOUS
  <1>2. \A i \in 1..Len(q) - n : n + i \in DOMAIN q
      OBVIOUS
  <1> HIDE DEF r
  <1>3. Keyed(r)
      BY <1>1, <1>2 DEF Keyed
  <1> QED
      BY <1>3 DEF r

\* DeliverClean: a delivery.
LEMMA DeliverClean ==
    ASSUME RunInv, RunInv', TypeOK, CleanInv, NEW l \in Listener, Deliver(l)
    PROVE  CleanInv'
  <1>1. UNCHANGED <<ticks, superseded, pending, preMeasurementSequences,
                    allowConflation, measuring, total, stage, final>>
      BY DEF Deliver, ReceiveEvents, history, flags, seen, main, counters
  <1>2. PICK n \in 1..Len(channel[l]) :
          channel' = [channel EXCEPT ![l] = SubSeq(@, n + 1, Len(@))]
      BY DEF Deliver
  <1>3. stage \in {"warmup", "measuring"} /\ final = <<>>
      <2>1. channel[l] # <<>>
          BY <1>2
      <2> QED
          BY <2>1 DEF CleanInv, Quiet
  <1>4. allowConflation => Keyed(channel'["market"])
      <2>1. CASE l = "market"
          <3>1. /\ channel'[l] = SubSeq(channel[l], n + 1, Len(channel[l]))
                /\ channel[l] \in Seq(Messages(l, ticks))
              BY <1>2 DEF RunInv
          <3> QED
              BY <2>1, <3>1, KeyedRest DEF CleanInv
      <2>2. CASE l # "market"
          <3>1. channel'["market"] = channel["market"]
              BY <1>2, <2>2 DEF RunInv, Listener
          <3> QED
              BY <3>1 DEF CleanInv
      <2> QED
          BY <2>1, <2>2
  <1>5. Steady
      BY <1>1, <1>4, DeliverFlights, SteadyStep
  <1> QED
      BY <1>1, <1>3, <1>5 DEF Steady, CleanInv

\* HandleMoves: what a handled event is no longer on its way to.
LEMMA HandleMoves ==
    ASSUME RunInv, TypeOK, NEW l \in Listener, Handle(l), NEW p
    PROVE  LET e == Head(callback[l].events)
           IN  /\ Announced(p) = Announced(p)' +
                     (IF l = "control" /\ e.sequence = p THEN 1 ELSE 0)
               /\ \A k \in Kind :
                    Due(p, k) = Due(p, k)' +
                      (IF l = "market" /\ e.sequence = p /\ e.kind = k THEN 1 ELSE 0)
  <1> DEFINE e == Head(callback[l].events)
  <1>1. HandleEvent(l) /\ channel' = channel
      BY DEF Handle
  <1>2. /\ e \in Sent(l, ticks)
        /\ \A m \in Listener : \A V :
              Flight(m, V) = Flight(m, V)' + (IF m = l /\ e \in V THEN 1 ELSE 0)
      BY <1>1, HandleFlights
  <1>3. ticks \in Nat /\ "market" \in Listener /\ "control" \in Listener
      BY PipelineAssumption DEF RunInv, Listener
  <1> HIDE DEF e
  <1>4. Announced(p) = Announced(p)' +
          (IF l = "control" /\ e.sequence = p THEN 1 ELSE 0)
      <2>1. l = "control" => (e \in MarkersOf(p) <=> e.sequence = p)
          BY <1>2, <1>3, SentIs DEF MarkersOf
      <2>2. Announced(p) = Announced(p)' +
              (IF "control" = l /\ e \in MarkersOf(p) THEN 1 ELSE 0)
          BY <1>2, <1>3 DEF Announced
      <2> QED
          BY <2>1, <2>2
  <1>5. ASSUME NEW k \in Kind
        PROVE  Due(p, k) = Due(p, k)' +
                 (IF l = "market" /\ e.sequence = p /\ e.kind = k THEN 1 ELSE 0)
      <2>1. l = "market" => (e \in EventsOf(p, k) <=> e.sequence = p /\ e.kind = k)
          BY <1>2, <1>3, SentIs DEF EventsOf
      <2>2. Due(p, k) = Due(p, k)' +
              (IF "market" = l /\ e \in EventsOf(p, k) THEN 1 ELSE 0)
          BY <1>2, <1>3 DEF Due
      <2> QED
          BY <2>1, <2>2
  <1> QED
      BY <1>4, <1>5 DEF e

\* What is on its way is counted, also after a step.
FlightsCounted == \A x : Announced(x) \in Nat /\ \A k : Due(x, k) \in Nat

\* FlightsAlways: it holds in every state of a run.
LEMMA FlightsAlways == RunInv => FlightsCounted
  BY DueType DEF FlightsCounted

\* FlightsAfter: and in the next one.
LEMMA FlightsAfter == RunInv' => FlightsCounted'
  BY FlightsAlways, PTL

\* BatchGot: a batch has what has been received of its publication.
LEMMA BatchGot ==
    ASSUME NEW p
    PROVE  BatchOf(p).receivedByKind = Got(p)
  BY DEF BatchOf, Got, NewBatch

\* CorrelatedHere: an event that correlates belongs to a published publication.
LEMMA CorrelatedHere ==
    ASSUME RunInv, TypeOK, NEW l \in Listener, Handle(l),
           NEW e, e = Head(callback[l].events), Correlates(e),
           NEW p, p = e.sequence
    PROVE  /\ p \in 1..ticks /\ p \in Publication /\ p \in Int
           /\ \/ l = "market" /\ e \in MarketEvent /\ e.type = "market"
                 /\ ApplyMarket(e, callback[l].observed)
              \/ l = "control" /\ e \in MarkerEvent /\ e.type = "marker"
                 /\ IsMarker(e) /\ ApplyMarker(e, callback[l].observed)
  <1>1. HandleEvent(l) /\ channel' = channel
      BY DEF Handle
  <1>2. e \in Sent(l, ticks)
      BY <1>1, HandleFlights
  <1>3. ticks \in 0..MaxPublications /\ MaxPublications \in Nat
      BY PipelineAssumption DEF RunInv
  <1>4. IF e.type = "marker" THEN ApplyMarker(e, callback[l].observed)
        ELSE ApplyMarket(e, callback[l].observed)
      BY <1>1 DEF HandleEvent
  <1>5. IsMarker(e) \/ e.type = "market"
      BY DEF Correlates
  <1>6. /\ p \in 1..ticks
        /\ \/ l = "market" /\ e \in MarketEvent /\ e.type = "market"
              /\ ApplyMarket(e, callback[l].observed)
           \/ l = "control" /\ e \in MarkerEvent /\ e.type = "marker"
              /\ IsMarker(e) /\ ApplyMarker(e, callback[l].observed)
      BY <1>2, <1>3, <1>4, <1>5, SentIs DEF Listener, IsMarker
  <1> QED
      BY <1>3, <1>6 DEF Publication

\* HandleRun: a handled event keeps the types.
LEMMA HandleRun ==
    ASSUME RunInv, TypeOK, NEW l \in Listener, Handle(l)
    PROVE  RunInv'
  <1>1. /\ HandleEvent(l)
        /\ UNCHANGED <<channel, superseded, ticks, skew, measuring, stage, now,
                       acceptingNewBatches, preMeasurementSequences>>
      BY DEF Handle, HandleEvent, flags, clock, seen, main
  <1>2. PICK e : e = Head(callback[l].events)
      OBVIOUS
  <1>3. PICK p : p = e.sequence
      OBVIOUS
  <1>4. DOMAIN pending' \subseteq 1..ticks
      <2>1. CASE ~Correlates(e)
          <3>1. pending' = pending
              BY <1>1, <1>2, <2>1 DEF HandleEvent
          <3> QED
              BY <3>1 DEF RunInv
      <2>2. CASE Correlates(e)
          <3> DEFINE o == callback[l].observed
                     b == BatchOf(p)
          <3>1. p \in 1..ticks /\ p \in Int
              BY <1>2, <1>3, <2>2, CorrelatedHere
          <3>2. b \in PendingBatch /\ o \in Int
              BY BatchOfType DEF TypeOK
          <3>3. \E batch \in PendingBatch : \E d : Settle(p, batch, d)
              <4>1. CASE e \in MarketEvent /\ ApplyMarket(e, o)
                  <5>1. MarketBatch(b, e, o) \in PendingBatch
                      BY <3>2, <4>1, MarketBatchType
                  <5>2. \E d : Settle(p, MarketBatch(b, e, o), d)
                      BY <1>3, <4>1 DEF ApplyMarket
                  <5> QED
                      BY <5>1, <5>2
              <4>2. CASE e \in MarkerEvent /\ IsMarker(e) /\ ApplyMarker(e, o)
                  <5>1. MarkerBatch(b, e, o) \in PendingBatch
                      BY <3>2, <4>2, MarkerBatchType
                  <5>2. \E d : Settle(p, MarkerBatch(b, e, o), d)
                      BY <1>3, <4>2 DEF ApplyMarker
                  <5> QED
                      BY <5>1, <5>2
              <4> QED
                  BY <1>2, <1>3, <2>2, <4>1, <4>2, CorrelatedHere
          <3>4. DOMAIN pending' \subseteq DOMAIN pending \cup {p}
              BY <3>1, <3>3, SettleIs
          <3> QED
              BY <3>1, <3>4 DEF RunInv
      <2> QED
          BY <2>1, <2>2
  <1>5. \A m \in Listener :
           /\ callback'[m].events \in Seq(Sent(m, ticks))
           /\ callback'[m].phase = "idle" => callback'[m].events = <<>>
      BY <1>1, HandleFlights
  <1>6. /\ preMeasurementSequences' \subseteq 1..ticks
        /\ measuring' <=> stage' # "warmup"
        /\ stage' = "measuring" => acceptingNewBatches'
        /\ now' \in {now, now + 1}
      BY <1>1 DEF RunInv
  <1> QED
      BY <1>1, <1>4, <1>5, <1>6, RunKept

\* HandleSettles: a handled event that correlates belongs to an unfinished
\* publication, whose batch it completes or not.
LEMMA HandleSettles ==
    ASSUME RunInv, RunInv', TypeOK, TypeOK', CleanInv, NEW l \in Listener, Handle(l),
           measuring, NEW e, e = Head(callback[l].events), Correlates(e),
           NEW p, p = e.sequence
    PROVE  /\ p \in Measured /\ ~Done(p)
           /\ Accounted(p)'
           /\ Done(p)' <=> p \notin DOMAIN pending'
           /\ Done(p)' => superseded[p] = NoneOfKind
           /\ \A t \in DOMAIN pending \ {p} :
                t \in DOMAIN pending' /\ pending'[t] = pending[t]
           /\ DOMAIN pending' \subseteq DOMAIN pending \cup {p}
           /\ \E g \in Counters :
                /\ total' = Add(total, g)
                /\ Outcomes(g, IF p \in DOMAIN pending' THEN 0 ELSE 1, NoneOfKind)
  <1>0. PICK observed : observed = callback[l].observed
      OBVIOUS
  <1>1. /\ HandleEvent(l)
        /\ UNCHANGED <<channel, superseded, ticks, measuring, allowConflation>>
      BY DEF Handle, HandleEvent, flags
  <1>2. ticks \in Nat /\ e \in Sent(l, ticks) /\ observed \in Int
      <2>1. ticks \in Nat /\ observed \in Int
          BY <1>0, PipelineAssumption DEF RunInv, TypeOK
      <2>2. Head(callback[l].events) \in Sent(l, ticks)
          BY <1>1, HandleFlights
      <2> QED
          BY <2>1, <2>2
  <1>3. /\ IF e.type = "marker" THEN ApplyMarker(e, observed)
           ELSE ApplyMarket(e, observed)
        /\ AcceptBatch(p)
      BY <1>0, <1>1 DEF HandleEvent, Correlates
  <1>4. \/ l = "market" /\ e \in MarketEvent /\ e.type = "market" /\ p \in 1..ticks
        \/ l = "control" /\ e \in MarkerEvent /\ e.type = "marker" /\ p \in 1..ticks
           /\ IsMarker(e)
      <2>1. IsMarker(e) \/ e.type = "market"
          BY DEF Correlates
      <2> QED
          BY <1>2, <2>1, SentIs DEF Listener, IsMarker
  <1>5. p \in Measured /\ p \in Publication /\ p \in Int /\ Accounted(p)
      <2>1. p \in Measured
          BY <1>3, <1>4 DEF Measured, AcceptBatch
      <2> QED
          BY <2>1, PublicationsFinite DEF CleanInv, Publication
  <1>6. /\ Announced(p) = Announced(p)' + (IF l = "control" THEN 1 ELSE 0)
        /\ \A k \in Kind :
             Due(p, k) = Due(p, k)' + (IF l = "market" /\ e.kind = k THEN 1 ELSE 0)
      BY HandleMoves
  <1>7. Announced(p)' \in Nat /\ \A k \in Kind : Due(p, k)' \in Nat
      BY FlightsAfter DEF FlightsCounted
  <1>8. /\ BatchOf(p) \in PendingBatch
        /\ BatchOf(p).timestamp # NoTime <=> p \in Marked
        /\ BatchOf(p).receivedByKind = Got(p)
      BY BatchOfType, BatchGot
  <1>9. Announced(p) \in {0, 1} /\ (p \in Marked => Announced(p) = 0)
      BY <1>5 DEF Accounted, Marked
  <1>10. ASSUME NEW batch \in PendingBatch, NEW d \in Counters, Settle(p, batch, d),
                Outcomes(d, 0, NoneOfKind), ~Done(p),
                Announced(p)' \in {0, 1},
                batch.timestamp # NoTime <=> Announced(p)' = 0,
                \A k \in Kind :
                   Due(p, k)' + batch.receivedByKind[k] = Due(p, k) + Got(p)[k]
         PROVE  /\ Accounted(p)'
                /\ Done(p)' <=> p \notin DOMAIN pending'
                /\ Done(p)' => superseded[p] = NoneOfKind
                /\ \A t \in DOMAIN pending \ {p} :
                      t \in DOMAIN pending' /\ pending'[t] = pending[t]
                /\ DOMAIN pending' \subseteq DOMAIN pending \cup {p}
                /\ \E g \in Counters :
                      /\ total' = Add(total, g)
                      /\ Outcomes(g, IF p \in DOMAIN pending' THEN 0 ELSE 1, NoneOfKind)
      <2>1. /\ Accounted(p)'
            /\ Done(p)' <=> p \notin DOMAIN pending'
            /\ Done(p)' => superseded[p] = NoneOfKind
          BY <1>1, <1>5, <1>7, <1>10, BatchSettled
      <2>2. /\ \A t \in DOMAIN pending \ {p} :
                  t \in DOMAIN pending' /\ pending'[t] = pending[t]
            /\ DOMAIN pending' \subseteq DOMAIN pending \cup {p}
          BY <1>5, <1>10, SettleIs
      <2>3. \E g \in Counters :
               /\ total' = Add(total, g)
               /\ Outcomes(g, IF p \in DOMAIN pending' THEN 0 ELSE 1, NoneOfKind)
          BY <1>5, <1>10, SettleOutcome
      <2> QED
          BY <2>1, <2>2, <2>3
  <1>11. CASE l = "market"
      <2> DEFINE batch == MarketBatch(BatchOf(p), e, observed)
      <2>1. e \in MarketEvent /\ e.kind \in Kind /\ e.type # "marker"
          BY <1>4, <1>11 DEF MarketEvent
      <2>2. Settle(p, batch, Zero)
          BY <1>3, <2>1 DEF ApplyMarket
      <2>3. batch \in PendingBatch /\ batch.timestamp = BatchOf(p).timestamp
          BY <1>2, <1>8, <2>1, MarketBatchType
      <2>4. batch.receivedByKind = [Got(p) EXCEPT ![e.kind] = @ + 1]
          BY <1>8 DEF MarketBatch, PendingBatch
      <2>5. ~Done(p)
          <3>1. Due(p, e.kind) = Due(p, e.kind)' + 1
              BY <1>6, <1>11, <2>1
          <3>2. Due(p, e.kind) # 0
              BY <1>7, <2>1, <3>1
          <3> QED
              BY <1>5, <2>1, <3>2 DEF Accounted
      <2>6. Announced(p)' = Announced(p)
          BY <1>6, <1>7, <1>11
      <2>7. batch.timestamp # NoTime <=> Announced(p)' = 0
          <3>1. p \in DOMAIN pending => (p \in Marked <=> Announced(p) = 0)
              BY <1>5 DEF Accounted
          <3>2. p \notin DOMAIN pending => Announced(p) # 0 /\ p \notin Marked
              BY <2>5 DEF Done, Marked
          <3> HIDE DEF batch
          <3> QED
              BY <1>8, <2>3, <2>6, <3>1, <3>2
      <2>8. \A k \in Kind : Due(p, k)' + batch.receivedByKind[k] = Due(p, k) + Got(p)[k]
          <3>1. Got(p) \in [Kind -> Nat]
              BY <1>8 DEF PendingBatch
          <3> HIDE DEF batch
          <3> QED
              BY <1>6, <1>7, <1>11, <2>1, <2>4, <3>1
      <2>9. Announced(p)' \in {0, 1}
          BY <1>9, <2>6
      <2> HIDE DEF batch
      <2>10. Zero \in Counters /\ Outcomes(Zero, 0, NoneOfKind)
          BY NoOutcome, CountersClosed
      <2> QED
          BY <1>5, <1>10, <2>2, <2>3, <2>5, <2>7, <2>8, <2>9, <2>10
  <1>12. CASE l = "control"
      <2> DEFINE batch == MarkerBatch(BatchOf(p), e, observed)
                 d == IF BatchOf(p).timestamp = NoTime
                      THEN [Zero EXCEPT !.published = Expected] ELSE Zero
      <2>1. e \in MarkerEvent /\ IsMarker(e) /\ e.type = "marker"
          BY <1>4, <1>12
      <2>2. Settle(p, batch, d)
          BY <1>3, <2>1 DEF ApplyMarker
      <2>3. batch \in PendingBatch /\ batch.timestamp # NoTime
          BY <1>2, <1>8, <2>1, MarkerBatchType
      <2>4. batch.receivedByKind = Got(p)
          BY <1>8 DEF MarkerBatch, PendingBatch
      <2>5. Announced(p) = 1 /\ Announced(p)' = 0
          BY <1>6, <1>7, <1>9, <1>12
      <2>6. ~Done(p)
          BY <2>5 DEF Done
      <2>7. \A k \in Kind : Due(p, k)' + batch.receivedByKind[k] = Due(p, k) + Got(p)[k]
          <3>1. Got(p) \in [Kind -> Nat]
              BY <1>8 DEF PendingBatch
          <3> HIDE DEF batch
          <3> QED
              BY <1>6, <1>7, <1>12, <2>4, <3>1
      <2>8. d \in Counters /\ Outcomes(d, 0, NoneOfKind)
          BY NoOutcome, CountersClosed
      <2> HIDE DEF batch, d
      <2> QED
          BY <1>5, <1>10, <2>2, <2>3, <2>5, <2>6, <2>7, <2>8
  <1> QED
      BY <1>4, <1>11, <1>12

\* HandleClean: an event handled, of whatever publication.
LEMMA HandleClean ==
    ASSUME RunInv, IInv, IInv', CleanInv, NEW l \in Listener, Handle(l)
    PROVE  RunInv' /\ CleanInv'
  <1>0. TypeOK /\ TypeOK' /\ StageInv
      BY DEF IInv
  <1>1. /\ HandleEvent(l) /\ l # "free" /\ l # "main"
        /\ UNCHANGED <<channel, superseded, ticks, skew, measuring, allowConflation,
                       stage, final, now, acceptingNewBatches,
                       preMeasurementSequences, task>>
      BY DEF Handle, HandleEvent, flags, clock, seen, main, Listener
  <1>2. measuring /\ stage = "measuring" /\ acceptingNewBatches /\ final = <<>>
      <2>1. measuring
          BY <1>0, <1>1 DEF HandleEvent, StageInv
      <2>2. stage \in {"warmup", "measuring"}
          BY <1>1 DEF HandleEvent, CleanInv, Quiet
      <2> QED
          BY <2>1, <2>2 DEF RunInv, CleanInv
  <1>3. PICK e : e = Head(callback[l].events)
      OBVIOUS
  <1>4. PICK p : p = e.sequence
      OBVIOUS
  <1>5. ticks \in Nat /\ e \in Sent(l, ticks)
      <2>1. Head(callback[l].events) \in Sent(l, ticks)
          BY <1>0, <1>1, HandleFlights
      <2> QED
          BY <1>3, <2>1, PipelineAssumption DEF RunInv
  <1>6. ~Correlates(e) => UNCHANGED <<pending, total>>
      BY <1>1, <1>3 DEF HandleEvent
  <1>7. RunInv'
      BY <1>0, HandleRun
  <1>8. Correlates(e) =>
          /\ p \in Measured /\ ~Done(p) /\ Accounted(p)'
          /\ Done(p)' <=> p \notin DOMAIN pending'
          /\ Done(p)' => superseded[p] = NoneOfKind
          /\ \A t \in DOMAIN pending \ {p} :
               t \in DOMAIN pending' /\ pending'[t] = pending[t]
          /\ DOMAIN pending' \subseteq DOMAIN pending \cup {p}
          /\ \E g \in Counters :
               /\ total' = Add(total, g)
               /\ Outcomes(g, IF p \in DOMAIN pending' THEN 0 ELSE 1, NoneOfKind)
      BY <1>0, <1>2, <1>3, <1>4, <1>7, HandleSettles
  <1>9. ASSUME NEW q \in Measured, ~(Correlates(e) /\ q = p)
        PROVE  Accounted(q)' /\ (Done(q)' <=> Done(q))
      <2>1. e.sequence = q => l \notin {"market", "control"}
          <3>1. ASSUME e.sequence = q, l \in {"market", "control"} PROVE FALSE
              <4>1. ~Correlates(e)
                  BY <1>4, <1>9, <3>1
              <4>2. AcceptBatch(e.sequence)
                  BY <1>2, <3>1 DEF AcceptBatch, Measured
              <4>3. ~IsMarker(e) /\ ~(e.type = "market" /\ Described(e))
                  BY <4>1, <4>2 DEF Correlates
              <4>4. e.sequence \in 1..MaxPublications /\ MaxPublications < MaxSequence
                  BY <3>1, PublicationsFinite, PipelineAssumption DEF Publication
              <4>5. Described(e)
                  BY <4>4, PipelineAssumption, CollectorAssumption DEF Described
              <4> QED
                  BY <1>5, <3>1, <4>3, <4>5, SentIs DEF IsMarker
          <3> QED
              BY <3>1
      <2>2. /\ Announced(q) = Announced(q)' +
                  (IF l = "control" /\ e.sequence = q THEN 1 ELSE 0)
            /\ \A k \in Kind : Due(q, k) = Due(q, k)' +
                  (IF l = "market" /\ e.sequence = q /\ e.kind = k THEN 1 ELSE 0)
          BY <1>0, <1>3, HandleMoves
      <2>3. Announced(q)' \in Nat /\ \A k \in Kind : Due(q, k)' \in Nat
          BY <1>7, FlightsAfter DEF FlightsCounted
      <2>4. Announced(q)' = Announced(q) /\ \A k \in Kind : Due(q, k)' = Due(q, k)
          BY <2>1, <2>2, <2>3
      <2>5. /\ q \in DOMAIN pending' <=> q \in DOMAIN pending
            /\ q \in DOMAIN pending => pending'[q] = pending[q]
          BY <1>6, <1>8, <1>9
      <2>6. Accounted(q) /\ superseded'[q] = superseded[q]
          BY <1>1 DEF CleanInv
      <2> QED
          BY <1>1, <2>4, <2>5, <2>6, AccountedKept
  <1>10. Measured' = Measured /\ SupersededIn(Measured)' = SupersededIn(Measured)
      BY <1>1 DEF Measured, SupersededIn
  <1>11. \A q \in Measured' : Accounted(q)'
      BY <1>8, <1>9, <1>10
  <1>12. Outcomes(total, Cardinality(Closed), SupersededIn(Closed))'
      <2>1. Closed' = { q \in Measured' : Done(q)' }
          BY DEF Closed
      <2>2. CASE Correlates(e) /\ p \notin DOMAIN pending'
          <3>1. Closed' = Closed \cup {p} /\ p \notin Closed
              BY <1>8, <1>9, <1>10, <2>1, <2>2 DEF Closed
          <3>2. superseded[p] = NoneOfKind /\ p \in Publication
              BY <1>8, <2>2, PublicationsFinite
          <3>3. PICK g \in Counters :
                   total' = Add(total, g) /\ Outcomes(g, 1, NoneOfKind)
              BY <1>8, <2>2
          <3> QED
              BY <1>0, <1>1, <1>7, <3>1, <3>2, <3>3, OutcomesGrow DEF CleanInv
      <2>3. CASE ~(Correlates(e) /\ p \notin DOMAIN pending')
          <3>1. Closed' = Closed
              BY <1>8, <1>9, <1>10, <2>1, <2>3 DEF Closed
          <3>2. CASE Correlates(e)
              <4>1. PICK g \in Counters :
                       total' = Add(total, g) /\ Outcomes(g, 0, NoneOfKind)
                  BY <1>8, <2>3, <3>2
              <4> QED
                  BY <1>0, <1>1, <1>7, <3>1, <4>1, OutcomesKept DEF CleanInv
          <3>3. CASE ~Correlates(e)
              <4>1. SupersededIn(Closed)' = SupersededIn(Closed)
                  BY <1>1, <3>1 DEF SupersededIn
              <4> QED
                  BY <1>6, <3>1, <3>3, <4>1 DEF CleanInv
          <3> QED
              BY <3>2, <3>3
      <2> QED
          BY <2>2, <2>3
  <1>13. CleanInv'
      BY <1>1, <1>2, <1>11, <1>12 DEF CleanInv
  <1> QED
      BY <1>7, <1>13

\* WarmupRun: a callback of the warm-up keeps the types.
LEMMA WarmupRun ==
    ASSUME RunInv, TypeOK, NEW l \in Listener, HandleWarmup(l), UNCHANGED environment
    PROVE  /\ RunInv'
           /\ callback'[l].events = <<>>
           /\ \A m \in Listener \ {l} : callback'[m] = callback[m]
           /\ \A i \in DOMAIN callback[l].events :
                 callback[l].events[i] \in Sent(l, ticks)
  <1>1. /\ UNCHANGED <<channel, superseded, ticks, skew, measuring, stage, now,
                       acceptingNewBatches, pending>>
        /\ preMeasurementSequences' =
             preMeasurementSequences \cup WarmupSequences(callback[l].events)
        /\ callback' = [callback EXCEPT ![l] = Idle]
      BY DEF HandleWarmup, environment, history, clock, flags, main, counters
  <1>2. /\ callback'[l].events = <<>>
        /\ \A m \in Listener \ {l} : callback'[m] = callback[m]
      BY <1>1 DEF TypeOK, Idle
  <1>3. ticks \in Nat /\ callback[l].events \in Seq(Sent(l, ticks))
      BY PipelineAssumption DEF RunInv
  <1>4. \A i \in DOMAIN callback[l].events : callback[l].events[i] \in Sent(l, ticks)
      <2>1. \A q \in Seq(Sent(l, ticks)) : \A i \in DOMAIN q : q[i] \in Sent(l, ticks)
          OBVIOUS
      <2> QED
          BY <1>3, <2>1
  <1>5. WarmupSequences(callback[l].events) \subseteq 1..ticks
      <2>1. \A e \in Sent(l, ticks) :
               IsMarker(e) \/ e.type = "market" => e.sequence \in 1..ticks
          BY <1>3, SentIs DEF Listener, IsMarker
      <2> QED
          BY <1>4, <2>1 DEF WarmupSequences
  <1>6. \A m \in Listener :
           /\ callback'[m].events \in Seq(Sent(m, ticks))
           /\ callback'[m].phase = "idle" => callback'[m].events = <<>>
      <2>0. \A S : <<>> \in Seq(S)
          OBVIOUS
      <2>1. TAKE m \in Listener
      <2>2. CASE m = l
          BY <1>2, <2>0, <2>2
      <2>3. CASE m # l
          BY <1>2, <2>3 DEF RunInv
      <2> QED
          BY <2>2, <2>3
  <1>7. preMeasurementSequences' \subseteq 1..ticks /\ DOMAIN pending' \subseteq 1..ticks
      BY <1>1, <1>5 DEF RunInv
  <1>8. /\ measuring' <=> stage' # "warmup"
        /\ stage' = "measuring" => acceptingNewBatches'
        /\ now' \in {now, now + 1}
      BY <1>1 DEF RunInv
  <1>9. RunInv'
      BY <1>1, <1>6, <1>7, <1>8, RunKept
  <1> QED
      BY <1>2, <1>4, <1>9

\* WarmupClean: a callback of the warm-up excludes the publications it touches.
LEMMA WarmupClean ==
    ASSUME RunInv, IInv, CleanInv, NEW l \in Listener, HandleWarmup(l),
           UNCHANGED environment
    PROVE  RunInv' /\ CleanInv'
  <1>0. TypeOK /\ StageInv
      BY DEF IInv
  <1>1. /\ UNCHANGED <<channel, superseded, ticks, skew, measuring, allowConflation,
                       stage, final, now, acceptingNewBatches, task, total, pending>>
        /\ preMeasurementSequences' =
             preMeasurementSequences \cup WarmupSequences(callback[l].events)
        /\ callback' = [callback EXCEPT ![l] = Idle]
        /\ ~measuring
      BY DEF HandleWarmup, environment, history, clock, flags, main, counters
  <1>2. stage = "warmup" /\ final = <<>>
      <2>1. stage = "warmup"
          BY <1>1 DEF RunInv
      <2> QED
          BY <2>1 DEF CleanInv
  <1>3. /\ callback'[l].events = <<>>
        /\ \A m \in Listener \ {l} : callback'[m] = callback[m]
        /\ \A i \in DOMAIN callback[l].events :
              callback[l].events[i] \in Sent(l, ticks)
      BY <1>0, WarmupRun
  <1>4. ticks \in Nat /\ callback[l].events \in Seq(Sent(l, ticks))
      BY PipelineAssumption DEF RunInv
  <1>5. RunInv'
      BY <1>0, WarmupRun
  <1>6. Measured' \subseteq Measured
      BY <1>1 DEF Measured
  <1>7. ASSUME NEW q \in Measured'
        PROVE  /\ Announced(q)' = Announced(q)
               /\ \A k : Due(q, k)' = Due(q, k)
      <2>1. q \in Measured /\ q \notin WarmupSequences(callback[l].events)
          BY <1>1, <1>6 DEF Measured
      <2>2. q \in 1..MaxPublications /\ MaxPublications < MaxSequence
            /\ MaxPublications \in Nat /\ MaxSequence \in Nat
          BY <2>1, PublicationsFinite, PipelineAssumption, CollectorAssumption
             DEF Publication
      <2>3. \A e : e.sequence = q => Described(e)
          BY <2>2 DEF Described
      <2>4. ASSUME NEW V,
                   \A e \in Sent(l, ticks) :
                      e \in V => /\ e.sequence = q
                                 /\ IsMarker(e) \/ e.type = "market"
            PROVE  Flight(l, V)' = Flight(l, V)
          <3>1. \A i \in DOMAIN callback[l].events : callback[l].events[i] \notin V
              BY <1>3, <2>1, <2>3, <2>4 DEF WarmupSequences
          <3>2. Occ(callback[l].events, V) = 0
              BY <1>4, <3>1, OccNone
          <3>3. Occ(callback'[l].events, V) = 0
              BY <1>3, OccEmpty
          <3> QED
              BY <1>1, <3>2, <3>3 DEF Flight
      <2>5. \A m \in Listener \ {l} : \A V : Flight(m, V)' = Flight(m, V)
          BY <1>1, <1>3 DEF Flight
      <2>6. Announced(q)' = Announced(q)
          <3>1. CASE l = "control"
              <4>1. \A e \in Sent(l, ticks) :
                      e \in MarkersOf(q) => e.sequence = q /\ IsMarker(e)
                  BY <1>4, <3>1, SentIs DEF MarkersOf, IsMarker
              <4> QED
                  BY <2>4, <3>1, <4>1 DEF Announced
          <3>2. CASE l # "control"
              BY <2>5, <3>2 DEF Announced, Listener
          <3> QED
              BY <3>1, <3>2
      <2>7. ASSUME NEW k PROVE Due(q, k)' = Due(q, k)
          <3>1. CASE l = "market"
              <4>1. \A e \in Sent(l, ticks) :
                      e \in EventsOf(q, k) => e.sequence = q /\ e.type = "market"
                  BY <1>4, <3>1, SentIs DEF EventsOf
              <4> QED
                  BY <2>4, <3>1, <4>1 DEF Due
          <3>2. CASE l # "market"
              BY <2>5, <3>2 DEF Due, Listener
          <3> QED
              BY <3>1, <3>2
      <2> QED
          BY <2>6, <2>7
  <1>8. \A q \in Measured' : Accounted(q)' /\ ~Done(q)'
      <2>1. TAKE q \in Measured'
      <2>2. Accounted(q) /\ superseded'[q] = superseded[q]
          BY <1>1, <1>6 DEF CleanInv
      <2>3. Accounted(q)' /\ (Done(q)' <=> Done(q))
          BY <1>1, <1>7, <2>2, AccountedKept
      <2>4. ~Done(q)
          BY <1>1, <2>2 DEF Accounted, Done
      <2> QED
          BY <2>3, <2>4
  <1>9. Closed = {} /\ Closed' = {}
      <2>1. \A q \in Measured : ~Done(q)
          BY <1>1 DEF CleanInv, Accounted, Done
      <2>2. Closed' = { q \in Measured' : Done(q)' }
          BY DEF Closed
      <2> QED
          BY <1>8, <2>1, <2>2 DEF Closed
  <1>10. Outcomes(total, Cardinality(Closed), SupersededIn(Closed))'
      <2>1. SupersededIn(Closed)' = SupersededIn(Closed)
          BY <1>1, <1>9 DEF SupersededIn
      <2> QED
          BY <1>1, <1>9, <2>1 DEF CleanInv
  <1>11. CleanInv'
      BY <1>1, <1>2, <1>8, <1>10 DEF CleanInv
  <1> QED
      BY <1>5, <1>11

\* When all is quiet nothing is on its way.
LEMMA QuietNone ==
    ASSUME Quiet, NEW p
    PROVE  Announced(p) = 0 /\ \A k : Due(p, k) = 0
  <1>1. Contents(<<>>) = <<>>
      BY DEF Contents
  <1>2. \A l \in Listener : \A V : Flight(l, V) = 0
      BY <1>1, OccEmpty DEF Quiet, Flight
  <1> QED
      BY <1>2 DEF Announced, Due, Listener

\* ExpireRun: an expiry keeps the types.
LEMMA ExpireRun ==
    ASSUME RunInv, IInv, Expire
    PROVE  RunInv'
  <1>1. UNCHANGED <<channel, superseded, ticks, skew, measuring, stage, now, callback,
                    acceptingNewBatches, preMeasurementSequences>>
      BY DEF Expire, ExpireBatch, clock, flags, seen
  <1>2. DOMAIN pending' \subseteq DOMAIN pending
      BY DEF Expire, ExpireBatch, Erase
  <1>3. /\ measuring' <=> stage' # "warmup"
        /\ stage' = "measuring" => acceptingNewBatches'
        /\ \A l \in Listener :
             /\ callback'[l].events = callback[l].events
             /\ callback'[l].phase = "idle" => callback[l].events = <<>>
      BY <1>1 DEF RunInv
  <1> QED
      BY <1>1, <1>2, <1>3, RunSame

\* ExpireClean: what main() expires after the drain has its marker, and misses
\* what was superseded.
LEMMA ExpireClean ==
    ASSUME RunInv, IInv, IInv', CleanInv, Expire, ~disturbed'
    PROVE  RunInv' /\ CleanInv'
  <1>0. TypeOK /\ TypeOK' /\ StageInv
      BY DEF IInv
  <1>1. /\ ExpireBatch
        /\ UNCHANGED <<channel, superseded, ticks, skew, measuring, allowConflation,
                       stage, final, now, acceptingNewBatches, task, callback,
                       preMeasurementSequences>>
      BY DEF Expire, ExpireBatch, clock, flags, seen
  <1>2. stage = "ended" /\ Quiet /\ final = <<>>
      <2>1. stage = "ended"
          BY <1>0 DEF Expire, StageInv
      <2> QED
          BY <2>1 DEF CleanInv
  <1>3. PICK s \in expiring : /\ Accumulate(Finish(pending[s]))
                              /\ pending' = Erase(s)
      BY <1>1 DEF ExpireBatch
  <1>4. /\ s \in DOMAIN pending /\ pending[s] \in PendingBatch
        /\ s \in Measured /\ s \in Publication
      <2>1. s \in DOMAIN pending /\ pending[s] \in PendingBatch
          BY <1>0 DEF TypeOK
      <2>2. s \in Measured
          BY <2>1 DEF RunInv, IInv, WarmupExcluded, Measured
      <2> QED
          BY <2>1, <2>2, PublicationsFinite
  <1>5. /\ DOMAIN pending' = DOMAIN pending \ {s}
        /\ \A t \in DOMAIN pending' : pending'[t] = pending[t]
      BY <1>3 DEF Erase
  <1>6. RunInv'
      BY ExpireRun
  <1>7. \A m \in Listener : \A V : Flight(m, V)' = Flight(m, V)
      BY <1>1 DEF Flight
  <1>8. \A p : Announced(p)' = Announced(p) /\ \A k : Due(p, k)' = Due(p, k)
      BY <1>7 DEF Announced, Due, Listener
  <1>9. ASSUME NEW q \in Measured, q # s
        PROVE  Accounted(q)' /\ (Done(q)' <=> Done(q))
      <2>1. Accounted(q) /\ superseded'[q] = superseded[q]
          BY <1>1 DEF CleanInv
      <2>2. /\ q \in DOMAIN pending' <=> q \in DOMAIN pending
            /\ q \in DOMAIN pending => pending'[q] = pending[q]
          BY <1>5, <1>9
      <2> QED
          BY <1>1, <1>8, <2>1, <2>2, AccountedKept
  <1>10. /\ Accounted(s) /\ ~Done(s) /\ s \in Marked
         /\ Announced(s) = 0 /\ \A k \in Kind : Due(s, k) = 0
      <2>1. Accounted(s) /\ ~Done(s)
          BY <1>4 DEF CleanInv, Done
      <2>2. Announced(s) = 0 /\ \A k \in Kind : Due(s, k) = 0
          BY <1>2, QuietNone
      <2> QED
          BY <1>4, <2>1, <2>2 DEF Accounted
  <1>11. \A k \in Kind :
            /\ pending[s].receivedByKind[k] \in Nat /\ superseded[s][k] \in Int
            /\ Expected[k] \in Nat
            /\ superseded[s][k] = Expected[k] - pending[s].receivedByKind[k]
            /\ pending[s].receivedByKind[k] <= Expected[k]
            /\ superseded[s][k] >= 0
            /\ allowConflation \/ pending[s].receivedByKind[k] = Expected[k]
      <2>1. TAKE k \in Kind
      <2>2. /\ pending[s].receivedByKind[k] \in Nat /\ superseded[s][k] \in Int
            /\ Expected[k] \in Nat
          BY <1>4, CollectorAssumption DEF PendingBatch, RunInv
      <2>3. /\ 0 + pending[s].receivedByKind[k] + superseded[s][k] = Expected[k]
            /\ superseded[s][k] >= 0
            /\ allowConflation \/ superseded[s][k] = 0
          BY <1>4, <1>10 DEF Accounted, Got
      <2> QED
          BY <2>2, <2>3
  <1>12. /\ Finish(pending[s]) \in Counters
         /\ Outcomes(Finish(pending[s]), 1, superseded[s])
         /\ total' = Add(total, Finish(pending[s]))
      <2>1. allowConflation \/ HasExpectedComposition(pending[s])
          <3>1. pending[s].receivedByKind \in [Kind -> Nat] /\ Expected \in [Kind -> Nat]
              BY <1>4, CollectorAssumption DEF PendingBatch
          <3> QED
              BY <1>11, <3>1 DEF HasExpectedComposition
      <2>2. pending[s].timestamp # NoTime
          BY <1>10 DEF Marked
      <2>3. Outcomes(Finish(pending[s]), 1,
                     [k \in Kind |-> Expected[k] - pending[s].receivedByKind[k]])
          BY <1>4, <1>11, <2>1, <2>2, FinishOutcome
      <2>4. superseded[s] =
               [k \in Kind |-> Expected[k] - pending[s].receivedByKind[k]]
          <3>1. superseded[s] \in [Kind -> Int]
              BY <1>4 DEF RunInv
          <3> QED
              BY <1>11, <3>1
      <2> QED
          BY <1>3, <1>4, <2>3, <2>4, FinishBalanced DEF Accumulate
  <1>13. Accounted(s)' /\ Done(s)'
      <2>1. Done(s)'
          BY <1>5, <1>8, <1>10 DEF Done
      <2>2. measuring'
          BY <1>1, <1>2 DEF RunInv
      <2>3. \A k \in Kind : /\ superseded'[s][k] >= 0
                            /\ allowConflation' \/ superseded'[s][k] = 0
                            /\ Due(s, k)' = 0
          BY <1>1, <1>8, <1>10 DEF Accounted
      <2> QED
          BY <1>5, <1>8, <1>10, <2>1, <2>2, <2>3 DEF Accounted
  <1>14. Measured' = Measured
      BY <1>1 DEF Measured
  <1>15. Closed' = Closed \cup {s} /\ s \notin Closed
      <2>1. Closed' = { q \in Measured' : Done(q)' }
          BY DEF Closed
      <2> QED
          BY <1>4, <1>9, <1>10, <1>13, <1>14, <2>1 DEF Closed
  <1>16. Outcomes(total, Cardinality(Closed), SupersededIn(Closed))'
      BY <1>0, <1>1, <1>4, <1>6, <1>12, <1>15, OutcomesGrow DEF CleanInv
  <1>17. \A q \in Measured' : Accounted(q)'
      BY <1>9, <1>13, <1>14
  <1>18. Quiet'
      BY <1>1, <1>2 DEF Quiet
  <1>19. CleanInv'
      BY <1>1, <1>2, <1>16, <1>17, <1>18 DEF CleanInv
  <1> QED
      BY <1>6, <1>19

\* SteadyRun: a step that moves no message and touches no batch.
LEMMA SteadyRun ==
    ASSUME RunInv, TypeOK, CleanInv,
           UNCHANGED <<ticks, skew, channel, superseded, pending,
                       preMeasurementSequences, allowConflation>>,
           \A l \in Listener :
             /\ callback'[l].events = callback[l].events
             /\ callback'[l].phase = "idle" => callback[l].events = <<>>,
           measuring' <=> stage' # "warmup", measuring => measuring',
           stage' = "measuring" => acceptingNewBatches',
           now' \in {now, now + 1},
           total' = total \/ \E d \in Counters :
              Outcomes(d, 0, NoneOfKind) /\ total' = Add(total, d)
    PROVE  RunInv' /\ Steady
  <1>1. RunInv'
      BY RunSame
  <1>2. \A l \in Listener : \A V : Flight(l, V)' = Flight(l, V)
      BY SteadyFlights
  <1>3. allowConflation => Keyed(channel'["market"])
      BY DEF CleanInv
  <1>4. Steady
      BY <1>1, <1>2, <1>3, SteadyStep
  <1> QED
      BY <1>1, <1>4

\* SteadyClean: if it does not enter the stages after the measurement, nor
\* hands over the totals.
LEMMA SteadyClean ==
    ASSUME CleanInv, Steady,
           stage' \notin {"warmup", "measuring"} => Quiet',
           final' = final,
           final # <<>> => stage' \in {"closing", "closed"}
    PROVE  CleanInv'
  <1>1. final' # <<>> =>
           /\ stage' \in {"closing", "closed"}
           /\ Outcomes(final'[1], Cardinality(Measured'), SupersededIn(Measured)')
      BY DEF CleanInv, Steady
  <1> QED
      BY <1>1 DEF CleanInv, Steady

\* QuietKept: a quiet run stays quiet.
LEMMA QuietKept ==
    ASSUME Quiet, task' = task, channel' = channel,
           \A l \in Listener : callback'[l].events = callback[l].events
    PROVE  Quiet'
  BY DEF Quiet

\* ListenSteady: what the beginning and the end of a callback leave alone.
LEMMA ListenSteady ==
    ASSUME RunInv, TypeOK, NEW l \in Listener,
           HandleMeasured(l) \/ LeaveCallback(l), UNCHANGED environment
    PROVE  /\ UNCHANGED <<ticks, skew, channel, superseded, task, pending,
                          preMeasurementSequences, allowConflation, measuring,
                          acceptingNewBatches, stage, final, now>>
           /\ \A m \in Listener :
                /\ callback'[m].events = callback[m].events
                /\ callback'[m].phase = "idle" => callback[m].events = <<>>
           /\ \E d \in { [Zero EXCEPT !.callbacks = 1],
                         [Zero EXCEPT !.callbackSizes = 1], Zero } :
                 total' = Add(total, d)
  <1>1. /\ UNCHANGED <<ticks, skew, channel, superseded, task, pending,
                       preMeasurementSequences, allowConflation, measuring,
                       acceptingNewBatches, stage, final, now>>
        /\ callback' \in {[callback EXCEPT ![l].phase = "handling"],
                          [callback EXCEPT ![l] = Idle]}
        /\ callback' = [callback EXCEPT ![l] = Idle] => callback[l].events = <<>>
      <2>1. CASE HandleMeasured(l)
          <3>1. callback' = [callback EXCEPT ![l].phase = "handling"]
              BY <2>1 DEF HandleMeasured
          <3>2. callback'[l].phase = "handling"
              BY <3>1 DEF TypeOK
          <3>3. callback' # [callback EXCEPT ![l] = Idle]
              BY <3>2 DEF TypeOK, Idle
          <3>4. UNCHANGED <<pending, preMeasurementSequences, allowConflation,
                            measuring, acceptingNewBatches, stage, final, now>>
              BY <2>1 DEF HandleMeasured, clock, flags, main
          <3> QED
              BY <3>1, <3>3, <3>4 DEF environment, history
      <2>2. CASE LeaveCallback(l)
          BY <2>2 DEF LeaveCallback, clock, flags, seen, main, environment, history
      <2> QED
          BY <2>1, <2>2
  <1>2. \A m \in Listener :
           /\ callback'[m].events = callback[m].events
           /\ callback'[m].phase = "idle" => callback[m].events = <<>>
      <2>1. TAKE m \in Listener
      <2>2. CASE m # l
          <3>1. callback'[m] = callback[m]
              BY <1>1, <2>2 DEF TypeOK
          <3> QED
              BY <3>1 DEF RunInv
      <2>3. CASE m = l /\ callback' = [callback EXCEPT ![l] = Idle]
          BY <1>1, <2>3 DEF TypeOK, Idle
      <2>4. CASE m = l /\ callback' = [callback EXCEPT ![l].phase = "handling"]
          BY <2>4 DEF TypeOK
      <2> QED
          BY <1>1, <2>2, <2>3, <2>4
  <1>3. \E d \in { [Zero EXCEPT !.callbacks = 1],
                   [Zero EXCEPT !.callbackSizes = 1], Zero } :
           total' = Add(total, d)
      BY DEF HandleMeasured, LeaveCallback, Accumulate
  <1> QED
      BY <1>1, <1>2, <1>3

\* ListenClean: a callback during the measurement begins and ends.
LEMMA ListenClean ==
    ASSUME RunInv, IInv, CleanInv, NEW l \in Listener,
           HandleMeasured(l) \/ LeaveCallback(l), UNCHANGED environment
    PROVE  RunInv' /\ CleanInv'
  <1>0. TypeOK
      BY DEF IInv
  <1>1. UNCHANGED <<ticks, skew, channel, superseded, task, pending,
                    preMeasurementSequences, allowConflation, measuring,
                    acceptingNewBatches, stage, final, now>>
      BY <1>0, ListenSteady
  <1>2. \A m \in Listener :
           /\ callback'[m].events = callback[m].events
           /\ callback'[m].phase = "idle" => callback[m].events = <<>>
      BY <1>0, ListenSteady
  <1>3. \E d \in Counters : Outcomes(d, 0, NoneOfKind) /\ total' = Add(total, d)
      <2>1. CASE HandleMeasured(l)
          BY <2>1, NoOutcome, StatisticsNeutral DEF HandleMeasured, Accumulate
      <2>2. CASE LeaveCallback(l)
          BY <2>2, NoOutcome, StatisticsNeutral DEF LeaveCallback, Accumulate
      <2> QED
          BY <2>1, <2>2
  <1>4. /\ measuring' <=> stage' # "warmup"
        /\ stage' = "measuring" => acceptingNewBatches'
      BY <1>1 DEF RunInv
  <1>5. RunInv' /\ Steady
      BY <1>0, <1>1, <1>2, <1>3, <1>4, SteadyRun
  <1>6. stage' \notin {"warmup", "measuring"} => Quiet'
      BY <1>1, <1>2, QuietKept DEF CleanInv
  <1>7. CleanInv'
      <2>1. final # <<>> => stage' \in {"closing", "closed"}
          BY <1>1 DEF CleanInv
      <2> QED
          BY <1>1, <1>5, <1>6, <2>1, SteadyClean
  <1> QED
      BY <1>5, <1>7

\* BeginClean: the measurement begins with no batch.
LEMMA BeginClean ==
    ASSUME RunInv, IInv, CleanInv, Begin
    PROVE  RunInv' /\ CleanInv'
  <1>0. TypeOK /\ StageInv
      BY DEF IInv
  <1>1. /\ UNCHANGED <<ticks, skew, channel, superseded, preMeasurementSequences,
                       allowConflation, callback, total, final, now>>
        /\ stage = "warmup" /\ stage' = "measuring"
        /\ measuring' = TRUE /\ acceptingNewBatches' = TRUE
        /\ pending' = EmptyPending
      BY DEF Begin, BeginMeasurement, environment, history, clock, seen
  <1>2. pending' = pending
      <2>1. DOMAIN pending = {} /\ pending = [t \in DOMAIN pending |-> pending[t]]
          BY <1>0, <1>1 DEF StageInv, TypeOK
      <2> QED
          BY <1>1, <2>1 DEF EmptyPending
  <1>3. \A l \in Listener :
           /\ callback'[l].events = callback[l].events
           /\ callback'[l].phase = "idle" => callback[l].events = <<>>
      BY <1>1 DEF RunInv
  <1>4. RunInv' /\ Steady
      BY <1>0, <1>1, <1>2, <1>3, SteadyRun
  <1>5. final = <<>>
      BY <1>1 DEF CleanInv
  <1>6. CleanInv'
      BY <1>1, <1>4, <1>5, SteadyClean
  <1> QED
      BY <1>4, <1>6

\* EndClean: a drain that did not give up ends with nothing on its way.
LEMMA EndClean ==
    ASSUME RunInv, IInv, CleanInv, EndDrain, ~disturbed'
    PROVE  RunInv' /\ CleanInv'
  <1>0. TypeOK
      BY DEF IInv
  <1>1. /\ UNCHANGED <<ticks, skew, channel, superseded, preMeasurementSequences,
                       allowConflation, callback, total, final, now, measuring,
                       pending, task>>
        /\ stage = "measuring" /\ stage' = "ended"
        /\ Drained
      BY DEF EndDrain, EndMeasurement, clock, seen, counters
  <1>2. \A l \in Listener :
           /\ callback'[l].events = callback[l].events
           /\ callback'[l].phase = "idle" => callback[l].events = <<>>
      BY <1>1 DEF RunInv
  <1>3. measuring' <=> stage' # "warmup"
      BY <1>1 DEF RunInv
  <1>4. RunInv' /\ Steady
      BY <1>0, <1>1, <1>2, <1>3, SteadyRun
  <1>5. Quiet'
      BY <1>1 DEF Quiet, Drained, Idle
  <1>6. final = <<>>
      BY <1>1 DEF CleanInv
  <1>7. CleanInv'
      BY <1>1, <1>4, <1>5, <1>6, SteadyClean
  <1> QED
      BY <1>4, <1>7

\* FinishClean: windows, hand-overs and the end of the process.
LEMMA FinishClean ==
    ASSUME RunInv, IInv, CleanInv,
           TakeWindow(FALSE) \/ TakeWindow(TRUE) \/ ReturnWindow \/ Close,
           UNCHANGED environment
    PROVE  RunInv' /\ CleanInv'
  <1>0. TypeOK /\ StageInv
      BY DEF IInv
  <1>1. /\ UNCHANGED <<ticks, skew, channel, superseded, task, pending,
                       preMeasurementSequences, allowConflation, measuring,
                       acceptingNewBatches, final, now, callback, total>>
        /\ stage \in Stages
      BY <1>0 DEF TakeWindow, ReturnWindow, Close, clock, flags, seen, counters,
                  environment, history, TypeOK
  <1>2. /\ stage' = "warmup" <=> stage = "warmup"
        /\ stage' = "measuring" <=> stage = "measuring"
        /\ stage \in {"closing", "closed"} => stage' \in {"closing", "closed"}
      <2>1. CASE TakeWindow(FALSE) \/ TakeWindow(TRUE)
          BY <2>1 DEF TakeWindow
      <2>2. CASE ReturnWindow
          <3>1. stage \in {"measuring", "ended"} /\ (expireAll => stage = "ended")
              BY <1>0, <2>2 DEF ReturnWindow, StageInv
          <3> QED
              BY <2>2, <3>1 DEF ReturnWindow
      <2>3. CASE Close
          BY <2>3 DEF Close
      <2> QED
          BY <2>1, <2>2, <2>3
  <1>3. \A l \in Listener :
           /\ callback'[l].events = callback[l].events
           /\ callback'[l].phase = "idle" => callback[l].events = <<>>
      BY <1>1 DEF RunInv
  <1>4. /\ measuring' <=> stage' # "warmup"
        /\ stage' = "measuring" => acceptingNewBatches'
      BY <1>1, <1>2 DEF RunInv
  <1>5. RunInv' /\ Steady
      BY <1>0, <1>1, <1>3, <1>4, SteadyRun
  <1>6. stage' \notin {"warmup", "measuring"} => Quiet'
      BY <1>1, <1>2, QuietKept DEF CleanInv
  <1>7. final # <<>> => stage' \in {"closing", "closed"}
      BY <1>2 DEF CleanInv
  <1>8. CleanInv'
      BY <1>1, <1>5, <1>6, <1>7, SteadyClean
  <1> QED
      BY <1>5, <1>8

\* TotalsClean: when the totals are handed over every publication is finished.
LEMMA TotalsClean ==
    ASSUME RunInv, IInv, CleanInv, TakeTotals, UNCHANGED environment
    PROVE  RunInv' /\ CleanInv'
  <1>0. TypeOK /\ StageInv
      BY DEF IInv
  <1>1. /\ UNCHANGED <<ticks, skew, channel, superseded, task, pending,
                       preMeasurementSequences, allowConflation, measuring,
                       acceptingNewBatches, now, callback, total>>
        /\ stage = "reporting" /\ stage' = "closing" /\ final' = <<total>>
      BY DEF TakeTotals, clock, flags, seen, counters, environment, history
  <1>2. \A l \in Listener :
           /\ callback'[l].events = callback[l].events
           /\ callback'[l].phase = "idle" => callback[l].events = <<>>
      BY <1>1 DEF RunInv
  <1>3. /\ measuring' <=> stage' # "warmup"
        /\ stage' = "measuring" => acceptingNewBatches'
      BY <1>1 DEF RunInv
  <1>4. RunInv' /\ Steady
      BY <1>0, <1>1, <1>2, <1>3, SteadyRun
  <1>5. Quiet /\ Quiet'
      BY <1>1, <1>2, QuietKept DEF CleanInv
  <1>6. Closed = Measured
      <2>1. DOMAIN pending = {}
          BY <1>0, <1>1 DEF StageInv
      <2>2. \A p : Done(p)
          BY <1>5, <2>1, QuietNone DEF Done
      <2> QED
          BY <2>2 DEF Closed
  <1>7. Outcomes(total, Cardinality(Measured), SupersededIn(Measured))
      BY <1>6 DEF CleanInv
  <1>8. /\ final'[1] = total /\ Measured' = Measured
        /\ SupersededIn(Measured)' = SupersededIn(Measured)
      BY <1>1, <1>4 DEF Steady
  <1>9. Outcomes(final'[1], Cardinality(Measured'), SupersededIn(Measured)')
      BY <1>7, <1>8
  <1>10. CleanInv'
      BY <1>1, <1>4, <1>5, <1>9 DEF CleanInv, Steady
  <1> QED
      BY <1>4, <1>10

\* OtherClean: the clock, the task and the process when it has exited.
LEMMA OtherClean ==
    ASSUME RunInv, IInv, CleanInv,
           Idling \/ StopTask \/ RemoveTask \/ UNCHANGED pipelineVars
    PROVE  RunInv' /\ CleanInv'
  <1>0. TypeOK
      BY DEF IInv
  <1>1. /\ UNCHANGED <<ticks, skew, channel, superseded, pending, stage,
                       preMeasurementSequences, allowConflation, measuring,
                       acceptingNewBatches, final, callback, total>>
        /\ now' \in {now, now + 1}
        /\ Quiet => task' = task
      <2>1. CASE Tick /\ UNCHANGED environment
          BY <2>1 DEF Tick, environment, history, flags, seen, main, counters
      <2>2. CASE Exited /\ UNCHANGED environment
          BY <2>2 DEF Exited, vars, environment, history, clock, flags, seen, main,
                      counters
      <2>3. CASE StopTask
          BY <2>3 DEF StopTask, vars, history, clock, flags, seen, main, counters,
                      Quiet
      <2>4. CASE RemoveTask
          BY <2>4 DEF RemoveTask, vars, history, clock, flags, seen, main, counters,
                      Quiet
      <2>5. CASE UNCHANGED pipelineVars
          BY <2>5 DEF pipelineVars, vars, environment, history, clock, flags, seen,
                      main, counters
      <2> QED
          BY <2>1, <2>2, <2>3, <2>4, <2>5 DEF Idling
  <1>2. \A l \in Listener :
           /\ callback'[l].events = callback[l].events
           /\ callback'[l].phase = "idle" => callback[l].events = <<>>
      BY <1>1 DEF RunInv
  <1>3. /\ measuring' <=> stage' # "warmup"
        /\ stage' = "measuring" => acceptingNewBatches'
      BY <1>1 DEF RunInv
  <1>4. RunInv' /\ Steady
      BY <1>0, <1>1, <1>2, <1>3, SteadyRun
  <1>5. stage' \notin {"warmup", "measuring"} => Quiet'
      BY <1>1, <1>2, QuietKept DEF CleanInv
  <1>6. final # <<>> => stage' \in {"closing", "closed"}
      BY <1>1 DEF CleanInv
  <1>7. CleanInv'
      BY <1>1, <1>4, <1>5, <1>6, SteadyClean
  <1> QED
      BY <1>4, <1>7

-----------------------------------------------------------------------------
(* The clean runs.                                                         *)

\* CInv: the truth about a run that nothing has disturbed.
CInv == ~disturbed => RunInv /\ CleanInv

\* InitClean: nothing is published yet.
LEMMA InitClean == PipelineInit => RunInv /\ CleanInv
  <1> SUFFICES ASSUME PipelineInit PROVE RunInv /\ CleanInv
      OBVIOUS
  <1>1. /\ ticks = 0 /\ stage = "warmup" /\ ~measuring /\ final = <<>>
        /\ now = 1 /\ skew \in Nat
        /\ preMeasurementSequences = {} /\ DOMAIN pending = {} /\ total = Zero
        /\ superseded = [p \in Publication |-> NoneOfKind]
        /\ \A l \in Listener : callback[l] = Idle
      BY PipelineAssumption DEF PipelineInit, Init, EmptyPending
  <1>2. /\ DOMAIN channel = Listener
        /\ \A l \in Listener \ {"profiles"} : channel[l] = <<>>
        /\ channel["profiles"] = [i \in 1..Cardinality(Symbol) |->
                Message([type |-> "profile", symbol |-> i - 1], i - 1)]
      BY DEF PipelineInit, Listener
  <1>3. \A l \in Listener : channel[l] \in Seq(Messages(l, 0))
      <2>1. channel["profiles"] \in Seq(Messages("profiles", 0))
          <3>1. Cardinality(Symbol) \in Nat /\ Symbol = 0..Cardinality(Symbol) - 1
              BY PipelineAssumption, FS_CardinalityType
          <3>2. PICK c : c = Cardinality(Symbol)
              OBVIOUS
          <3>3. ASSUME NEW i \in 1..c
                PROVE  Message([type |-> "profile", symbol |-> i - 1], i - 1)
                          \in Messages("profiles", 0)
              <4>1. i - 1 \in Symbol /\ i - 1 \in Int
                  BY <3>1, <3>2
              <4> QED
                  BY <4>1 DEF Message, Messages, Sent, ProfileEvent
          <3>4. PICK f : f = [i \in 1..c |->
                   Message([type |-> "profile", symbol |-> i - 1], i - 1)]
              OBVIOUS
          <3>5. \A i \in 1..c : f[i] \in Messages("profiles", 0)
              BY <3>3, <3>4
          <3>6. f \in [1..c -> Messages("profiles", 0)]
              BY <3>4, <3>5
          <3>7. f \in Seq(Messages("profiles", 0))
              BY <3>1, <3>2, <3>6
          <3> QED
              BY <1>2, <3>2, <3>4, <3>7
      <2>2. \A S : <<>> \in Seq(S)
          OBVIOUS
      <2> QED
          BY <1>2, <2>1, <2>2
  <1>4. \A l \in Listener : callback[l].events = <<>>
      BY <1>1 DEF Idle
  <1>5. RunInv
      <2>1. \A S : <<>> \in Seq(S)
          OBVIOUS
      <2>2. superseded \in [Publication -> [Kind -> Int]]
          BY <1>1 DEF NoneOfKind
      <2>3. 0 \in 0..MaxPublications
          BY PipelineAssumption
      <2>4. \A l \in Listener :
               /\ channel[l] \in Seq(Messages(l, ticks))
               /\ callback[l].events \in Seq(Sent(l, ticks))
               /\ callback[l].phase = "idle" => callback[l].events = <<>>
          BY <1>1, <1>3, <1>4, <2>1
      <2>5. /\ DOMAIN pending \subseteq 1..ticks
            /\ preMeasurementSequences \subseteq 1..ticks
            /\ now \in Nat \ {0}
          BY <1>1
      <2> QED
          BY <1>1, <1>2, <2>2, <2>3, <2>4, <2>5 DEF RunInv
  <1>6. Measured = {} /\ Closed = {}
      BY <1>1 DEF Measured, Closed
  <1>7. SupersededIn({}) = NoneOfKind /\ Cardinality({}) = 0
      BY SumEmpty, FS_EmptySet DEF SupersededIn, NoneOfKind
  <1>8. Keyed(channel["market"])
      BY <1>2 DEF Keyed, Listener
  <1>9. Outcomes(total, Cardinality(Closed), SupersededIn(Closed))
      BY <1>1, <1>6, <1>7, NoOutcome
  <1>10. CleanInv
      BY <1>1, <1>6, <1>8, <1>9 DEF CleanInv
  <1> QED
      BY <1>5, <1>10

\* CleanStep: no step disturbs the accounts of a clean run but a fault, an
\* expiry during the measurement and a drain that gives up.
LEMMA CleanStep ==
    IInv /\ IInv' /\ CInv /\ [PipelineNext]_pipelineVars => CInv'
  <1> SUFFICES ASSUME IInv, IInv', CInv, [PipelineNext]_pipelineVars, ~disturbed'
               PROVE  RunInv' /\ CleanInv'
      BY DEF CInv
  <1> USE DEF CInv
  <1>1. CASE Publish
      <2>1. RunInv /\ CleanInv /\ TypeOK
          BY <1>1 DEF Publish, IInv
      <2>2. RunInv'
          BY <1>1, <2>1, PublishRun DEF CleanInv
      <2> QED
          BY <1>1, <2>1, <2>2, PublishClean
  <1>2. ASSUME NEW l \in Listener, Deliver(l) PROVE RunInv' /\ CleanInv'
      <2>1. RunInv /\ CleanInv /\ TypeOK
          BY <1>2 DEF Deliver, history, IInv
      <2>2. RunInv'
          BY <1>2, <2>1, DeliverFlights
      <2> QED
          BY <1>2, <2>1, <2>2, DeliverClean
  <1>3. ASSUME NEW l \in Listener, Handle(l) PROVE RunInv' /\ CleanInv'
      BY <1>3, HandleClean DEF Handle
  <1>4. ASSUME NEW l \in Listener, ListenOnly(l) PROVE RunInv' /\ CleanInv'
      <2>1. RunInv /\ CleanInv
          BY <1>4 DEF ListenOnly, environment, history
      <2> QED
          BY <1>4, <2>1, WarmupClean, ListenClean DEF ListenOnly
  <1>5. CASE \E l \in {"market", "control"} : Lose(l) \/ Repeat(l)
      BY <1>5 DEF Lose, Repeat
  <1>6. CASE Begin
      <2>1. RunInv /\ CleanInv
          BY <1>6 DEF Begin, environment, history
      <2> QED
          BY <1>6, <2>1, BeginClean
  <1>7. CASE EndDrain
      <2>1. RunInv /\ CleanInv
          BY <1>7 DEF EndDrain
      <2> QED
          BY <1>7, <2>1, EndClean
  <1>8. CASE Expire
      <2>1. RunInv /\ CleanInv
          BY <1>8 DEF Expire
      <2> QED
          BY <1>8, <2>1, ExpireClean
  <1>9. CASE Window \/ Finishing
      <2>1. RunInv /\ CleanInv /\ UNCHANGED environment
          BY <1>9 DEF Window, Finishing, environment, history
      <2> QED
          BY <1>9, <2>1, FinishClean, TotalsClean DEF Window, Finishing
  <1>10. CASE StopTask \/ RemoveTask \/ Idling \/ UNCHANGED pipelineVars
      <2>1. disturbed' = disturbed
          BY <1>10 DEF StopTask, RemoveTask, Idling, pipelineVars, environment, history
      <2> QED
          BY <1>10, <2>1, OtherClean
  <1> QED
      BY <1>1, <1>2, <1>3, <1>4, <1>5, <1>6, <1>7, <1>8, <1>9, <1>10
         DEF PipelineNext

\* CleanRunsExact: whatever the order of markers, events, callbacks and windows
\* and for every task, a run that nothing disturbs reports the truth.
THEOREM CleanRunsExact == PipelineSpec => []CleanRunExact
  <1>1. PipelineInit => IInv /\ CInv
      BY InitInvariant, InitClean DEF PipelineInit, CInv
  <1>2. IInv /\ CInv /\ [PipelineNext]_pipelineVars => (IInv /\ CInv)'
      <2>1. [PipelineNext]_pipelineVars => [Next]_vars
          BY StepIsCollectorStep DEF pipelineVars
      <2> QED
          BY <2>1, NextInvariant, CleanStep
  <1>3. CInv => CleanRunExact
      <2> SUFFICES ASSUME CInv, final # <<>>, ~disturbed, NEW c, c = final[1]
                   PROVE  /\ c.full + c.partial + c.empty = Cardinality(Measured)
                          /\ c.excess = NoneOfKind
                          /\ c.uncorrelated = 0
                          /\ c.missing = 0
                          /\ \A k \in Kind : c.listenerDeficit[k] = SupersededOf(k)
          BY DEF CleanRunExact
      <2>1. Outcomes(c, Cardinality(Measured), SupersededIn(Measured))
          BY DEF CInv, CleanInv
      <2>2. \A k \in Kind : SupersededIn(Measured)[k] = SupersededOf(k)
          BY DEF SupersededIn, SupersededOf
      <2> QED
          BY <2>1, <2>2 DEF Outcomes
  <1> QED
      BY <1>1, <1>2, <1>3, PTL DEF PipelineSpec

-----------------------------------------------------------------------------
(* Samples by kind: a kind never has more samples than deliveries.         *)

\* The retained events of a kind.
OfKind(k) == { e \in PendingEvent : e.kind = k }

\* What an open publication has received of a kind.
GotOf(k) == [b \in PendingBatch |-> b.receivedByKind[k]]

\* A value of the open publications, added up.
OpenSum(w) == SumFunctionOnSet([s \in DOMAIN pending |-> w[pending[s]]], Marked)

\* The bound on the samples of a kind while the open publications have
\* received n of its events, and on those of whole publications.
Bounded(c, k, n) ==
    /\ c.events[k] <= c.delivered[k] + n
    /\ c.batches <= c.full + c.partial

\* A batch retains the events of each kind until its marker arrives.
Keeps(batch, k, n) == Occ(batch.events, OfKind(k)) = n

AllKept ==
    \A s \in DOMAIN pending, k \in Kind :
        Keeps(pending[s], k,
              IF pending[s].timestamp = NoTime
              THEN pending[s].receivedByKind[k] ELSE 0)

KindInv ==
    /\ IInv
    /\ AllKept
    /\ \A k \in Kind : Bounded(total, k, OpenSum(GotOf(k)))

\* BoundedAdd: the bound is additive.
LEMMA BoundedAdd ==
    ASSUME NEW c \in Counters, NEW d \in Counters, NEW k \in Kind,
           NEW n \in Int, NEW m \in Int, Bounded(c, k, n), Bounded(d, k, m)
    PROVE  Bounded(Add(c, d), k, n + m)
  <1> DEFINE a == Add(c, d)
  <1>1. /\ c.delivered[k] \in Nat /\ d.delivered[k] \in Nat
        /\ c.events[k] \in Nat /\ d.events[k] \in Nat
        /\ c.full \in Nat /\ d.full \in Nat
        /\ c.partial \in Nat /\ d.partial \in Nat
        /\ c.batches \in Nat /\ d.batches \in Nat
      BY DEF Counters, PerKind
  <1>2. /\ a.delivered[k] = c.delivered[k] + d.delivered[k]
        /\ a.events[k] = c.events[k] + d.events[k]
        /\ a.full = c.full + d.full /\ a.partial = c.partial + d.partial
        /\ a.batches = c.batches + d.batches
      BY DEF Add, AddKinds
  <1> HIDE DEF a
  <1>3. Bounded(a, k, n + m)
      BY <1>1, <1>2 DEF Bounded
  <1> QED
      BY <1>3 DEF a

\* OtherCountsBounded: what is neither delivery nor sample.
LEMMA OtherCountsBounded ==
    ASSUME NEW k \in Kind
    PROVE  /\ Bounded(Zero, k, 0)
           /\ Bounded([Zero EXCEPT !.callbacks = 1], k, 0)
           /\ Bounded([Zero EXCEPT !.callbackSizes = 1], k, 0)
           /\ Bounded([Zero EXCEPT !.published = Expected], k, 0)
  <1>1. \A d : d.events = NoneOfKind /\ d.delivered = NoneOfKind /\ d.batches = 0
               /\ d.full = 0 /\ d.partial = 0 => Bounded(d, k, 0)
      BY DEF Bounded, NoneOfKind
  <1> QED
      BY <1>1 DEF Zero

\* EmissionBounded: emitEvents takes at most one sample of a retained event.
LEMMA EmissionBounded ==
    ASSUME NEW batch \in PendingBatch, batch.timestamp # NoTime, NEW k \in Kind
    PROVE  /\ Bounded(Emission(batch), k, Occ(batch.events, OfKind(k)))
           /\ Occ(batch.events, OfKind(k)) \in Nat
  <1> DEFINE E == batch.events
             late == { i \in DOMAIN E : /\ E[i].kind = k
                                        /\ E[i].observed >= batch.timestamp }
             d == Emission(batch)
  <1>1. E \in Seq(PendingEvent)
      BY DEF PendingBatch
  <1>2. /\ d.delivered[k] = 0 /\ d.full = 0 /\ d.partial = 0 /\ d.batches = 0
        /\ d.events[k] = Cardinality(late)
      BY DEF Emission, Zero, NoneOfKind
  <1>3. late \subseteq Places(E, OfKind(k))
      BY <1>1 DEF Places, OfKind
  <1>4. /\ IsFiniteSet(Places(E, OfKind(k))) /\ Occ(E, OfKind(k)) \in Nat
        /\ Occ(E, OfKind(k)) = Cardinality(Places(E, OfKind(k)))
      BY <1>1, OccType DEF Occ
  <1> HIDE DEF late, d, E
  <1>5. Cardinality(late) <= Occ(E, OfKind(k)) /\ Cardinality(late) \in Nat
      BY <1>3, <1>4, FS_Subset, FS_CardinalityType
  <1>6. Bounded(d, k, Occ(E, OfKind(k)))
      BY <1>2, <1>4, <1>5 DEF Bounded
  <1> QED
      BY <1>4, <1>6 DEF d, E

\* CorrelatedBounded: finish delivers what was received.
LEMMA CorrelatedBounded ==
    ASSUME NEW batch \in PendingBatch, NEW k \in Kind
    PROVE  Bounded(FinishCorrelated(batch), k, -batch.receivedByKind[k])
  <1> DEFINE d == FinishCorrelated(batch)
             complete == HasExpectedComposition(batch)
             delta == batch.lastObserved - batch.timestamp
             some == batch.received > 0
  <1>1. /\ d.delivered[k] = batch.receivedByKind[k] /\ d.events[k] = 0
        /\ d.full = (IF complete THEN 1 ELSE 0)
        /\ d.partial = (IF ~complete /\ some THEN 1 ELSE 0)
        /\ d.batches = (IF some /\ delta >= 0 THEN 1 ELSE 0)
      BY DEF FinishCorrelated, Zero, NoneOfKind
  <1>2. batch.receivedByKind[k] \in Nat
      BY DEF PendingBatch
  <1> HIDE DEF d, complete, some, delta
  <1>3. d.batches <= d.full + d.partial
      BY <1>1
  <1>4. Bounded(d, k, -batch.receivedByKind[k])
      BY <1>1, <1>2, <1>3 DEF Bounded
  <1> QED
      BY <1>4 DEF d

\* FinishBounded: so does a batch whose events have been emitted.
LEMMA FinishBounded ==
    ASSUME NEW batch \in PendingBatch, NEW k \in Kind,
           batch.timestamp # NoTime => Keeps(batch, k, 0)
    PROVE  Bounded(Finish(batch), k,
               IF batch.timestamp = NoTime THEN 0 ELSE -batch.receivedByKind[k])
  <1>1. CASE batch.timestamp = NoTime
      <2>1. Bounded(FinishUncorrelated(batch), k, 0)
          BY DEF FinishUncorrelated, Zero, Bounded, NoneOfKind
      <2> QED
          BY <1>1, <2>1 DEF Finish
  <1>2. CASE batch.timestamp # NoTime
      <2>1. batch.receivedByKind[k] \in Nat
          BY DEF PendingBatch
      <2>2. Bounded(Emission(batch), k, 0)
          BY <1>2, EmissionBounded DEF Keeps
      <2>3. Bounded(Add(Emission(batch), FinishCorrelated(batch)), k,
                    0 + (-batch.receivedByKind[k]))
          BY <2>1, <2>2, CorrelatedBounded, BoundedAdd, EmissionBalanced,
             CorrelatedBalanced
      <2>4. 0 + (-batch.receivedByKind[k]) = -batch.receivedByKind[k]
          BY <2>1
      <2> QED
          BY <1>2, <2>3, <2>4 DEF Finish
  <1> QED
      BY <1>1, <1>2

\* OpenSumType: the sum is a number.
LEMMA OpenSumType ==
    ASSUME TypeOK, NEW w, \A b \in PendingBatch : w[b] \in Int
    PROVE  OpenSum(w) \in Int
  <1> DEFINE f == [s \in DOMAIN pending |-> w[pending[s]]]
  <1>1. IsFiniteSet(Marked) /\ Marked \subseteq DOMAIN pending
      BY MarkedFinite
  <1>2. \A s \in Marked : f[s] \in Int
      BY <1>1 DEF TypeOK
  <1> HIDE DEF f
  <1>3. SumFunctionOnSet(f, Marked) \in Int
      BY <1>1, <1>2, SumType
  <1> QED
      BY <1>3 DEF f, OpenSum

\* OpenSumErase: a batch leaves pending_.
LEMMA OpenSumErase ==
    ASSUME TypeOK, NEW s, pending' = Erase(s),
           NEW w, \A b \in PendingBatch : w[b] \in Int
    PROVE  SumFunctionOnSet([t \in DOMAIN pending' |-> w[pending'[t]]], Marked') =
             OpenSum(w) - (IF s \in Marked THEN w[pending[s]] ELSE 0)
  <1> DEFINE f == [t \in DOMAIN pending |-> w[pending[t]]]
             g == [t \in DOMAIN pending' |-> w[pending'[t]]]
  <1>1. /\ Marked' = Marked \ {s}
        /\ \A t \in Marked' : pending'[t] = pending[t] /\ t \in DOMAIN pending'
      BY EraseBatch DEF Marked
  <1>2. /\ IsFiniteSet(Marked) /\ Marked \subseteq DOMAIN pending
        /\ IsFiniteSet(Marked \ {s})
      BY MarkedFinite, FS_Subset
  <1>3. \A t \in Marked : f[t] = w[pending[t]] /\ f[t] \in Int
      BY <1>2 DEF TypeOK
  <1>4. \A t \in Marked \ {s} : g[t] = f[t]
      BY <1>1, <1>3
  <1> HIDE DEF f, g
  <1>5. SumFunctionOnSet(g, Marked \ {s}) = SumFunctionOnSet(f, Marked \ {s})
      BY <1>2, <1>4, SumEqual
  <1>6. SumFunctionOnSet(g, Marked') = SumFunctionOnSet(f, Marked \ {s})
      BY <1>1, <1>5, Zenon
  <1>7. /\ SumFunctionOnSet(f, Marked) \in Int
        /\ SumFunctionOnSet(f, Marked \ {s}) \in Int
      BY <1>2, <1>3, SumType
  <1>8. SumFunctionOnSet(f, Marked) = SumFunctionOnSet(f, Marked \ {s})
                                        + (IF s \in Marked THEN w[pending[s]] ELSE 0)
      <2>1. CASE s \in Marked
          <3>1. SumFunctionOnSet(f, Marked) = f[s] + SumFunctionOnSet(f, Marked \ {s})
              BY <1>2, <1>3, <2>1, SumRemove
          <3> QED
              BY <1>3, <1>7, <2>1, <3>1
      <2>2. CASE s \notin Marked
          <3>1. Marked \ {s} = Marked
              BY <2>2
          <3>2. SumFunctionOnSet(f, Marked) = SumFunctionOnSet(f, Marked \ {s})
              BY <3>1, Zenon
          <3> QED
              BY <1>7, <2>2, <3>2
      <2> QED
          BY <2>1, <2>2
  <1>9. s \in Marked => w[pending[s]] \in Int
      BY <1>3
  <1>10. SumFunctionOnSet(g, Marked') = SumFunctionOnSet(f, Marked)
                                        - (IF s \in Marked THEN w[pending[s]] ELSE 0)
      BY <1>6, <1>7, <1>8, <1>9
  <1> QED
      BY <1>10 DEF f, g, OpenSum

\* OpenSumStore: a batch is stored.
LEMMA OpenSumStore ==
    ASSUME TypeOK, NEW s \in Int, NEW batch \in PendingBatch,
           pending' = Store(s, batch),
           batch.timestamp = NoTime => s \notin Marked,
           NEW w, \A b \in PendingBatch : w[b] \in Int
    PROVE  SumFunctionOnSet([t \in DOMAIN pending' |-> w[pending'[t]]], Marked') =
             OpenSum(w) + (IF batch.timestamp = NoTime THEN 0
                           ELSE w[batch] - (IF s \in Marked
                                            THEN w[pending[s]] ELSE 0))
  <1> DEFINE f == [t \in DOMAIN pending |-> w[pending[t]]]
             g == [t \in DOMAIN pending' |-> w[pending'[t]]]
             rest == SumFunctionOnSet(f, Marked \ {s})
             old == IF s \in Marked THEN w[pending[s]] ELSE 0
  <1>1. /\ Marked' = IF batch.timestamp = NoTime THEN Marked \ {s}
                     ELSE Marked \cup {s}
        /\ pending'[s] = batch
        /\ DOMAIN pending' = DOMAIN pending \cup {s}
        /\ \A t \in DOMAIN pending \ {s} : pending'[t] = pending[t]
      BY StoreBatch
  <1>2. /\ IsFiniteSet(Marked) /\ Marked \subseteq DOMAIN pending
        /\ IsFiniteSet(Marked \ {s})
      BY MarkedFinite, FS_Subset
  <1>3. \A t \in Marked : f[t] = w[pending[t]] /\ f[t] \in Int
      BY <1>2 DEF TypeOK
  <1>4. \A t \in Marked \ {s} : g[t] = f[t]
      BY <1>1, <1>2, <1>3
  <1>5. g[s] = w[batch] /\ w[batch] \in Int
      BY <1>1
  <1> HIDE DEF f, g
  <1>6. /\ SumFunctionOnSet(g, Marked \ {s}) = rest /\ rest \in Int
        /\ SumFunctionOnSet(f, Marked) \in Int
      <2>1. \A t \in Marked \ {s} : f[t] \in Int
          BY <1>3
      <2>2. SumFunctionOnSet(g, Marked \ {s}) = SumFunctionOnSet(f, Marked \ {s})
          BY <1>2, <1>4, SumEqual
      <2> QED
          BY <1>2, <1>3, <2>1, <2>2, SumType
  <1>7. SumFunctionOnSet(f, Marked) = rest + old /\ old \in Int
      <2>1. CASE s \in Marked
          <3>1. SumFunctionOnSet(f, Marked) = f[s] + SumFunctionOnSet(f, Marked \ {s})
              BY <1>2, <1>3, <2>1, SumRemove
          <3> QED
              BY <1>3, <1>6, <2>1, <3>1
      <2>2. CASE s \notin Marked
          <3>1. Marked \ {s} = Marked
              BY <2>2
          <3>2. SumFunctionOnSet(f, Marked) = rest
              BY <3>1, Zenon
          <3> QED
              BY <1>6, <2>2, <3>2
      <2> QED
          BY <2>1, <2>2
  <1>8. CASE batch.timestamp = NoTime
      <2>1. Marked' = Marked \ {s} /\ s \notin Marked
          BY <1>1, <1>8
      <2>2. SumFunctionOnSet(g, Marked') = rest
          BY <1>6, <2>1, Zenon
      <2>3. SumFunctionOnSet(g, Marked') = SumFunctionOnSet(f, Marked) + 0
          BY <1>6, <1>7, <2>1, <2>2
      <2> QED
          BY <1>8, <2>3 DEF f, g, OpenSum
  <1>9. CASE batch.timestamp # NoTime
      <2>1. Marked' = Marked \cup {s} /\ s \in Marked' /\ Marked' \ {s} = Marked \ {s}
          BY <1>1, <1>9
      <2>2. IsFiniteSet(Marked')
          BY <1>2, <2>1, FS_AddElement
      <2>3. \A t \in Marked' : g[t] \in Int
          BY <1>3, <1>4, <1>5, <2>1
      <2>4. SumFunctionOnSet(g, Marked') =
              g[s] + SumFunctionOnSet(g, Marked' \ {s})
          <3>1. PICK T : T = Marked'
              OBVIOUS
          <3>2. IsFiniteSet(T) /\ (\A t \in T : g[t] \in Int) /\ s \in T
              BY <2>1, <2>2, <2>3, <3>1
          <3>3. SumFunctionOnSet(g, T) = g[s] + SumFunctionOnSet(g, T \ {s})
              BY <3>2, SumRemove, ZenonT(30)
          <3> QED
              BY <3>1, <3>3
      <2>5. SumFunctionOnSet(g, Marked' \ {s}) = rest
          BY <1>6, <2>1, Zenon
      <2> HIDE DEF rest, old
      <2>6. SumFunctionOnSet(g, Marked') = SumFunctionOnSet(f, Marked) + (w[batch] - old)
          BY <1>5, <1>6, <1>7, <2>4, <2>5
      <2> QED
          BY <1>9, <2>6 DEF f, g, OpenSum, old
  <1> QED
      BY <1>8, <1>9

\* What had been received of a kind when the batch was last emitted.
BeforeOf(s, k) == IF s \in Marked THEN pending[s].receivedByKind[k] ELSE 0

KindBounds == \A k \in Kind : Bounded(total, k, OpenSum(GotOf(k)))

\* GotType: what was received of a kind is a number.
LEMMA GotType ==
    ASSUME NEW k \in Kind
    PROVE  \A b \in PendingBatch :
             /\ GotOf(k)[b] = b.receivedByKind[k]
             /\ GotOf(k)[b] \in Int /\ b.receivedByKind[k] \in Nat
  BY DEF GotOf, PendingBatch

\* BeforeType: likewise of a batch that may not exist.
LEMMA BeforeType ==
    ASSUME TypeOK, NEW s, NEW k \in Kind
    PROVE  BeforeOf(s, k) \in Int
  <1>1. s \in Marked => pending[s] \in PendingBatch
      BY DEF Marked, TypeOK
  <1> QED
      BY <1>1, GotType DEF BeforeOf

\* SettleKeeps: Settle retains events only of unmarked batches.
LEMMA SettleKeeps ==
    ASSUME TypeOK, AllKept, NEW s \in Int, NEW batch \in PendingBatch,
           batch.timestamp = NoTime => s \notin Marked,
           NEW d, Settle(s, batch, d),
           \A k \in Kind : Keeps(batch, k, batch.receivedByKind[k] - BeforeOf(s, k))
    PROVE  /\ AllKept'
           /\ \A k \in Kind : batch.timestamp # NoTime => Keeps(Emitted(batch), k, 0)
  <1> DEFINE emitted == Emitted(batch)
  <1>1. /\ emitted \in PendingBatch
        /\ emitted.timestamp = batch.timestamp
        /\ emitted.receivedByKind = batch.receivedByKind
        /\ emitted.events =
             IF batch.timestamp = NoTime THEN batch.events ELSE <<>>
      BY EmittedType DEF Emitted, PendingBatch
  <1>2. \A k \in Kind : batch.receivedByKind[k] \in Nat
      BY GotType
  <1>3. ASSUME NEW k \in Kind
        PROVE  Keeps(emitted, k, IF emitted.timestamp = NoTime
                                 THEN emitted.receivedByKind[k] ELSE 0)
      <2>1. CASE batch.timestamp = NoTime
          <3>1. Occ(batch.events, OfKind(k)) = batch.receivedByKind[k] - 0
              BY <2>1 DEF Keeps, BeforeOf
          <3>2. Occ(emitted.events, OfKind(k)) = Occ(batch.events, OfKind(k))
              BY <1>1, <2>1
          <3> HIDE DEF emitted
          <3> QED
              BY <1>1, <1>2, <2>1, <3>1, <3>2 DEF Keeps
      <2>2. CASE batch.timestamp # NoTime
          <3>1. emitted.events = <<>>
              BY <1>1, <2>2
          <3> HIDE DEF emitted
          <3> QED
              BY <1>1, <2>2, <3>1, OccEmpty DEF Keeps
      <2> QED
          BY <2>1, <2>2
  <1>4. ASSUME NEW t \in DOMAIN pending', NEW k \in Kind
        PROVE  Keeps(pending'[t], k,
                     IF pending'[t].timestamp = NoTime
                     THEN pending'[t].receivedByKind[k] ELSE 0)
      <2>1. CASE pending' = Erase(s)
          <3>1. t \in DOMAIN pending /\ pending'[t] = pending[t]
              BY <2>1 DEF Erase
          <3> QED
              BY <3>1 DEF AllKept
      <2>2. CASE pending' = Store(s, emitted)
          <3>1. \/ t = s /\ pending'[t] = emitted
                \/ t \in DOMAIN pending /\ pending'[t] = pending[t]
              BY <2>2 DEF Store
          <3> HIDE DEF emitted
          <3> QED
              BY <1>3, <3>1 DEF AllKept
      <2> QED
          BY <2>1, <2>2 DEF Settle
  <1>5. AllKept'
      BY <1>4 DEF AllKept, Keeps
  <1> QED
      BY <1>1, <1>3, <1>5

\* SettleBounded: whether the batch is finished or stored, its emission is
\* covered by what it has received.
LEMMA SettleBounded ==
    ASSUME TypeOK, KindBounds, NEW s \in Int, NEW batch \in PendingBatch,
           batch.timestamp = NoTime => s \notin Marked,
           NEW d \in Counters, Settle(s, batch, d), NEW k \in Kind,
           Keeps(batch, k, batch.receivedByKind[k] - BeforeOf(s, k)),
           batch.timestamp # NoTime => Keeps(Emitted(batch), k, 0),
           Bounded(d, k, 0)
    PROVE  Bounded(total, k, OpenSum(GotOf(k)))'
  <1> DEFINE emitted == Emitted(batch)
             gained == Add(d, Emission(batch))
             finished == Finish(emitted)
             done == batch.timestamp # NoTime /\ HasExpectedComposition(batch)
             got == batch.receivedByKind[k]
             n == IF batch.timestamp = NoTime THEN 0 ELSE got - BeforeOf(s, k)
             open == OpenSum(GotOf(k))
  <1>1. /\ emitted \in PendingBatch
        /\ emitted.timestamp = batch.timestamp
        /\ emitted.receivedByKind = batch.receivedByKind
      BY EmittedType DEF Emitted, PendingBatch
  <1>2. got \in Nat /\ BeforeOf(s, k) \in Int /\ n \in Int /\ open \in Int
      BY GotType, BeforeType, OpenSumType
  <1>3. gained \in Counters /\ Emission(batch) \in Counters
      BY EmissionBalanced, CountersClosed
  <1>4. Bounded(gained, k, n)
      <2>1. Bounded(Emission(batch), k, n)
          <3>1. CASE batch.timestamp = NoTime
              BY <3>1, OtherCountsBounded DEF Emission
          <3>2. CASE batch.timestamp # NoTime
              BY <3>2, EmissionBounded DEF Keeps
          <3> QED
              BY <3>1, <3>2
      <2> HIDE DEF n
      <2>2. Bounded(gained, k, 0 + n)
          BY <1>2, <1>3, <2>1, BoundedAdd
      <2>3. 0 + n = n
          BY <1>2
      <2> QED
          BY <2>2, <2>3
  <1>5. /\ Bounded(total, k, open) /\ total \in Counters
        /\ \A b \in PendingBatch : GotOf(k)[b] \in Int /\ GotOf(k)[b] = b.receivedByKind[k]
        /\ s \in Marked => pending[s] \in PendingBatch
      BY GotType DEF KindBounds, TypeOK, Marked
  <1>6. OpenSum(GotOf(k))' =
          SumFunctionOnSet([t \in DOMAIN pending' |-> GotOf(k)[pending'[t]]], Marked')
      BY DEF OpenSum, GotOf
  <1>7. CASE done
      <2>1. pending' = Erase(s) /\ total' = Add(total, Add(gained, finished))
          BY <1>7 DEF Settle, Accumulate
      <2>2. OpenSum(GotOf(k))' = open - BeforeOf(s, k)
          <3>1. SumFunctionOnSet([t \in DOMAIN pending' |-> GotOf(k)[pending'[t]]],
                                 Marked') =
                  open - (IF s \in Marked THEN GotOf(k)[pending[s]] ELSE 0)
              BY <1>5, <2>1, OpenSumErase
          <3> QED
              BY <1>5, <1>6, <3>1 DEF BeforeOf
      <2>3. finished \in Counters /\ Bounded(finished, k, -got)
          <3>1. emitted.timestamp # NoTime /\ emitted.receivedByKind[k] = got
              BY <1>1, <1>7
          <3>2. Keeps(emitted, k, 0)
              BY <1>7
          <3> HIDE DEF emitted, got
          <3> QED
              BY <1>1, <3>1, <3>2, FinishBalanced, FinishBounded
      <2>4. n = got - BeforeOf(s, k) /\ -got \in Int
          BY <1>2, <1>7
      <2> HIDE DEF gained, finished, n, done, emitted, got, open
      <2>5. Add(gained, finished) \in Counters /\ Bounded(Add(gained, finished), k, n + (-got))
          BY <1>2, <1>3, <1>4, <2>3, <2>4, BoundedAdd, CountersClosed
      <2>6. n + (-got) \in Int /\ open + (n + (-got)) = open - BeforeOf(s, k)
          BY <1>2, <2>4
      <2>7. Bounded(total', k, open + (n + (-got)))
          BY <1>2, <1>5, <2>1, <2>5, <2>6, BoundedAdd
      <2>8. Bounded(total', k, OpenSum(GotOf(k))')
          BY <2>2, <2>6, <2>7
      <2> QED
          BY <2>8 DEF Bounded
  <1>8. CASE ~done
      <2>1. pending' = Store(s, emitted) /\ total' = Add(total, gained)
          BY <1>8 DEF Settle, Accumulate
      <2>2. OpenSum(GotOf(k))' = open + n
          <3>1. SumFunctionOnSet([t \in DOMAIN pending' |-> GotOf(k)[pending'[t]]],
                                 Marked') =
                  open + (IF emitted.timestamp = NoTime THEN 0
                          ELSE GotOf(k)[emitted]
                                 - (IF s \in Marked THEN GotOf(k)[pending[s]] ELSE 0))
              <4> HIDE DEF emitted
              <4> QED
                  BY <1>1, <1>5, <2>1, OpenSumStore
          <3>2. GotOf(k)[emitted] = got
              BY <1>1, <1>5
          <3>3. (IF s \in Marked THEN GotOf(k)[pending[s]] ELSE 0) = BeforeOf(s, k)
              BY <1>5 DEF BeforeOf
          <3> QED
              BY <1>1, <1>6, <3>1, <3>2, <3>3
      <2> HIDE DEF gained, finished, n, done, emitted, got, open
      <2>3. Bounded(total', k, open + n)
          BY <1>2, <1>3, <1>4, <1>5, <2>1, BoundedAdd
      <2>4. Bounded(total', k, OpenSum(GotOf(k))')
          BY <2>2, <2>3
      <2> QED
          BY <2>4 DEF Bounded
  <1> QED
      BY <1>7, <1>8

\* BatchOfKept: a batch before an event is added, existing or new.
LEMMA BatchOfKept ==
    ASSUME TypeOK, AllKept, NEW s, NEW k \in Kind
    PROVE  /\ BatchOf(s).receivedByKind[k] \in Nat
           /\ Keeps(BatchOf(s), k, BatchOf(s).receivedByKind[k] - BeforeOf(s, k))
  <1>0. BatchOf(s) \in PendingBatch /\ BatchOf(s).receivedByKind[k] \in Nat
      BY BatchOfType, GotType
  <1>1. CASE s \in DOMAIN pending
      <2>1. BatchOf(s) = pending[s]
          BY <1>1 DEF BatchOf
      <2>2. Keeps(pending[s], k, IF pending[s].timestamp = NoTime
                                 THEN pending[s].receivedByKind[k] ELSE 0)
          BY <1>1 DEF AllKept
      <2> QED
          BY <1>0, <1>1, <2>1, <2>2 DEF Keeps, BeforeOf, Marked
  <1>2. CASE s \notin DOMAIN pending
      <2>1. BatchOf(s) = NewBatch /\ s \notin Marked
          BY <1>2 DEF BatchOf, Marked
      <2>2. NewBatch.receivedByKind[k] = 0 /\ NewBatch.events = <<>>
          BY DEF NewBatch, NoneOfKind
      <2> QED
          BY <1>0, <2>1, <2>2, OccEmpty DEF Keeps, BeforeOf
  <1> QED
      BY <1>1, <1>2

\* MarkerKeeps: a marker adds no event.
LEMMA MarkerKeeps ==
    ASSUME TypeOK, AllKept, NEW e \in MarkerEvent, NEW observed \in Int, NEW k \in Kind
    PROVE  LET after == MarkerBatch(BatchOf(e.sequence), e, observed)
           IN  Keeps(after, k, after.receivedByKind[k] - BeforeOf(e.sequence, k))
  <1> DEFINE old == BatchOf(e.sequence)
             after == MarkerBatch(old, e, observed)
  <1>1. old \in PendingBatch
      BY BatchOfType
  <1>2. after.events = old.events /\ after.receivedByKind = old.receivedByKind
      BY <1>1 DEF MarkerBatch, PendingBatch
  <1>3. Keeps(old, k, old.receivedByKind[k] - BeforeOf(e.sequence, k))
      BY BatchOfKept
  <1> HIDE DEF old, after
  <1>4. Keeps(after, k, after.receivedByKind[k] - BeforeOf(e.sequence, k))
      BY <1>2, <1>3 DEF Keeps
  <1> QED
      BY <1>4 DEF after, old

\* MarketKeeps: a market event is counted by kind and retained.
LEMMA MarketKeeps ==
    ASSUME TypeOK, AllKept, NEW e \in MarketEvent, NEW observed \in Int, NEW k \in Kind
    PROVE  LET after == MarketBatch(BatchOf(e.sequence), e, observed)
           IN  Keeps(after, k, after.receivedByKind[k] - BeforeOf(e.sequence, k))
  <1> DEFINE old == BatchOf(e.sequence)
             after == MarketBatch(old, e, observed)
             r == [observed |-> observed, kind |-> e.kind]
  <1>1. old \in PendingBatch
      BY BatchOfType
  <1>2. /\ old.events \in Seq(PendingEvent) /\ e.kind \in Kind
        /\ old.receivedByKind \in [Kind -> Nat]
        /\ r \in PendingEvent /\ (r \in OfKind(k) <=> e.kind = k)
      BY <1>1 DEF PendingBatch, MarketEvent, PendingEvent, OfKind
  <1>3. /\ after.events = Append(old.events, r)
        /\ after.receivedByKind = [old.receivedByKind EXCEPT ![e.kind] = @ + 1]
      BY <1>1 DEF MarketBatch, PendingBatch
  <1>4. /\ Keeps(old, k, old.receivedByKind[k] - BeforeOf(e.sequence, k))
        /\ BeforeOf(e.sequence, k) \in Int
      BY BatchOfKept, BeforeType
  <1> HIDE DEF old, after, r
  <1>5. Occ(after.events, OfKind(k)) =
          Occ(old.events, OfKind(k)) + (IF r \in OfKind(k) THEN 1 ELSE 0)
      BY <1>2, <1>3, OccAppend
  <1>6. after.receivedByKind[k] = old.receivedByKind[k] + (IF e.kind = k THEN 1 ELSE 0)
      BY <1>2, <1>3
  <1>7. old.receivedByKind[k] \in Nat
      BY <1>2
  <1>8. Keeps(after, k, after.receivedByKind[k] - BeforeOf(e.sequence, k))
      BY <1>2, <1>4, <1>5, <1>6, <1>7 DEF Keeps
  <1> QED
      BY <1>8 DEF after, old
\* QuietBounded: a step that adds no sample and leaves the batches alone.
LEMMA QuietBounded ==
    ASSUME KindInv, UNCHANGED pending,
           NEW d \in Counters, \A k \in Kind : Bounded(d, k, 0),
           total' = Add(total, d) \/ total' = total
    PROVE  AllKept' /\ KindBounds'
  <1>0. TypeOK /\ total \in Counters
      BY DEF KindInv, IInv, TypeOK
  <1>1. AllKept'
      BY DEF KindInv, AllKept, Keeps
  <1>2. ASSUME NEW k \in Kind
        PROVE  Bounded(total, k, OpenSum(GotOf(k)))'
      <2>1. OpenSum(GotOf(k))' = OpenSum(GotOf(k))
          BY DEF OpenSum, GotOf, Marked
      <2>2. OpenSum(GotOf(k)) \in Int
          BY <1>0, GotType, OpenSumType
      <2>3. Bounded(total, k, OpenSum(GotOf(k)))
          BY DEF KindInv
      <2>4. Bounded(total', k, OpenSum(GotOf(k)))
          <3>1. CASE total' = Add(total, d)
              <4>1. Bounded(total', k, OpenSum(GotOf(k)) + 0)
                  BY <1>0, <2>2, <2>3, <3>1, BoundedAdd
              <4> QED
                  BY <2>2, <4>1
          <3>2. CASE total' = total
              BY <2>3, <3>2
          <3> QED
              BY <3>1, <3>2
      <2> QED
          BY <2>1, <2>4 DEF Bounded
  <1> QED
      BY <1>1, <1>2 DEF KindBounds

\* EventBounded: one event of a callback.
LEMMA EventBounded ==
    ASSUME KindInv, NEW l \in Listener, HandleEvent(l)
    PROVE  AllKept' /\ KindBounds'
  <1> DEFINE e == Head(callback[l].events)
             observed == callback[l].observed
             s == e.sequence
             batch == BatchOf(s)
  <1>1. /\ TypeOK /\ AllKept /\ KindBounds
        /\ e \in Event /\ observed \in Int
      BY CallbackType DEF HandleEvent, KindInv, KindBounds, IInv
  <1>2. batch \in PendingBatch /\ (batch.timestamp # NoTime <=> s \in Marked)
      BY <1>1, BatchOfType
  <1>3. ASSUME NEW after \in PendingBatch, NEW d \in Counters, s \in Int,
               after.timestamp = NoTime => s \notin Marked,
               Settle(s, after, d), \A k \in Kind : Bounded(d, k, 0),
               \A k \in Kind : Keeps(after, k, after.receivedByKind[k] - BeforeOf(s, k))
        PROVE  AllKept' /\ KindBounds'
      <2> HIDE DEF e, s, batch, observed
      <2>1. /\ AllKept'
            /\ \A k \in Kind : after.timestamp # NoTime => Keeps(Emitted(after), k, 0)
          BY <1>1, <1>3, SettleKeeps
      <2>2. ASSUME NEW k \in Kind PROVE Bounded(total, k, OpenSum(GotOf(k)))'
          BY <1>1, <1>3, <2>1, SettleBounded
      <2> QED
          BY <2>1, <2>2 DEF KindBounds
  <1>4. CASE ~Correlates(e)
      <2>1. UNCHANGED <<pending, total>>
          BY <1>4 DEF HandleEvent
      <2> QED
          BY <2>1, QuietBounded, OtherCountsBounded, CountersClosed
  <1>5. CASE Correlates(e) /\ e.type = "marker"
      <2>1. /\ IsMarker(e) /\ e \in MarkerEvent /\ s \in Int
            /\ ApplyMarker(e, observed)
          BY <1>1, <1>5 DEF HandleEvent, Correlates, IsMarker, Event, MarkerEvent,
                            MarketEvent, ProfileEvent
      <2> DEFINE d == IF batch.timestamp = NoTime
                      THEN [Zero EXCEPT !.published = Expected] ELSE Zero
                 after == MarkerBatch(batch, e, observed)
      <2>2. after \in PendingBatch /\ after.timestamp # NoTime
          BY <1>1, <1>2, <2>1, MarkerBatchType
      <2>3. \A k \in Kind : Keeps(after, k, after.receivedByKind[k] - BeforeOf(s, k))
          BY <1>1, <2>1, MarkerKeeps
      <2>4. d \in Counters /\ \A k \in Kind : Bounded(d, k, 0)
          BY ChargeBalanced, CountersClosed, OtherCountsBounded
      <2>5. Settle(s, after, d)
          BY <2>1 DEF ApplyMarker
      <2> HIDE DEF d, after, e, s, batch, observed
      <2> QED
          BY <1>3, <2>1, <2>2, <2>3, <2>4, <2>5
  <1>6. CASE Correlates(e) /\ e.type # "marker"
      <2>1. e \in MarketEvent /\ s \in Int /\ ApplyMarket(e, observed)
          BY <1>1, <1>6 DEF HandleEvent, Correlates, IsMarker, Event, MarkerEvent,
                            MarketEvent, ProfileEvent
      <2> DEFINE after == MarketBatch(batch, e, observed)
      <2>2. after \in PendingBatch /\ after.timestamp = batch.timestamp
          BY <1>1, <1>2, <2>1, MarketBatchType
      <2>3. \A k \in Kind : Keeps(after, k, after.receivedByKind[k] - BeforeOf(s, k))
          BY <1>1, <2>1, MarketKeeps
      <2>4. Settle(s, after, Zero)
          BY <2>1 DEF ApplyMarket
      <2>5. Zero \in Counters /\ \A k \in Kind : Bounded(Zero, k, 0)
          BY CountersClosed, OtherCountsBounded
      <2> HIDE DEF after, e, s, batch, observed
      <2> QED
          BY <1>2, <1>3, <2>1, <2>2, <2>3, <2>4, <2>5
  <1> QED
      BY <1>4, <1>5, <1>6

\* ExpireBounded: an expired batch becomes its outcome and its samples.
LEMMA ExpireBounded ==
    ASSUME KindInv, ExpireBatch
    PROVE  AllKept' /\ KindBounds'
  <1>1. PICK s \in expiring : /\ Accumulate(Finish(pending[s]))
                              /\ pending' = Erase(s)
      BY DEF ExpireBatch
  <1> DEFINE batch == pending[s]
             finished == Finish(batch)
  <1>2. /\ TypeOK /\ AllKept /\ s \in DOMAIN pending /\ batch \in PendingBatch
      BY <1>1 DEF KindInv, IInv, TypeOK
  <1>3. AllKept'
      BY <1>1, <1>2 DEF AllKept, Erase, Keeps
  <1>4. finished \in Counters /\ total \in Counters /\ total' = Add(total, finished)
      BY <1>1, <1>2, FinishBalanced DEF Accumulate, TypeOK
  <1>5. ASSUME NEW k \in Kind PROVE Bounded(total, k, OpenSum(GotOf(k)))'
      <2> DEFINE m == IF batch.timestamp = NoTime THEN 0 ELSE -batch.receivedByKind[k]
                 open == OpenSum(GotOf(k))
      <2>1. /\ batch.receivedByKind[k] \in Nat
            /\ BeforeOf(s, k) = (IF batch.timestamp = NoTime THEN 0
                                 ELSE batch.receivedByKind[k])
          BY <1>2, GotType DEF BeforeOf, Marked
      <2>2. m \in Int /\ m = -BeforeOf(s, k)
          BY <2>1
      <2>3. Bounded(finished, k, m)
          <3>1. Keeps(batch, k, IF batch.timestamp = NoTime
                                THEN batch.receivedByKind[k] ELSE 0)
              BY <1>2 DEF AllKept
          <3>2. batch.timestamp # NoTime => Keeps(batch, k, 0)
              BY <3>1
          <3> HIDE DEF batch
          <3> QED
              BY <1>2, <3>2, FinishBounded
      <2>4. open \in Int /\ Bounded(total, k, open)
          BY <1>2, GotType, OpenSumType DEF KindInv
      <2>5. OpenSum(GotOf(k))' = open - BeforeOf(s, k)
          <3>1. OpenSum(GotOf(k))' =
                  SumFunctionOnSet([t \in DOMAIN pending' |-> GotOf(k)[pending'[t]]],
                                   Marked')
              BY DEF OpenSum, GotOf
          <3>2. SumFunctionOnSet([t \in DOMAIN pending' |-> GotOf(k)[pending'[t]]],
                                 Marked') =
                  open - (IF s \in Marked THEN GotOf(k)[pending[s]] ELSE 0)
              BY <1>1, <1>2, GotType, OpenSumErase
          <3>3. GotOf(k)[pending[s]] = pending[s].receivedByKind[k]
              BY <1>2, GotType
          <3> QED
              BY <3>1, <3>2, <3>3 DEF BeforeOf
      <2> HIDE DEF m, open, finished
      <2>6. Bounded(total', k, open + m)
          BY <1>4, <2>2, <2>3, <2>4, BoundedAdd
      <2>7. BeforeOf(s, k) \in Int
          BY <1>2, BeforeType
      <2>8. open + m = open - BeforeOf(s, k)
          BY <2>2, <2>4, <2>7
      <2>9. Bounded(total', k, OpenSum(GotOf(k))')
          BY <2>5, <2>6, <2>8
      <2> QED
          BY <2>9 DEF Bounded
  <1> QED
      BY <1>3, <1>5 DEF KindBounds

\* BoundedStep: every step.
LEMMA BoundedStep ==
    ASSUME KindInv, [Next]_vars
    PROVE  AllKept' /\ KindBounds'
  <1>1. ASSUME UNCHANGED <<pending, total>> PROVE AllKept' /\ KindBounds'
      BY <1>1, QuietBounded, OtherCountsBounded, CountersClosed
  <1>2. ASSUME NEW l \in Listener, Listen(l) PROVE AllKept' /\ KindBounds'
      <2>1. CASE Receive(l) \/ HandleWarmup(l)
          BY <1>1, <2>1 DEF Receive, ReceiveEvents, HandleWarmup, counters
      <2>2. CASE HandleMeasured(l)
          <3>1. /\ UNCHANGED pending
                /\ total' = Add(total, [Zero EXCEPT !.callbacks = 1])
              BY <2>2 DEF HandleMeasured, Accumulate
          <3> QED
              BY <3>1, QuietBounded, OtherCountsBounded, StatisticsNeutral
      <2>3. CASE HandleEvent(l)
          BY <2>3, EventBounded
      <2>4. CASE LeaveCallback(l)
          <3> DEFINE d == IF l = "market" THEN [Zero EXCEPT !.callbackSizes = 1]
                          ELSE Zero
          <3>1. UNCHANGED pending /\ total' = Add(total, d)
              BY <2>4 DEF LeaveCallback, Accumulate
          <3>2. d \in Counters /\ \A k \in Kind : Bounded(d, k, 0)
              BY OtherCountsBounded, StatisticsNeutral
          <3> HIDE DEF d
          <3> QED
              BY <3>1, <3>2, QuietBounded
      <2> QED
          BY <1>2, <2>1, <2>2, <2>3, <2>4 DEF Listen
  <1>3. CASE Main
      <2>1. CASE BeginMeasurement
          <3>1. pending' = pending
              <4>1. DOMAIN pending = {} /\ pending \in [DOMAIN pending -> PendingBatch]
                  BY <2>1 DEF BeginMeasurement, KindInv, IInv, StageInv, TypeOK
              <4> QED
                  BY <2>1, <4>1 DEF BeginMeasurement, EmptyPending
          <3> QED
              BY <1>1, <2>1, <3>1 DEF BeginMeasurement
      <2>2. CASE ExpireBatch
          BY <2>2, ExpireBounded
      <2>3. CASE EndMeasurement \/ TakeWindow(FALSE) \/ TakeWindow(TRUE)
                 \/ ReturnWindow \/ TakeTotals \/ Close
          BY <1>1, <2>3 DEF EndMeasurement, TakeWindow, ReturnWindow, TakeTotals,
                            Close, counters
      <2> QED
          BY <1>3, <2>1, <2>2, <2>3 DEF Main
  <1>4. CASE Tick \/ Exited \/ UNCHANGED vars
      BY <1>1, <1>4 DEF Tick, Exited, vars, counters
  <1> QED
      BY <1>2, <1>3, <1>4 DEF Next

\* InitBounded: nothing is open and nothing sampled at first.
LEMMA InitBounded ==
    ASSUME Init
    PROVE  KindInv
  <1>1. DOMAIN pending = {} /\ total = Zero
      BY DEF Init, EmptyPending
  <1>2. Marked = {}
      BY <1>1 DEF Marked
  <1>3. \A k \in Kind : OpenSum(GotOf(k)) = 0
      <2>1. \A f : SumFunctionOnSet(f, {}) = 0
          BY SumEmpty
      <2> QED
          BY <1>2, <2>1, Zenon DEF OpenSum
  <1>4. \A k \in Kind : Bounded(total, k, OpenSum(GotOf(k)))
      BY <1>1, <1>3, OtherCountsBounded
  <1> QED
      BY <1>1, <1>4, InitInvariant DEF KindInv, AllKept

\* What was handed over is what the totals still say about delivery.
FinalInv ==
    final # <<>> =>
        /\ stage \in {"closing", "closed"}
        /\ Delivery(final[1]) = Delivery(total)

\* FinalKept: every step keeps it.
LEMMA FinalKept ==
    ASSUME IInv, FinalInv, [Next]_vars
    PROVE  FinalInv'
  <1>1. CASE TakeTotals
      <2>1. final' = <<total>> /\ stage' = "closing" /\ total' = total
          BY <1>1 DEF TakeTotals, counters
      <2>2. final'[1] = total'
          BY <2>1
      <2> QED
          BY <2>1, <2>2 DEF FinalInv, Delivery
  <1>2. CASE ~TakeTotals
      <2>1. final' = final
          <3>1. ASSUME NEW l \in Listener, Listen(l) PROVE final' = final
              BY <3>1 DEF Listen, Receive, ReceiveEvents, HandleWarmup,
                          HandleMeasured, HandleEvent, LeaveCallback, main
          <3>2. CASE Main
              BY <1>2, <3>2 DEF Main, BeginMeasurement, EndMeasurement, TakeWindow,
                                ExpireBatch, ReturnWindow, Close
          <3>3. CASE Tick \/ Exited \/ UNCHANGED vars
              BY <3>3 DEF Tick, Exited, vars, main
          <3> QED
              BY <3>1, <3>2, <3>3 DEF Next
      <2>2. stage \in {"closing", "closed"} => stage' \in {"closing", "closed"}
          <3>1. ASSUME NEW l \in Listener, Listen(l) PROVE stage' = stage
              BY <3>1 DEF Listen, Receive, ReceiveEvents, HandleWarmup,
                          HandleMeasured, HandleEvent, LeaveCallback, main
          <3>2. ASSUME Main, stage \in {"closing", "closed"} PROVE Close
              <4>1. mutex # "main"
                  BY <3>2 DEF IInv, StageInv
              <4> QED
                  BY <1>2, <3>2, <4>1
                     DEF Main, BeginMeasurement, EndMeasurement, TakeWindow,
                         ExpireBatch, ReturnWindow
          <3>3. CASE Tick \/ Exited \/ UNCHANGED vars
              BY <3>3 DEF Tick, Exited, vars, main
          <3> QED
              BY <3>1, <3>2, <3>3 DEF Next, Close
      <2>3. stage \in {"closing", "closed"} => Delivery(total)' = Delivery(total)
          BY FrozenStep
      <2> QED
          BY <2>1, <2>2, <2>3 DEF FinalInv, Delivery
  <1> QED
      BY <1>1, <1>2

\* SameFinal: the delivery part of a record has every count of delivery.
LEMMA SameFinal ==
    ASSUME NEW c \in Counters, NEW d \in Counters, Delivery(c) = Delivery(d)
    PROVE  SameDelivery(c, d)
  <1>1. \A r \in Counters :
          LET u == Delivery(r)
          IN  /\ u.published = r.published /\ u.delivered = r.delivered
              /\ u.listenerDeficit = r.listenerDeficit /\ u.excess = r.excess
              /\ u.events = r.events
              /\ u.full = r.full /\ u.partial = r.partial /\ u.empty = r.empty
              /\ u.uncorrelated = r.uncorrelated /\ u.batches = r.batches
              /\ u.negative = r.negative /\ u.missing = r.missing
      BY DEF Delivery, Counters
  <1> QED
      BY <1>1 DEF SameDelivery

\* FinalSamples: totals that miss nothing and have no clock anomaly have a
\* sample for each delivered event and one for each publication.
LEMMA FinalSamples ==
    ASSUME SampleInv, KindInv, HInv, FinalInv, FinalExact,
           Publishing, final # <<>>, ~allowConflation,
           final[1].missing = 0, final[1].negative = 0
    PROVE  LET c == final[1]
           IN  /\ SameDelivery(c, total)
               /\ c.batches = c.full
               /\ c.uncorrelated = 0
               /\ \A k \in Kind :
                    /\ c.published[k] = Expected[k] * c.full
                    /\ c.delivered[k] = c.published[k]
                    /\ c.events[k] = c.delivered[k]
  <1> DEFINE c == final[1]
  <1>1. c \in Counters /\ total \in Counters /\ DOMAIN pending = {}
      <2>1. TypeOK /\ StageInv /\ stage \in {"closing", "closed"}
          BY DEF KindInv, IInv, FinalInv
      <2> QED
          BY <2>1 DEF TypeOK, StageInv
  <1>2. SameDelivery(c, total)
      <2>1. Delivery(c) = Delivery(total)
          BY DEF FinalInv
      <2> QED
          BY <1>1, <2>1, SameFinal
  <1>3. Marked = {}
      BY <1>1 DEF Marked
  <1>4. \A f : SumFunctionOnSet(f, Marked) = 0
      <2>1. \A f : SumFunctionOnSet(f, {}) = 0
          BY SumEmpty
      <2> QED
          BY <1>3, <2>1, Zenon
  <1>5. SampleBalanced(total, 0) /\ \A k \in Kind : Bounded(total, k, 0)
      BY <1>4 DEF SampleInv, SamplesAccounted, Open, KindInv, OpenSum
  <1>6. /\ c.partial = 0 /\ c.uncorrelated = 0
        /\ \A k \in Kind : /\ c.published[k] = Expected[k] * c.full
                           /\ c.delivered[k] = c.published[k]
      BY DEF FinalExact, Exact
  <1>7. c.missing = 0 /\ c.negative = 0
      OBVIOUS
  <1> HIDE DEF c
  <1>8. /\ c.full \in Nat /\ c.batches \in Nat
        /\ \A k \in Kind : c.delivered[k] \in Nat /\ c.events[k] \in Nat
      BY <1>1 DEF Counters, PerKind
  <1>9. /\ SumKinds(c.delivered) + 0 + c.full + c.partial
             = SumKinds(c.events) + c.batches + c.negative
        /\ \A k \in Kind : c.events[k] <= c.delivered[k] + 0
        /\ c.batches <= c.full + c.partial
      <2>1. \A k \in Kind : /\ total.events[k] <= total.delivered[k] + 0
                            /\ total.batches <= total.full + total.partial
          BY <1>5 DEF Bounded
      <2>2. "QUOTE" \in Kind
          BY DEF Kind
      <2> QED
          BY <1>2, <1>5, <2>1, <2>2 DEF SameDelivery, SampleBalanced
  <1>10. c.batches = c.full /\ \A k \in Kind : c.events[k] = c.delivered[k]
      <2>1. /\ c.events["QUOTE"] <= c.delivered["QUOTE"]
            /\ c.events["TRADE"] <= c.delivered["TRADE"]
            /\ c.events["TRADE_ETH"] <= c.delivered["TRADE_ETH"]
            /\ c.events["SUMMARY"] <= c.delivered["SUMMARY"]
            /\ c.events["QUOTE"] \in Nat /\ c.delivered["QUOTE"] \in Nat
            /\ c.events["TRADE"] \in Nat /\ c.delivered["TRADE"] \in Nat
            /\ c.events["TRADE_ETH"] \in Nat /\ c.delivered["TRADE_ETH"] \in Nat
            /\ c.events["SUMMARY"] \in Nat /\ c.delivered["SUMMARY"] \in Nat
          BY <1>8, <1>9 DEF Kind
      <2> DEFINE e1 == c.events["QUOTE"]
                 e2 == c.events["TRADE"]
                 e3 == c.events["TRADE_ETH"]
                 e4 == c.events["SUMMARY"]
                 d1 == c.delivered["QUOTE"]
                 d2 == c.delivered["TRADE"]
                 d3 == c.delivered["TRADE_ETH"]
                 d4 == c.delivered["SUMMARY"]
                 f == c.full
                 b == c.batches
      <2>2. (d1 + d2 + d3 + d4) + 0 + f + c.partial
              = (e1 + e2 + e3 + e4) + b + c.negative
          BY <1>9 DEF SumKinds
      <2>3. c.partial = 0 /\ c.negative = 0 /\ b <= f + c.partial
          BY <1>6, <1>7, <1>9
      <2>4. f \in Nat /\ b \in Nat
          BY <1>8
      <2> HIDE DEF e1, e2, e3, e4, d1, d2, d3, d4, f, b
      <2>5. /\ e1 \in Nat /\ e2 \in Nat /\ e3 \in Nat /\ e4 \in Nat
            /\ d1 \in Nat /\ d2 \in Nat /\ d3 \in Nat /\ d4 \in Nat
            /\ e1 <= d1 /\ e2 <= d2 /\ e3 <= d3 /\ e4 <= d4
          BY <2>1 DEF e1, e2, e3, e4, d1, d2, d3, d4
      <2>6. b = f /\ e1 = d1 /\ e2 = d2 /\ e3 = d3 /\ e4 = d4
          <3>1. /\ b <= f
                /\ (d1 + d2 + d3 + d4) + f = (e1 + e2 + e3 + e4) + b
              BY <2>2, <2>3, <2>4, <2>5
          <3>2. (d1 + d2 + d3 + d4) <= (e1 + e2 + e3 + e4)
              BY <2>4, <2>5, <3>1
          <3>3. e1 = d1 /\ e2 = d2 /\ e3 = d3 /\ e4 = d4
              BY <2>5, <3>2
          <3>4. PICK n \in Nat : n = d1 + d2 + d3 + d4
              BY <2>5
          <3>5. n + f = n + b
              BY <3>1, <3>3, <3>4
          <3> QED
              BY <2>4, <3>3, <3>5
      <2>7. c.batches = c.full
          BY <2>6 DEF b, f
      <2>8. ASSUME NEW k \in Kind PROVE c.events[k] = c.delivered[k]
          BY <2>6 DEF Kind, e1, e2, e3, e4, d1, d2, d3, d4
      <2> QED
          BY <2>7, <2>8
  <1> QED
      BY <1>2, <1>6, <1>10 DEF c

-----------------------------------------------------------------------------
(* The books: whole publications, counted by their messages.               *)

\* LoseIs: a channel without one of its messages.
LEMMA LoseIs ==
    ASSUME RunInv, NEW l \in Listener, Lose(l)
    PROVE  /\ RunInv'
           /\ \A m \in Listener : \A V : Flight(m, V)' <= Flight(m, V)
  <1>1. PICK i \in DOMAIN channel[l] :
          channel' = [channel EXCEPT ![l] = Seqs!RemoveAt(@, i)]
      BY DEF Lose
  <1> DEFINE q == channel[l]
             r == SubSeq(q, 1, i - 1) \o SubSeq(q, i + 1, Len(q))
  <1>2. q \in Seq(Messages(l, ticks)) /\ i \in DOMAIN q /\ ticks \in Nat
      BY PipelineAssumption DEF RunInv
  <1>3. /\ r \in Seq(Messages(l, ticks))
        /\ \A V : Occ(q, V) = Occ(r, V) + (IF q[i] \in V THEN 1 ELSE 0)
      BY <1>2, OccRemove
  <1>4. channel' = [channel EXCEPT ![l] = r]
      BY <1>1 DEF Seqs!RemoveAt
  <1>5. UNCHANGED <<ticks, skew, superseded, callback, pending, stage, now, measuring,
                    preMeasurementSequences, acceptingNewBatches>>
      BY DEF Lose, vars, clock, flags, seen, main
  <1>6. \A V : Occ(Contents(q), V) = Occ(Contents(r), V)
                                       + (IF q[i] \in Carrying(V) THEN 1 ELSE 0)
      <2> HIDE DEF q, r
      <2>1. \A V : /\ Occ(Contents(q), V) = Occ(q, Carrying(V))
                   /\ Occ(Contents(r), V) = Occ(r, Carrying(V))
          BY <1>2, <1>3, ChannelCounts
      <2> QED
          BY <1>3, <2>1
  <1> HIDE DEF q, r
  <1>7. /\ channel'[l] = r /\ DOMAIN channel' = Listener
        /\ \A m \in Listener \ {l} : channel'[m] = channel[m]
      BY <1>4 DEF RunInv
  <1>8. RunInv'
      <2>1. \A m \in Listener : channel'[m] \in Seq(Messages(m, ticks))
          BY <1>3, <1>7 DEF RunInv
      <2> QED
          BY <1>5, <1>7, <2>1 DEF RunInv
  <1>9. ASSUME NEW m \in Listener, NEW V PROVE Flight(m, V)' <= Flight(m, V)
      <2>0. /\ Flight(m, V) \in Nat /\ Occ(callback[m].events, V) \in Nat
            /\ Occ(Contents(channel[m]), V) \in Nat
          BY FlightType
      <2>1. CASE m = l
          <3>1. Occ(Contents(r), V) \in Nat
              BY <1>2, <1>3, ChannelCounts
          <3>2. Occ(Contents(r), V) <= Occ(Contents(channel[m]), V)
              BY <1>6, <2>0, <2>1, <3>1 DEF q
          <3>3. Flight(m, V)' = Occ(callback[m].events, V) + Occ(Contents(r), V)
              BY <1>5, <1>7, <2>1 DEF Flight
          <3> QED
              BY <2>0, <3>1, <3>2, <3>3 DEF Flight
      <2>2. CASE m # l
          <3>1. Flight(m, V)' = Flight(m, V)
              BY <1>5, <1>7, <2>2 DEF Flight
          <3> QED
              BY <2>0, <3>1
      <2> QED
          BY <2>1, <2>2
  <1> QED
      BY <1>8, <1>9

\* RepeatIs: a channel with one of its messages once more.
LEMMA RepeatIs ==
    ASSUME RunInv, NEW l \in Listener, Repeat(l)
    PROVE  /\ RunInv'
           /\ \E e \in Sent(l, ticks) :
                \A m \in Listener : \A V :
                   Flight(m, V)' = Flight(m, V) + (IF m = l /\ e \in V THEN 1 ELSE 0)
  <1>1. PICK i \in DOMAIN channel[l] :
          channel' = [channel EXCEPT ![l] = Append(@, @[i])]
      BY DEF Repeat
  <1> DEFINE q == channel[l]
             r == Append(q, q[i])
             e == q[i].event
             M == Messages(l, ticks)
  <1>2. q \in Seq(M) /\ i \in DOMAIN q /\ ticks \in Nat
      BY PipelineAssumption DEF RunInv
  <1>3. q[i] \in M
      <2>1. i \in 1..Len(q)
          BY <1>2
      <2> HIDE DEF q, M
      <2> QED
          BY <1>2, <2>1, ElementOfSeq
  <1>4. r \in Seq(M) /\ \A V : Occ(r, V) = Occ(q, V) + (IF q[i] \in V THEN 1 ELSE 0)
      <2> HIDE DEF M
      <2> QED
          BY <1>2, <1>3, OccAppend
  <1>5. e \in Sent(l, ticks) /\ \A V : q[i] \in Carrying(V) <=> e \in V
      <2>1. Sent(l, ticks) \subseteq Event
          BY <1>2, SentIs
      <2> QED
          BY <1>3, <2>1 DEF Messages, Carrying
  <1>6. channel' = [channel EXCEPT ![l] = r]
      BY <1>1
  <1>7. UNCHANGED <<ticks, skew, superseded, callback, pending, stage, now, measuring,
                    preMeasurementSequences, acceptingNewBatches>>
      BY DEF Repeat, vars, clock, flags, seen, main
  <1>8. \A V : Occ(Contents(r), V) = Occ(Contents(q), V)
                                       + (IF e \in V THEN 1 ELSE 0)
      <2>1. r \in Seq(Messages(l, ticks)) /\ q \in Seq(Messages(l, ticks))
          BY <1>2, <1>4
      <2>2. \A V : Occ(r, V) = Occ(q, V) + (IF q[i] \in V THEN 1 ELSE 0)
          BY <1>4
      <2>3. \A V : q[i] \in Carrying(V) <=> e \in V
          BY <1>5
      <2> HIDE DEF q, r, e
      <2>4. \A V : /\ Occ(Contents(r), V) = Occ(r, Carrying(V))
                   /\ Occ(Contents(q), V) = Occ(q, Carrying(V))
          BY <1>2, <2>1, ChannelCounts
      <2> QED
          BY <2>2, <2>3, <2>4
  <1> HIDE DEF q, r, e
  <1>9. /\ channel'[l] = r /\ DOMAIN channel' = Listener
        /\ \A m \in Listener \ {l} : channel'[m] = channel[m]
      BY <1>6 DEF RunInv
  <1>10. RunInv'
      <2>1. \A m \in Listener : channel'[m] \in Seq(Messages(m, ticks))
          BY <1>4, <1>9 DEF RunInv
      <2> QED
          BY <1>7, <1>9, <2>1 DEF RunInv
  <1>11. ASSUME NEW m \in Listener, NEW V
         PROVE  Flight(m, V)' = Flight(m, V) + (IF m = l /\ e \in V THEN 1 ELSE 0)
      <2>0. /\ Flight(m, V) \in Nat /\ Occ(callback[m].events, V) \in Nat
            /\ Occ(Contents(channel[m]), V) \in Nat
          BY FlightType
      <2>1. CASE m = l
          <3>1. Flight(m, V)' = Occ(callback[m].events, V) + Occ(Contents(r), V)
              BY <1>7, <1>9, <2>1 DEF Flight
          <3>2. Occ(Contents(r), V) = Occ(Contents(channel[m]), V)
                                        + (IF e \in V THEN 1 ELSE 0)
              BY <1>8, <2>1 DEF q
          <3> QED
              BY <2>0, <2>1, <3>1, <3>2 DEF Flight
      <2>2. CASE m # l
          <3>1. Flight(m, V)' = Flight(m, V)
              BY <1>7, <1>9, <2>2 DEF Flight
          <3> QED
              BY <2>0, <2>2, <3>1
      <2> QED
          BY <2>1, <2>2
  <1> QED
      BY <1>5, <1>10, <1>11

\* The messages of a whole publication: its events and its marker.
Whole == SumKinds(Expected) + 1

MarkOf(p) == IF p \in Marked THEN 1 ELSE 0

\* The messages of the publication p that are on their way, or were received
\* and are not accounted for yet.
Load(p) ==
    SumKinds([k \in Kind |-> Due(p, k) + Got(p)[k]]) + Announced(p) + MarkOf(p)

\* Each publication was completed fin[p] times, which took all its messages
\* each time; rep[p] of them were repetitions.
Ledger(fin, rep) ==
    /\ fin \in [Publication -> Nat]
    /\ rep \in [Publication -> Nat]
    /\ total.full = SumFunctionOnSet(fin, Publication)
    /\ SumFunctionOnSet(rep, Publication) <= faults
    /\ \A p \in Publication :
         fin[p] * Whole + Load(p) <= (IF p <= ticks THEN Whole ELSE 0) + rep[p]
    /\ heard = { p \in Publication : fin[p] > 0 \/ p \in DOMAIN pending }

\* KindsAtMost: more of each kind is more in total.
LEMMA KindsAtMost ==
    ASSUME NEW f, NEW g, \A k \in Kind : f[k] \in Nat /\ g[k] \in Nat /\ f[k] <= g[k]
    PROVE  SumKinds(f) <= SumKinds(g) /\ SumKinds(f) \in Nat /\ SumKinds(g) \in Nat
  <1>1. "QUOTE" \in Kind /\ "TRADE" \in Kind /\ "TRADE_ETH" \in Kind /\ "SUMMARY" \in Kind
      BY DEF Kind
  <1> QED
      BY <1>1 DEF SumKinds

\* KindsAdd: the total of a sum.
LEMMA KindsAdd ==
    ASSUME NEW f, NEW g, NEW h,
           \A k \in Kind : f[k] \in Nat /\ g[k] \in Nat /\ h[k] = f[k] + g[k]
    PROVE  SumKinds(h) = SumKinds(f) + SumKinds(g)
  <1>1. "QUOTE" \in Kind /\ "TRADE" \in Kind /\ "TRADE_ETH" \in Kind /\ "SUMMARY" \in Kind
      BY DEF Kind
  <1> QED
      BY <1>1 DEF SumKinds

\* WholeType: a publication has a marker at least.
LEMMA WholeType == Whole \in Nat /\ Whole >= 1 /\ SumKinds(Expected) \in Nat
  <1>1. \A k \in Kind : Expected[k] \in Nat
      BY CollectorAssumption
  <1>2. SumKinds(Expected) \in Nat
      BY <1>1, KindsAtMost
  <1> QED
      BY <1>2 DEF Whole

\* GotIs: what has been received is counted.
LEMMA GotIs ==
    ASSUME TypeOK, NEW p
    PROVE  \A k \in Kind : Got(p)[k] \in Nat
  <1>1. CASE p \in DOMAIN pending
      <2>1. pending[p] \in PendingBatch
          BY <1>1 DEF TypeOK
      <2> QED
          BY <1>1, <2>1 DEF Got, PendingBatch
  <1>2. CASE p \notin DOMAIN pending
      BY <1>2 DEF Got, NoneOfKind
  <1> QED
      BY <1>1, <1>2

\* What is on its way and what was received are counted.
LoadsAreCounted ==
    \A p : /\ Announced(p) \in Nat /\ MarkOf(p) \in {0, 1} /\ Load(p) \in Nat
           /\ \A k \in Kind : Due(p, k) \in Nat /\ Got(p)[k] \in Nat

\* LoadsCounted: in every state.
LEMMA LoadsCounted == RunInv /\ TypeOK => LoadsAreCounted
  <1> SUFFICES ASSUME RunInv, TypeOK, NEW p
               PROVE  /\ Announced(p) \in Nat /\ MarkOf(p) \in {0, 1} /\ Load(p) \in Nat
                      /\ \A k \in Kind : Due(p, k) \in Nat /\ Got(p)[k] \in Nat
      BY DEF LoadsAreCounted
  <1>1. Announced(p) \in Nat /\ \A k \in Kind : Due(p, k) \in Nat /\ Got(p)[k] \in Nat
      BY DueType, GotIs
  <1>2. MarkOf(p) \in {0, 1}
      BY DEF MarkOf
  <1> DEFINE f == [k \in Kind |-> Due(p, k) + Got(p)[k]]
  <1>3. \A k \in Kind : f[k] \in Nat
      BY <1>1
  <1> HIDE DEF f
  <1>4. SumKinds(f) \in Nat
      BY <1>3, KindsAtMost
  <1>5. Load(p) \in Nat
      BY <1>1, <1>2, <1>4 DEF Load, f
  <1> QED
      BY <1>1, <1>2, <1>5

\* LoadsAfter: and in the next one.
LEMMA LoadsAfter == RunInv' /\ TypeOK' => LoadsAreCounted'
  BY LoadsCounted, PTL

\* LoadFalls: fewer messages on their way and nothing received.
LEMMA LoadFalls ==
    ASSUME LoadsAreCounted, LoadsAreCounted', NEW p,
           \A k \in Kind : Due(p, k)' <= Due(p, k),
           Announced(p)' <= Announced(p),
           p \in DOMAIN pending' <=> p \in DOMAIN pending,
           p \in DOMAIN pending => pending'[p] = pending[p]
    PROVE  Load(p)' <= Load(p)
  <1>1. Got(p)' = Got(p) /\ MarkOf(p)' = MarkOf(p)
      BY DEF Got, MarkOf, Marked
  <1>2. /\ Announced(p) \in Nat /\ Announced(p)' \in Nat
        /\ MarkOf(p) \in {0, 1}
        /\ \A k \in Kind : Due(p, k) \in Nat /\ Due(p, k)' \in Nat /\ Got(p)[k] \in Nat
      BY DEF LoadsAreCounted
  <1> DEFINE f == [k \in Kind |-> Due(p, k)' + Got(p)[k]]
             g == [k \in Kind |-> Due(p, k) + Got(p)[k]]
  <1>3. \A k \in Kind : f[k] \in Nat /\ g[k] \in Nat /\ f[k] <= g[k]
      BY <1>2
  <1>4. /\ Load(p) = SumKinds(g) + Announced(p) + MarkOf(p)
        /\ Load(p)' = SumKinds(f) + Announced(p)' + MarkOf(p)
      BY <1>1 DEF Load
  <1> HIDE DEF f, g
  <1>5. SumKinds(f) <= SumKinds(g) /\ SumKinds(f) \in Nat /\ SumKinds(g) \in Nat
      BY <1>3, KindsAtMost
  <1> QED
      BY <1>2, <1>4, <1>5

\* SettleFull: a settled batch is a full publication or none.
LEMMA SettleFull ==
    ASSUME TypeOK, NEW s \in Int, NEW batch \in PendingBatch, NEW d \in Counters,
           d.full = 0, Settle(s, batch, d)
    PROVE  total'.full = total.full + (IF s \in DOMAIN pending' THEN 0 ELSE 1)
  <1> DEFINE e == Emitted(batch)
             g1 == Add(d, Emission(batch))
             g2 == Add(g1, Finish(e))
  <1>1. /\ s \notin DOMAIN pending' <=>
              batch.timestamp # NoTime /\ HasExpectedComposition(batch)
        /\ total' = Add(total, IF s \in DOMAIN pending' THEN g1 ELSE g2)
      BY SettleIs
  <1>2. \A b : Emission(b).full = 0
      BY DEF Emission, Zero
  <1>3. \A x, y : Add(x, y).full = x.full + y.full
      BY DEF Add
  <1>4. g1.full = 0
      BY <1>2, <1>3
  <1>5. total.full \in Nat
      BY DEF TypeOK, Counters
  <1>6. CASE s \in DOMAIN pending'
      <2> HIDE DEF g1
      <2>1. total' = Add(total, g1)
          BY <1>1, <1>6
      <2> QED
          BY <1>3, <1>4, <1>5, <1>6, <2>1
  <1>7. CASE s \notin DOMAIN pending'
      <2>1. e.timestamp # NoTime /\ HasExpectedComposition(e)
          BY <1>1, <1>7, EmittedType DEF HasExpectedComposition
      <2>2. Finish(e).full = 1
          <3>1. FinishCorrelated(e).full = 1
              BY <2>1 DEF FinishCorrelated, Zero
          <3>2. Finish(e) = Add(Emission(e), FinishCorrelated(e))
              BY <2>1 DEF Finish
          <3> HIDE DEF e
          <3> QED
              BY <1>2, <1>3, <3>1, <3>2
      <2> HIDE DEF g1, e
      <2>3. g2.full = 1
          BY <1>3, <1>4, <2>2
      <2> HIDE DEF g2
      <2>4. total' = Add(total, g2)
          BY <1>1, <1>7 DEF g1, g2, e
      <2> QED
          BY <1>3, <1>5, <1>7, <2>3, <2>4
  <1> QED
      BY <1>6, <1>7

\* SettledLoad: a batch that is stored still weighs what it weighed, one that
\* is finished takes a whole publication off the load.
LEMMA SettledLoad ==
    ASSUME LoadsAreCounted', TypeOK, NEW p \in Int, NEW batch \in PendingBatch, NEW d,
           Settle(p, batch, d), NEW n \in Nat,
           SumKinds([k \in Kind |-> Due(p, k)' + batch.receivedByKind[k]])
             + Announced(p)' + (IF batch.timestamp # NoTime THEN 1 ELSE 0) <= n
    PROVE  Load(p)' + (IF p \in DOMAIN pending' THEN 0 ELSE Whole) <= n
  <1> DEFINE h == [k \in Kind |-> Due(p, k)' + batch.receivedByKind[k]]
             g == [k \in Kind |-> Due(p, k)' + Got(p)'[k]]
             a == Announced(p)'
  <1>1. /\ p \notin DOMAIN pending' <=>
              batch.timestamp # NoTime /\ HasExpectedComposition(batch)
        /\ p \in DOMAIN pending' =>
              /\ pending'[p].receivedByKind = batch.receivedByKind
              /\ pending'[p].timestamp = batch.timestamp
      BY SettleIs
  <1>2. /\ a \in Nat /\ \A k \in Kind : Due(p, k)' \in Nat
        /\ \A k \in Kind : batch.receivedByKind[k] \in Nat /\ Expected[k] \in Nat
      BY CollectorAssumption DEF LoadsAreCounted, PendingBatch
  <1>3. Load(p)' = SumKinds(g) + a + MarkOf(p)'
      BY DEF Load
  <1>4. SumKinds(h) + a + (IF batch.timestamp # NoTime THEN 1 ELSE 0) <= n
      OBVIOUS
  <1>5. CASE p \in DOMAIN pending'
      <2>1. Got(p)' = batch.receivedByKind
          BY <1>1, <1>5 DEF Got
      <2>2. MarkOf(p)' = (IF batch.timestamp # NoTime THEN 1 ELSE 0)
          BY <1>1, <1>5 DEF MarkOf, Marked
      <2>3. g = h
          BY <2>1
      <2>4. \A k \in Kind : h[k] \in Nat
          BY <1>2
      <2> HIDE DEF g, h, a
      <2>5. SumKinds(h) \in Nat
          BY <2>4, KindsAtMost
      <2>6. Load(p)' <= n /\ Load(p)' \in Nat
          BY <1>2, <1>3, <1>4, <2>2, <2>3, <2>5
      <2> QED
          BY <1>5, <2>6
  <1>6. CASE p \notin DOMAIN pending'
      <2>1. Got(p)' = NoneOfKind /\ MarkOf(p)' = 0
          BY <1>6 DEF Got, MarkOf, Marked
      <2>2. batch.timestamp # NoTime /\ batch.receivedByKind = Expected
          BY <1>1, <1>6 DEF HasExpectedComposition
      <2>3. \A k \in Kind : /\ g[k] \in Nat /\ Expected[k] \in Nat
                            /\ h[k] = g[k] + Expected[k]
          BY <1>2, <2>1, <2>2 DEF NoneOfKind
      <2>4. SumKinds(Expected) \in Nat
          BY WholeType
      <2> HIDE DEF g, h, a
      <2>5. SumKinds(h) = SumKinds(g) + SumKinds(Expected)
          BY <2>3, KindsAdd
      <2>6. SumKinds(g) \in Nat
          BY <2>3, KindsAtMost
      <2>7. Load(p)' + Whole <= n
          BY <1>2, <1>3, <1>4, <2>1, <2>2, <2>4, <2>5, <2>6 DEF Whole
      <2> QED
          BY <1>6, <2>7
  <1> QED
      BY <1>5, <1>6

\* HandleLoad: an event that correlates moves from the way into its batch, and
\* a publication is full when the load of it falls by a whole one.
LEMMA HandleLoad ==
    ASSUME RunInv, TypeOK, LoadsAreCounted, LoadsAreCounted', NEW l \in Listener, Handle(l),
           NEW e, e = Head(callback[l].events), Correlates(e),
           NEW p, p = e.sequence
    PROVE  /\ Load(p)' + (IF p \in DOMAIN pending' THEN 0 ELSE Whole) <= Load(p)
           /\ total'.full = total.full + (IF p \in DOMAIN pending' THEN 0 ELSE 1)
           /\ DOMAIN pending' \subseteq DOMAIN pending \cup {p}
           /\ \A t \in DOMAIN pending \ {p} :
                t \in DOMAIN pending' /\ pending'[t] = pending[t]
  <1>0. PICK o : o = callback[l].observed
      OBVIOUS
  <1>1. /\ p \in Int /\ o \in Int
        /\ \/ l = "market" /\ e \in MarketEvent /\ ApplyMarket(e, o)
           \/ l = "control" /\ e \in MarkerEvent /\ IsMarker(e) /\ ApplyMarker(e, o)
      BY <1>0, CorrelatedHere DEF TypeOK
  <1>2. /\ Announced(p) = Announced(p)' + (IF l = "control" THEN 1 ELSE 0)
        /\ \A k \in Kind :
             Due(p, k) = Due(p, k)' + (IF l = "market" /\ e.kind = k THEN 1 ELSE 0)
      BY HandleMoves
  <1>3. /\ Announced(p) \in Nat /\ Announced(p)' \in Nat /\ Load(p) \in Nat
        /\ MarkOf(p) \in {0, 1}
        /\ \A k \in Kind : Due(p, k) \in Nat /\ Due(p, k)' \in Nat /\ Got(p)[k] \in Nat
      BY DEF LoadsAreCounted
  <1>4. /\ BatchOf(p) \in PendingBatch
        /\ BatchOf(p).timestamp # NoTime <=> p \in Marked
        /\ BatchOf(p).receivedByKind = Got(p)
      BY BatchOfType, BatchGot
  <1> DEFINE was == [k \in Kind |-> Due(p, k) + Got(p)[k]]
  <1>5. Load(p) = SumKinds(was) + Announced(p) + MarkOf(p)
      BY DEF Load
  <1>6. ASSUME NEW batch \in PendingBatch, NEW d \in Counters,
               d.full = 0, Settle(p, batch, d),
               \A k \in Kind : Due(p, k)' + batch.receivedByKind[k] = was[k],
               Announced(p)' + (IF batch.timestamp # NoTime THEN 1 ELSE 0)
                 <= Announced(p) + MarkOf(p)
        PROVE  /\ Load(p)' + (IF p \in DOMAIN pending' THEN 0 ELSE Whole) <= Load(p)
               /\ total'.full = total.full + (IF p \in DOMAIN pending' THEN 0 ELSE 1)
               /\ DOMAIN pending' \subseteq DOMAIN pending \cup {p}
               /\ \A t \in DOMAIN pending \ {p} :
                    t \in DOMAIN pending' /\ pending'[t] = pending[t]
      <2> DEFINE is == [k \in Kind |-> Due(p, k)' + batch.receivedByKind[k]]
                 mark == IF batch.timestamp # NoTime THEN 1 ELSE 0
      <2>1. \A k \in Kind : is[k] = was[k] /\ is[k] \in Nat
          BY <1>3, <1>6
      <2>2. SumKinds(is) = SumKinds(was) /\ SumKinds(is) \in Nat
          <3> HIDE DEF is, was
          <3>1. SumKinds(is) <= SumKinds(was) /\ SumKinds(was) <= SumKinds(is)
                /\ SumKinds(is) \in Nat /\ SumKinds(was) \in Nat
              BY <2>1, KindsAtMost
          <3> QED
              BY <3>1
      <2>3. SumKinds(is) + Announced(p)' + mark <= Load(p)
          <3>1. mark \in {0, 1} /\ Announced(p)' + mark <= Announced(p) + MarkOf(p)
              BY <1>6
          <3> HIDE DEF is, was, mark
          <3> QED
              BY <1>3, <1>5, <2>2, <3>1
      <2>4. Load(p)' + (IF p \in DOMAIN pending' THEN 0 ELSE Whole) <= Load(p)
          <3> HIDE DEF was
          <3> QED
              BY <1>1, <1>3, <1>6, <2>3, SettledLoad
      <2>5. /\ DOMAIN pending' \subseteq DOMAIN pending \cup {p}
            /\ \A t \in DOMAIN pending \ {p} :
                 t \in DOMAIN pending' /\ pending'[t] = pending[t]
          <3> HIDE DEF was
          <3> QED
              BY <1>1, <1>6, SettleIs
      <2>6. total'.full = total.full + (IF p \in DOMAIN pending' THEN 0 ELSE 1)
          <3> HIDE DEF was
          <3> QED
              BY <1>1, <1>6, SettleFull
      <2> QED
          BY <2>4, <2>5, <2>6
  <1>7. CASE l = "market"
      <2> DEFINE batch == MarketBatch(BatchOf(p), e, o)
      <2>1. e \in MarketEvent /\ e.kind \in Kind /\ ApplyMarket(e, o)
          BY <1>1, <1>7 DEF MarketEvent
      <2>2. Settle(p, batch, Zero)
          BY <2>1 DEF ApplyMarket
      <2>3. batch \in PendingBatch /\ batch.timestamp = BatchOf(p).timestamp
          BY <1>1, <1>4, <2>1, MarketBatchType
      <2>4. batch.receivedByKind = [Got(p) EXCEPT ![e.kind] = @ + 1]
          BY <1>4 DEF MarketBatch, PendingBatch
      <2>5. \A k \in Kind : Due(p, k)' + batch.receivedByKind[k] = was[k]
          <3>1. Got(p) \in [Kind -> Nat]
              BY <1>4 DEF PendingBatch
          <3> HIDE DEF batch
          <3>2. \A f \in [Kind -> Nat] : \A j, k \in Kind :
                   [f EXCEPT ![j] = @ + 1][k] = f[k] + (IF j = k THEN 1 ELSE 0)
              OBVIOUS
          <3>3. \A k \in Kind :
                   batch.receivedByKind[k] = Got(p)[k] + (IF e.kind = k THEN 1 ELSE 0)
              BY <2>1, <2>4, <3>1, <3>2
          <3> QED
              BY <1>2, <1>3, <1>7, <3>3
      <2>6. Announced(p)' + (IF batch.timestamp # NoTime THEN 1 ELSE 0)
               <= Announced(p) + MarkOf(p)
          <3>1. (IF batch.timestamp # NoTime THEN 1 ELSE 0) = MarkOf(p)
              BY <1>4, <2>3 DEF MarkOf
          <3>2. Announced(p)' = Announced(p)
              BY <1>2, <1>3, <1>7
          <3> HIDE DEF batch
          <3> QED
              BY <1>3, <3>1, <3>2
      <2>7. Zero \in Counters /\ Zero.full = 0
          BY CountersClosed DEF Zero
      <2> HIDE DEF batch, was
      <2> QED
          BY <1>6, <2>2, <2>3, <2>5, <2>6, <2>7
  <1>8. CASE l = "control"
      <2> DEFINE batch == MarkerBatch(BatchOf(p), e, o)
                 d == IF BatchOf(p).timestamp = NoTime
                      THEN [Zero EXCEPT !.published = Expected] ELSE Zero
      <2>1. e \in MarkerEvent /\ IsMarker(e) /\ ApplyMarker(e, o)
          BY <1>1, <1>8
      <2>2. Settle(p, batch, d)
          BY <2>1 DEF ApplyMarker
      <2>3. batch \in PendingBatch /\ batch.timestamp # NoTime
          BY <1>1, <1>4, <2>1, MarkerBatchType
      <2>4. batch.receivedByKind = Got(p)
          BY <1>4 DEF MarkerBatch, PendingBatch
      <2>5. \A k \in Kind : Due(p, k)' + batch.receivedByKind[k] = was[k]
          <3>1. \A k \in Kind : Due(p, k)' = Due(p, k)
              BY <1>2, <1>3, <1>8
          <3> HIDE DEF batch
          <3> QED
              BY <2>4, <3>1
      <2>6. Announced(p)' + (IF batch.timestamp # NoTime THEN 1 ELSE 0)
               <= Announced(p) + MarkOf(p)
          <3> HIDE DEF batch
          <3> QED
              BY <1>2, <1>3, <1>8, <2>3
      <2>7. d \in Counters /\ d.full = 0
          <3>1. d \in Counters
              BY ChargeBalanced, CountersClosed
          <3>2. d.full = 0
              BY DEF Zero
          <3> QED
              BY <3>1, <3>2
      <2> HIDE DEF batch, d, was
      <2> QED
          BY <1>6, <2>2, <2>3, <2>5, <2>6, <2>7
  <1> QED
      BY <1>1, <1>7, <1>8

\* LedgerMoves: a step that completes no publication and touches no batch, with
\* as many more messages as are published or repeated.
LEMMA LedgerMoves ==
    ASSUME LoadsAreCounted, LoadsAreCounted', NEW fin, NEW rep, Ledger(fin, rep),
           NEW more \in [Publication -> Nat],
           SumFunctionOnSet(more, Publication) <= faults',
           heard' = heard, DOMAIN pending' = DOMAIN pending,
           total'.full = total.full,
           \A p \in Publication :
              Load(p)' + (IF p <= ticks THEN Whole ELSE 0) + rep[p]
                <= Load(p) + (IF p <= ticks' THEN Whole ELSE 0) + more[p]
    PROVE  Ledger(fin, more)'
  <1>1. ASSUME NEW p \in Publication
        PROVE  fin[p] * Whole + Load(p)' <= (IF p <= ticks' THEN Whole ELSE 0) + more[p]
      <2> DEFINE x == fin[p] * Whole
                 a == IF p <= ticks THEN Whole ELSE 0
                 b == IF p <= ticks' THEN Whole ELSE 0
      <2>1. x \in Nat /\ a \in Nat /\ b \in Nat /\ rep[p] \in Nat /\ more[p] \in Nat
          <3>1. fin[p] \in Nat /\ rep[p] \in Nat /\ Whole \in Nat
              BY WholeType DEF Ledger
          <3> QED
              BY <3>1
      <2>2. Load(p) \in Nat /\ Load(p)' \in Nat
          BY DEF LoadsAreCounted
      <2>3. x + Load(p) <= a + rep[p] /\ Load(p)' + a + rep[p] <= Load(p) + b + more[p]
          BY DEF Ledger
      <2> HIDE DEF x, a, b
      <2>4. x + Load(p)' <= b + more[p]
          BY <2>1, <2>2, <2>3
      <2> QED
          BY <2>4 DEF x, b
  <1> QED
      BY <1>1 DEF Ledger

\* LedgerKept: in particular, if there are no more messages.
LEMMA LedgerKept ==
    ASSUME LoadsAreCounted, LoadsAreCounted', NEW fin, NEW rep, Ledger(fin, rep),
           faults \in Nat, faults' \in Nat, faults <= faults',
           UNCHANGED <<heard, ticks>>, DOMAIN pending' = DOMAIN pending,
           total'.full = total.full, ticks \in Nat,
           \A p \in Publication : Load(p)' <= Load(p)
    PROVE  Ledger(fin, rep)'
  <1>0. IsFiniteSet(Publication)
      BY PipelineAssumption, FS_Interval DEF Publication
  <1>1. rep \in [Publication -> Nat]
      BY DEF Ledger
  <1>2. SumFunctionOnSet(rep, Publication) \in Nat
      BY <1>0, <1>1, SumNat
  <1>3. SumFunctionOnSet(rep, Publication) <= faults'
      BY <1>2 DEF Ledger
  <1>4. ASSUME NEW p \in Publication
        PROVE  Load(p)' + (IF p <= ticks THEN Whole ELSE 0) + rep[p]
                 <= Load(p) + (IF p <= ticks' THEN Whole ELSE 0) + rep[p]
      <2>1. /\ Load(p) \in Nat /\ Load(p)' \in Nat /\ rep[p] \in Nat /\ Whole \in Nat
          BY <1>1, WholeType DEF LoadsAreCounted
      <2> QED
          BY <2>1
  <1> QED
      BY <1>1, <1>3, <1>4, LedgerMoves

\* LedgerPublish: publishing adds a whole publication.
LEMMA LedgerPublish ==
    ASSUME RunInv, RunInv', TypeOK, LoadsAreCounted, LoadsAreCounted', ~allowConflation, Publish,
           NEW fin, NEW rep, Ledger(fin, rep)
    PROVE  Ledger(fin, rep)'
  <1>1. /\ pending' = pending /\ total' = total /\ heard' = heard /\ faults' = faults
        /\ ticks' = ticks + 1 /\ ticks \in Nat
      BY PipelineAssumption DEF Publish, vars, counters, RunInv
  <1>2. rep \in [Publication -> Nat] /\ SumFunctionOnSet(rep, Publication) <= faults'
      BY <1>1 DEF Ledger
  <1>3. ASSUME NEW p \in Publication
        PROVE  Load(p)' = Load(p) + (IF p = ticks' THEN Whole ELSE 0)
      <2> DEFINE x == [k \in Kind |-> IF p = ticks' THEN Expected[k] ELSE 0]
                 g == [k \in Kind |-> Due(p, k) + Got(p)[k]]
                 h == [k \in Kind |-> Due(p, k)' + Got(p)[k]]
      <2>1. /\ Announced(p)' = Announced(p) + (IF p = ticks' THEN 1 ELSE 0)
            /\ \A k \in Kind :
                 /\ Due(p, k)' + superseded'[p][k] = Due(p, k) + superseded[p][k] + x[k]
                 /\ superseded'[p][k] = superseded[p][k]
          BY PublishDue
      <2>2. \A k \in Kind : superseded[p][k] \in Int /\ x[k] \in Nat /\ Expected[k] \in Nat
          BY CollectorAssumption DEF RunInv
      <2>3. /\ Announced(p) \in Nat /\ MarkOf(p) \in {0, 1}
            /\ \A k \in Kind : Due(p, k) \in Nat /\ Due(p, k)' \in Nat /\ Got(p)[k] \in Nat
          BY DEF LoadsAreCounted
      <2>4. \A k \in Kind : Due(p, k)' = Due(p, k) + x[k]
          <3> HIDE DEF x
          <3> QED
              BY <2>1, <2>2, <2>3
      <2>5. Got(p)' = Got(p) /\ MarkOf(p)' = MarkOf(p)
          BY <1>1 DEF Got, MarkOf, Marked
      <2>6. /\ Load(p) = SumKinds(g) + Announced(p) + MarkOf(p)
            /\ Load(p)' = SumKinds(h) + Announced(p)' + MarkOf(p)
          BY <2>5 DEF Load
      <2>7. \A k \in Kind : g[k] \in Nat /\ x[k] \in Nat /\ h[k] = g[k] + x[k]
          <3>1. \A k \in Kind : x[k] \in Nat
              BY <2>2
          <3> HIDE DEF x
          <3> QED
              BY <2>3, <2>4, <3>1
      <2>8. SumKinds(x) = IF p = ticks' THEN SumKinds(Expected) ELSE 0
          BY DEF SumKinds, Kind
      <2>9. SumKinds(Expected) \in Nat
          BY WholeType
      <2> HIDE DEF x, g, h
      <2>10. SumKinds(h) = SumKinds(g) + SumKinds(x)
          BY <2>7, KindsAdd
      <2>11. SumKinds(g) \in Nat
          BY <2>7, KindsAtMost
      <2> QED
          BY <2>1, <2>3, <2>6, <2>8, <2>9, <2>10, <2>11 DEF Whole
  <1>4. ASSUME NEW p \in Publication
        PROVE  Load(p)' + (IF p <= ticks THEN Whole ELSE 0) + rep[p]
                 <= Load(p) + (IF p <= ticks' THEN Whole ELSE 0) + rep[p]
      <2>1. /\ Load(p) \in Nat /\ rep[p] \in Nat /\ Whole \in Nat /\ p \in Int
          BY <1>2, WholeType DEF LoadsAreCounted, Publication
      <2> QED
          BY <1>1, <1>3, <2>1
  <1>5. total'.full = total.full /\ DOMAIN pending' = DOMAIN pending
      BY <1>1
  <1> QED
      BY <1>1, <1>2, <1>4, <1>5, LedgerMoves

\* LedgerRepeat: a repeated message is one more of its publication.
LEMMA LedgerRepeat ==
    ASSUME RunInv, TypeOK, LoadsAreCounted, LoadsAreCounted', faults \in Nat,
           NEW l \in {"market", "control"}, Repeat(l),
           NEW fin, NEW rep, Ledger(fin, rep)
    PROVE  \E rep2 : Ledger(fin, rep2)'
  <1>1. /\ pending' = pending /\ total' = total /\ heard' = heard
        /\ faults' = faults + 1 /\ ticks' = ticks /\ ticks \in 0..MaxPublications
        /\ l \in Listener
      BY DEF Repeat, vars, counters, Listener, RunInv
  <1>2. PICK e \in Sent(l, ticks) :
          \A m \in Listener : \A V :
             Flight(m, V)' = Flight(m, V) + (IF m = l /\ e \in V THEN 1 ELSE 0)
      BY <1>1, RepeatIs
  <1>3. PICK q : q = e.sequence
      OBVIOUS
  <1>4. /\ q \in Publication
        /\ \A p : l = "control" => (e \in MarkersOf(p) <=> p = q)
        /\ \A p, k : l = "market" => (e \in EventsOf(p, k) <=> p = q /\ e.kind = k)
      <2>1. ticks \in Nat /\ \A x \in 1..ticks : x \in Publication
          BY <1>1, PipelineAssumption DEF Publication
      <2> QED
          BY <1>2, <1>3, <2>1, SentIs DEF MarkersOf, EventsOf
  <1>5. ASSUME NEW p \in Publication
        PROVE  Load(p)' <= Load(p) + (IF p = q THEN 1 ELSE 0)
      <2> DEFINE x == [k \in Kind |-> IF l = "market" /\ p = q /\ e.kind = k THEN 1 ELSE 0]
                 g == [k \in Kind |-> Due(p, k) + Got(p)[k]]
                 h == [k \in Kind |-> Due(p, k)' + Got(p)[k]]
      <2>1. /\ Announced(p)' = Announced(p) + (IF l = "control" /\ p = q THEN 1 ELSE 0)
            /\ \A k \in Kind : Due(p, k)' = Due(p, k) + x[k]
          <3>1. "market" \in Listener /\ "control" \in Listener
              BY DEF Listener
          <3>2. Announced(p)' = Announced(p)
                  + (IF "control" = l /\ e \in MarkersOf(p) THEN 1 ELSE 0)
              BY <1>2, <3>1 DEF Announced
          <3>3. \A k \in Kind : Due(p, k)' = Due(p, k)
                  + (IF "market" = l /\ e \in EventsOf(p, k) THEN 1 ELSE 0)
              BY <1>2, <3>1 DEF Due
          <3> QED
              BY <1>4, <3>2, <3>3
      <2>2. /\ Announced(p) \in Nat /\ MarkOf(p) \in {0, 1}
            /\ \A k \in Kind : Due(p, k) \in Nat /\ Got(p)[k] \in Nat
          BY DEF LoadsAreCounted
      <2>3. Got(p)' = Got(p) /\ MarkOf(p)' = MarkOf(p)
          BY <1>1 DEF Got, MarkOf, Marked
      <2>4. /\ Load(p) = SumKinds(g) + Announced(p) + MarkOf(p)
            /\ Load(p)' = SumKinds(h) + Announced(p)' + MarkOf(p)
          BY <2>3 DEF Load
      <2>5. \A k \in Kind : x[k] \in Nat
          OBVIOUS
      <2>6. SumKinds(x) <= (IF l = "market" /\ p = q THEN 1 ELSE 0) /\ SumKinds(x) \in Nat
          BY DEF SumKinds, Kind
      <2>7. \A k \in Kind : g[k] \in Nat /\ h[k] = g[k] + x[k]
          <3> HIDE DEF x
          <3> QED
              BY <2>1, <2>2, <2>5
      <2> HIDE DEF x, g, h
      <2>8. SumKinds(h) = SumKinds(g) + SumKinds(x)
          BY <2>5, <2>7, KindsAdd
      <2>9. SumKinds(g) \in Nat
          BY <2>7, KindsAtMost
      <2> QED
          BY <2>1, <2>2, <2>4, <2>6, <2>8, <2>9
  <1> DEFINE rep2 == [rep EXCEPT ![q] = @ + 1]
  <1>6. rep \in [Publication -> Nat] /\ SumFunctionOnSet(rep, Publication) <= faults
      BY DEF Ledger
  <1>7. /\ rep2 \in [Publication -> Nat] /\ rep2[q] = rep[q] + 1
        /\ \A p \in Publication : p # q => rep2[p] = rep[p]
      BY <1>4, <1>6
  <1> HIDE DEF rep2
  <1>8. SumFunctionOnSet(rep2, Publication) <= faults'
      <2>1. IsFiniteSet(Publication)
          BY PipelineAssumption, FS_Interval DEF Publication
      <2>2. SumFunctionOnSet(rep, Publication) \in Nat
          BY <1>6, <2>1, SumNat
      <2>3. \A p \in Publication : rep[p] \in Int /\ rep2[p] \in Int
          BY <1>6, <1>7
      <2>4. SumFunctionOnSet(rep2, Publication) =
              SumFunctionOnSet(rep, Publication) + (rep2[q] - rep[q])
          BY <1>4, <1>7, <2>1, <2>3, SumUpdate
      <2>5. rep[q] \in Int
          BY <1>4, <2>3
      <2> QED
          BY <1>1, <1>6, <1>7, <2>2, <2>4, <2>5
  <1>9. ASSUME NEW p \in Publication
        PROVE  Load(p)' + (IF p <= ticks THEN Whole ELSE 0) + rep[p]
                 <= Load(p) + (IF p <= ticks' THEN Whole ELSE 0) + rep2[p]
      <2>1. /\ Load(p) \in Nat /\ Load(p)' \in Nat /\ rep[p] \in Nat /\ Whole \in Nat
          BY <1>6, WholeType DEF LoadsAreCounted
      <2>2. rep2[p] = rep[p] + (IF p = q THEN 1 ELSE 0)
          BY <1>7, <2>1
      <2> QED
          BY <1>1, <1>5, <2>1, <2>2
  <1>10. total'.full = total.full /\ DOMAIN pending' = DOMAIN pending
      BY <1>1
  <1>11. Ledger(fin, rep2)'
      BY <1>1, <1>7, <1>8, <1>9, <1>10, LedgerMoves
  <1> QED
      BY <1>11

\* LedgerHandle: an event that is counted for a publication is heard of it, and
\* the one that completes it takes a whole publication off the load.
LEMMA LedgerHandle ==
    ASSUME RunInv, TypeOK, LoadsAreCounted, LoadsAreCounted', faults \in Nat,
           NEW l \in Listener, Handle(l), NEW fin, NEW rep, Ledger(fin, rep)
    PROVE  \E more : Ledger(more, rep)'
  <1>1. /\ HandleEvent(l) /\ UNCHANGED <<ticks, faults>> /\ ticks \in 0..MaxPublications
      BY DEF Handle, RunInv
  <1>2. PICK e : e = Head(callback[l].events)
      OBVIOUS
  <1>3. PICK p : p = e.sequence
      OBVIOUS
  <1>4. IsFiniteSet(Publication)
      BY PipelineAssumption, FS_Interval DEF Publication
  <1>5. ASSUME NEW q
        PROVE  /\ Announced(q)' <= Announced(q)
               /\ \A k \in Kind : Due(q, k)' <= Due(q, k)
      <2>1. /\ Announced(q) \in Nat /\ Announced(q)' \in Nat
            /\ \A k \in Kind : Due(q, k) \in Nat /\ Due(q, k)' \in Nat
          BY DEF LoadsAreCounted
      <2>2. PICK c, d : /\ c \in {0, 1} /\ Announced(q) = Announced(q)' + c
                        /\ \A k \in Kind : d[k] \in {0, 1}
                        /\ \A k \in Kind : Due(q, k) = Due(q, k)' + d[k]
          <3> DEFINE c == IF l = "control" /\ e.sequence = q THEN 1 ELSE 0
                     d == [k \in Kind |-> IF l = "market" /\ e.sequence = q /\ e.kind = k
                                          THEN 1 ELSE 0]
          <3>1. c \in {0, 1} /\ \A k \in Kind : d[k] \in {0, 1}
              OBVIOUS
          <3>2. /\ Announced(q) = Announced(q)' + c
                /\ \A k \in Kind : Due(q, k) = Due(q, k)' + d[k]
              BY <1>2, HandleMoves
          <3> HIDE DEF c, d
          <3> QED
              BY <3>1, <3>2
      <2> QED
          BY <2>1, <2>2
  <1>6. CASE ~Correlates(e)
      <2>1. pending' = pending /\ total' = total /\ heard' = heard
          BY <1>1, <1>2, <1>6 DEF HandleEvent, Handle
      <2>2. \A q \in Publication : Load(q)' <= Load(q)
          BY <1>5, <2>1, LoadFalls
      <2>3. Ledger(fin, rep)'
          BY <1>1, <2>1, <2>2, LedgerKept
      <2> QED
          BY <2>3
  <1>7. CASE Correlates(e)
      <2>1. p \in Publication /\ p \in 1..ticks /\ p \in Int
          BY <1>2, <1>3, <1>7, CorrelatedHere
      <2>2. /\ Load(p)' + (IF p \in DOMAIN pending' THEN 0 ELSE Whole) <= Load(p)
            /\ total'.full = total.full + (IF p \in DOMAIN pending' THEN 0 ELSE 1)
            /\ DOMAIN pending' \subseteq DOMAIN pending \cup {p}
            /\ \A t \in DOMAIN pending \ {p} :
                 t \in DOMAIN pending' /\ pending'[t] = pending[t]
          BY <1>2, <1>3, <1>7, HandleLoad
      <2>3. heard' = heard \cup {p}
          BY <1>2, <1>3, <1>7 DEF Handle
      <2>4. \A q \in Publication \ {p} : Load(q)' <= Load(q)
          <3>1. TAKE q \in Publication \ {p}
          <3>2. /\ q \in DOMAIN pending' <=> q \in DOMAIN pending
                /\ q \in DOMAIN pending => pending'[q] = pending[q]
              BY <2>2, <3>1
          <3> QED
              BY <1>5, <3>2, LoadFalls
      <2>5. PICK one : one = IF p \in DOMAIN pending' THEN 0 ELSE 1
          OBVIOUS
      <2>6. PICK more : more = [fin EXCEPT ![p] = @ + one]
          OBVIOUS
      <2>7. one \in {0, 1}
          BY <2>5
      <2>8. fin \in [Publication -> Nat] /\ rep \in [Publication -> Nat]
          BY DEF Ledger
      <2>9. /\ more \in [Publication -> Nat] /\ more[p] = fin[p] + one
            /\ \A q \in Publication : q # p => more[q] = fin[q]
          BY <2>1, <2>7, <2>8, <2>6
      <2>10. total'.full = total.full + one
          BY <2>2, <2>5
      <2>11. Load(p)' + one * Whole <= Load(p)
          BY <2>2, <2>5, WholeType
      <2>12. one > 0 <=> p \notin DOMAIN pending'
          BY <2>5
      <2>13. total'.full = SumFunctionOnSet(more, Publication)
          <3>1. \A q \in Publication : fin[q] \in Int /\ more[q] \in Int
              BY <2>8, <2>9
          <3>2. SumFunctionOnSet(more, Publication) =
                  SumFunctionOnSet(fin, Publication) + (more[p] - fin[p])
              BY <1>4, <2>1, <2>9, <3>1, SumUpdate
          <3>3. total.full = SumFunctionOnSet(fin, Publication) /\ total.full \in Nat
              BY DEF Ledger, TypeOK, Counters
          <3>4. fin[p] \in Int
              BY <2>1, <3>1
          <3> QED
              BY <2>7, <2>9, <2>10, <3>2, <3>3, <3>4
      <2>14. \A q \in Publication :
               more[q] * Whole + Load(q)' <= (IF q <= ticks' THEN Whole ELSE 0) + rep[q]
          <3>1. TAKE q \in Publication
          <3> DEFINE room == IF q <= ticks THEN Whole ELSE 0
          <3>2. fin[q] * Whole + Load(q) <= room + rep[q]
              BY DEF Ledger
          <3>3. /\ Load(q) \in Nat /\ Load(q)' \in Nat /\ fin[q] \in Nat
                /\ Whole \in Nat /\ rep[q] \in Nat
              BY <2>8, WholeType DEF LoadsAreCounted
          <3>4. room \in Nat
              BY <3>3
          <3> HIDE DEF room
          <3>5. more[q] * Whole + Load(q)' <= fin[q] * Whole + Load(q)
              <4>1. fin[q] * Whole \in Nat
                  BY <3>3
              <4>2. CASE q = p
                  <5>1. more[q] * Whole = fin[q] * Whole + one * Whole
                      BY <2>7, <2>9, <3>3, <4>2
                  <5>2. one * Whole \in Nat
                      BY <2>7, <3>3
                  <5>3. Load(q)' + one * Whole <= Load(q)
                      BY <2>11, <4>2
                  <5> QED
                      BY <3>3, <4>1, <5>1, <5>2, <5>3
              <4>3. CASE q # p
                  <5>1. more[q] = fin[q] /\ Load(q)' <= Load(q)
                      BY <2>4, <2>9, <4>3
                  <5> QED
                      BY <3>3, <4>1, <5>1
              <4> QED
                  BY <4>2, <4>3
          <3>6. more[q] * Whole \in Nat /\ fin[q] * Whole \in Nat
              <4>1. more[q] \in Nat
                  BY <2>9
              <4> QED
                  BY <3>3, <4>1
          <3>7. more[q] * Whole + Load(q)' <= room + rep[q]
              BY <3>2, <3>3, <3>4, <3>5, <3>6
          <3> QED
              BY <1>1, <3>7 DEF room
      <2>15. heard' = { q \in Publication : more[q] > 0 \/ q \in DOMAIN pending' }
          <3>1. heard = { q \in Publication : fin[q] > 0 \/ q \in DOMAIN pending }
              BY DEF Ledger
          <3>2. more[p] > 0 \/ p \in DOMAIN pending'
              BY <2>1, <2>7, <2>8, <2>9, <2>12
          <3>3. \A q \in Publication \ {p} :
                  more[q] = fin[q] /\ (q \in DOMAIN pending' <=> q \in DOMAIN pending)
              BY <2>2, <2>9
          <3> QED
              BY <2>1, <2>3, <3>1, <3>2, <3>3
      <2>16. Ledger(more, rep)'
          BY <1>1, <2>8, <2>9, <2>13, <2>14, <2>15 DEF Ledger
      <2> QED
          BY <2>16
  <1> QED
      BY <1>6, <1>7

\* The messages of the publications are booked.
Booked == \E fin, rep : Ledger(fin, rep)

\* BookedKept: a step after which no more messages are on their way, and that
\* completes nothing, keeps the books.
LEMMA BookedKept ==
    ASSUME RunInv, RunInv', TypeOK, TypeOK', faults \in Nat, faults' \in Nat,
           faults <= faults', UNCHANGED <<heard, ticks, pending>>,
           total'.full = total.full,
           \A m \in Listener : \A V : Flight(m, V)' <= Flight(m, V),
           Booked
    PROVE  Booked'
  <1>1. LoadsAreCounted /\ LoadsAreCounted'
      BY LoadsCounted, LoadsAfter
  <1>2. ticks \in Nat
      BY PipelineAssumption DEF RunInv
  <1>3. \A p : /\ Announced(p)' <= Announced(p)
               /\ \A k \in Kind : Due(p, k)' <= Due(p, k)
      BY DEF Announced, Due, Listener
  <1>4. \A p \in Publication : Load(p)' <= Load(p)
      BY <1>1, <1>3, LoadFalls
  <1>5. PICK fin, rep : Ledger(fin, rep)
      BY DEF Booked
  <1>6. Ledger(fin, rep)'
      BY <1>1, <1>2, <1>4, <1>5, LedgerKept
  <1> QED
      BY <1>6 DEF Booked

\* BookedStill: in particular if no message moves and no batch is touched.
LEMMA BookedStill ==
    ASSUME RunInv, TypeOK, TypeOK', faults \in Nat,
           UNCHANGED <<ticks, skew, channel, superseded, heard, faults, pending,
                       preMeasurementSequences>>,
           \A l \in Listener :
             /\ callback'[l].events = callback[l].events
             /\ callback'[l].phase = "idle" => callback[l].events = <<>>,
           measuring' <=> stage' # "warmup",
           stage' = "measuring" => acceptingNewBatches',
           now' \in {now, now + 1},
           total'.full = total.full
    PROVE  RunInv' /\ (Booked => Booked')
  <1>1. RunInv'
      BY RunSame
  <1>2. \A m \in Listener : \A V : Flight(m, V)' <= Flight(m, V)
      <2>1. \A m \in Listener : \A V : Flight(m, V)' = Flight(m, V)
          BY SteadyFlights
      <2>2. \A m \in Listener : \A V : Flight(m, V) \in Nat
          BY FlightType
      <2> QED
          BY <2>1, <2>2
  <1>3. faults' \in Nat /\ faults <= faults'
      OBVIOUS
  <1> QED
      BY <1>1, <1>2, <1>3, BookedKept

\* BookedDelivery: a delivery moves messages from a channel into a callback.
LEMMA BookedDelivery ==
    ASSUME RunInv, TypeOK, TypeOK', faults \in Nat, NEW l \in Listener, Deliver(l)
    PROVE  RunInv' /\ (Booked => Booked')
  <1>1. UNCHANGED <<heard, ticks, pending, faults, total>>
      BY DEF Deliver, ReceiveEvents, history, counters
  <1>2. RunInv' /\ \A m \in Listener : \A V : Flight(m, V)' <= Flight(m, V)
      <2>1. RunInv' /\ \A m \in Listener : \A V : Flight(m, V)' = Flight(m, V)
          BY DeliverFlights
      <2>2. \A m \in Listener : \A V : Flight(m, V) \in Nat
          BY FlightType
      <2> QED
          BY <2>1, <2>2
  <1>3. faults' \in Nat /\ faults <= faults' /\ total'.full = total.full
      BY <1>1
  <1> QED
      BY <1>1, <1>2, <1>3, BookedKept

\* BookedWarmup: the warm-up drops the messages of a callback.
LEMMA BookedWarmup ==
    ASSUME RunInv, TypeOK, TypeOK', faults \in Nat, NEW l \in Listener,
           HandleWarmup(l), UNCHANGED environment
    PROVE  RunInv' /\ (Booked => Booked')
  <1>1. UNCHANGED <<heard, ticks, pending, faults, total, channel>>
      BY DEF HandleWarmup, environment, history, counters
  <1>2. /\ RunInv' /\ callback'[l].events = <<>>
        /\ \A m \in Listener \ {l} : callback'[m] = callback[m]
      BY WarmupRun
  <1>3. ASSUME NEW m \in Listener, NEW V PROVE Flight(m, V)' <= Flight(m, V)
      <2>1. /\ Occ(callback[m].events, V) \in Nat /\ Flight(m, V) \in Nat
            /\ Occ(Contents(channel[m]), V) \in Nat
          BY FlightType
      <2>2. CASE m = l
          <3>1. Flight(m, V)' = 0 + Occ(Contents(channel[m]), V)
              BY <1>1, <1>2, <2>2, OccEmpty DEF Flight
          <3> QED
              BY <2>1, <3>1 DEF Flight
      <2>3. CASE m # l
          <3>1. Flight(m, V)' = Flight(m, V)
              BY <1>1, <1>2, <2>3 DEF Flight
          <3> QED
              BY <2>1, <3>1
      <2> QED
          BY <2>2, <2>3
  <1>4. faults' \in Nat /\ faults <= faults' /\ total'.full = total.full
      BY <1>1
  <1> QED
      BY <1>1, <1>2, <1>3, <1>4, BookedKept

\* BookedListen: the beginning and the end of a callback.
LEMMA BookedListen ==
    ASSUME RunInv, TypeOK, TypeOK', faults \in Nat, NEW l \in Listener,
           HandleMeasured(l) \/ LeaveCallback(l), UNCHANGED environment
    PROVE  /\ RunInv' /\ (Booked => Booked')
           /\ total'.missing = total.missing
  <1>1. /\ UNCHANGED <<ticks, skew, channel, superseded, pending,
                       preMeasurementSequences, measuring, acceptingNewBatches,
                       stage, now>>
        /\ \A m \in Listener :
             /\ callback'[m].events = callback[m].events
             /\ callback'[m].phase = "idle" => callback[m].events = <<>>
      BY ListenSteady
  <1>2. total'.missing = total.missing /\ total'.full = total.full
      <2>1. PICK d \in { [Zero EXCEPT !.callbacks = 1],
                         [Zero EXCEPT !.callbackSizes = 1], Zero } :
              total' = Add(total, d)
          BY ListenSteady
      <2>2. d.missing = 0 /\ d.full = 0
          BY DEF Zero
      <2>3. total'.missing = total.missing + d.missing /\ total'.full = total.full + d.full
          BY <2>1 DEF Add
      <2>4. total.missing \in Nat /\ total.full \in Nat
          BY DEF TypeOK, Counters
      <2> QED
          BY <2>2, <2>3, <2>4
  <1>3. UNCHANGED <<heard, faults>>
      BY DEF environment, history
  <1>4. /\ measuring' <=> stage' # "warmup"
        /\ stage' = "measuring" => acceptingNewBatches'
      BY <1>1 DEF RunInv
  <1> QED
      BY <1>1, <1>2, <1>3, <1>4, BookedStill

\* BookedFault: a message that is lost leaves the books in order, one that is
\* repeated is entered as a repetition.
LEMMA BookedFault ==
    ASSUME RunInv, TypeOK, TypeOK', faults \in Nat,
           NEW l \in {"market", "control"}, Lose(l) \/ Repeat(l)
    PROVE  RunInv' /\ (Booked => Booked')
  <1>1. l \in Listener
      BY DEF Listener
  <1>2. CASE Lose(l)
      <2>1. UNCHANGED <<heard, ticks, pending, total>> /\ faults' = faults + 1
          BY <1>2 DEF Lose, vars, counters
      <2>2. RunInv' /\ \A m \in Listener : \A V : Flight(m, V)' <= Flight(m, V)
          BY <1>1, <1>2, LoseIs
      <2>3. faults' \in Nat /\ faults <= faults' /\ total'.full = total.full
          BY <2>1
      <2> QED
          BY <2>1, <2>2, <2>3, BookedKept
  <1>3. CASE Repeat(l)
      <2>1. RunInv'
          BY <1>1, <1>3, RepeatIs
      <2>2. LoadsAreCounted /\ LoadsAreCounted'
          BY <2>1, LoadsCounted, LoadsAfter
      <2>3. ASSUME Booked PROVE Booked'
          <3>1. PICK fin, rep : Ledger(fin, rep)
              BY <2>3 DEF Booked
          <3>2. PICK more : Ledger(fin, more)'
              BY <1>3, <2>2, <3>1, LedgerRepeat
          <3> QED
              BY <3>2 DEF Booked
      <2> QED
          BY <2>1, <2>3
  <1> QED
      BY <1>2, <1>3

\* BookedPublish: what is published is entered.
LEMMA BookedPublish ==
    ASSUME RunInv, TypeOK, TypeOK', ~allowConflation, Publish
    PROVE  RunInv' /\ (Booked => Booked')
  <1>1. RunInv'
      BY PublishRun
  <1>2. LoadsAreCounted /\ LoadsAreCounted'
      BY <1>1, LoadsCounted, LoadsAfter
  <1>3. ASSUME Booked PROVE Booked'
      <2>1. PICK fin, rep : Ledger(fin, rep)
          BY <1>3 DEF Booked
      <2>2. Ledger(fin, rep)'
          BY <1>1, <1>2, <2>1, LedgerPublish
      <2> QED
          BY <2>2 DEF Booked
  <1> QED
      BY <1>1, <1>3

\* BookedHandle: what is handled is counted.
LEMMA BookedHandle ==
    ASSUME RunInv, TypeOK, TypeOK', faults \in Nat, NEW l \in Listener, Handle(l)
    PROVE  RunInv' /\ (Booked => Booked')
  <1>1. RunInv'
      BY HandleRun
  <1>2. LoadsAreCounted /\ LoadsAreCounted'
      BY <1>1, LoadsCounted, LoadsAfter
  <1>3. ASSUME Booked PROVE Booked'
      <2>1. PICK fin, rep : Ledger(fin, rep)
          BY <1>3 DEF Booked
      <2>2. PICK more : Ledger(more, rep)'
          BY <1>2, <2>1, LedgerHandle
      <2> QED
          BY <2>2 DEF Booked
  <1> QED
      BY <1>1, <1>3

\* BookedMain: what main(), the task and the clock do.
LEMMA BookedMain ==
    ASSUME RunInv, IInv, IInv', faults \in Nat,
           \/ Begin \/ Window \/ EndDrain \/ Finishing
           \/ StopTask \/ RemoveTask \/ Idling \/ UNCHANGED pipelineVars
    PROVE  RunInv' /\ (Booked => Booked') /\ total'.missing = total.missing
  <1>0. TypeOK /\ TypeOK' /\ StageInv
      BY DEF IInv
  <1> DEFINE Same == /\ UNCHANGED <<ticks, skew, channel, superseded, heard, faults,
                                    preMeasurementSequences, callback, total>>
                     /\ pending' = pending /\ now' \in {now, now + 1}
             Flags == /\ measuring' <=> stage' # "warmup"
                      /\ stage' = "measuring" => acceptingNewBatches'
  <1>1. ASSUME Begin
        PROVE  Same /\ Flags
      <2>1. /\ UNCHANGED <<ticks, skew, channel, superseded, heard, faults,
                           preMeasurementSequences, callback, total, now>>
            /\ stage = "warmup" /\ stage' = "measuring"
            /\ measuring' = TRUE /\ acceptingNewBatches' = TRUE
            /\ pending' = EmptyPending
          BY <1>1 DEF Begin, BeginMeasurement, environment, history, clock, seen
      <2>2. pending' = pending
          <3>1. DOMAIN pending = {} /\ pending = [t \in DOMAIN pending |-> pending[t]]
              BY <1>0, <2>1 DEF StageInv, TypeOK
          <3> QED
              BY <2>1, <3>1 DEF EmptyPending
      <2> QED
          BY <2>1, <2>2
  <1>2. ASSUME EndDrain
        PROVE  Same /\ Flags
      <2>1. /\ UNCHANGED <<ticks, skew, channel, superseded, heard, faults, measuring,
                           preMeasurementSequences, callback, total, now, pending>>
            /\ stage = "measuring" /\ stage' = "ended"
          BY <1>2 DEF EndDrain, EndMeasurement, clock, seen, counters
      <2> QED
          BY <2>1 DEF RunInv
  <1>3. ASSUME Window \/ Finishing
        PROVE  Same /\ Flags
      <2>1. \/ TakeWindow(FALSE) \/ TakeWindow(TRUE) \/ ReturnWindow
            \/ TakeTotals \/ Close
          BY <1>3 DEF Window, Finishing
      <2>2. UNCHANGED <<ticks, skew, channel, superseded, heard, faults>>
          BY <1>3 DEF Window, Finishing, environment, history
      <2>3. UNCHANGED <<preMeasurementSequences, callback, total, now, pending,
                        measuring, acceptingNewBatches>>
          BY <2>1 DEF TakeWindow, ReturnWindow, TakeTotals, Close, clock, flags, seen,
                      counters
      <2>4. /\ stage' = "warmup" <=> stage = "warmup"
            /\ stage' = "measuring" => stage = "measuring"
          <3>1. CASE TakeWindow(FALSE) \/ TakeWindow(TRUE)
              BY <3>1 DEF TakeWindow
          <3>2. CASE ReturnWindow
              <4>1. stage \in {"measuring", "ended"}
                  BY <1>0, <3>2 DEF ReturnWindow, StageInv
              <4> QED
                  BY <3>2, <4>1 DEF ReturnWindow
          <3>3. CASE TakeTotals \/ Close
              BY <3>3 DEF TakeTotals, Close
          <3> QED
              BY <2>1, <3>1, <3>2, <3>3
      <2> QED
          BY <2>2, <2>3, <2>4 DEF RunInv
  <1>4. ASSUME StopTask \/ RemoveTask \/ Idling \/ UNCHANGED pipelineVars
        PROVE  Same /\ Flags
      <2>1. Same /\ UNCHANGED <<measuring, acceptingNewBatches, stage>>
          <3>1. CASE Tick /\ UNCHANGED environment
              BY <3>1 DEF Tick, environment, history, flags, seen, main, counters
          <3>2. CASE Exited /\ UNCHANGED environment
              BY <3>2 DEF Exited, vars, environment, history, clock, flags, seen, main,
                          counters
          <3>3. CASE StopTask \/ RemoveTask
              BY <3>3 DEF StopTask, RemoveTask, vars, history, clock, flags, seen,
                          main, counters
          <3>4. CASE UNCHANGED pipelineVars
              BY <3>4 DEF pipelineVars, vars, environment, history, clock, flags, seen,
                          main, counters
          <3> QED
              BY <1>4, <3>1, <3>2, <3>3, <3>4 DEF Idling
      <2> QED
          BY <2>1 DEF RunInv
  <1>5. Same /\ Flags
      BY <1>1, <1>2, <1>3, <1>4
  <1>6. \A l \in Listener :
           /\ callback'[l].events = callback[l].events
           /\ callback'[l].phase = "idle" => callback[l].events = <<>>
      BY <1>5 DEF RunInv
  <1> QED
      BY <1>0, <1>5, <1>6, BookedStill

\* MissedBatch: main() expires no batch of a STREAM_FEED run without a missing
\* one.
LEMMA MissedBatch ==
    ASSUME IInv, Expire, ~allowConflation
    PROVE  total'.missing > 0
  <1>0. TypeOK
      BY DEF IInv
  <1>1. PICK s \in expiring : total' = Add(total, Finish(pending[s]))
      BY DEF Expire, ExpireBatch, Accumulate
  <1>2. s \in DOMAIN pending /\ pending[s] \in PendingBatch
      BY <1>0 DEF TypeOK
  <1>3. Finish(pending[s]).missing = 1
      <2>1. CASE pending[s].timestamp = NoTime
          BY <2>1 DEF Finish, FinishUncorrelated, Zero
      <2>2. CASE pending[s].timestamp # NoTime
          <3>1. ~HasExpectedComposition(pending[s])
              BY <1>2, <2>2 DEF IInv, NoCompleteBatchPending, Marked
          <3>2. FinishCorrelated(pending[s]).missing = 1
              BY <3>1 DEF FinishCorrelated, Zero
          <3>3. Emission(pending[s]).missing = 0
              BY DEF Emission, Zero
          <3>4. Finish(pending[s]).missing = Emission(pending[s]).missing
                                               + FinishCorrelated(pending[s]).missing
              BY <2>2 DEF Finish, Add
          <3> QED
              BY <3>2, <3>3, <3>4
      <2> QED
          BY <2>1, <2>2
  <1>4. total'.missing = total.missing + Finish(pending[s]).missing
      BY <1>1 DEF Add
  <1>5. total.missing \in Nat
      BY <1>0 DEF TypeOK, Counters
  <1> QED
      BY <1>3, <1>4, <1>5

\* PInv: the books of a STREAM_FEED run are in order as long as no batch is
\* missing.
PInv ==
    /\ faults \in Nat
    /\ ~allowConflation => RunInv /\ (total.missing = 0 => Booked)

\* HandleMisses: an event that is handled takes no missing batch back.
LEMMA HandleMisses ==
    ASSUME HInv, NEW l \in Listener, HandleEvent(l)
    PROVE  total'.missing = 0 => total.missing = 0
  <1>1. total \in Counters
      BY DEF HInv, IInv, TypeOK
  <1>2. total' = total \/ \E d \in Counters : total' = Add(total, d)
      BY EventCounts DEF CountingStep, QuietStep, Counts, Accumulate, counters
  <1>3. \A d \in Counters : Add(total, d).missing = total.missing + d.missing
      BY DEF Add
  <1> QED
      BY <1>1, <1>2, <1>3 DEF Counters

\* BooksKept: every step of a STREAM_FEED run.
LEMMA BooksKept ==
    ASSUME HInv, IInv', PInv, ~allowConflation, [PipelineNext]_pipelineVars
    PROVE  RunInv' /\ (total'.missing = 0 => Booked')
  <1>0. /\ RunInv /\ TypeOK /\ TypeOK' /\ faults \in Nat
        /\ IInv /\ (total.missing = 0 => Booked)
      BY DEF PInv, HInv, IInv
  <1> DEFINE Goal == RunInv' /\ (total'.missing = 0 => Booked')
  <1>1. CASE Publish
      <2>1. total' = total
          BY <1>1 DEF Publish, vars, counters
      <2>2. RunInv' /\ (Booked => Booked')
          BY <1>0, <1>1, BookedPublish
      <2> QED
          BY <1>0, <2>1, <2>2
  <1>2. ASSUME NEW l \in Listener, Deliver(l) PROVE Goal
      <2>1. total' = total
          BY <1>2 DEF Deliver, ReceiveEvents, counters
      <2>2. RunInv' /\ (Booked => Booked')
          BY <1>0, <1>2, BookedDelivery
      <2> QED
          BY <1>0, <2>1, <2>2
  <1>3. ASSUME NEW l \in Listener, Handle(l) PROVE Goal
      <2>1. RunInv' /\ (Booked => Booked')
          BY <1>0, <1>3, BookedHandle
      <2>2. total'.missing = 0 => total.missing = 0
          BY <1>3, HandleMisses DEF Handle
      <2> QED
          BY <1>0, <2>1, <2>2
  <1>4. ASSUME NEW l \in Listener, ListenOnly(l) PROVE Goal
      <2>1. CASE HandleWarmup(l) /\ UNCHANGED environment
          <3>1. total' = total
              BY <2>1 DEF HandleWarmup, counters
          <3>2. RunInv' /\ (Booked => Booked')
              BY <1>0, <2>1, BookedWarmup
          <3> QED
              BY <1>0, <3>1, <3>2
      <2>2. CASE (HandleMeasured(l) \/ LeaveCallback(l)) /\ UNCHANGED environment
          <3>1. /\ RunInv' /\ (Booked => Booked')
                /\ total'.missing = total.missing
              BY <1>0, <2>2, BookedListen
          <3> QED
              BY <1>0, <3>1
      <2> QED
          BY <1>4, <2>1, <2>2 DEF ListenOnly
  <1>5. ASSUME NEW l \in {"market", "control"}, Lose(l) \/ Repeat(l) PROVE Goal
      <2>1. total' = total
          BY <1>5 DEF Lose, Repeat, vars, counters
      <2>2. RunInv' /\ (Booked => Booked')
          BY <1>0, <1>5, BookedFault
      <2> QED
          BY <1>0, <2>1, <2>2
  <1>6. CASE Expire
      <2>1. total'.missing > 0
          BY <1>0, <1>6, MissedBatch
      <2>2. RunInv'
          BY <1>0, <1>6, ExpireRun
      <2> QED
          BY <2>1, <2>2
  <1>7. CASE \/ Begin \/ Window \/ EndDrain \/ Finishing
             \/ StopTask \/ RemoveTask \/ Idling \/ UNCHANGED pipelineVars
      <2>1. RunInv' /\ (Booked => Booked') /\ total'.missing = total.missing
          BY <1>0, <1>7, BookedMain
      <2> QED
          BY <1>0, <2>1
  <1> QED
      BY <1>1, <1>2, <1>3, <1>4, <1>5, <1>6, <1>7 DEF PipelineNext

\* FaultsGrow: the faults are counted.
LEMMA FaultsGrow ==
    ASSUME faults \in Nat, [PipelineNext]_pipelineVars
    PROVE  faults' \in {faults, faults + 1}
  BY DEF PipelineNext, Publish, StopTask, Deliver, Handle, ListenOnly, Lose, Repeat,
         Begin, Window, RemoveTask, EndDrain, Expire, Finishing, Idling,
         pipelineVars, environment, history

\* BooksBegin: nothing is published yet.
LEMMA BooksBegin ==
    ASSUME PipelineInit
    PROVE  PInv
  <1>1. /\ total = Zero /\ heard = {} /\ faults = 0 /\ ticks = 0 /\ DOMAIN pending = {}
      BY DEF PipelineInit, Init, EmptyPending
  <1>2. RunInv /\ TypeOK
      BY InitClean, InitInvariant DEF PipelineInit, IInv
  <1>3. PICK none : none = [p \in Publication |-> 0]
      OBVIOUS
  <1>4. none \in [Publication -> Nat]
      BY <1>3
  <1>5. SumFunctionOnSet(none, Publication) = 0
      <2>1. IsFiniteSet(Publication)
          BY PipelineAssumption, FS_Interval DEF Publication
      <2> QED
          BY <1>3, <1>4, <2>1, SumZero
  <1>6. \A p \in Publication : Load(p) = 0
      <2>1. TAKE p \in Publication
      <2>2. Announced(p) = 0 /\ \A k : Due(p, k) = 0
          BY <1>1, <1>2, FutureNone
      <2>3. MarkOf(p) = 0 /\ \A k \in Kind : Got(p)[k] = 0
          BY <1>1 DEF MarkOf, Marked, Got, NoneOfKind
      <2>4. SumKinds([k \in Kind |-> Due(p, k) + Got(p)[k]]) = 0
          BY <2>2, <2>3 DEF SumKinds, Kind
      <2> QED
          BY <2>2, <2>3, <2>4 DEF Load
  <1>7. Ledger(none, none)
      <2>1. ASSUME NEW p \in Publication
            PROVE  none[p] * Whole + Load(p)
                     <= (IF p <= ticks THEN Whole ELSE 0) + none[p]
          <3>1. none[p] = 0 /\ Whole \in Nat /\ Load(p) = 0
              BY <1>3, <1>6, WholeType
          <3> QED
              BY <3>1
      <2>2. total.full = 0
          BY <1>1 DEF Zero
      <2>3. heard = { p \in Publication : none[p] > 0 \/ p \in DOMAIN pending }
          BY <1>1, <1>3
      <2> QED
          BY <1>1, <1>4, <1>5, <2>1, <2>2, <2>3 DEF Ledger
  <1> QED
      BY <1>1, <1>2, <1>7 DEF PInv, Booked

\* OncePerPublication: with less faults than a publication has messages, none
\* is completed twice.
LEMMA OncePerPublication ==
    ASSUME NEW fin, NEW rep, Ledger(fin, rep), RunInv, TypeOK, faults \in Nat,
           faults <= SumKinds(Expected), DOMAIN pending = {}
    PROVE  total.full = Cardinality(heard)
  <1>1. IsFiniteSet(Publication)
      BY PipelineAssumption, FS_Interval DEF Publication
  <1>2. /\ fin \in [Publication -> Nat] /\ rep \in [Publication -> Nat]
        /\ total.full = SumFunctionOnSet(fin, Publication)
        /\ SumFunctionOnSet(rep, Publication) <= faults
        /\ heard = { p \in Publication : fin[p] > 0 }
      BY DEF Ledger
  <1>3. ASSUME NEW p \in Publication
        PROVE  rep[p] < Whole
      <2>1. \A q \in Publication : rep[q] \in Nat
          BY <1>2
      <2>2. SumFunctionOnSet(rep, Publication) =
              rep[p] + SumFunctionOnSet(rep, Publication \ {p})
          BY <1>1, <2>1, SumRemove
      <2>3. SumFunctionOnSet(rep, Publication \ {p}) \in Nat
          <3>1. IsFiniteSet(Publication \ {p})
              BY <1>1, FS_Subset
          <3> QED
              BY <2>1, <3>1, SumNat
      <2>4. rep[p] \in Nat /\ SumKinds(Expected) \in Nat
          BY <2>1, WholeType
      <2> QED
          BY <1>2, <2>2, <2>3, <2>4 DEF Whole
  <1>4. ASSUME NEW p \in Publication
        PROVE  fin[p] \in {0, 1}
      <2>1. /\ fin[p] \in Nat /\ rep[p] \in Nat /\ Whole \in Nat /\ Whole >= 1
            /\ Load(p) \in Nat
          BY <1>2, WholeType, LoadsCounted DEF LoadsAreCounted
      <2>2. fin[p] * Whole + Load(p) <= (IF p <= ticks THEN Whole ELSE 0) + rep[p]
          BY DEF Ledger
      <2>3. fin[p] * Whole \in Nat
          BY <2>1
      <2>4. fin[p] * Whole < 2 * Whole
          BY <1>3, <2>1, <2>2, <2>3
      <2>5. ASSUME fin[p] >= 2 PROVE FALSE
          <3>1. PICK j : j = fin[p] - 2
              OBVIOUS
          <3>2. j \in Nat /\ fin[p] = 2 + j
              BY <2>1, <2>5, <3>1
          <3>3. (2 + j) * Whole = 2 * Whole + j * Whole /\ j * Whole \in Nat
              BY <2>1, <3>2
          <3> QED
              BY <2>1, <2>4, <3>2, <3>3
      <2> QED
          BY <2>1, <2>5
  <1>5. SumFunctionOnSet(fin, Publication) = Cardinality({ p \in Publication : fin[p] > 0 })
      BY <1>1, <1>4, SumOfOnes
  <1> QED
      BY <1>2, <1>5

\* PassedExact: what a run that passes has delivered.
LEMMA PassedExact ==
    ASSUME SampleInv, KindInv, HInv, FinalInv, FinalExact, PInv,
           Publishing, faults <= SumKinds(Expected)
    PROVE  PassedRunExact
  <1> SUFFICES ASSUME final # <<>>, ~allowConflation, Passed, NEW c, c = final[1]
               PROVE  /\ c.full = Cardinality(heard)
                      /\ c.batches = c.full
                      /\ c.uncorrelated = 0
                      /\ \A k \in Kind :
                           /\ c.published[k] = Expected[k] * c.full
                           /\ c.delivered[k] = c.published[k]
                           /\ c.events[k] = c.delivered[k]
      BY DEF PassedRunExact
  <1>1. c.missing = 0 /\ c.negative = 0
      <2>1. Analyzer!LatencyIntegrity(TotalRow("QUOTE"))
          BY DEF Passed, Kind
      <2> QED
          BY <2>1 DEF Analyzer!LatencyIntegrity, TotalRow
  <1>2. /\ SameDelivery(c, total)
        /\ c.batches = c.full
        /\ c.uncorrelated = 0
        /\ \A k \in Kind :
             /\ c.published[k] = Expected[k] * c.full
             /\ c.delivered[k] = c.published[k]
             /\ c.events[k] = c.delivered[k]
      BY <1>1, FinalSamples
  <1>3. total.full = c.full /\ total.missing = 0
      BY <1>1, <1>2 DEF SameDelivery
  <1>4. DOMAIN pending = {} /\ TypeOK
      BY DEF FinalInv, KindInv, IInv, StageInv
  <1>5. RunInv /\ faults \in Nat /\ \E fin, rep : Ledger(fin, rep)
      BY <1>3 DEF PInv, Booked
  <1>6. total.full = Cardinality(heard)
      BY <1>4, <1>5, OncePerPublication
  <1> QED
      BY <1>2, <1>3, <1>6

\* PassedRunsExact: whatever QD lost, whatever expired, and as long as it has
\* not repeated as many messages as a whole publication has, a run that the
\* analyzer passes (readLatencyTotals) delivered in full, and exactly once,
\* every publication the client heard of.
THEOREM PassedRunsExact ==
    PipelineSpec =>
        [](Publishing /\ faults <= SumKinds(Expected) => PassedRunExact)
  <1>1. Init => SampleInv /\ KindInv /\ FinalInv
      BY InitSamples, InitBounded DEF Init, FinalInv
  <1>2. SampleInv /\ KindInv /\ FinalInv /\ [Next]_vars
          => (SampleInv /\ KindInv /\ FinalInv)'
      BY NextInvariant, SampleStep, BoundedStep, FinalKept
         DEF SampleInv, KindInv, KindBounds
  <1>3. Spec => [](SampleInv /\ KindInv /\ FinalInv)
      BY <1>1, <1>2, PTL DEF Spec
  <1>4. PipelineInit => PInv
      BY BooksBegin
  <1>5. IInv' /\ HInv /\ PInv /\ [PipelineNext]_pipelineVars => PInv'
      <2> SUFFICES ASSUME IInv', HInv, PInv, [PipelineNext]_pipelineVars
                   PROVE  PInv'
          OBVIOUS
      <2>1. allowConflation' = allowConflation
          <3>1. [Next]_vars
              BY StepIsCollectorStep DEF pipelineVars
          <3> QED
              BY <3>1, FinalStep
      <2>2. faults' \in Nat
          BY FaultsGrow DEF PInv
      <2> QED
          BY <2>1, <2>2, BooksKept DEF PInv
  <1>6. KindInv => IInv
      BY DEF KindInv
  <1>7. SampleInv /\ KindInv /\ FinalInv /\ HInv /\ FinalExact /\ PInv
          => (Publishing /\ faults <= SumKinds(Expected) => PassedRunExact)
      BY PassedExact
  <1> QED
      BY <1>3, <1>4, <1>5, <1>6, <1>7, PipelineIsCollector, SoundInvariant,
         FinalTotalsExact, PTL DEF PipelineSpec
===============================================================================
