--------------------------- MODULE DeliveryProofs ---------------------------
(***************************************************************************)
(* Proofs about DeliveryClient: the maximum of racing raises, the row of    *)
(* the measurement, and what exit code 0 says.                              *)
(***************************************************************************)
EXTENDS DeliveryClient, Sums

-----------------------------------------------------------------------------
(* Types.                                                                   *)

Step == [op : {"add"}, counter : Counter, n : Nat]
          \cup [op : {"raise"}, counter : {"callbacks"}, n : Int]

Counts == [Counter -> Nat]

Activity == [left : Seq(Step), seen : Int, effect : Counts, inside : BOOLEAN]

Stage == {"starting", "startup", "warmup", "before", "measuring", "after",
          "writing", "closing", "returned"}

Row == [counts : [Counter -> Int], maximum : Int]

\* A thread between two callbacks is Idle.
IdleThreads == \A t \in Thread : thread[t].left = <<>> => thread[t] = Idle

TypeOK ==
    /\ client \in {"graal", "legacy"}
    /\ interrupted \in BOOLEAN
    /\ terminated \in BOOLEAN
    /\ counter \in Counts
    /\ maximum \in Int
    /\ thread \in [Thread -> Activity]
    /\ arrivals \in Nat
    /\ stage \in Stage
    /\ timeUp \in BOOLEAN
    /\ reading \in Seq(Counter)
    /\ before \in Counts
    /\ measured \in [Counter -> Int]
    /\ row \in {<<>>} \cup {<<r>> : r \in Row}
    /\ result \in {Running, 0, 1, 130}
    /\ raised \in SUBSET Int
    /\ whole \in Counts
    /\ touched \in Counts
    /\ cut \in BOOLEAN
    /\ IdleThreads
    /\ stage \in {"before", "after"} => reading # <<>>

-----------------------------------------------------------------------------
(* Programs and what they add.                                              *)

\* AmountType: a step adds a natural number to each counter.
LEMMA AmountType ==
    ASSUME NEW s \in Step, NEW c \in Counter PROVE Amount(s, c) \in Nat
BY DEF Step, Amount

\* Amounts: the summands of an effect.
Amounts(program, c) == [i \in DOMAIN program |-> Amount(program[i], c)]

\* EffectType: so does a program.
LEMMA EffectType ==
    ASSUME NEW p \in Seq(Step)
    PROVE  /\ Effect(p) \in Counts
           /\ \A c \in Counter :
                Effect(p)[c] = SumFunctionOnSet(Amounts(p, c), DOMAIN p)
PROOF
<1>1. ASSUME NEW c \in Counter
      PROVE  /\ Effect(p)[c] = SumFunctionOnSet(Amounts(p, c), DOMAIN p)
             /\ Effect(p)[c] \in Nat
    <2>1. Effect(p)[c] = SumFunctionOnSet(Amounts(p, c), DOMAIN p)
        BY DEF Effect, Amounts, SumFunction, SumFunctionOnSet, FoldFunction
    <2>2. \A i \in DOMAIN p : Amounts(p, c)[i] \in Nat
        BY AmountType DEF Amounts
    <2>3. IsFiniteSet(DOMAIN p)
        BY FS_Interval
    <2> QED
        BY <2>1, <2>2, <2>3, SumNat
<1>2. Effect(p) = [c \in Counter |-> Effect(p)[c]]
    BY DEF Effect
<1> QED
    BY <1>1, <1>2 DEF Counts

\* SumShift: the sum over 2 .. n + 1 is the one over 1 .. n, shifted.
LEMMA SumShift ==
    ASSUME NEW f, NEW g, NEW m \in Nat,
           \A i \in 1 .. m + 1 : f[i] \in Int,
           \A i \in 1 .. m : g[i] = f[i + 1]
    PROVE  SumFunctionOnSet(f, 2 .. m + 1) = SumFunctionOnSet(g, 1 .. m)
PROOF
<1> DEFINE N == { n \in Nat : n <= m =>
                    SumFunctionOnSet(f, 2 .. n + 1) =
                        SumFunctionOnSet(g, 1 .. n) }
<1>1. 0 \in N
    <2>1. 2 .. 0 + 1 = {} /\ 1 .. 0 = {}
        OBVIOUS
    <2>2. SumFunctionOnSet(f, 2 .. 0 + 1) = SumFunctionOnSet(f, {})
        BY <2>1, Zenon
    <2>3. SumFunctionOnSet(g, 1 .. 0) = SumFunctionOnSet(g, {})
        BY <2>1, Zenon
    <2> QED
        BY <2>2, <2>3, SumEmpty
<1>2. ASSUME NEW n \in Nat, n \in N PROVE n + 1 \in N
    <2>1. SUFFICES ASSUME n + 1 <= m
                   PROVE  SumFunctionOnSet(f, 2 .. (n + 1) + 1) =
                              SumFunctionOnSet(g, 1 .. n + 1)
        OBVIOUS
    <2>2. /\ 2 .. (n + 1) + 1 = (2 .. n + 1) \cup {n + 2}
          /\ 1 .. n + 1 = (1 .. n) \cup {n + 1}
          /\ n + 2 \notin 2 .. n + 1
          /\ n + 1 \notin 1 .. n
        OBVIOUS
    <2>3. /\ \A i \in 2 .. n + 1 : f[i] \in Int
          /\ \A i \in 1 .. n : g[i] \in Int
          /\ f[n + 2] \in Int
          /\ g[n + 1] = f[n + 2]
        BY <2>1
    <2> DEFINE F == 2 .. n + 1
               G == 1 .. n
    <2>9. IsFiniteSet(F) /\ IsFiniteSet(G)
        BY FS_Interval, 2 \in Int, 1 \in Int, n \in Int, n + 1 \in Int
    <2>10. g[n + 1] \in Int
        BY <2>3
    <2>11. \A i \in F : f[i] \in Int
        BY <2>3
    <2>12. \A i \in G : g[i] \in Int
        BY <2>3
    <2>13. n + 2 \notin F /\ n + 1 \notin G
        BY <2>2
    <2> HIDE DEF F, G
    <2>14. SumFunctionOnSet(f, F \cup {n + 2}) =
               SumFunctionOnSet(f, F) + f[n + 2]
        BY <2>3, <2>9, <2>11, <2>13, SumAdd
    <2>15. SumFunctionOnSet(g, G \cup {n + 1}) =
               SumFunctionOnSet(g, G) + g[n + 1]
        BY <2>9, <2>10, <2>12, <2>13, SumAdd
    <2>4. SumFunctionOnSet(f, (2 .. n + 1) \cup {n + 2}) =
              SumFunctionOnSet(f, 2 .. n + 1) + f[n + 2]
        BY <2>14 DEF F
    <2>5. SumFunctionOnSet(g, (1 .. n) \cup {n + 1}) =
              SumFunctionOnSet(g, 1 .. n) + g[n + 1]
        BY <2>15 DEF G
    <2>6. SumFunctionOnSet(f, 2 .. n + 1) = SumFunctionOnSet(g, 1 .. n)
        BY <1>2, <2>1
    <2>7. SumFunctionOnSet(f, 2 .. (n + 1) + 1) =
              SumFunctionOnSet(f, (2 .. n + 1) \cup {n + 2})
        BY <2>2, Zenon
    <2>8. SumFunctionOnSet(g, 1 .. n + 1) =
              SumFunctionOnSet(g, (1 .. n) \cup {n + 1})
        BY <2>2, Zenon
    <2> QED
        BY <2>3, <2>4, <2>5, <2>6, <2>7, <2>8
<1> HIDE DEF N
<1>3. m \in N
    BY <1>1, <1>2, NatSetInduction
<1> QED
    BY <1>3 DEF N

\* EffectEmpty: a finished program adds nothing more.
LEMMA EffectEmpty == Effect(<<>>) = NoCounts
PROOF
<1>1. ASSUME NEW c \in Counter PROVE Effect(<<>>)[c] = 0
    <2>0. <<>> \in Seq(Step)
        OBVIOUS
    <2>1. Effect(<<>>)[c] = SumFunctionOnSet(Amounts(<<>>, c), DOMAIN <<>>)
        BY <2>0, EffectType, Zenon
    <2>2. DOMAIN <<>> = {}
        OBVIOUS
    <2>3. SumFunctionOnSet(Amounts(<<>>, c), DOMAIN <<>>) =
              SumFunctionOnSet(Amounts(<<>>, c), {})
        BY <2>2, Zenon
    <2> QED
        BY <2>1, <2>3, SumEmpty
<1> QED
    BY <1>1 DEF Effect, NoCounts

\* EffectStep: a program adds what its first step and what the rest adds.
LEMMA EffectStep ==
    ASSUME NEW p \in Seq(Step), p # <<>>, NEW c \in Counter
    PROVE  Effect(p)[c] = Amount(Head(p), c) + Effect(Tail(p))[c]
PROOF
<1> DEFINE f == Amounts(p, c)
           g == Amounts(Tail(p), c)
           n == Len(p) - 1
<1>1. /\ n \in Nat
      /\ DOMAIN p = 1 .. n + 1
      /\ DOMAIN Tail(p) = 1 .. n
      /\ Tail(p) \in Seq(Step)
      /\ Head(p) = p[1]
      /\ \A i \in 1 .. n : Tail(p)[i] = p[i + 1]
    OBVIOUS
<1>2. \A i \in 1 .. n + 1 : f[i] \in Nat
    BY <1>1, AmountType DEF Amounts
<1>3. \A i \in 1 .. n : g[i] = f[i + 1]
    BY <1>1 DEF Amounts
<1>4. f[1] = Amount(Head(p), c)
    BY <1>1 DEF Amounts
<1>5. /\ Effect(p)[c] = SumFunctionOnSet(f, DOMAIN p)
      /\ Effect(Tail(p))[c] = SumFunctionOnSet(g, DOMAIN Tail(p))
    BY <1>1, EffectType
<1> HIDE DEF f, g
<1>6. SumFunctionOnSet(f, 2 .. n + 1) = SumFunctionOnSet(g, 1 .. n)
    BY <1>1, <1>2, <1>3, SumShift
<1>12. IsFiniteSet(2 .. n + 1)
    BY <1>1, FS_Interval, 2 \in Int, n + 1 \in Int
<1>7. /\ IsFiniteSet(2 .. n + 1) /\ 1 \notin 2 .. n + 1
      /\ 1 .. n + 1 = (2 .. n + 1) \cup {1}
      /\ \A i \in 2 .. n + 1 : f[i] \in Int
      /\ f[1] \in Int
    BY <1>1, <1>2, <1>12
<1>8. SumFunctionOnSet(f, (2 .. n + 1) \cup {1}) =
          SumFunctionOnSet(f, 2 .. n + 1) + f[1]
    BY <1>7, SumAdd
<1>9. SumFunctionOnSet(f, DOMAIN p) =
          SumFunctionOnSet(f, (2 .. n + 1) \cup {1})
    BY <1>1, <1>7, Zenon
<1>10. SumFunctionOnSet(g, DOMAIN Tail(p)) = SumFunctionOnSet(g, 1 .. n)
    BY <1>1, Zenon
<1>11. SumFunctionOnSet(f, 2 .. n + 1) \in Int
    BY <1>7, SumType
<1> HIDE DEF n
<1> QED
    BY <1>4, <1>5, <1>6, <1>7, <1>8, <1>9, <1>10, <1>11

\* KindIsFinite: there are finitely many kinds, each of them a counter.
LEMMA KindIsFinite == IsFiniteSet(Kind) /\ Kind \subseteq Counter
PROOF
<1> DEFINE All == {"QUOTE", "TRADE", "TRADE_ETH", "SUMMARY"}
<1>1. Kind \subseteq All
    BY DeliveryClientAssumption DEF DeliveryClientAssumption, Kind
<1> DEFINE Three == ({"QUOTE"} \cup {"TRADE"}) \cup {"TRADE_ETH"}
<1>2. All = Three \cup {"SUMMARY"}
    OBVIOUS
<1>3. IsFiniteSet({"QUOTE"})
    BY FS_Singleton
<1>4. IsFiniteSet({"QUOTE"} \cup {"TRADE"})
    BY <1>3, FS_AddElement
<1>5. IsFiniteSet(Three)
    BY <1>4, FS_AddElement
<1> HIDE DEF Three
<1>6. IsFiniteSet(All)
    BY <1>5, <1>2, FS_AddElement
<1>7. IsFiniteSet(Kind)
    BY <1>1, <1>6, FS_Subset
<1> QED
    BY <1>7 DEF Counter

\* ProgramType: what the libraries call runs a program of at least one step.
LEMMA ProgramType ==
    ASSUME NEW p \in GraalProgram \cup LegacyProgram
    PROVE  p \in Seq(Step) /\ p # <<>>
PROOF
<1>0. /\ {"callbacks", "recurring", "profiles"} \subseteq Counter
      /\ Kind \subseteq Counter
    BY DEF Counter
<1>1. /\ \A c \in Counter, n \in Nat : Add(c, n) \in Step
      /\ \A n \in Int : Raise(n) \in Step
    BY DEF Add, Raise, Step
<1>2. ASSUME NEW b \in MarketBatch, p = HandleMarketEvents(b)
      PROVE  p \in Seq(Step) /\ p # <<>>
    <2>1. b \in [Kind -> Nat]
        BY DeliveryClientAssumption DEF DeliveryClientAssumption
    <2>2. SumFunctionOnSet(b, Kind) \in Nat
        BY <2>1, KindIsFinite, SumNat
    <2>3. /\ Kinds \in Seq(Kind)
          /\ \A i \in DOMAIN Kinds : Kinds[i] \in Kind
        BY DeliveryClientAssumption DEF DeliveryClientAssumption, Kind
    <2>4. \A i \in DOMAIN Kinds : Add(Kinds[i], b[Kinds[i]]) \in Step
        BY <1>0, <1>1, <2>1, <2>3
    <2>5. DOMAIN Kinds = 1 .. Len(Kinds) /\ Len(Kinds) \in Nat
        BY <2>3
    <2>6. AddKinds(b) \in Seq(Step)
        BY <2>4, <2>5 DEF AddKinds
    <2> DEFINE size == SumFunctionOnSet(b, Kind)
               start == <<Add("callbacks", 1), Add("recurring", size),
                          Raise(size)>>
    <2>7. start \in Seq(Step) /\ start # <<>> /\ Len(start) = 3
        BY <1>0, <1>1, <2>2
    <2>8. p = start \o AddKinds(b)
        BY <1>2 DEF HandleMarketEvents
    <2> HIDE DEF start
    <2> QED
        BY <2>6, <2>7, <2>8
<1>3. ASSUME NEW n \in Nat, p = HandleProfiles(n)
      PROVE  p \in Seq(Step) /\ p # <<>>
    BY <1>0, <1>1, <1>3 DEF HandleProfiles
<1>4. ASSUME NEW k \in Kind \cup {"PROFILE"}, NEW n \in Int,
             p = OnEvents(k, n)
      PROVE  p \in Seq(Step) /\ p # <<>>
    <2> DEFINE count == IF n > 0 THEN n ELSE 0
               counted == IF k = "PROFILE" THEN <<Add("profiles", count)>>
                          ELSE <<Add("recurring", count), Add(k, count)>>
               start == <<Add("callbacks", 1), Raise(n)>>
    <2>1. count \in Nat
        OBVIOUS
    <2>2. k # "PROFILE" => k \in Counter
        BY <1>0
    <2>3. /\ Add("profiles", count) \in Step
          /\ Add("recurring", count) \in Step
          /\ k # "PROFILE" => Add(k, count) \in Step
          /\ Add("callbacks", 1) \in Step
          /\ Raise(n) \in Step
        BY <1>0, <1>1, <2>1, <2>2
    <2> HIDE DEF count
    <2>4. counted \in Seq(Step)
        BY <2>3
    <2>5. start \in Seq(Step) /\ Len(start) = 2
        BY <2>3
    <2>6. p = start \o counted
        BY <1>4 DEF OnEvents, count
    <2> HIDE DEF start, counted
    <2> QED
        BY <2>4, <2>5, <2>6
<1>5. DataCount \subseteq Int
    BY DeliveryClientAssumption DEF DeliveryClientAssumption
<1> QED
    BY <1>2, <1>3, <1>4, <1>5 DEF GraalProgram, LegacyProgram

-----------------------------------------------------------------------------
(* Type correctness.                                                        *)

\* ConcatAt: the elements of a concatenation.
LEMMA ConcatAt ==
    ASSUME NEW S, NEW f \in Seq(S), NEW g \in Seq(S)
    PROVE  /\ f \o g \in Seq(S)
           /\ Len(f \o g) = Len(f) + Len(g)
           /\ \A i \in 1 .. Len(f) : (f \o g)[i] = f[i]
           /\ \A i \in 1 .. Len(g) : (f \o g)[Len(f) + i] = g[i]
OBVIOUS

\* OrderType: both snapshots load every counter.
LEMMA OrderType ==
    /\ SnapshotOrder \in Seq(Counter)
    /\ SnapshotOrder # <<>>
    /\ \A c \in Counter : \E i \in DOMAIN SnapshotOrder : SnapshotOrder[i] = c
PROOF
<1> DEFINE start == <<"callbacks", "recurring">>
           end == <<"profiles">>
           most == start \o Kinds
           all == most \o end
<1>1. /\ Kinds \in Seq(Kind)
      /\ \A k \in Kind : \E i \in DOMAIN Kinds : Kinds[i] = k
    BY DeliveryClientAssumption DEF DeliveryClientAssumption, Kind
<1>2. start \in Seq(Counter) /\ end \in Seq(Counter) /\ Kinds \in Seq(Counter)
    BY <1>1 DEF Counter
<1>3. /\ Len(start) = 2 /\ start[1] = "callbacks" /\ start[2] = "recurring"
      /\ Len(end) = 1 /\ end[1] = "profiles"
      /\ Len(Kinds) \in Nat
      /\ DOMAIN Kinds = 1 .. Len(Kinds)
    BY <1>1
<1>4. SnapshotOrder = all
    BY DEF SnapshotOrder
<1> HIDE DEF start, end
<1>11. \A f, g \in Seq(Counter) :
          /\ f \o g \in Seq(Counter)
          /\ Len(f \o g) = Len(f) + Len(g)
          /\ \A i \in 1 .. Len(f) : (f \o g)[i] = f[i]
          /\ \A i \in 1 .. Len(g) : (f \o g)[Len(f) + i] = g[i]
    BY ConcatAt
<1>5. /\ most \in Seq(Counter)
      /\ Len(most) = Len(start) + Len(Kinds)
      /\ \A i \in 1 .. Len(start) : most[i] = start[i]
      /\ \A i \in 1 .. Len(Kinds) : most[Len(start) + i] = Kinds[i]
    BY <1>2, <1>11, Zenon DEF most
<1> HIDE DEF most
<1>6. /\ all \in Seq(Counter)
      /\ Len(all) = Len(most) + Len(end)
      /\ \A i \in 1 .. Len(most) : all[i] = most[i]
      /\ \A i \in 1 .. Len(end) : all[Len(most) + i] = end[i]
    BY <1>2, <1>5, <1>11, Zenon DEF all
<1> HIDE DEF all
<1>7. /\ DOMAIN all = 1 .. 3 + Len(Kinds)
      /\ all[1] = "callbacks"
      /\ all[2] = "recurring"
      /\ all[3 + Len(Kinds)] = "profiles"
    BY <1>3, <1>5, <1>6
<1>8. \A i \in 1 .. Len(Kinds) : all[2 + i] = Kinds[i]
    BY <1>3, <1>5, <1>6
<1>9. ASSUME NEW c \in Counter PROVE \E i \in DOMAIN all : all[i] = c
    <2>1. CASE c \in Kind
        <3>1. PICK i \in 1 .. Len(Kinds) : Kinds[i] = c
            BY <1>1, <1>3, <2>1
        <3>2. 2 + i \in DOMAIN all /\ all[2 + i] = c
            BY <3>1, <1>3, <1>7, <1>8
        <3> QED
            BY <3>2
    <2>2. CASE c \in {"callbacks", "recurring", "profiles"}
        BY <2>2, <1>3, <1>7
    <2> QED
        BY <2>1, <2>2 DEF Counter
<1>10. all # <<>>
    BY <1>3, <1>6, <1>7
<1> QED
    BY <1>4, <1>6, <1>9, <1>10

\* NoCountsType, AddCountsType: counts of callbacks stay counts.
LEMMA NoCountsType == NoCounts \in Counts /\ Idle \in Activity
BY DEF NoCounts, Counts, Idle, Activity, NoValue

\* So is what one callback adds, kind by kind.
LEMMA AddCountsType ==
    ASSUME NEW f \in Counts, NEW g \in Counts PROVE AddCounts(f, g) \in Counts
BY DEF AddCounts, Counts

\* AdvanceType: a finished step leaves a shorter program, or an idle thread.
LEMMA AdvanceType ==
    ASSUME TypeOK, NEW t \in Thread, thread[t].left # <<>>, Advance(t)
    PROVE  thread' \in [Thread -> Activity] /\ IdleThreads' /\ whole' \in Counts
PROOF
<1>1. thread \in [Thread -> Activity] /\ IdleThreads /\ whole \in Counts
    BY DEF TypeOK
<1>2. thread[t] \in Activity
    BY <1>1
<1> DEFINE last == Len(thread[t].left) = 1
           next == IF last THEN Idle
                   ELSE [thread[t] EXCEPT !.left = Tail(thread[t].left),
                                          !.seen = NoValue]
<1>3. thread' = [thread EXCEPT ![t] = next]
    BY Zenon DEF Advance
<1>9. thread[t].left \in Seq(Step)
    BY <1>2 DEF Activity
<1>4. last \/ Tail(thread[t].left) # <<>>
    <2>1. ASSUME NEW p \in Seq(Step), p # <<>>, Len(p) # 1
          PROVE  Tail(p) # <<>>
        <3>1. Len(Tail(p)) = Len(p) - 1
            BY <2>1
        <3> QED
            BY <2>1, <3>1
    <2> QED
        BY <1>9, <2>1
<1>5. next \in Activity /\ (next.left = <<>> => next = Idle)
    <2>1. CASE last
        BY <2>1, NoCountsType
    <2>2. CASE ~ last
        <3>1. next = [left |-> Tail(thread[t].left), seen |-> NoValue,
                      effect |-> thread[t].effect,
                      inside |-> thread[t].inside]
            BY <2>2, <1>2 DEF Activity
        <3>2. Tail(thread[t].left) \in Seq(Step)
            BY <1>9
        <3>4. thread[t].effect \in Counts /\ thread[t].inside \in BOOLEAN
            BY <1>2 DEF Activity
        <3> DEFINE rest == Tail(thread[t].left)
                   effect == thread[t].effect
                   inside == thread[t].inside
        <3> HIDE DEF rest, effect, inside
        <3>5. [left |-> rest, seen |-> NoValue, effect |-> effect,
               inside |-> inside] \in Activity
            BY <3>2, <3>4 DEF Activity, NoValue, rest, effect, inside
        <3>3. next \in Activity
            BY <3>1, <3>5 DEF rest, effect, inside
        <3> HIDE DEF next
        <3> QED
            BY <3>1, <3>3, <1>4, <2>2
    <2> QED
        BY <2>1, <2>2
<1> HIDE DEF next
<1>6. thread' \in [Thread -> Activity] /\ IdleThreads'
    BY <1>1, <1>3, <1>5 DEF IdleThreads
<1>7. thread[t].effect \in Counts
    BY <1>2 DEF Activity
<1>8. whole' \in Counts
    BY <1>1, <1>7, AddCountsType DEF Advance
<1> QED
    BY <1>6, <1>8

\* CompareType: so does a comparison that is decided; another one waits.
LEMMA CompareType ==
    ASSUME TypeOK, NEW t \in Thread, thread[t].left # <<>>,
           NEW v \in Int, NEW n \in Int, Compare(t, v, n)
    PROVE  /\ thread' \in [Thread -> Activity] /\ IdleThreads'
           /\ whole' \in Counts /\ raised' \in SUBSET Int
PROOF
<1>1. CASE v >= n
    BY <1>1, AdvanceType DEF Compare, TypeOK
<1>2. CASE ~ (v >= n)
    <2>1. /\ thread' = [thread EXCEPT ![t].seen = v]
          /\ whole' = whole /\ raised' = raised
        BY <1>2 DEF Compare
    <2>2. thread \in [Thread -> Activity] /\ IdleThreads
        BY DEF TypeOK
    <2>3. [thread[t] EXCEPT !.seen = v] \in Activity
        BY <2>2 DEF Activity
    <2>4. [thread[t] EXCEPT !.seen = v].left # <<>>
        BY <2>2 DEF Activity
    <2>5. thread' = [thread EXCEPT ![t] = [thread[t] EXCEPT !.seen = v]]
        BY <2>1
    <2>6. thread' \in [Thread -> Activity]
        BY <2>2, <2>3, <2>5
    <2>7. IdleThreads'
        BY <2>2, <2>4, <2>5 DEF IdleThreads
    <2> QED
        BY <2>1, <2>6, <2>7 DEF TypeOK
<1> QED
    BY <1>1, <1>2

\* The types hold before any thread was started.
LEMMA TypeInit == Init => TypeOK
PROOF
<1> SUFFICES ASSUME Init PROVE TypeOK
    OBVIOUS
<1>1. client \in {"graal", "legacy"}
    BY DeliveryClientAssumption DEF DeliveryClientAssumption, Init
<1>2. thread \in [Thread -> Activity] /\ IdleThreads
    BY NoCountsType DEF Init, IdleThreads
<1>3. /\ counter \in Counts /\ before \in Counts /\ whole \in Counts
      /\ touched \in Counts /\ measured \in [Counter -> Int]
    BY NoCountsType DEF Init, Counts
<1>4. /\ maximum \in Int /\ arrivals \in Nat /\ stage \in Stage
      /\ reading \in Seq(Counter) /\ row = <<>> /\ raised \in SUBSET Int
      /\ stage \notin {"before", "after"}
    BY DEF Init, Stage
<1>5. /\ interrupted \in BOOLEAN /\ terminated \in BOOLEAN
      /\ timeUp \in BOOLEAN /\ cut \in BOOLEAN
      /\ result \in {Running, 0, 1, 130}
    BY DEF Init
<1> QED
    BY <1>1, <1>2, <1>3, <1>4, <1>5 DEF TypeOK

\* ListenType: the steps of the listener threads keep the types.
LEMMA ListenType ==
    ASSUME TypeOK, NEW t \in Thread,
           EnterCallback(t) \/ FetchAdd(t) \/ LoadMaximum(t)
             \/ ExchangeMaximum(t)
    PROVE  TypeOK'
PROOF
<1> USE DEF flags, listeners, snapshots, outcome, InFlight
<1>0. thread \in [Thread -> Activity] /\ thread[t] \in Activity
    BY DEF TypeOK
<1>1. CASE EnterCallback(t)
    <2>1. PICK p \in GraalProgram \cup LegacyProgram :
             /\ thread' = [thread EXCEPT ![t] =
                    [left |-> p, seen |-> NoValue, effect |-> Effect(p),
                     inside |-> stage = "measuring"]]
             /\ touched' = IF Touching THEN AddCounts(touched, Effect(p))
                           ELSE touched
        BY <1>1 DEF EnterCallback
    <2>2. p \in Seq(Step) /\ p # <<>> /\ Effect(p) \in Counts
        BY ProgramType, EffectType
    <2>3. [left |-> p, seen |-> NoValue, effect |-> Effect(p),
           inside |-> stage = "measuring"] \in Activity
        BY <2>2 DEF Activity, NoValue
    <2>4. thread' \in [Thread -> Activity]
        BY <1>0, <2>1, <2>3
    <2>5. IdleThreads'
        BY <1>0, <2>1, <2>2 DEF IdleThreads, TypeOK
    <2>6. touched' \in Counts
        BY <2>1, <2>2, AddCountsType DEF TypeOK
    <2>7. arrivals' \in Nat
        BY <1>1 DEF EnterCallback, TypeOK
    <2> QED
        BY <1>1, <2>4, <2>5, <2>6, <2>7 DEF EnterCallback, TypeOK
<1>2. CASE FetchAdd(t)
    <2> DEFINE s == Head(thread[t].left)
    <2>1. /\ s \in Step /\ s.op = "add"
          /\ counter' = [counter EXCEPT ![s.counter] = @ + s.n]
          /\ thread[t].left # <<>> /\ Advance(t)
        BY <1>0, <1>2 DEF FetchAdd, Activity
    <2>2. s.counter \in Counter /\ s.n \in Nat
        BY <2>1 DEF Step
    <2> HIDE DEF s
    <2>5. /\ counter \in [Counter -> Nat]
          /\ counter[s.counter] + s.n \in Nat
        <3>1. counter \in [Counter -> Nat]
            BY DEF TypeOK, Counts
        <3>2. counter[s.counter] \in Nat
            BY <2>2, <3>1
        <3> QED
            BY <2>2, <3>1, <3>2
    <2>3. counter' \in Counts
        BY <2>1, <2>2, <2>5 DEF Counts
    <2>4. /\ thread' \in [Thread -> Activity] /\ IdleThreads'
          /\ whole' \in Counts
        BY <2>1, AdvanceType
    <2> QED
        BY <1>2, <2>3, <2>4 DEF FetchAdd, TypeOK
<1>3. ASSUME thread[t].left # <<>>
      PROVE  /\ Head(thread[t].left) \in Step
             /\ Head(thread[t].left).n \in Int
    BY <1>0, <1>3 DEF Activity, Step
<1>4. CASE LoadMaximum(t)
    <2>1. /\ thread[t].left # <<>>
          /\ Compare(t, maximum, Head(thread[t].left).n)
        BY <1>4 DEF LoadMaximum
    <2>2. maximum \in Int /\ Head(thread[t].left).n \in Int
        BY <1>3, <2>1 DEF TypeOK
    <2>3. /\ thread' \in [Thread -> Activity] /\ IdleThreads'
          /\ whole' \in Counts /\ raised' \in SUBSET Int
        BY <2>1, <2>2, CompareType
    <2> QED
        BY <1>4, <2>3 DEF LoadMaximum, TypeOK
<1>5. CASE ExchangeMaximum(t)
    <2> DEFINE n == Head(thread[t].left).n
    <2>1. n \in Int /\ thread[t].left # <<>> /\ maximum \in Int
        BY <1>3, <1>5 DEF ExchangeMaximum, TypeOK
    <2> HIDE DEF n
    <2>2. CASE /\ thread[t].seen = maximum /\ maximum' = n
               /\ raised' = raised \cup {n} /\ Advance(t)
        <3>1. /\ thread' \in [Thread -> Activity] /\ IdleThreads'
              /\ whole' \in Counts
            BY <2>1, <2>2, AdvanceType
        <3>4. raised \in SUBSET Int
            BY DEF TypeOK
        <3>2. raised' \in SUBSET Int
            BY <2>1, <2>2, <3>4
        <3>3. maximum' \in Int
            BY <2>1, <2>2
        <3> QED
            BY <1>5, <3>1, <3>2, <3>3 DEF ExchangeMaximum, TypeOK
    <2>3. CASE Compare(t, maximum, n) /\ UNCHANGED maximum
        <3>1. /\ thread' \in [Thread -> Activity] /\ IdleThreads'
              /\ whole' \in Counts /\ raised' \in SUBSET Int
            BY <2>1, <2>3, CompareType
        <3> QED
            BY <1>5, <2>3, <3>1 DEF ExchangeMaximum, TypeOK
    <2> QED
        BY <1>5, <2>2, <2>3 DEF ExchangeMaximum, n
<1> QED
    BY <1>1, <1>2, <1>4, <1>5

\* SnapshotType: so do the loads of both snapshots.
LEMMA SnapshotType ==
    ASSUME TypeOK, LoadBefore \/ LoadAfter
    PROVE  TypeOK'
PROOF
<1> USE DEF flags, listeners, snapshots, outcome
<1> DEFINE c == Head(reading)
<1>1. /\ reading \in Seq(Counter) /\ reading # <<>>
      /\ counter \in [Counter -> Nat] /\ before \in [Counter -> Nat]
      /\ measured \in [Counter -> Int]
    BY DEF LoadBefore, LoadAfter, TypeOK, Counts
<1>2. c \in Counter /\ Tail(reading) \in Seq(Counter)
    BY <1>1
<1> HIDE DEF c
<1>3. IdleThreads'
    BY DEF LoadBefore, LoadAfter, IdleThreads, TypeOK
<1>4. CASE LoadBefore
    <2>1. /\ reading' = Tail(reading)
          /\ before' = [before EXCEPT ![c] = counter[c]]
          /\ \/ reading' = <<>> /\ stage' = "measuring" /\ timeUp' = FALSE
             \/ reading' # <<>> /\ stage' = "before" /\ timeUp' = timeUp
        BY <1>4 DEF LoadBefore, Goto, c
    <2>2. before' \in Counts
        BY <1>1, <1>2, <2>1 DEF Counts
    <2>3. stage' \in Stage /\ timeUp' \in BOOLEAN
        BY <2>1 DEF Stage, TypeOK
    <2> QED
        BY <1>2, <1>3, <1>4, <2>1, <2>2, <2>3 DEF LoadBefore, TypeOK
<1>5. CASE LoadAfter
    <2>1. /\ reading' = Tail(reading)
          /\ measured' = [measured EXCEPT ![c] = counter[c] - before[c]]
          /\ \/ reading' = <<>> /\ stage' = "writing" /\ timeUp' = FALSE
             \/ reading' # <<>> /\ stage' = "after" /\ timeUp' = timeUp
        BY <1>5 DEF LoadAfter, Goto, Subtract, c
    <2>2. counter[c] - before[c] \in Int
        BY <1>1, <1>2
    <2>3. measured' \in [Counter -> Int]
        BY <1>1, <1>2, <2>1, <2>2
    <2>4. stage' \in Stage /\ timeUp' \in BOOLEAN
        BY <2>1 DEF Stage, TypeOK
    <2> QED
        BY <1>2, <1>3, <1>5, <2>1, <2>3, <2>4 DEF LoadAfter, TypeOK
<1> QED
    BY <1>4, <1>5

\* SumOverThreads: a sum of natural numbers over the threads is one.
LEMMA SumOverThreads ==
    ASSUME NEW f, \A t \in Thread : f[t] \in Nat
    PROVE  SumFunctionOnSet(f, Thread) \in Nat
BY SumNat, DeliveryClientAssumption DEF DeliveryClientAssumption

\* Effects: what the callback in progress on each thread adds in all to c.
Effects(c) == [t \in Thread |-> thread[t].effect[c]]

\* WindowType: so do the actions that begin and end the observed window.
LEMMA WindowType ==
    ASSUME TypeOK, ObserveWarmup \/ ObserveMeasurement
    PROVE  TypeOK'
PROOF
<1> USE DEF flags, listeners, snapshots, outcome
<1>1. IdleThreads'
    BY DEF ObserveWarmup, ObserveMeasurement, IdleThreads, TypeOK
<1>2. CASE ObserveWarmup
    <2>1. touched' \in Counts
        <3>1. ASSUME NEW c \in Counter
              PROVE  SumFunction([t \in Thread |-> thread[t].effect[c]]) \in Nat
            <4>1. \A t \in Thread : Effects(c)[t] \in Nat
                BY DEF Effects, TypeOK, Activity, Counts
            <4>2. SumFunctionOnSet(Effects(c), Thread) \in Nat
                BY <4>1, SumOverThreads
            <4>3. SumFunction(Effects(c)) = SumFunctionOnSet(Effects(c), Thread)
                BY DEF Effects, SumFunction, SumFunctionOnSet, FoldFunction
            <4> QED
                BY <4>2, <4>3 DEF Effects
        <3>2. touched' = [c \in Counter |->
                  SumFunction([t \in Thread |-> thread[t].effect[c]])]
            BY <1>2 DEF ObserveWarmup
        <3> QED
            BY <3>1, <3>2 DEF Counts
    <2>2. /\ reading' = SnapshotOrder /\ stage' = "before"
          /\ timeUp' = FALSE
        BY <1>2 DEF ObserveWarmup, Goto
    <2> QED
        BY <1>1, <1>2, <2>1, <2>2, OrderType DEF ObserveWarmup, TypeOK, Stage
<1>3. CASE ObserveMeasurement
    <2>1. /\ reading' = SnapshotOrder /\ stage' = "after"
          /\ timeUp' = FALSE /\ cut' = ~ timeUp
        BY <1>3 DEF ObserveMeasurement, Goto
    <2> QED
        BY <1>1, <1>3, <2>1, OrderType DEF ObserveMeasurement, TypeOK, Stage
<1> QED
    BY <1>2, <1>3

\* ControlType: so does everything else the main thread and the signals do.
LEMMA ControlType ==
    ASSUME TypeOK,
           \/ OnSignal \/ OnConnectionTerminated \/ Deadline
           \/ ConnectGraal \/ StartSession \/ WaitForStartup
           \/ WriteDelivery \/ Finish
    PROVE  TypeOK'
PROOF
<1> USE DEF flags, listeners, snapshots, outcome
<1>1. IdleThreads' /\ thread' = thread
    BY DEF OnSignal, OnConnectionTerminated, Deadline, ConnectGraal,
           StartSession, Starts, WaitForStartup, WriteDelivery, Finish,
           IdleThreads, TypeOK
<1>2. CASE OnSignal
    BY <1>1, <1>2 DEF OnSignal, TypeOK
<1>3. CASE OnConnectionTerminated
    BY <1>1, <1>3 DEF OnConnectionTerminated, TypeOK
<1>4. CASE Deadline
    BY <1>1, <1>4 DEF Deadline, TypeOK
<1>5. CASE ConnectGraal \/ StartSession
    BY <1>1, <1>5, ZenonT(30)
    DEF ConnectGraal, StartSession, Starts, Goto, Return, TypeOK, Stage
<1>6. CASE WaitForStartup
    <2>1. /\ stage' \in {"returned", "warmup"} /\ timeUp' = FALSE
          /\ result' \in {1, result}
        BY <1>6 DEF WaitForStartup, Goto, Return
    <2>2. result' \in {Running, 0, 1, 130}
        BY <2>1 DEF TypeOK
    <2>3. UNCHANGED <<client, flags, listeners, snapshots, row, touched, cut>>
        BY <1>6 DEF WaitForStartup
    <2>4. stage' \in Stage /\ stage' \notin {"before", "after"}
        BY <2>1 DEF Stage
    <2> HIDE DEF Stage
    <2> QED
        BY <1>1, <2>1, <2>2, <2>3, <2>4, ZenonT(30) DEF TypeOK
<1>7. CASE WriteDelivery
    <2>1. CASE /\ row' = <<[counts |-> measured, maximum |-> maximum]>>
               /\ Goto("closing") /\ UNCHANGED result
        <3>1. [counts |-> measured, maximum |-> maximum] \in Row
            BY DEF Row, TypeOK
        <3>2. row' \in {<<r>> : r \in Row}
            BY <2>1, <3>1
        <3> QED
            BY <1>1, <1>7, <2>1, <3>2 DEF WriteDelivery, Goto, TypeOK, Stage
    <2>2. CASE Return(1) /\ UNCHANGED row
        BY <1>1, <1>7, <2>2, ZenonT(30) DEF WriteDelivery, Return, Goto, TypeOK, Stage
    <2> QED
        BY <1>7, <2>1, <2>2 DEF WriteDelivery
<1>8. CASE Finish
    BY <1>1, <1>8, ZenonT(30) DEF Finish, Return, ExitCode, Goto, TypeOK, Stage
<1> QED
    BY <1>2, <1>3, <1>4, <1>5, <1>6, <1>7, <1>8

\* TypeUnchanged: a stuttering step changes no type.
LEMMA TypeUnchanged == TypeOK /\ UNCHANGED vars => TypeOK'
BY DEF vars, flags, listeners, snapshots, outcome, TypeOK, IdleThreads

\* Every step keeps the types.
LEMMA TypeStep == TypeOK /\ [Next]_vars => TypeOK'
PROOF
<1> SUFFICES ASSUME TypeOK, [Next]_vars PROVE TypeOK'
    OBVIOUS
<1>1. CASE Listen
    BY <1>1, ListenType DEF Listen
<1>2. CASE OnSignal \/ OnConnectionTerminated \/ Deadline
    BY <1>2, ControlType
<1>3. CASE Main
    <2>1. CASE LoadBefore \/ LoadAfter
        BY <2>1, SnapshotType
    <2>2. CASE ObserveWarmup \/ ObserveMeasurement
        BY <2>2, WindowType
    <2>3. CASE \/ ConnectGraal \/ StartSession \/ WaitForStartup
               \/ WriteDelivery \/ Finish
        BY <2>3, ControlType
    <2> QED
        BY <1>3, <2>1, <2>2, <2>3 DEF Main
<1>4. CASE UNCHANGED vars
    BY <1>4, TypeUnchanged
<1> QED
    BY <1>1, <1>2, <1>3, <1>4 DEF Next, Ended

\* TypeCorrect: the counters, threads and snapshots of both clients keep
\* their types, whatever interleaves.
THEOREM TypeCorrect == Spec => []TypeOK
PROOF
<1>1. TypeOK /\ [Next]_vars => TypeOK'
    BY TypeStep
<1> QED
    BY TypeInit, <1>1, PTL DEF Spec

-----------------------------------------------------------------------------
(* The maximum.  A thread that waits to exchange has seen a value smaller    *)
(* than its own, so an exchange only ever raises the maximum.                *)

Waiting(t) ==
    thread[t].seen # NoValue =>
        thread[t].left # <<>> /\ thread[t].seen < Head(thread[t].left).n

MaximumInv ==
    /\ maximum \in raised \cup {0}
    /\ maximum >= 0
    /\ \A n \in raised : n <= maximum
    /\ \A t \in Thread : Waiting(t)

\* AdvanceWaits: nobody waits after its step.
LEMMA AdvanceWaits ==
    ASSUME TypeOK, \A u \in Thread : Waiting(u), NEW t \in Thread,
           thread[t].left # <<>>, Advance(t)
    PROVE  \A u \in Thread : Waiting(u)'
PROOF
<1>1. thread \in [Thread -> Activity] /\ thread[t] \in Activity
    BY DEF TypeOK
<1>2. /\ thread' \in [Thread -> Activity]
      /\ \A u \in Thread \ {t} : thread'[u] = thread[u]
    BY <1>1, AdvanceType DEF Advance
<1>3. thread'[t].seen = NoValue
    BY <1>1 DEF Advance, Idle, Activity
<1> QED
    BY <1>2, <1>3 DEF Waiting

\* CompareWaits: a thread waits only for a maximum that is too small.
LEMMA CompareWaits ==
    ASSUME TypeOK, MaximumInv, NEW t \in Thread, thread[t].left # <<>>,
           Compare(t, maximum, Head(thread[t].left).n), maximum' = maximum,
           Head(thread[t].left).n \in Int
    PROVE  MaximumInv'
PROOF
<1> DEFINE n == Head(thread[t].left).n
<1>1. thread \in [Thread -> Activity] /\ thread[t] \in Activity
      /\ maximum \in Int /\ raised \in SUBSET Int
    BY DEF TypeOK
<1>2. CASE maximum >= n
    <2>1. Advance(t) /\ raised' = raised \cup {n}
        BY <1>2 DEF Compare
    <2>2. \A u \in Thread : Waiting(u)'
        BY <2>1, AdvanceWaits DEF MaximumInv
    <2>3. \A m \in raised' : m <= maximum'
        BY <1>1, <1>2, <2>1 DEF MaximumInv
    <2> QED
        BY <2>1, <2>2, <2>3 DEF MaximumInv
<1>3. CASE ~ (maximum >= n)
    <2>1. /\ thread' = [thread EXCEPT ![t].seen = maximum]
          /\ raised' = raised
        BY <1>3 DEF Compare
    <2>2. /\ \A u \in Thread \ {t} : thread'[u] = thread[u]
          /\ thread'[t].left = thread[t].left
          /\ thread'[t].seen = maximum
        BY <1>1, <2>1 DEF Activity
    <2>3. maximum < n
        BY <1>1, <1>3
    <2>4. ASSUME NEW u \in Thread PROVE Waiting(u)'
        <3>1. CASE u = t
            BY <2>2, <2>3, <3>1 DEF Waiting
        <3>2. CASE u # t
            BY <2>2, <3>2 DEF Waiting, MaximumInv
        <3> QED
            BY <3>1, <3>2
    <2> QED
        BY <2>1, <2>4 DEF MaximumInv
<1> QED
    BY <1>2, <1>3

\* Every step keeps the invariant of the maxima.
LEMMA MaximumStep == TypeOK /\ MaximumInv /\ [Next]_vars => MaximumInv'
PROOF
<1> SUFFICES ASSUME TypeOK, MaximumInv, [Next]_vars PROVE MaximumInv'
    OBVIOUS
<1> USE DEF flags, listeners, snapshots, outcome, InFlight
<1>0. /\ thread \in [Thread -> Activity] /\ maximum \in Int
      /\ raised \in SUBSET Int
    BY DEF TypeOK
<1>1. CASE UNCHANGED <<maximum, raised, thread>>
    BY <1>1 DEF MaximumInv, Waiting
<1>2. ASSUME NEW t \in Thread, thread[t].left # <<>>
      PROVE  Head(thread[t].left) \in Step /\ Head(thread[t].left).n \in Int
    BY <1>0, <1>2 DEF Activity, Step
<1>3. ASSUME NEW t \in Thread, EnterCallback(t) PROVE MaximumInv'
    <2>1. PICK p : thread' = [thread EXCEPT ![t] =
              [left |-> p, seen |-> NoValue, effect |-> Effect(p),
               inside |-> stage = "measuring"]]
        BY <1>3 DEF EnterCallback
    <2>2. /\ \A u \in Thread \ {t} : thread'[u] = thread[u]
          /\ thread'[t].seen = NoValue
        BY <1>0, <2>1
    <2>3. \A u \in Thread : Waiting(u)'
        BY <2>2 DEF Waiting, MaximumInv
    <2> QED
        BY <1>3, <2>3 DEF EnterCallback, MaximumInv
<1>4. ASSUME NEW t \in Thread, FetchAdd(t) PROVE MaximumInv'
    <2>1. \A u \in Thread : Waiting(u)'
        BY <1>4, AdvanceWaits DEF FetchAdd, MaximumInv
    <2> QED
        BY <1>4, <2>1 DEF FetchAdd, MaximumInv
<1>5. ASSUME NEW t \in Thread, LoadMaximum(t) PROVE MaximumInv'
    BY <1>2, <1>5, CompareWaits DEF LoadMaximum
<1>6. ASSUME NEW t \in Thread, ExchangeMaximum(t) PROVE MaximumInv'
    <2> DEFINE n == Head(thread[t].left).n
    <2>1. /\ thread[t].left # <<>> /\ n \in Int /\ thread[t].seen # NoValue
          /\ thread[t].seen < n
        BY <1>2, <1>6 DEF ExchangeMaximum, MaximumInv, Waiting
    <2> HIDE DEF n
    <2>2. CASE /\ thread[t].seen = maximum /\ maximum' = n
               /\ raised' = raised \cup {n} /\ Advance(t)
        <3>1. \A u \in Thread : Waiting(u)'
            BY <2>1, <2>2, AdvanceWaits DEF MaximumInv
        <3>2. maximum < n
            BY <2>1, <2>2
        <3>3. \A m \in raised' : m <= maximum'
            BY <1>0, <2>1, <2>2, <3>2 DEF MaximumInv
        <3>4. maximum' >= 0
            BY <1>0, <2>1, <2>2, <3>2 DEF MaximumInv
        <3> QED
            BY <2>2, <3>1, <3>3, <3>4 DEF MaximumInv
    <2>3. CASE Compare(t, maximum, n) /\ UNCHANGED maximum
        BY <2>1, <2>3, CompareWaits DEF n
    <2> QED
        BY <1>6, <2>2, <2>3 DEF ExchangeMaximum, n
<1>7. CASE OnSignal \/ OnConnectionTerminated \/ Deadline
    BY <1>1, <1>7 DEF OnSignal, OnConnectionTerminated, Deadline
<1>8. CASE Main
    BY <1>1, <1>8
    DEF Main, ConnectGraal, StartSession, Starts, WaitForStartup,
        ObserveWarmup, LoadBefore, ObserveMeasurement, LoadAfter,
        WriteDelivery, Finish
<1>9. CASE UNCHANGED vars
    BY <1>1, <1>9 DEF vars
<1> QED
    BY <1>3, <1>4, <1>5, <1>6, <1>7, <1>8, <1>9 DEF Next, Listen, Ended

\* NoRaiseLost: the maximum that both clients report is the largest batch any
\* of their threads has offered to it, for every number of threads.
THEOREM NoRaiseLost == Spec => []MaximumIsLargest
PROOF
<1>1. Init => MaximumInv
    <2> SUFFICES ASSUME Init PROVE MaximumInv
        OBVIOUS
    <2>1. \A t \in Thread : thread[t].seen = NoValue
        BY DEF Init, Idle
    <2> QED
        BY <2>1 DEF Init, MaximumInv, Waiting
<1>2. TypeOK /\ MaximumInv => MaximumIsLargest
    <2> SUFFICES ASSUME TypeOK, MaximumInv PROVE MaximumIsLargest
        OBVIOUS
    <2> DEFINE S == raised \cup {0}
    <2>1. /\ maximum \in S /\ S \subseteq Int
          /\ \A n \in S : maximum >= n
        BY DEF TypeOK, MaximumInv
    <2> HIDE DEF S
    <2>2. \A m \in S : (\A n \in S : m >= n) => m = maximum
        BY <2>1
    <2>3. Max(S) = maximum
        BY <2>1, <2>2 DEF Max
    <2> QED
        BY <2>3 DEF MaximumIsLargest, S
<1>3. MaximumInv /\ TypeOK /\ [Next]_vars => MaximumInv'
    BY MaximumStep
<1> QED
    BY <1>1, <1>2, <1>3, TypeCorrect, PTL DEF Spec

-----------------------------------------------------------------------------
(* The row.  While a counter is being observed, what the callbacks in        *)
(* progress have still to add to it keeps its difference within the counts   *)
(* of the callbacks that overlap the measurement, and what those inside the  *)
(* measurement have added keeps it above theirs.                             *)

\* What the callback in progress on each thread has still to add to c.
Rests(c) == [t \in Thread |-> Effect(thread[t].left)[c]]

\* What a callback that began inside the measurement has added to c.
DoneBy(t, c) ==
    IF thread[t].inside
    THEN thread[t].effect[c] - Effect(thread[t].left)[c]
    ELSE 0

Dones(c) == [t \in Thread |-> DoneBy(t, c)]

Rest(c) == SumFunctionOnSet(Rests(c), Thread)
Done(c) == SumFunctionOnSet(Dones(c), Thread)

\* The running snapshot has loaded c for good.
Loaded(c) == \A i \in DOMAIN reading : reading[i] # c

\* What the program of each thread has still to do is part of it.
PartOf(t) ==
    \A c \in Counter : Effect(thread[t].left)[c] <= thread[t].effect[c]

\* The counter has grown since it was loaded, and has not been loaded again.
Counting(c) ==
    \/ stage = "before" /\ Loaded(c)
    \/ stage = "measuring"
    \/ stage = "after" /\ ~ Loaded(c)

\* The second snapshot has loaded c.
Measured(c) ==
    \/ stage = "after" /\ Loaded(c)
    \/ stage \in {"writing", "closing"}

NothingInside ==
    stage \in {"starting", "startup", "warmup", "before"} =>
        /\ whole = NoCounts
        /\ \A t \in Thread : ~ thread[t].inside

Upper(c) ==
    /\ Touching => Rest(c) <= touched[c]
    /\ Counting(c) => counter[c] - before[c] + Rest(c) <= touched[c]
    /\ Measured(c) => measured[c] <= touched[c]

Lower(c) ==
    /\ Counting(c) => whole[c] <= counter[c] - before[c]
    /\ stage = "measuring" => whole[c] + Done(c) <= counter[c] - before[c]
    /\ Measured(c) => whole[c] <= measured[c]

RowInv ==
    /\ \A t \in Thread : PartOf(t)
    /\ NothingInside
    /\ \A c \in Counter : Upper(c)
    /\ \A c \in Counter : Lower(c)

\* RestType: what is left to add, and what was added inside, is natural.
LEMMA RestType ==
    ASSUME TypeOK, \A t \in Thread : PartOf(t), NEW c \in Counter
    PROVE  /\ \A t \in Thread : Effect(thread[t].left)[c] \in Nat
           /\ \A t \in Thread : DoneBy(t, c) \in Nat
           /\ Rest(c) \in Nat
           /\ Done(c) \in Nat
PROOF
<1>1. ASSUME NEW t \in Thread
      PROVE  Effect(thread[t].left)[c] \in Nat /\ DoneBy(t, c) \in Nat
    <2>1. /\ thread[t].left \in Seq(Step) /\ thread[t].effect \in Counts
          /\ thread[t].inside \in BOOLEAN
        BY DEF TypeOK, Activity
    <2>2. Effect(thread[t].left)[c] \in Nat
        BY <2>1, EffectType DEF Counts
    <2>3. thread[t].effect[c] \in Nat
        BY <2>1 DEF Counts
    <2>4. Effect(thread[t].left)[c] <= thread[t].effect[c]
        BY DEF PartOf
    <2> QED
        BY <2>2, <2>3, <2>4 DEF DoneBy
<1>2. Rest(c) \in Nat
    BY <1>1, SumOverThreads DEF Rest, Rests
<1>3. Done(c) \in Nat
    BY <1>1, SumOverThreads DEF Done, Dones
<1> QED
    BY <1>1, <1>2, <1>3

\* ThreadSums: a step of one thread changes the sums by its own share.
LEMMA ThreadSums ==
    ASSUME TypeOK, TypeOK', NEW t \in Thread,
           \A u \in Thread : PartOf(u), \A u \in Thread : PartOf(u)',
           \A u \in Thread \ {t} : thread'[u] = thread[u],
           NEW c \in Counter
    PROVE  /\ Rest(c)' = Rest(c) + (Effect(thread'[t].left)[c]
                                      - Effect(thread[t].left)[c])
           /\ Done(c)' = Done(c) + (DoneBy(t, c)' - DoneBy(t, c))
PROOF
<1> DEFINE f == Rests(c)
           g == Rests(c)'
           h == Dones(c)
           k == Dones(c)'
<1>0. IsFiniteSet(Thread)
    BY DeliveryClientAssumption DEF DeliveryClientAssumption
<1>1. \A u \in Thread : /\ f[u] = Effect(thread[u].left)[c]
                        /\ g[u] = Effect(thread'[u].left)[c]
                        /\ h[u] = DoneBy(u, c)
                        /\ k[u] = DoneBy(u, c)'
    BY DEF Rests, Dones
<1>2. \A u \in Thread : f[u] \in Int /\ h[u] \in Int
    BY <1>1, RestType
<1>3. \A u \in Thread : g[u] \in Int /\ k[u] \in Int
    <2>1. ASSUME NEW u \in Thread PROVE g[u] \in Int /\ k[u] \in Int
        <3>1. /\ thread'[u].left \in Seq(Step) /\ thread'[u].effect \in Counts
              /\ thread'[u].inside \in BOOLEAN
            BY SMTT(20) DEF TypeOK, Activity
        <3>2. Effect(thread'[u].left)[c] \in Int
            BY <3>1, EffectType DEF Counts
        <3>3. thread'[u].effect[c] \in Int
            BY <3>1 DEF Counts
        <3> QED
            BY <1>1, <3>2, <3>3 DEF DoneBy
    <2> QED
        BY <2>1
<1>4. \A u \in Thread : u # t => g[u] = f[u] /\ k[u] = h[u]
    BY <1>1 DEF DoneBy
<1> HIDE DEF f, g, h, k
<1>5. /\ SumFunctionOnSet(g, Thread) =
             SumFunctionOnSet(f, Thread) + (g[t] - f[t])
      /\ SumFunctionOnSet(k, Thread) =
             SumFunctionOnSet(h, Thread) + (k[t] - h[t])
    BY <1>0, <1>2, <1>3, <1>4, SumUpdate
<1>6. /\ SumFunctionOnSet(f, Thread) = Rest(c)
      /\ SumFunctionOnSet(g, Thread) = Rest(c)'
      /\ SumFunctionOnSet(h, Thread) = Done(c)
      /\ SumFunctionOnSet(k, Thread) = Done(c)'
    BY DEF f, g, h, k, Rest, Done
<1> QED
    BY <1>1, <1>5, <1>6

\* DoneNext: what was added inside is natural after a step, too.
LEMMA DoneNext ==
    ASSUME TypeOK', \A t \in Thread : PartOf(t)', NEW c \in Counter
    PROVE  Done(c)' \in Nat
PROOF
<1>1. ASSUME NEW t \in Thread PROVE DoneBy(t, c)' \in Nat
    <2>1. /\ thread'[t].left \in Seq(Step) /\ thread'[t].effect \in Counts
          /\ thread'[t].inside \in BOOLEAN
        BY DEF TypeOK, Activity
    <2>2. Effect(thread'[t].left)[c] \in Nat
        BY <2>1, EffectType DEF Counts
    <2>3. thread'[t].effect[c] \in Nat
        BY <2>1 DEF Counts
    <2>4. Effect(thread'[t].left)[c] <= thread'[t].effect[c]
        BY DEF PartOf
    <2> QED
        BY <2>2, <2>3, <2>4 DEF DoneBy
<1>2. \A t \in Thread : Dones(c)'[t] \in Nat
    BY <1>1 DEF Dones
<1> QED
    BY <1>2, SumOverThreads DEF Done

\* ThreadsUnchanged: the sums are the same where the threads have the same
\* left to do, whether or not one waits for the maximum.
LEMMA ThreadsUnchanged ==
    ASSUME NEW c \in Counter,
           \A t \in Thread : /\ thread'[t].left = thread[t].left
                             /\ thread'[t].effect = thread[t].effect
                             /\ thread'[t].inside = thread[t].inside
    PROVE  Rest(c)' = Rest(c) /\ Done(c)' = Done(c)
PROOF
<1>1. Rests(c)' = Rests(c)
    BY DEF Rests
<1>2. Dones(c)' = Dones(c)
    BY DEF Dones, DoneBy
<1> QED
    BY <1>1, <1>2, Zenon DEF Rest, Done

\* QuietStep: nothing but the progress of a thread, or the flags, changes.
LEMMA QuietStep ==
    ASSUME RowInv, UNCHANGED <<counter, whole, touched, before, measured,
                               reading, stage>>,
           \A t \in Thread : /\ thread'[t].left = thread[t].left
                             /\ thread'[t].effect = thread[t].effect
                             /\ thread'[t].inside = thread[t].inside
    PROVE  RowInv'
PROOF
<1>1. \A t \in Thread : PartOf(t)'
    BY DEF RowInv, PartOf
<1>2. NothingInside'
    BY DEF RowInv, NothingInside
<1>3. ASSUME NEW c \in Counter PROVE Upper(c)' /\ Lower(c)'
    <2>1. Rest(c)' = Rest(c) /\ Done(c)' = Done(c)
        BY ThreadsUnchanged
    <2>2. /\ Counting(c)' <=> Counting(c)
          /\ Measured(c)' <=> Measured(c)
          /\ Touching' <=> Touching
        BY DEF Counting, Measured, Touching, Loaded
    <2>3. Upper(c) /\ Lower(c)
        BY DEF RowInv
    <2> QED
        BY <2>1, <2>2, <2>3 DEF Upper, Lower
<1> QED
    BY <1>1, <1>2, <1>3 DEF RowInv

\* EnterRow: a callback that begins overlaps the measurement with all it does.
LEMMA EnterRow ==
    ASSUME TypeOK, TypeOK', RowInv, NEW t \in Thread, EnterCallback(t)
    PROVE  RowInv'
PROOF
<1> USE DEF flags, snapshots, outcome
<1>1. PICK p \in GraalProgram \cup LegacyProgram :
         /\ thread' = [thread EXCEPT ![t] =
                [left |-> p, seen |-> NoValue, effect |-> Effect(p),
                 inside |-> stage = "measuring"]]
         /\ touched' = IF Touching THEN AddCounts(touched, Effect(p))
                       ELSE touched
    BY DEF EnterCallback
<1>2. /\ thread \in [Thread -> Activity]
      /\ thread[t].left = <<>> /\ thread[t] = Idle
    BY DEF EnterCallback, InFlight, TypeOK, IdleThreads
<1>3. /\ \A u \in Thread \ {t} : thread'[u] = thread[u]
      /\ thread'[t].left = p /\ thread'[t].effect = Effect(p)
      /\ thread'[t].inside = (stage = "measuring")
    BY <1>1, <1>2
<1>4. p \in Seq(Step) /\ Effect(p) \in [Counter -> Nat]
    BY ProgramType, EffectType DEF Counts
<1>5. \A u \in Thread : PartOf(u)
    BY DEF RowInv
<1>6. \A u \in Thread : PartOf(u)'
    <2>1. PartOf(t)'
        BY <1>3, <1>4 DEF PartOf
    <2> QED
        BY <1>3, <1>5, <2>1 DEF PartOf
<1>7. UNCHANGED <<counter, whole, before, measured, reading, stage>>
    BY DEF EnterCallback
<1>8. NothingInside'
    BY <1>3, <1>7 DEF NothingInside, RowInv
<1>9. ASSUME NEW c \in Counter PROVE Upper(c)' /\ Lower(c)'
    <2> DEFINE e == Effect(p)[c]
    <2>1. e \in Nat
        BY <1>4
    <2>2. Effect(thread[t].left)[c] = 0
        BY <1>2, EffectEmpty DEF NoCounts
    <2>3. DoneBy(t, c) = 0 /\ DoneBy(t, c)' = 0
        BY <1>2, <1>3, <2>1 DEF DoneBy, Idle
    <2>4. /\ Rest(c)' = Rest(c) + (Effect(thread'[t].left)[c]
                                    - Effect(thread[t].left)[c])
          /\ Done(c)' = Done(c) + (DoneBy(t, c)' - DoneBy(t, c))
        BY <1>3, <1>5, <1>6, ThreadSums
    <2>5. Rest(c) \in Nat /\ Done(c) \in Nat
        BY <1>5, RestType
    <2>6. Rest(c)' = Rest(c) + e /\ Done(c)' = Done(c)
        BY <1>3, <2>1, <2>2, <2>3, <2>4, <2>5
    <2>7. touched' [c] = IF Touching THEN touched[c] + e ELSE touched[c]
        BY <1>1 DEF AddCounts
    <2>8. /\ Counting(c)' <=> Counting(c)
          /\ Measured(c)' <=> Measured(c)
          /\ Touching' <=> Touching
          /\ Counting(c) => Touching
        BY <1>7 DEF Counting, Measured, Touching, Loaded
    <2>9. Upper(c) /\ Lower(c)
        BY DEF RowInv
    <2>10. /\ counter[c] \in Nat /\ before[c] \in Nat /\ touched[c] \in Nat
           /\ measured[c] \in Int
        BY DEF TypeOK, Counts
    <2> HIDE DEF e
    <2>11. Upper(c)'
        BY <1>7, <2>1, <2>5, <2>6, <2>7, <2>8, <2>9, <2>10 DEF Upper
    <2>12. Lower(c)'
        BY <1>7, <2>6, <2>8, <2>9 DEF Lower
    <2> QED
        BY <2>11, <2>12
<1> QED
    BY <1>6, <1>8, <1>9 DEF RowInv

\* AdvanceThread: the callback goes on with the rest of its program, or it
\* ends and is counted if it lay inside the measurement.
LEMMA AdvanceThread ==
    ASSUME TypeOK, NEW t \in Thread, thread[t].left # <<>>, Advance(t)
    PROVE  /\ \A u \in Thread \ {t} : thread'[u] = thread[u]
           /\ \A c \in Counter : Effect(thread'[t].left)[c] =
                                     Effect(Tail(thread[t].left))[c]
           /\ \/ /\ thread'[t] = Idle
                 /\ \A c \in Counter : Effect(Tail(thread[t].left))[c] = 0
                 /\ whole' = IF thread[t].inside /\ stage = "measuring"
                             THEN AddCounts(whole, thread[t].effect)
                             ELSE whole
              \/ /\ thread'[t].effect = thread[t].effect
                 /\ thread'[t].inside = thread[t].inside
                 /\ whole' = whole
PROOF
<1> DEFINE p == thread[t].left
           last == Len(p) = 1
<1>1. thread \in [Thread -> Activity] /\ thread[t] \in Activity
    BY DEF TypeOK
<1>2. p \in Seq(Step)
    BY <1>1 DEF Activity
<1>3. /\ thread' = [thread EXCEPT ![t] =
             IF last THEN Idle
             ELSE [thread[t] EXCEPT !.left = Tail(p), !.seen = NoValue]]
      /\ whole' = IF last /\ thread[t].inside /\ stage = "measuring"
                  THEN AddCounts(whole, thread[t].effect) ELSE whole
    BY Zenon DEF Advance
<1>4. \A u \in Thread \ {t} : thread'[u] = thread[u]
    BY <1>1, <1>3, Zenon
<1>5. CASE last
    <2>1. thread'[t] = Idle
        BY <1>1, <1>3, <1>5, Zenon
    <2>2. ASSUME NEW q \in Seq(Step), Len(q) = 1 PROVE Tail(q) = <<>>
        <3>1. Tail(q) \in Seq(Step) /\ Len(Tail(q)) = 0
            BY <2>2
        <3>2. \A f \in Seq(Step) : Len(f) = 0 => f = <<>>
            OBVIOUS
        <3> QED
            BY <3>1, <3>2
    <2>3. Tail(p) = <<>>
        BY <1>2, <1>5, <2>2
    <2>4. thread'[t].left = <<>>
        BY <2>1 DEF Idle
    <2>5. \A c \in Counter : Effect(Tail(p))[c] = 0
        BY <2>3, EffectEmpty DEF NoCounts
    <2>6. \A c \in Counter : Effect(thread'[t].left)[c] = Effect(Tail(p))[c]
        BY <2>3, <2>4, Zenon
    <2> QED
        BY <1>3, <1>4, <1>5, <2>1, <2>5, <2>6
<1>6. CASE ~ last
    <2> DEFINE rest == Tail(p)
    <2>1. thread'[t] = [thread[t] EXCEPT !.left = rest, !.seen = NoValue]
        BY <1>1, <1>3, <1>6, Zenon
    <2> HIDE DEF rest
    <2>2. /\ thread'[t].left = rest
          /\ thread'[t].effect = thread[t].effect
          /\ thread'[t].inside = thread[t].inside
        BY <1>1, <2>1 DEF Activity
    <2>3. whole' = whole
        BY <1>3, <1>6
    <2>4. \A c \in Counter : Effect(thread'[t].left)[c] = Effect(Tail(p))[c]
        BY <2>2, Zenon DEF rest
    <2> QED
        BY <1>4, <2>2, <2>3, <2>4
<1> QED
    BY <1>5, <1>6

\* AdvanceRow: a step adds to its counter what is no longer left to add.
LEMMA AdvanceRow ==
    ASSUME TypeOK, TypeOK', RowInv, NEW t \in Thread, thread[t].left # <<>>,
           Advance(t), UNCHANGED <<touched, before, measured, reading, stage>>,
           \A c \in Counter :
               counter'[c] = counter[c] + Amount(Head(thread[t].left), c)
    PROVE  RowInv'
PROOF
<1> DEFINE p == thread[t].left
           effect == thread[t].effect
           inside == thread[t].inside
<1>1. /\ p \in Seq(Step) /\ effect \in [Counter -> Nat]
      /\ inside \in BOOLEAN
    <2>1. thread[t] \in Activity
        BY DEF TypeOK
    <2> QED
        BY <2>1 DEF Activity, Counts
<1>2. /\ \A u \in Thread \ {t} : thread'[u] = thread[u]
      /\ \A c \in Counter : Effect(thread'[t].left)[c] = Effect(Tail(p))[c]
    BY AdvanceThread
<1>3. \/ /\ thread'[t] = Idle
         /\ \A c \in Counter : Effect(Tail(p))[c] = 0
         /\ whole' = IF inside /\ stage = "measuring"
                     THEN AddCounts(whole, effect) ELSE whole
      \/ /\ thread'[t].effect = effect
         /\ thread'[t].inside = inside
         /\ whole' = whole
    BY AdvanceThread
<1>4. ASSUME NEW c \in Counter
      PROVE  /\ Amount(Head(p), c) \in Nat
             /\ Effect(p)[c] \in Nat
             /\ Effect(Tail(p))[c] \in Nat
             /\ Effect(p)[c] = Amount(Head(p), c) + Effect(Tail(p))[c]
    <2>1. Head(p) \in Step /\ Tail(p) \in Seq(Step)
        BY <1>1
    <2> QED
        BY <1>1, <2>1, AmountType, EffectType, EffectStep DEF Counts
<1>5. \A u \in Thread : PartOf(u)
    BY DEF RowInv
<1>6. \A u \in Thread : PartOf(u)'
    <2>1. ASSUME NEW c \in Counter
          PROVE  Effect(thread'[t].left)[c] <= thread'[t].effect[c]
        <3>1. Effect(p)[c] <= effect[c]
            BY <1>5 DEF PartOf
        <3>2. CASE thread'[t] = Idle /\ Effect(Tail(p))[c] = 0
            BY <1>2, <3>2 DEF Idle, NoCounts
        <3>3. CASE thread'[t].effect = effect
            BY <1>1, <1>2, <1>4, <3>1, <3>3
        <3> QED
            BY <1>3, <3>2, <3>3
    <2> QED
        BY <1>2, <1>5, <2>1 DEF PartOf
<1>7. NothingInside'
    <2>1. stage # "measuring" =>
              whole' = whole /\ (~ inside => ~ thread'[t].inside)
        BY <1>3 DEF Idle
    <2> QED
        BY <1>2, <2>1 DEF RowInv, NothingInside
<1>8. ASSUME NEW c \in Counter PROVE Upper(c)' /\ Lower(c)'
    <2> DEFINE d == Amount(Head(p), c)
               rest == Effect(p)[c]
               next == Effect(Tail(p))[c]
    <2>1. d \in Nat /\ rest \in Nat /\ next \in Nat /\ rest = d + next
        BY <1>4
    <2>2. /\ Rest(c)' = Rest(c) + (Effect(thread'[t].left)[c]
                                    - Effect(thread[t].left)[c])
          /\ Done(c)' = Done(c) + (DoneBy(t, c)' - DoneBy(t, c))
        BY <1>2, <1>5, <1>6, ThreadSums
    <2>3. Rest(c) \in Nat /\ Done(c) \in Nat /\ DoneBy(t, c) \in Nat
        BY <1>5, RestType
    <2>4. Effect(thread'[t].left)[c] = next /\ Effect(thread[t].left)[c] = rest
        BY <1>2
    <2>5. /\ counter[c] \in Nat /\ before[c] \in Nat /\ touched[c] \in Nat
          /\ measured[c] \in Int /\ whole[c] \in Nat /\ effect[c] \in Nat
        BY <1>1 DEF TypeOK, Counts
    <2>6. /\ counter'[c] = counter[c] + d
          /\ touched'[c] = touched[c] /\ before'[c] = before[c]
          /\ measured'[c] = measured[c]
        OBVIOUS
    <2>7. DoneBy(t, c) = IF inside THEN effect[c] - rest ELSE 0
        BY DEF DoneBy
    <2>8. \/ /\ next = 0 /\ DoneBy(t, c)' = 0
             /\ whole'[c] = IF inside /\ stage = "measuring"
                            THEN whole[c] + effect[c] ELSE whole[c]
          \/ /\ DoneBy(t, c)' = IF inside THEN effect[c] - next ELSE 0
             /\ whole'[c] = whole[c]
        <3>1. CASE /\ thread'[t] = Idle
                   /\ \A i \in Counter : Effect(Tail(p))[i] = 0
                   /\ whole' = IF inside /\ stage = "measuring"
                               THEN AddCounts(whole, effect) ELSE whole
            <4>1. DoneBy(t, c)' = 0
                BY <3>1 DEF DoneBy, Idle
            <4>2. next = 0
                BY <3>1
            <4>3. whole'[c] = IF inside /\ stage = "measuring"
                              THEN whole[c] + effect[c] ELSE whole[c]
                BY <3>1 DEF AddCounts
            <4> QED
                BY <4>1, <4>2, <4>3
        <3>2. CASE thread'[t].effect = effect /\ thread'[t].inside = inside
                   /\ whole' = whole
            BY <2>4, <3>2 DEF DoneBy
        <3> QED
            BY <1>3, <3>1, <3>2
    <2> HIDE DEF d, rest, next, effect, inside, p
    <2>9. Rest(c)' = Rest(c) - d
        BY <2>1, <2>2, <2>3, <2>4
    <2>10. stage = "measuring" =>
               whole'[c] + Done(c)' <= whole[c] + Done(c) + d
        <3> DEFINE x == DoneBy(t, c)
                   y == DoneBy(t, c)'
                   w == whole[c]
                   e == effect[c]
                   sum == Done(c)
                   z == whole'[c]
        <3>1. Done(c)' = sum + (y - x)
            BY <2>2
        <3>2. /\ x = IF inside THEN e - rest ELSE 0
              /\ \/ /\ next = 0 /\ y = 0
                    /\ z = IF inside /\ stage = "measuring" THEN w + e ELSE w
                 \/ /\ y = IF inside THEN e - next ELSE 0
                    /\ z = w
            BY <2>7, <2>8
        <3>3. w \in Nat /\ e \in Nat /\ sum \in Nat
            BY <2>3, <2>5
        <3> HIDE DEF x, y, w, e, sum, z
        <3>4. stage = "measuring" => z + (sum + (y - x)) <= w + sum + d
            BY <2>1, <3>2, <3>3
        <3> QED
            BY <3>1, <3>4 DEF w, sum, z
    <2>11. stage # "measuring" => whole'[c] = whole[c]
        BY <2>8
    <2>12. Done(c)' \in Nat
        BY <1>6, DoneNext
    <2>13. /\ Counting(c)' <=> Counting(c)
           /\ Measured(c)' <=> Measured(c)
           /\ Touching' <=> Touching
           /\ stage' = stage
        BY DEF Counting, Measured, Touching, Loaded
    <2>14. Upper(c) /\ Lower(c)
        BY DEF RowInv
    <2>15. Upper(c)'
        BY <2>1, <2>3, <2>5, <2>6, <2>9, <2>13, <2>14, SMTT(20) DEF Upper
    <2>16. whole'[c] \in Nat
        BY <2>5, <2>8
    <2>17. Lower(c)'
        <3>1. CASE stage = "measuring"
            <4>1. /\ ~ Measured(c)' /\ ~ Measured(c)
                  /\ Counting(c)
                BY <2>13, <3>1 DEF Measured, Counting
            <4>2. whole[c] + Done(c) <= counter[c] - before[c]
                BY <2>14, <3>1 DEF Lower
            <4>5. \A i, j, k, l, m, n, o \in Int :
                      i + j <= k + l + m /\ k + l <= n - o
                        => i + j <= (n + m) - o
                OBVIOUS
            <4>6. whole'[c] + Done(c)' <= whole[c] + Done(c) + d
                BY <2>10, <3>1
            <4>7. /\ whole'[c] \in Int /\ Done(c)' \in Int
                  /\ whole[c] \in Int /\ Done(c) \in Int /\ d \in Int
                  /\ counter[c] \in Int /\ before[c] \in Int
                BY <2>1, <2>3, <2>5, <2>12, <2>16
            <4>8. whole'[c] + Done(c)' <= (counter[c] + d) - before[c]
                BY <4>2, <4>5, <4>6, <4>7
            <4>3. whole'[c] + Done(c)' <= counter'[c] - before'[c]
                BY <2>6, <4>8
            <4>4. whole'[c] <= counter'[c] - before'[c]
                BY <2>1, <2>5, <2>6, <2>12, <2>16, <4>3
            <4> QED
                BY <4>1, <4>3, <4>4 DEF Lower
        <3>2. CASE stage # "measuring"
            BY <2>1, <2>5, <2>6, <2>11, <2>13, <2>14, <3>2 DEF Lower
        <3> QED
            BY <3>1, <3>2
    <2> QED
        BY <2>15, <2>17
<1> QED
    BY <1>6, <1>7, <1>8 DEF RowInv

\* ListenRow: the steps of the listener threads keep the bounds of the row.
LEMMA ListenRow ==
    ASSUME TypeOK, TypeOK', RowInv, NEW t \in Thread,
           FetchAdd(t) \/ LoadMaximum(t) \/ ExchangeMaximum(t)
    PROVE  RowInv'
PROOF
<1> USE DEF flags, snapshots, outcome, InFlight
<1> DEFINE step == Head(thread[t].left)
<1>1. /\ thread \in [Thread -> Activity] /\ thread[t] \in Activity
      /\ thread[t].left # <<>> /\ step \in Step
    <2>1. thread \in [Thread -> Activity] /\ thread[t].left # <<>>
        BY DEF TypeOK, FetchAdd, LoadMaximum, ExchangeMaximum
    <2>2. thread[t].left \in Seq(Step)
        BY <2>1 DEF Activity
    <2> QED
        BY <2>1, <2>2
<1>2. UNCHANGED <<touched, before, measured, reading, stage>>
    BY DEF FetchAdd, LoadMaximum, ExchangeMaximum
<1>3. \A c \in Counter : counter[c] \in Nat
    BY DEF TypeOK, Counts
<1>4. CASE FetchAdd(t)
    <2>1. /\ step.op = "add" /\ Advance(t)
          /\ counter' = [counter EXCEPT ![step.counter] = @ + step.n]
        BY <1>4 DEF FetchAdd
    <2>2. step.counter \in Counter /\ step.n \in Nat
        BY <1>1, <2>1 DEF Step
    <2> HIDE DEF step
    <2>3. ASSUME NEW c \in Counter
          PROVE  counter'[c] = counter[c] + Amount(step, c)
        <3>1. counter \in [Counter -> Nat]
            BY DEF TypeOK, Counts
        <3>2. CASE c = step.counter
            BY <2>1, <2>2, <3>1, <3>2 DEF Amount
        <3>3. CASE c # step.counter
            <4>1. counter'[c] = counter[c] /\ Amount(step, c) = 0
                BY <2>1, <2>2, <3>1, <3>3 DEF Amount
            <4> QED
                BY <1>3, <4>1
        <3> QED
            BY <3>2, <3>3
    <2> QED
        BY <1>1, <1>2, <2>1, <2>3, AdvanceRow DEF step
<1>5. ASSUME Advance(t), step.op = "raise", counter' = counter PROVE RowInv'
    <2>1. ASSUME NEW c \in Counter
          PROVE  counter'[c] = counter[c] + Amount(step, c)
        BY <1>3, <1>5 DEF Amount
    <2> QED
        BY <1>1, <1>2, <1>5, <2>1, AdvanceRow
<1>6. ASSUME NEW v, Compare(t, v, step.n), step.op = "raise",
             counter' = counter
      PROVE  RowInv'
    <2>1. CASE Advance(t)
        BY <1>5, <1>6, <2>1
    <2>2. CASE /\ thread' = [thread EXCEPT ![t].seen = v]
               /\ UNCHANGED <<raised, whole>>
        <3>1. \A u \in Thread : /\ thread'[u].left = thread[u].left
                                /\ thread'[u].effect = thread[u].effect
                                /\ thread'[u].inside = thread[u].inside
            BY <1>1, <2>2 DEF Activity
        <3> QED
            BY <1>2, <1>6, <2>2, <3>1, QuietStep
    <2> QED
        BY <1>6, <2>1, <2>2 DEF Compare
<1>7. CASE LoadMaximum(t)
    BY <1>6, <1>7 DEF LoadMaximum
<1>8. CASE ExchangeMaximum(t)
    BY <1>5, <1>6, <1>8 DEF ExchangeMaximum
<1> QED
    BY <1>4, <1>7, <1>8

\* SumsKept: a step of the main thread leaves the callbacks as they are.
LEMMA SumsKept ==
    ASSUME UNCHANGED thread, NEW c \in Counter
    PROVE  Rest(c)' = Rest(c) /\ Done(c)' = Done(c)
BY ThreadsUnchanged

\* OrderNotLoaded: a snapshot that begins has loaded nothing.
LEMMA OrderNotLoaded ==
    ASSUME NEW c \in Counter, reading' = SnapshotOrder
    PROVE  ~ Loaded(c)'
BY OrderType DEF Loaded

\* LoadNext: what the next load leaves unloaded is the rest of the order.
LEMMA LoadNext ==
    ASSUME TypeOK, reading # <<>>, reading' = Tail(reading),
           NEW c \in Counter
    PROVE  /\ Head(reading) \in Counter
           /\ ~ Loaded(Head(reading))
           /\ c # Head(reading) => (Loaded(c)' <=> Loaded(c))
           /\ reading' = <<>> => Loaded(c)'
PROOF
<1>1. reading \in Seq(Counter)
    BY DEF TypeOK
<1>2. /\ Len(reading) \in Nat \ {0}
      /\ DOMAIN reading = 1 .. Len(reading)
      /\ DOMAIN reading' = 1 .. Len(reading) - 1
      /\ \A i \in DOMAIN reading' : reading'[i] = reading[i + 1]
      /\ Head(reading) = reading[1]
      /\ reading[1] \in Counter
    BY <1>1
<1>3. ~ Loaded(Head(reading))
    BY <1>2 DEF Loaded
<1>4. ASSUME c # Head(reading), Loaded(c)' PROVE Loaded(c)
    <2>1. ASSUME NEW i \in DOMAIN reading PROVE reading[i] # c
        <3>1. CASE i = 1
            BY <1>2, <1>4, <3>1
        <3>2. CASE i # 1
            <4>1. i - 1 \in DOMAIN reading' /\ (i - 1) + 1 = i
                BY <1>2, <3>2
            <4> QED
                BY <1>2, <1>4, <4>1 DEF Loaded
        <3> QED
            BY <3>1, <3>2
    <2> QED
        BY <2>1 DEF Loaded
<1>5. ASSUME Loaded(c) PROVE Loaded(c)'
    <2>1. ASSUME NEW i \in DOMAIN reading' PROVE reading'[i] # c
        <3>1. i + 1 \in DOMAIN reading
            BY <1>2
        <3> QED
            BY <1>2, <1>5, <3>1 DEF Loaded
    <2> QED
        BY <2>1 DEF Loaded
<1>6. reading' = <<>> => Loaded(c)'
    BY DEF Loaded
<1> QED
    BY <1>2, <1>3, <1>4, <1>5, <1>6

\* WindowRow: the steps that begin and end the observed window.
LEMMA WindowRow ==
    ASSUME TypeOK, RowInv, ObserveWarmup \/ ObserveMeasurement
    PROVE  RowInv'
PROOF
<1> USE DEF flags, listeners, snapshots, outcome
<1>1. /\ UNCHANGED <<counter, thread, whole, before, measured>>
      /\ reading' = SnapshotOrder
    BY DEF ObserveWarmup, ObserveMeasurement
<1>2. \A t \in Thread : PartOf(t)
    BY DEF RowInv
<1>3. \A t \in Thread : PartOf(t)'
    BY <1>1, <1>2 DEF PartOf
<1>4. CASE ObserveWarmup
    <2>1. /\ stage = "warmup" /\ stage' = "before"
          /\ touched' = [c \in Counter |->
                 SumFunction([t \in Thread |-> thread[t].effect[c]])]
        BY <1>4 DEF ObserveWarmup, Goto
    <2>2. NothingInside'
        BY <1>1, <2>1 DEF RowInv, NothingInside
    <2>3. ASSUME NEW c \in Counter PROVE Upper(c)' /\ Lower(c)'
        <3>1. ~ Counting(c)' /\ ~ Measured(c)'
            BY <1>1, <2>1, OrderNotLoaded DEF Counting, Measured
        <3>2. touched'[c] = SumFunctionOnSet(Effects(c), Thread)
            BY <2>1 DEF Effects, SumFunction, SumFunctionOnSet, FoldFunction
        <3>3. \A t \in Thread : /\ Rests(c)[t] \in Int
                                /\ Effects(c)[t] \in Int
                                /\ Rests(c)[t] <= Effects(c)[t]
            <4>1. ASSUME NEW t \in Thread
                  PROVE  /\ Rests(c)[t] \in Int /\ Effects(c)[t] \in Int
                         /\ Rests(c)[t] <= Effects(c)[t]
                <5>1. thread[t].effect[c] \in Int
                    BY DEF TypeOK, Activity, Counts
                <5>2. Effect(thread[t].left)[c] \in Int
                    BY <1>2, RestType
                <5>3. Effect(thread[t].left)[c] <= thread[t].effect[c]
                    BY <1>2 DEF PartOf
                <5> QED
                    BY <5>1, <5>2, <5>3 DEF Rests, Effects
            <4> QED
                BY <4>1
        <3>4. Rest(c) <= touched'[c]
            BY <3>2, <3>3, SumAtMost, DeliveryClientAssumption
            DEF Rest, DeliveryClientAssumption
        <3>5. Rest(c)' = Rest(c)
            BY <1>1, SumsKept
        <3> QED
            BY <2>1, <3>1, <3>4, <3>5 DEF Upper, Lower
    <2> QED
        BY <1>3, <2>2, <2>3 DEF RowInv
<1>5. CASE ObserveMeasurement
    <2>1. stage = "measuring" /\ stage' = "after" /\ touched' = touched
        BY <1>5 DEF ObserveMeasurement, Goto
    <2>2. NothingInside'
        BY <2>1 DEF NothingInside
    <2>3. ASSUME NEW c \in Counter PROVE Upper(c)' /\ Lower(c)'
        <3>1. Counting(c) /\ ~ Measured(c)' /\ Touching
            BY <1>1, <2>1, OrderNotLoaded DEF Counting, Measured, Touching
        <3>2. Rest(c)' = Rest(c)
            BY <1>1, SumsKept
        <3>3. Upper(c) /\ Lower(c)
            BY DEF RowInv
        <3> QED
            BY <1>1, <2>1, <3>1, <3>2, <3>3 DEF Upper, Lower
    <2> QED
        BY <1>3, <2>2, <2>3 DEF RowInv
<1> QED
    BY <1>4, <1>5

\* LoadBeforeRow: a counter loaded before the measurement starts at nothing.
LEMMA LoadBeforeRow ==
    ASSUME TypeOK, RowInv, LoadBefore
    PROVE  RowInv'
PROOF
<1> USE DEF flags, listeners, snapshots, outcome
<1> DEFINE h == Head(reading)
<1>1. /\ UNCHANGED <<counter, thread, whole, touched, measured>>
      /\ stage = "before"
      /\ reading' = Tail(reading)
      /\ before' = [before EXCEPT ![h] = counter[h]]
      /\ \/ reading' = <<>> /\ stage' = "measuring"
         \/ stage' = "before"
    BY DEF LoadBefore, Goto
<1>2. reading # <<>> /\ h \in Counter
    BY <1>1, LoadNext DEF TypeOK
<1>3. \A t \in Thread : PartOf(t)
    BY DEF RowInv
<1>4. \A t \in Thread : PartOf(t)'
    BY <1>1, <1>3 DEF PartOf
<1>5. whole = NoCounts /\ \A t \in Thread : ~ thread[t].inside
    BY <1>1 DEF RowInv, NothingInside
<1>6. NothingInside'
    BY <1>1, <1>5 DEF NothingInside
<1>7. ASSUME NEW c \in Counter PROVE Upper(c)' /\ Lower(c)'
    <2>1. Rest(c)' = Rest(c) /\ Done(c)' = Done(c)
        BY <1>1, SumsKept
    <2>2. /\ c # h => (Loaded(c)' <=> Loaded(c))
          /\ reading' = <<>> => Loaded(c)'
        BY <1>1, <1>2, LoadNext
    <2>3. Done(c) = 0
        <3>1. \A t \in Thread : Dones(c)[t] = 0
            BY <1>5 DEF Dones, DoneBy
        <3> QED
            BY <3>1, SumZero, DeliveryClientAssumption
            DEF Done, DeliveryClientAssumption
    <2>4. Upper(c) /\ Lower(c)
        BY DEF RowInv
    <2>5. Rest(c) \in Nat
        BY <1>3, RestType
    <2>6. /\ counter[c] \in Nat /\ before[c] \in Nat /\ touched[c] \in Nat
          /\ before \in [Counter -> Nat]
        BY DEF TypeOK, Counts
    <2>7. Rest(c) <= touched[c]
        BY <1>1, <2>4 DEF Upper, Touching
    <2>8. Counting(c)' => Loaded(c)'
        BY <1>1, <2>2 DEF Counting
    <2>9. ~ Measured(c)'
        BY <1>1 DEF Measured
    <2>10. Loaded(c)' => /\ counter[c] - before'[c] + Rest(c) <= touched[c]
                         /\ 0 <= counter[c] - before'[c]
        <3>1. CASE c = h
            <4>1. before'[c] = counter[c]
                BY <1>1, <2>6, <3>1
            <4> QED
                BY <2>5, <2>6, <2>7, <4>1
        <3>2. CASE c # h
            <4>1. before'[c] = before[c]
                BY <1>1, <2>6, <3>2
            <4>2. Loaded(c)' => Counting(c)
                BY <1>1, <2>2, <3>2 DEF Counting
            <4>3. Counting(c) =>
                      /\ counter[c] - before[c] + Rest(c) <= touched[c]
                      /\ whole[c] <= counter[c] - before[c]
                BY <2>4 DEF Upper, Lower
            <4>4. whole[c] = 0
                BY <1>5 DEF NoCounts
            <4> QED
                BY <4>1, <4>2, <4>3, <4>4
        <3> QED
            BY <3>1, <3>2
    <2>11. whole'[c] = 0
        BY <1>1, <1>5 DEF NoCounts
    <2>12. stage' = "measuring" => Loaded(c)'
        BY <1>1, <2>2
    <2>13. Upper(c)'
        BY <1>1, <2>1, <2>7, <2>8, <2>9, <2>10 DEF Upper
    <2>14. Lower(c)'
        BY <1>1, <2>1, <2>3, <2>8, <2>9, <2>10, <2>11, <2>12 DEF Lower
    <2> QED
        BY <2>13, <2>14
<1> QED
    BY <1>4, <1>6, <1>7 DEF RowInv

\* LoadAfterRow: a counter loaded after the measurement has its difference.
LEMMA LoadAfterRow ==
    ASSUME TypeOK, RowInv, LoadAfter
    PROVE  RowInv'
PROOF
<1> USE DEF flags, listeners, snapshots, outcome
<1> DEFINE h == Head(reading)
<1>1. /\ UNCHANGED <<counter, thread, whole, touched, before>>
      /\ stage = "after"
      /\ reading' = Tail(reading)
      /\ measured' = [measured EXCEPT ![h] = counter[h] - before[h]]
      /\ \/ reading' = <<>> /\ stage' = "writing"
         \/ stage' = "after"
    BY DEF LoadAfter, Goto, Subtract
<1>2. reading # <<>> /\ h \in Counter /\ ~ Loaded(h)
    BY <1>1, LoadNext DEF TypeOK
<1>3. \A t \in Thread : PartOf(t)
    BY DEF RowInv
<1>4. \A t \in Thread : PartOf(t)'
    BY <1>1, <1>3 DEF PartOf
<1>5. NothingInside'
    BY <1>1 DEF NothingInside
<1>6. ASSUME NEW c \in Counter PROVE Upper(c)' /\ Lower(c)'
    <2>1. Rest(c)' = Rest(c) /\ Done(c)' = Done(c)
        BY <1>1, SumsKept
    <2>2. /\ c # h => (Loaded(c)' <=> Loaded(c))
          /\ reading' = <<>> => Loaded(c)'
        BY <1>1, <1>2, LoadNext
    <2>3. Upper(c) /\ Lower(c)
        BY DEF RowInv
    <2>4. Rest(c) \in Nat
        BY <1>3, RestType
    <2>5. /\ counter[c] \in Nat /\ before[c] \in Nat /\ touched[c] \in Nat
          /\ measured \in [Counter -> Int]
        BY DEF TypeOK, Counts
    <2>6. Rest(c) <= touched[c]
        BY <1>1, <2>3 DEF Upper, Touching
    <2>7. Measured(c)' => Loaded(c)'
        BY <1>1, <2>2 DEF Measured
    <2>8. Counting(c)' => Counting(c)
        BY <1>1, <1>2, <2>2 DEF Counting
    <2>9. Counting(c) => /\ counter[c] - before[c] + Rest(c) <= touched[c]
                         /\ whole[c] <= counter[c] - before[c]
        BY <2>3 DEF Upper, Lower
    <2>10. Loaded(c)' => measured'[c] <= touched[c] /\ whole[c] <= measured'[c]
        <3>1. CASE c = h
            <4>1. measured'[c] = counter[c] - before[c]
                BY <1>1, <2>5, <3>1
            <4>2. Counting(c)
                BY <1>1, <1>2, <3>1 DEF Counting
            <4> QED
                BY <2>4, <2>5, <2>9, <4>1, <4>2
        <3>2. CASE c # h
            <4>1. measured'[c] = measured[c]
                BY <1>1, <2>5, <3>2
            <4>2. Loaded(c)' => Measured(c)
                BY <1>1, <2>2, <3>2 DEF Measured
            <4>3. Measured(c) => /\ measured[c] <= touched[c]
                                 /\ whole[c] <= measured[c]
                BY <2>3 DEF Upper, Lower
            <4> QED
                BY <4>1, <4>2, <4>3
        <3> QED
            BY <3>1, <3>2
    <2>11. stage' # "measuring"
        BY <1>1
    <2>12. Upper(c)'
        BY <1>1, <2>1, <2>6, <2>7, <2>8, <2>9, <2>10 DEF Upper
    <2>13. Lower(c)'
        BY <1>1, <2>7, <2>8, <2>9, <2>10, <2>11 DEF Lower
    <2> QED
        BY <2>12, <2>13
<1> QED
    BY <1>4, <1>5, <1>6 DEF RowInv

\* OtherRow: every other step of the main thread lies outside the snapshots.
LEMMA OtherRow ==
    ASSUME RowInv,
           \/ ConnectGraal \/ StartSession \/ WaitForStartup
           \/ WriteDelivery \/ Finish
    PROVE  RowInv'
PROOF
<1> USE DEF flags, listeners, snapshots, outcome
<1>1. UNCHANGED <<counter, thread, whole, touched, before, measured, reading>>
    BY DEF ConnectGraal, StartSession, Starts, WaitForStartup, WriteDelivery,
           Finish
<1>2. \/ /\ stage \in {"starting", "startup"}
         /\ stage' \in {"startup", "warmup", "returned"}
      \/ /\ stage \in {"writing", "closing"}
         /\ stage' \in {"closing", "returned"}
    BY DEF ConnectGraal, StartSession, Starts, WaitForStartup, WriteDelivery,
           Finish, Goto, Return
<1>3. \A t \in Thread : PartOf(t)'
    BY <1>1 DEF RowInv, PartOf
<1>4. NothingInside'
    BY <1>1, <1>2 DEF RowInv, NothingInside
<1>5. ASSUME NEW c \in Counter PROVE Upper(c)' /\ Lower(c)'
    <2>1. /\ ~ Touching' /\ ~ Counting(c)'
          /\ stage' # "measuring"
        BY <1>2 DEF Touching, Counting
    <2>2. Measured(c)' => Measured(c)
        BY <1>2 DEF Measured
    <2>3. Upper(c) /\ Lower(c)
        BY DEF RowInv
    <2> QED
        BY <1>1, <2>1, <2>2, <2>3 DEF Upper, Lower
<1> QED
    BY <1>3, <1>4, <1>5 DEF RowInv

\* Every step keeps the bounds of the row.
LEMMA RowStep == TypeOK /\ TypeOK' /\ RowInv /\ [Next]_vars => RowInv'
PROOF
<1> SUFFICES ASSUME TypeOK, TypeOK', RowInv, [Next]_vars PROVE RowInv'
    OBVIOUS
<1>1. CASE Listen
    BY <1>1, EnterRow, ListenRow DEF Listen
<1>2. CASE \/ OnSignal \/ OnConnectionTerminated \/ Deadline
           \/ UNCHANGED vars
    <2>1. UNCHANGED <<counter, thread, whole, touched, before, measured,
                      reading, stage>>
        BY <1>2 DEF OnSignal, OnConnectionTerminated, Deadline, vars, flags,
                    listeners, snapshots, outcome
    <2> QED
        BY <2>1, QuietStep
<1>3. CASE Main
    <2>1. CASE ObserveWarmup \/ ObserveMeasurement
        BY <2>1, WindowRow
    <2>2. CASE LoadBefore
        BY <2>2, LoadBeforeRow
    <2>3. CASE LoadAfter
        BY <2>3, LoadAfterRow
    <2>4. CASE \/ ConnectGraal \/ StartSession \/ WaitForStartup
               \/ WriteDelivery \/ Finish
        BY <2>4, OtherRow
    <2> QED
        BY <1>3, <2>1, <2>2, <2>3, <2>4 DEF Main
<1> QED
    BY <1>1, <1>2, <1>3 DEF Next, Ended

\* RowBounds: the bounds hold in every state.
THEOREM RowBounds == Spec => []RowInv
PROOF
<1>1. Init => RowInv
    <2> SUFFICES ASSUME Init PROVE RowInv
        OBVIOUS
    <2>1. \A t \in Thread : thread[t] = Idle
        BY DEF Init
    <2>2. \A t \in Thread : PartOf(t)
        <3>1. ASSUME NEW t \in Thread, NEW c \in Counter
              PROVE  Effect(thread[t].left)[c] <= thread[t].effect[c]
            <4>1. thread[t].left = <<>> /\ thread[t].effect = NoCounts
                BY <2>1 DEF Idle
            <4>2. Effect(thread[t].left)[c] = 0 /\ thread[t].effect[c] = 0
                BY <4>1, EffectEmpty DEF NoCounts
            <4> QED
                BY <4>2
        <3> QED
            BY <3>1 DEF PartOf
    <2>3. NothingInside
        BY <2>1 DEF Init, NothingInside, Idle
    <2>4. ASSUME NEW c \in Counter PROVE Upper(c) /\ Lower(c)
        BY DEF Init, Upper, Lower, Touching, Counting, Measured
    <2> QED
        BY <2>2, <2>3, <2>4 DEF RowInv
<1>2. TypeOK /\ TypeOK' /\ RowInv /\ [Next]_vars => RowInv'
    BY RowStep
<1> QED
    BY <1>1, <1>2, TypeCorrect, PTL DEF Spec

\* RowIsOfMeasurement: although the counters are read one by one while the
\* listeners of any number of threads go on, the row of both clients counts
\* every callback inside the measurement and nothing of one outside it.
THEOREM RowIsOfMeasurement == Spec => []RowCountsMeasurement
PROOF
<1>1. TypeOK /\ RowInv => RowCountsMeasurement
    <2> SUFFICES ASSUME TypeOK, RowInv, stage \in {"writing", "closing"},
                        NEW c \in Counter
                 PROVE  measured[c] \in whole[c] .. touched[c]
        BY DEF RowCountsMeasurement
    <2>1. Upper(c) /\ Lower(c) /\ Measured(c)
        BY DEF RowInv, Measured
    <2>2. measured[c] \in Int /\ whole[c] \in Int /\ touched[c] \in Int
        BY DEF TypeOK, Counts
    <2> QED
        BY <2>1, <2>2 DEF Upper, Lower
<1> QED
    BY <1>1, TypeCorrect, RowBounds, PTL

-----------------------------------------------------------------------------
(* The exit code.                                                           *)

\* What cut the measurement short is remembered, and the row that is there
\* when the client closes is the one measured.
ExitInv ==
    /\ cut => interrupted \/ terminated
    /\ result # Running => stage = "returned"
    /\ stage = "closing" => row # <<>> /\ row[1].counts = measured
    /\ ZeroMeansMeasured

\* Every step keeps what main() knows about its exit code.
LEMMA ExitStep == TypeOK /\ RowInv /\ ExitInv /\ [Next]_vars => ExitInv'
PROOF
<1> SUFFICES ASSUME TypeOK, RowInv, ExitInv, [Next]_vars PROVE ExitInv'
    OBVIOUS
<1> USE DEF flags, listeners, snapshots, outcome
<1>1. CASE Listen \/ UNCHANGED vars
    <2>1. UNCHANGED <<cut, interrupted, terminated, result, stage, row,
                      measured>>
        BY <1>1 DEF Listen, EnterCallback, FetchAdd, LoadMaximum,
                    ExchangeMaximum, vars
    <2> QED
        BY <2>1 DEF ExitInv, ZeroMeansMeasured
<1>2. CASE OnSignal \/ OnConnectionTerminated
    <2>1. /\ UNCHANGED <<cut, result, stage, row, measured>>
          /\ interrupted => interrupted'
          /\ terminated => terminated'
        BY <1>2 DEF OnSignal, OnConnectionTerminated
    <2> QED
        BY <2>1 DEF ExitInv, ZeroMeansMeasured
<1>3. CASE Deadline \/ ObserveWarmup \/ LoadBefore
    <2>1. /\ UNCHANGED <<cut, interrupted, terminated, result, row, measured>>
          /\ stage' \notin {"closing", "returned"} /\ stage # "returned"
        BY <1>3 DEF Deadline, ObserveWarmup, LoadBefore, Goto
    <2> QED
        BY <2>1 DEF ExitInv, ZeroMeansMeasured
<1>4. CASE ConnectGraal \/ StartSession \/ WaitForStartup
    <2>1. /\ UNCHANGED <<cut, interrupted, terminated, row, measured>>
          /\ stage' # "closing"
          /\ \/ result' = 1 /\ stage' = "returned"
             \/ result' = result /\ stage # "returned"
        BY <1>4 DEF ConnectGraal, StartSession, Starts, WaitForStartup, Goto,
                    Return
    <2> QED
        BY <2>1 DEF ExitInv, ZeroMeansMeasured
<1>5. CASE ObserveMeasurement
    <2>1. /\ UNCHANGED <<interrupted, terminated, result, row, measured>>
          /\ cut' = ~ timeUp /\ (interrupted \/ terminated \/ timeUp)
          /\ stage = "measuring" /\ stage' = "after"
        BY <1>5 DEF ObserveMeasurement, Goto, Stopped
    <2>2. result' # 0
        BY <2>1 DEF ExitInv, Running
    <2> QED
        BY <2>1, <2>2 DEF ExitInv, ZeroMeansMeasured
<1>6. CASE LoadAfter
    <2>1. /\ UNCHANGED <<cut, interrupted, terminated, result, row>>
          /\ stage = "after" /\ stage' # "closing"
        BY <1>6 DEF LoadAfter, Goto
    <2> QED
        BY <2>1 DEF ExitInv, ZeroMeansMeasured
<1>7. CASE WriteDelivery
    <2>1. /\ UNCHANGED <<cut, interrupted, terminated, measured>>
          /\ stage = "writing"
        BY <1>7 DEF WriteDelivery
    <2>2. \/ /\ row' = <<[counts |-> measured, maximum |-> maximum]>>
             /\ stage' = "closing" /\ result' = result
          \/ row' = row /\ stage' = "returned" /\ result' = 1
        BY <1>7 DEF WriteDelivery, Goto, Return
    <2>3. result = Running
        BY <2>1 DEF ExitInv
    <2>4. CASE row' = row /\ stage' = "returned" /\ result' = 1
        BY <2>1, <2>4 DEF ExitInv, ZeroMeansMeasured
    <2>5. CASE /\ row' = <<[counts |-> measured, maximum |-> maximum]>>
               /\ stage' = "closing" /\ result' = result
        <3>1. row' # <<>> /\ row'[1].counts = measured
            BY <2>5
        <3> QED
            BY <2>1, <2>3, <2>5, <3>1 DEF ExitInv, ZeroMeansMeasured, Running
    <2> QED
        BY <2>2, <2>4, <2>5
<1>8. CASE Finish
    <2>1. /\ UNCHANGED <<cut, interrupted, terminated, row, measured>>
          /\ stage = "closing" /\ stage' = "returned" /\ result' = ExitCode
        BY <1>8 DEF Finish, Return, Goto
    <2>2. "recurring" \in Counter
        BY DEF Counter
    <2>3. measured["recurring"] >= 0
        <3>1. whole["recurring"] <= measured["recurring"]
            BY <2>1, <2>2 DEF RowInv, Lower, Measured
        <3>2. whole["recurring"] \in Nat /\ measured["recurring"] \in Int
            BY <2>2 DEF TypeOK, Counts
        <3> QED
            BY <3>1, <3>2
    <2>4. measured["recurring"] \in Int
        BY <2>2 DEF TypeOK
    <2>5. result' = 0 => /\ ~ interrupted /\ ~ terminated
                         /\ RequireEvents => measured["recurring"] > 0
        BY <2>1, <2>3, <2>4 DEF ExitCode
    <2>6. row # <<>> /\ row[1].counts = measured
        BY <2>1 DEF ExitInv
    <2> QED
        BY <2>1, <2>5, <2>6 DEF ExitInv, ZeroMeansMeasured
<1> QED
    BY <1>1, <1>2, <1>3, <1>4, <1>5, <1>6, <1>7, <1>8
    DEF Next, Main, Ended

\* ZeroIsMeasured: exit code 0 of either client means a row over the whole
\* duration, with events where they are required.
THEOREM ZeroIsMeasured == Spec => []ZeroMeansMeasured
PROOF
<1>1. Init => ExitInv
    BY DEF Init, ExitInv, ZeroMeansMeasured, Running
<1>2. ExitInv => ZeroMeansMeasured
    BY DEF ExitInv
<1>3. TypeOK /\ RowInv /\ ExitInv /\ [Next]_vars => ExitInv'
    BY ExitStep
<1> QED
    BY <1>1, <1>2, <1>3, TypeCorrect, RowBounds, PTL DEF Spec
=============================================================================
