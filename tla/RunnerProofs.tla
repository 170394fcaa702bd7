---------------------------- MODULE RunnerProofs -----------------------------
(***************************************************************************)
(* Proofs about BenchmarkPlan and Runner for every suite of profiles with  *)
(* distinct names, every number of repetitions and every number of polls,  *)
(* and about TaskText for every text.                                      *)
(***************************************************************************)
EXTENDS RunnerMC, FiniteSetTheorems, SequenceTheorems, WellFoundedInduction,
        TLAPS

-----------------------------------------------------------------------------
(* The rotation of the plan.                                               *)

\* Integer division splits x into full rotations and a remainder.
LEMMA Division ==
    ASSUME NEW n \in Nat \ {0}, NEW x \in Int
    PROVE  /\ x \div n \in Int
           /\ x % n \in 0 .. n - 1
           /\ x % n = x - n * (x \div n)
  <1>1. n \in Nat /\ n \in Int /\ n > 0
    OBVIOUS
  <1>2. x \div n \in Int
    BY <1>1, SMT
  <1>3. x % n \in 0 .. n - 1
    BY <1>1, SMT
  <1>4. x % n = x - n * (x \div n)
    BY <1>1, SMT
  <1> QED
    BY <1>2, <1>3, <1>4

\* The remainder of full rotations and a rest is the rest.
LEMMA Remainder ==
    ASSUME NEW n \in Nat \ {0}, NEW k \in Int, NEW q \in 0 .. n - 1
    PROVE  (n * k + q) % n = q
  <1>1. n \in Nat /\ n > 0
    OBVIOUS
  <1>2. n * k + q \in Int
    BY SMT
  <1> QED
    BY <1>1, <1>2, SMT

\* Two numbers less than n apart do not differ by a multiple of n.
LEMMA CloseMultiple ==
    ASSUME NEW n \in Nat \ {0}, NEW k \in Int, -n < n * k, n * k < n
    PROVE  k = 0
  <1>1. CASE k >= 1
    <2>1. n * k >= n
      BY <1>1, SMT
    <2> QED
      BY <2>1, SMT
  <1>2. CASE k <= -1
    <2>1. n * k <= -n
      BY <1>2, SMT
    <2> QED
      BY <2>1, SMT
  <1> QED
    BY <1>1, <1>2, SMT

\* Numbers less than n apart with equal remainders are equal.
LEMMA SameRemainder ==
    ASSUME NEW n \in Nat \ {0}, NEW x \in Int, NEW y \in Int,
           x - y < n, y - x < n, x % n = y % n
    PROVE  x = y
  <1>1. /\ x \div n \in Int /\ y \div n \in Int
        /\ x % n = x - n * (x \div n)
        /\ y % n = y - n * (y \div n)
        /\ x % n \in Int
    <2>1. x % n \in Int
      <3>1. x % n \in 0 .. n - 1
        BY Division
      <3> QED
        BY <3>1, SMT
    <2> QED
      BY <2>1, Division
  <1> DEFINE k == x \div n - y \div n
  <1>2. x - y = n * k
    BY <1>1, SMT
  <1>3. k \in Int
    BY <1>1, SMT
  <1>4. -n < n * k /\ n * k < n
    BY <1>2, SMT
  <1> HIDE DEF k
  <1>5. k = 0
    BY <1>3, <1>4, CloseMultiple
  <1> QED
    BY <1>2, <1>5, SMT

\* Every repetition runs each of n profiles exactly once.
THEOREM ProfilesOnce ==
    ASSUME NEW n \in Nat \ {0}, NEW r \in Nat \ {0}
    PROVE  EveryProfileOnce(n, r)
  <1> SUFFICES ASSUME NEW q \in 0 .. n - 1
               PROVE  \E p \in 0 .. n - 1 :
                        /\ ProfileIndex(n, r, p) = q
                        /\ \A other \in 0 .. n - 1 :
                             ProfileIndex(n, r, other) = q => other = p
    BY DEF EveryProfileOnce
  <1>0. PICK x \in Int : x = q - r + 1
    BY SMT
  <1> DEFINE p == x % n
  <1>1. p \in 0 .. n - 1
    BY Division, SMT
  <1>2. ProfileIndex(n, r, p) = q
    <2> DEFINE i == x \div n
    <2>1. i \in Int /\ p = x - n * i
      BY Division
    <2> HIDE DEF i
    <2> HIDE DEF p
    <2>2. -i \in Int /\ n * (-i) = -(n * i) /\ n * i \in Int
      BY <2>1, SMT
    <2>3. p + r - 1 = n * (-i) + q
      BY <1>0, <1>1, <2>1, <2>2, SMT
    <2> QED
      BY <2>2, <2>3, Remainder DEF ProfileIndex
  <1>3. ASSUME NEW other \in 0 .. n - 1, ProfileIndex(n, r, other) = q
        PROVE  other = p
    <2> HIDE DEF p
    <2>1. /\ other + r - 1 \in Int /\ p + r - 1 \in Int
          /\ (other + r - 1) - (p + r - 1) < n
          /\ (p + r - 1) - (other + r - 1) < n
      BY <1>1, SMT
    <2>2. (other + r - 1) % n = (p + r - 1) % n
      BY <1>2, <1>3 DEF ProfileIndex
    <2>3. other + r - 1 = p + r - 1
      BY <2>1, <2>2, SameRemainder
    <2> QED
      BY <2>3, <1>1, SMT
  <1> QED
    BY <1>1, <1>2, <1>3

\* Within n repetitions every position sees a different profile each time.
THEOREM RotationSpreads ==
    ASSUME NEW n \in Nat \ {0}, NEW r \in Nat \ {0}, NEW s \in Nat \ {0}
    PROVE  PositionsRotate(n, r, s)
  <1> SUFFICES ASSUME r # s, r - s < n, s - r < n, NEW p \in 0 .. n - 1,
                      ProfileIndex(n, r, p) = ProfileIndex(n, s, p)
               PROVE  FALSE
    BY DEF PositionsRotate
  <1>1. /\ p + r - 1 \in Int /\ p + s - 1 \in Int
        /\ (p + r - 1) - (p + s - 1) < n
        /\ (p + s - 1) - (p + r - 1) < n
    BY SMT
  <1>2. p + r - 1 = p + s - 1
    BY <1>1, SameRemainder DEF ProfileIndex
  <1> QED
    BY <1>2, SMT

\* Both together: plans of every size are balanced.
THEOREM PlanBalanced ==
    ASSUME NEW bound \in Nat
    PROVE  BalancedUpTo(bound)
  <1>1. \A n \in 1 .. bound : n \in Nat \ {0}
    BY SMT
  <1> QED
    BY <1>1, ProfilesOnce, RotationSpreads DEF BalancedUpTo

\* Quotient and remainder determine a number.
LEMMA SameNumber ==
    ASSUME NEW n \in Nat \ {0}, NEW x \in Int, NEW y \in Int,
           x \div n = y \div n, x % n = y % n
    PROVE  x = y
  <1>1. /\ x \div n \in Int /\ y \div n \in Int
        /\ x % n = x - n * (x \div n)
        /\ y % n = y - n * (y \div n)
    BY Division
  <1> PICK d \in Int : d = n * (x \div n)
    BY <1>1, SMT
  <1>2. x % n = x - d /\ y % n = y - d
    BY <1>1
  <1>3. x - d = y - d
    BY <1>2
  <1> QED
    BY <1>3, SMT

\* In one repetition different positions have different profiles.
LEMMA OneRepetition ==
    ASSUME NEW n \in Nat \ {0}, NEW r \in Int,
           NEW p \in 0 .. n - 1, NEW q \in 0 .. n - 1,
           ProfileIndex(n, r, p) = ProfileIndex(n, r, q)
    PROVE  p = q
  <1>1. /\ p + r - 1 \in Int /\ q + r - 1 \in Int
        /\ (p + r - 1) - (q + r - 1) < n
        /\ (q + r - 1) - (p + r - 1) < n
    BY SMT
  <1>2. p + r - 1 = q + r - 1
    BY <1>1, SameRemainder DEF ProfileIndex
  <1> QED
    BY <1>2, SMT

\* Different runs of the plan have different prefixes.
LEMMA PrefixesDiffer ==
    ASSUME NEW k \in 1 .. PlanLength, NEW j \in 1 .. PlanLength,
           Prefix(Plan[k]) = Prefix(Plan[j])
    PROVE  k = j
  <1> DEFINE n == Len(Profiles)
             Rep(x) == (x - 1) \div n + 1
             Pos(x) == (x - 1) % n
  <1>1. n \in Nat \ {0}
    BY BenchmarkPlanAssumption
  <1>2. PlanLength \in Nat /\ k - 1 \in Int /\ j - 1 \in Int
    BY <1>1, BenchmarkPlanAssumption, SMT DEF PlanLength
  <1>3. /\ Plan[k] = [profile |-> Profiles[ProfileIndex(n, Rep(k), Pos(k)) + 1],
                     repetition |-> Rep(k)]
        /\ Plan[j] = [profile |-> Profiles[ProfileIndex(n, Rep(j), Pos(j)) + 1],
                     repetition |-> Rep(j)]
    BY DEF Plan
  <1>4. /\ Pos(k) \in 0 .. n - 1 /\ Pos(j) \in 0 .. n - 1
        /\ (k - 1) \div n \in Int /\ (j - 1) \div n \in Int
    BY <1>1, <1>2, Division
  <1>5. /\ Rep(k) = Rep(j)
        /\ Profiles[ProfileIndex(n, Rep(k), Pos(k)) + 1].name =
           Profiles[ProfileIndex(n, Rep(j), Pos(j)) + 1].name
    BY <1>3 DEF Prefix
  <1>6. Rep(k) \in Int
    BY <1>4
  <1>7. (k - 1) \div n = (j - 1) \div n
    BY <1>4, <1>5, SMT
  <1>8. \A r \in Int : \A x \in 0 .. n - 1 : ProfileIndex(n, r, x) \in 0 .. n - 1
    <2> TAKE r \in Int
    <2> TAKE x \in 0 .. n - 1
    <2>1. x + r - 1 \in Int
      BY <1>1, SMT
    <2> QED
      BY <2>1, <1>1, Division DEF ProfileIndex
  <1>9. ProfileIndex(n, Rep(k), Pos(k)) = ProfileIndex(n, Rep(k), Pos(j))
    <2> DEFINE x == ProfileIndex(n, Rep(k), Pos(k))
               y == ProfileIndex(n, Rep(k), Pos(j))
    <2>1. x \in 0 .. n - 1 /\ y \in 0 .. n - 1
      BY <1>4, <1>6, <1>8
    <2>2. Profiles[x + 1].name = Profiles[y + 1].name
      BY <1>5
    <2> HIDE DEF x, y
    <2>3. x + 1 \in 1 .. n /\ y + 1 \in 1 .. n
      BY <1>1, <2>1, SMT
    <2>4. x + 1 = y + 1
      BY <2>2, <2>3, BenchmarkPlanAssumption
    <2>5. x = y
      BY <2>1, <2>4, SMT
    <2> QED
      BY <2>5 DEF x, y
  <1>10. (k - 1) % n = (j - 1) % n
    BY <1>1, <1>4, <1>6, <1>9, OneRepetition
  <1>11. k - 1 = j - 1
    BY <1>1, <1>2, <1>7, <1>10, SameNumber
  <1> QED
    BY <1>11, SMT

-----------------------------------------------------------------------------
(* Types.  A run of the plan is in progress from its server's start to its *)
(* row in the manifest; it needs a place in the plan.                      *)

Waiting == {"running", "returning", "interrupted", "returned"}

InRun ==
    pc \in {"ready", "stop", "record"} \/ (job = "client" /\ pc \in Waiting)

RunInPlan == InRun => index <= PlanLength

TypeIInv == TypeOK /\ RunInPlan

\* A row of the manifest.
Row == [run : {Plan[k] : k \in 1 .. PlanLength}, status : {"passed", "failed"},
        exit : Code]

\* A plan has a finite length.
LEMMA PlanLengthType == PlanLength \in Nat
  BY BenchmarkPlanAssumption, SMT DEF PlanLength

\* What the operators on processes return.
LEMMA ProcessTypes ==
    /\ NoProcess \in ProcessRecord
    /\ Started \in ProcessRecord
    /\ \A p \in ProcessRecord : Polled(p) \in ProcessRecord
    /\ \A p \in ProcessRecord, code \in Code :
         [p EXCEPT !.os = "zombie", !.code = code] \in ProcessRecord
    /\ \A p \in ProcessRecord : [p EXCEPT !.killed = TRUE] \in ProcessRecord
    /\ \A p \in ProcessRecord : p.exit \in Code
  <1>1. NoCode \in Code
    BY DEF Code
  <1>2. NoProcess \in ProcessRecord /\ Started \in ProcessRecord
    BY <1>1 DEF NoProcess, Started, ProcessRecord
  <1>3. \A p \in ProcessRecord : Polled(p) \in ProcessRecord
    BY DEF Polled, Reap, ProcessRecord
  <1>4. \A p \in ProcessRecord, code \in Code :
          [p EXCEPT !.os = "zombie", !.code = code] \in ProcessRecord
    BY DEF ProcessRecord
  <1>5. \A p \in ProcessRecord : [p EXCEPT !.killed = TRUE] \in ProcessRecord
    BY DEF ProcessRecord
  <1>6. \A p \in ProcessRecord : p.exit \in Code
    BY DEF ProcessRecord
  <1> QED
    BY <1>2, <1>3, <1>4, <1>5, <1>6

\* The current run is a run of the plan.
LEMMA CurrentRun ==
    ASSUME TypeOK, index <= PlanLength
    PROVE  /\ run \in {Plan[k] : k \in 1 .. PlanLength}
           /\ prefix \in Prefixes
  <1>1. index \in 1 .. PlanLength
    BY PlanLengthType, SMT DEF TypeOK
  <1> QED
    BY <1>1 DEF run, prefix, Prefixes

\* The next file a client writes has a name the analyzer knows.
LEMMA OutputNames ==
    ASSUME NEW profile, NEW i \in 1 .. Len(Outputs(profile))
    PROVE  Outputs(profile)[i] \in Name
  BY SMT DEF Outputs, Name

\* The files a run has written can be counted.
LEMMA WrittenFinite ==
    Cardinality(Written) \in Nat
  <1>1. Len(Outputs(run.profile)) \in Nat
    BY SMT DEF Outputs
  <1>2. IsFiniteSet(1 .. Len(Outputs(run.profile)))
    BY <1>1, FS_Interval
  <1>3. Written \subseteq 1 .. Len(Outputs(run.profile))
    BY DEF Written
  <1> QED
    BY <1>2, <1>3, FS_Subset, FS_CardinalityType

\* The types hold before the first run.
LEMMA InitTypeIInv == Init => TypeIInv
  <1> SUFFICES ASSUME Init PROVE TypeIInv
    OBVIOUS
  <1> USE DEF Init
  <1>1. index \in 1 .. PlanLength + 1 /\ attempt \in 0 .. Attempts
    BY PlanLengthType, RunnerAssumption, SMT
  <1>2. process \in [{"server", "child"} -> ProcessRecord]
    BY ProcessTypes
  <1>3. {clientExit, exitCode} \subseteq Code
    BY DEF Code
  <1>4. manifest \in Seq(Row)
    BY SMT
  <1>5. /\ files \in [Prefixes -> SUBSET Name]
        /\ partial \in [Prefixes -> SUBSET Name]
    OBVIOUS
  <1>6. TypeOK
    BY <1>1, <1>2, <1>3, <1>4, <1>5 DEF TypeOK, Idle, Row
  <1>7. RunInPlan
    BY DEF RunInPlan, InRun, Waiting
  <1> QED
    BY <1>6, <1>7 DEF TypeIInv

\* The steps of the children keep the types.
LEMMA ChildrenTypes == TypeIInv /\ (Children \/ KilledExits) => TypeIInv'
  <1> SUFFICES ASSUME TypeIInv, Children \/ KilledExits PROVE TypeIInv'
    OBVIOUS
  <1> USE DEF TypeIInv, RunInPlan, InRun, children, terminating, current,
              results, outcome
  <1>1. CASE ClientWrites
    <2> PICK next \in 1 .. Len(Outputs(run.profile)) :
            files' = [files EXCEPT ![prefix] = @ \cup {Outputs(run.profile)[next]}]
      <3>1. Len(Outputs(run.profile)) \in Nat
        BY SMT DEF Outputs
      <3> DEFINE m == Cardinality(Written) + 1
      <3>2. m <= Len(Outputs(run.profile)) /\ m \in Nat /\ m >= 1
        BY <1>1, WrittenFinite, SMT DEF ClientWrites
      <3>3. m \in 1 .. Len(Outputs(run.profile))
        BY <3>1, <3>2, SMT
      <3> QED
        BY <1>1, <3>3 DEF ClientWrites
    <2>1. Outputs(run.profile)[next] \in Name
      BY OutputNames
    <2>2. files' \in [Prefixes -> SUBSET Name]
      BY <2>1 DEF TypeOK
    <2> QED
      BY <1>1, <2>2 DEF ClientWrites, TypeOK
  <1>2. ASSUME NEW who \in {"server", "child"}, NEW code \in Code, Exit(who, code)
        PROVE  process' \in [{"server", "child"} -> ProcessRecord]
    BY <1>2, ProcessTypes DEF Exit, TypeOK
  <1>3. {0, 1, 130} \subseteq Code
    BY DEF Code
  <1>4. CASE ClientExits
    BY <1>2, <1>3, <1>4 DEF ClientExits, TypeOK
  <1>5. CASE ServerListens
    BY <1>5 DEF ServerListens, TypeOK
  <1>6. CASE ServerExits
    BY <1>2, <1>3, <1>6 DEF ServerExits, TypeOK
  <1>7. CASE AnalyzerReads
    BY <1>7 DEF AnalyzerReads, TypeOK
  <1>8. CASE AnalyzerExits
    BY <1>2, <1>3, <1>8 DEF AnalyzerExits, TypeOK
  <1>9. CASE KilledExits
    <2>1. PICK who \in {"server", "child"} : Exit(who, 1)
      BY <1>9 DEF KilledExits, TypeOK
    <2> QED
      BY <1>2, <1>3, <1>9, <2>1 DEF KilledExits, TypeOK
  <1> QED
    BY <1>1, <1>4, <1>5, <1>6, <1>7, <1>8, <1>9 DEF Children

\* So do the steps of terminate() and of runAndWait.
LEMMA WaitingTypes ==
    TypeIInv /\ (Stopping \/ StopWaiting \/ Return) => TypeIInv'
  <1> SUFFICES ASSUME TypeIInv, Stopping \/ StopWaiting \/ Return PROVE TypeIInv'
    OBVIOUS
  <1> USE DEF TypeIInv, RunInPlan, InRun, Waiting, children, terminating,
              current, results, outcome
  <1>1. ASSUME NEW who \in {"server", "child"},
               process' = [process EXCEPT ![who] = Polled(@)]
        PROVE  process' \in [{"server", "child"} -> ProcessRecord]
    BY <1>1, ProcessTypes DEF TypeOK
  <1>2. stopping.who \in {"server", "child"}
    BY DEF TypeOK
  <1>3. ASSUME NEW step \in {"idle", "ask", "term", "poll", "kill", "wait"},
               Step(step)
        PROVE  stopping' \in [who : {"server", "child"},
                   step : {"idle", "ask", "term", "poll", "kill", "wait"}]
    BY <1>3 DEF Step, TypeOK
  <1>4. CASE Ask
    <2>1. process' = [process EXCEPT ![stopping.who] = Polled(@)]
      BY <1>4 DEF Ask
    <2>2. Step("term") \/ Step("wait")
      BY <1>4 DEF Ask
    <2> QED
      BY <1>1, <1>2, <1>3, <1>4, <2>1, <2>2, ZenonT(30) DEF Ask, TypeOK
  <1>5. CASE Term
    BY <1>3, <1>5 DEF Term, TypeOK
  <1>6. CASE Poll
    <2>1. process' = [process EXCEPT ![stopping.who] = Polled(@)]
      BY <1>6 DEF Poll
    <2>2. Step("poll") \/ Step("wait")
      BY <1>6 DEF Poll
    <2>3. attempt' \in 0 .. Attempts
      BY <1>6, RunnerAssumption, SMT DEF Poll, PollsLeft, TypeOK
    <2> QED
      BY <1>1, <1>2, <1>3, <1>6, <2>1, <2>2, <2>3, ZenonT(30) DEF Poll, TypeOK
  <1>7. CASE LastPoll
    <2>1. process' = [process EXCEPT ![stopping.who] = Polled(@)]
      BY <1>7 DEF LastPoll
    <2>2. Step("kill") \/ Step("wait")
      BY <1>7 DEF LastPoll
    <2> QED
      BY <1>1, <1>2, <1>3, <1>7, <2>1, <2>2, ZenonT(30) DEF LastPoll, TypeOK
  <1>8. CASE Kill
    <2>1. process' = [process EXCEPT
              ![stopping.who] = [process[stopping.who] EXCEPT !.killed = TRUE]]
      BY <1>8 DEF Kill
    <2>2. process' \in [{"server", "child"} -> ProcessRecord]
      BY <1>2, <2>1, ProcessTypes DEF TypeOK
    <2> QED
      BY <1>3, <1>8, <2>2 DEF Kill, TypeOK
  <1>9. CASE Waited
    <2>1. process' \in [{"server", "child"} -> ProcessRecord]
      BY <1>1, <1>2, <1>9 DEF Waited
    <2> QED
      BY <1>9, <2>1 DEF Waited, TypeOK, Idle
  <1>10. CASE StopWaiting
    <2>1. process' \in [{"server", "child"} -> ProcessRecord]
      BY <1>1, <1>10, ProcessTypes DEF StopWaiting, TypeOK
    <2> QED
      BY <1>10, <2>1 DEF StopWaiting, TypeOK
  <1>11. CASE Return
    <2>1. process' \in [{"server", "child"} -> ProcessRecord]
      BY <1>1, <1>11, ProcessTypes DEF Return, TypeOK
    <2>2. 0 \in 0 .. Attempts
      BY RunnerAssumption, SMT
    <2> QED
      BY <1>11, <2>1, <2>2 DEF Return, Terminate, TypeOK
  <1> QED
    BY <1>4, <1>5, <1>6, <1>7, <1>8, <1>9, <1>10, <1>11 DEF Stopping

\* And those of runBenchmarkSuite.
LEMMA SuiteTypes == TypeIInv /\ Suite => TypeIInv'
  <1> SUFFICES ASSUME TypeIInv, Suite PROVE TypeIInv'
    OBVIOUS
  <1> USE DEF TypeIInv, RunInPlan, InRun, Waiting, children, terminating,
              current, results, outcome
  <1>1. /\ {0, 1, NoCode} \subseteq Code
        /\ 0 \in 0 .. Attempts
    BY RunnerAssumption, SMT DEF Code
  <1>2. ASSUME NEW who \in {"server", "child"}, NEW p \in {Started, NoProcess},
               process' = [process EXCEPT ![who] = p]
        PROVE  process' \in [{"server", "child"} -> ProcessRecord]
    BY <1>2, ProcessTypes DEF TypeOK
  <1>3. Result \in Code \/ ~(job = "client" /\ pc \in {"interrupted", "returned"})
    <2>1. 130 \in Code
      BY DEF Code
    <2>2. process["child"].exit \in Code
      BY ProcessTypes DEF TypeOK
    <2> QED
      BY <2>1, <2>2 DEF Result
  <1>4. CASE Setup
    BY <1>1, <1>4 DEF Setup, TypeOK
  <1>5. CASE StartServer
    <2>1. process' \in [{"server", "child"} -> ProcessRecord]
      BY <1>2, <1>5 DEF StartServer
    <2>2. index <= PlanLength
      BY <1>5 DEF StartServer, PlanLeft
    <2> QED
      BY <1>1, <1>5, <2>1, <2>2 DEF StartServer, TypeOK
  <1>6. CASE ServerNotReady
    <2>1. process' \in [{"server", "child"} -> ProcessRecord]
      BY <1>6, ProcessTypes DEF ServerNotReady, TypeOK
    <2> QED
      BY <1>6, <2>1 DEF ServerNotReady, TypeOK
  <1>7. CASE StartClient
    <2>1. process' \in [{"server", "child"} -> ProcessRecord]
      BY <1>2, <1>7 DEF StartClient, RunAndWait
    <2> QED
      BY <1>7, <2>1 DEF StartClient, RunAndWait, TypeOK
  <1>8. CASE ClientDone
    <2>1. clientExit' \in Code
      BY <1>3, <1>8 DEF ClientDone, HasReturned
    <2> QED
      BY <1>8, <2>1 DEF ClientDone, HasReturned, TypeOK
  <1>9. CASE StopServer
    BY <1>1, <1>9 DEF StopServer, Terminate, TypeOK
  <1>10. CASE Record
    <2>1. run \in {Plan[k] : k \in 1 .. PlanLength}
      BY <1>10, CurrentRun DEF Record
    <2>2. manifest' \in Seq(Row)
      <3>1. [run |-> run, status |-> status, exit |-> clientExit] \in Row
        BY <2>1 DEF Row, TypeOK
      <3>2. manifest \in Seq(Row)
        BY DEF Row, TypeOK
      <3> QED
        BY <1>10, <3>1, <3>2 DEF Record
    <2>3. index' \in 1 .. PlanLength + 1
      BY <1>10, PlanLengthType, SMT DEF Record, TypeOK
    <2> DEFINE moved == IF status = "passed" THEN {} ELSE Renamed(files[prefix])
    <2>4. moved \subseteq Name
      BY DEF Renamed, Name
    <2>5. /\ files' = [files EXCEPT ![prefix] = @ \ moved]
          /\ partial' = [partial EXCEPT ![prefix] = @ \cup moved]
      BY <1>10 DEF Record
    <2> HIDE DEF moved
    <2>6. /\ files' \in [Prefixes -> SUBSET Name]
          /\ partial' \in [Prefixes -> SUBSET Name]
      BY <2>4, <2>5 DEF TypeOK
    <2>7. failed' \in BOOLEAN
      BY <1>10 DEF Record
    <2> QED
      BY <1>10, <2>2, <2>3, <2>6, <2>7 DEF Record, TypeOK, Row
  <1>11. CASE PlanEnds
    BY <1>11 DEF PlanEnds, FailedSoFar, TypeOK
  <1>12. CASE SkipAnalysis
    BY <1>1, <1>12 DEF SkipAnalysis, TypeOK
  <1>13. CASE StartAnalyzer
    <2>1. process' \in [{"server", "child"} -> ProcessRecord]
      BY <1>2, <1>13 DEF StartAnalyzer, RunAndWait
    <2> QED
      BY <1>13, <2>1 DEF StartAnalyzer, RunAndWait, TypeOK
  <1>14. CASE AnalyzerDone
    BY <1>1, <1>14 DEF AnalyzerDone, HasReturned, TypeOK
  <1> QED
    BY <1>4, <1>5, <1>6, <1>7, <1>8, <1>9, <1>10, <1>11, <1>12, <1>13, <1>14
    DEF Suite

\* Every step keeps the types.
LEMMA NextTypeIInv == TypeIInv /\ [Next]_vars => TypeIInv'
  <1> SUFFICES ASSUME TypeIInv, [Next]_vars PROVE TypeIInv'
    OBVIOUS
  <1>1. CASE Signal
    BY <1>1 DEF Signal, TypeIInv, TypeOK, RunInPlan, InRun, Waiting, children,
       terminating, current, results, outcome
  <1>2. CASE UNCHANGED vars
    BY <1>2 DEF vars, TypeIInv, TypeOK, RunInPlan, InRun, Waiting, children,
       terminating, current, results, outcome
  <1> QED
    BY <1>1, <1>2, ChildrenTypes, WaitingTypes, SuiteTypes
    DEF Next, Main, Finished

\* The types hold, and a run in progress is a run of the plan.
LEMMA TypesInvariant == Spec => []TypeIInv
  <1> QED
    BY InitTypeIInv, NextTypeIInv, PTL DEF Spec

\* Every variable keeps its type.
THEOREM TypeCorrect == Spec => []TypeOK
  <1>1. TypeIInv => TypeOK
    BY DEF TypeIInv
  <1> QED
    BY <1>1, TypesInvariant, PTL

-----------------------------------------------------------------------------
(* Processes.  A process is owned exactly while the system has it; the     *)
(* runner is in terminate() only at two places; the server exists only     *)
(* within a run and the child only while it is waited for.                 *)

There(p) == p.os \in {"alive", "zombie"}

Owned(p) == p.owned <=> There(p)

Ownership == \A who \in {"server", "child"} : Owned(process[who])

BusyWith ==
    Busy => /\ stopping.step # "idle"
            /\ \/ stopping.who = "child" /\ pc = "interrupted"
               \/ stopping.who = "server" /\ pc = "record"

ServerInRun ==
    There(process["server"]) => InRun /\ (pc = "record" => Busy)

ChildInWait ==
    There(process["child"]) =>
        pc \in Waiting \ {"returned"} /\ (pc = "interrupted" => Busy)

\* The analyzer is run after the plan only.
JobOfPhase ==
    pc \in {"setup", "next", "ready", "stop", "record", "collect"} =>
        job = "client"

ProcessIInv ==
    /\ Ownership
    /\ BusyWith
    /\ SignalsOwnChild
    /\ ServerInRun
    /\ ChildInWait
    /\ JobOfPhase

\* What the operators on processes do to a process.
LEMMA ProcessFacts ==
    /\ Owned(NoProcess) /\ ~There(NoProcess)
    /\ Owned(Started)
    /\ \A p \in ProcessRecord : Owned(p) =>
         /\ Owned(Polled(p))
         /\ Running(p) <=> p.os = "alive"
         /\ There(Polled(p)) => p.os = "alive"
         /\ Running(p) => Polled(p) = p /\ There(p)
         /\ Owned([p EXCEPT !.killed = TRUE])
         /\ There([p EXCEPT !.killed = TRUE]) <=> There(p)
         /\ \A code \in Code : p.os = "alive" =>
              /\ Owned([p EXCEPT !.os = "zombie", !.code = code])
              /\ There([p EXCEPT !.os = "zombie", !.code = code])
  <1>1. Owned(NoProcess) /\ ~There(NoProcess) /\ Owned(Started)
    BY DEF Owned, There, NoProcess, Started
  <1>2. ASSUME NEW p \in ProcessRecord, Owned(p)
        PROVE  /\ Owned(Polled(p))
               /\ Running(p) <=> p.os = "alive"
               /\ There(Polled(p)) => p.os = "alive"
               /\ Running(p) => Polled(p) = p /\ There(p)
    <2>1. Running(p) <=> p.os = "alive"
      BY <1>2 DEF Running, Owned, There
    <2>2. CASE p.owned /\ p.os = "zombie"
      <3>1. Polled(p).os = "reaped" /\ Polled(p).owned = FALSE
        BY <2>2 DEF Polled, Reap, ProcessRecord
      <3>2. Owned(Polled(p)) /\ ~There(Polled(p))
        BY <3>1 DEF Owned, There
      <3>3. ~Running(p)
        BY <2>1, <2>2
      <3> QED
        BY <2>1, <3>2, <3>3
    <2>3. CASE ~(p.owned /\ p.os = "zombie")
      <3>1. Polled(p) = p
        BY <2>3 DEF Polled
      <3>2. There(p) => p.os = "alive"
        BY <1>2, <2>3 DEF Owned, There
      <3>3. Running(p) => There(p)
        BY <2>1 DEF There
      <3> QED
        BY <1>2, <2>1, <3>1, <3>2, <3>3
    <2>4. Running(p) => Polled(p) = p /\ There(p)
      BY <2>1 DEF Polled, There
    <2> QED
      BY <1>2, <2>1, <2>2, <2>3, <2>4
  <1>3. ASSUME NEW p \in ProcessRecord, Owned(p)
        PROVE  /\ Owned([p EXCEPT !.killed = TRUE])
               /\ There([p EXCEPT !.killed = TRUE]) <=> There(p)
    BY <1>3 DEF Owned, There, ProcessRecord
  <1>4. ASSUME NEW p \in ProcessRecord, Owned(p), NEW code \in Code, p.os = "alive"
        PROVE  /\ Owned([p EXCEPT !.os = "zombie", !.code = code])
               /\ There([p EXCEPT !.os = "zombie", !.code = code])
    BY <1>4 DEF Owned, There, ProcessRecord
  <1> QED
    BY <1>1, <1>2, <1>3, <1>4

\* There are no processes before the first run.
LEMMA InitProcessIInv == Init => ProcessIInv
  <1> SUFFICES ASSUME Init PROVE ProcessIInv
    OBVIOUS
  <1>1. \A who \in {"server", "child"} : process[who] = NoProcess
    BY DEF Init
  <1> QED
    BY <1>1, ProcessFacts DEF Init, ProcessIInv, Ownership, BusyWith, Busy, Idle,
       SignalsOwnChild, ServerInRun, ChildInWait, JobOfPhase

\* A process that exits stays a child of the runner until it is reaped.
LEMMA ExitProcessIInv ==
    ASSUME TypeIInv, ProcessIInv, NEW who \in {"server", "child"},
           NEW code \in Code, Exit(who, code),
           UNCHANGED <<pc, stopping, job>>
    PROVE  ProcessIInv'
  <1>1. process[who] \in ProcessRecord /\ Owned(process[who])
    BY DEF TypeIInv, TypeOK, ProcessIInv, Ownership
  <1>2. /\ process[who].os = "alive" /\ There(process[who])
        /\ process' = [process EXCEPT ![who] =
                          [process[who] EXCEPT !.os = "zombie", !.code = code]]
    BY DEF Exit, There
  <1>3. /\ Owned(process'[who]) /\ There(process'[who])
        /\ \A other \in {"server", "child"} \ {who} :
             process'[other] = process[other]
    BY <1>1, <1>2, ProcessFacts DEF TypeIInv, TypeOK
  <1>4. \A any \in {"server", "child"} :
          Owned(process'[any]) /\ (There(process'[any]) <=> There(process[any]))
    BY <1>2, <1>3 DEF ProcessIInv, Ownership
  <1> QED
    BY <1>4 DEF ProcessIInv, Ownership, BusyWith, Busy, SignalsOwnChild, Exists,
       There, ServerInRun, ChildInWait, JobOfPhase, InRun, TypeIInv, TypeOK

\* Polling a process changes nothing but that a dead one is gone.
LEMMA PollProcessIInv ==
    ASSUME TypeIInv, ProcessIInv, NEW who \in {"server", "child"},
           process' = [process EXCEPT ![who] = Polled(@)]
    PROVE  /\ Ownership'
           /\ \A any \in {"server", "child"} :
                There(process'[any]) => There(process[any])
           /\ There(process'[who]) => process[who].os = "alive"
           /\ Running(process[who]) => process' = process /\ There(process[who])
  <1>1. process[who] \in ProcessRecord /\ Owned(process[who])
    BY DEF TypeIInv, TypeOK, ProcessIInv, Ownership
  <1>2. /\ process'[who] = Polled(process[who])
        /\ \A other \in {"server", "child"} \ {who} :
             process'[other] = process[other]
    BY DEF TypeIInv, TypeOK
  <1>3. Ownership'
    <2>1. Owned(process'[who])
      <3>1. Owned(Polled(process[who]))
        BY <1>1, ProcessFacts
      <3> QED
        BY <1>2, <3>1
    <2>2. \A other \in {"server", "child"} \ {who} : Owned(process'[other])
      BY <1>2 DEF ProcessIInv, Ownership
    <2> QED
      BY <2>1, <2>2 DEF Ownership
  <1>4. There(process'[who]) => process[who].os = "alive"
    BY <1>1, <1>2, ProcessFacts, ZenonT(30)
  <1>5. process[who].os = "alive" => There(process[who])
    BY DEF There
  <1>6. Running(process[who]) => process' = process /\ There(process[who])
    BY <1>1, ProcessFacts, ZenonT(30) DEF TypeIInv, TypeOK
  <1> QED
    BY <1>2, <1>3, <1>4, <1>5, <1>6

\* The steps of the children keep the invariant.
LEMMA ChildrenProcessIInv ==
    TypeIInv /\ ProcessIInv /\ (Children \/ KilledExits) => ProcessIInv'
  <1> SUFFICES ASSUME TypeIInv, ProcessIInv, Children \/ KilledExits
               PROVE  ProcessIInv'
    OBVIOUS
  <1>1. ASSUME UNCHANGED <<process, pc, stopping, job>> PROVE ProcessIInv'
    BY <1>1 DEF ProcessIInv, Ownership, BusyWith, Busy, SignalsOwnChild, Exists,
       ServerInRun, ChildInWait, JobOfPhase, InRun
  <1>2. {0, 1, 130} \subseteq Code
    BY DEF Code
  <1>3. CASE ClientWrites \/ ServerListens \/ AnalyzerReads
    BY <1>1, <1>3 DEF ClientWrites, ServerListens, AnalyzerReads, children,
       terminating, current
  <1>4. CASE ClientExits
    BY <1>2, <1>4, ExitProcessIInv DEF ClientExits, terminating, current
  <1>5. CASE ServerExits
    BY <1>2, <1>5, ExitProcessIInv DEF ServerExits, terminating, current
  <1>6. CASE AnalyzerExits
    BY <1>2, <1>6, ExitProcessIInv DEF AnalyzerExits, terminating, current
  <1>7. CASE KilledExits
    <2>1. PICK who \in {"server", "child"} : Exit(who, 1)
      BY <1>7 DEF KilledExits, TypeIInv, TypeOK
    <2> QED
      BY <1>2, <1>7, <2>1, ExitProcessIInv DEF KilledExits, terminating, current
  <1> QED
    BY <1>3, <1>4, <1>5, <1>6, <1>7 DEF Children

\* A step inside terminate(), after which it goes on.
LEMMA StepProcessIInv ==
    ASSUME TypeIInv, ProcessIInv, Busy,
           NEW step \in {"term", "poll", "kill", "wait"}, Step(step),
           Ownership', UNCHANGED <<pc, job>>,
           \A any \in {"server", "child"} :
               There(process'[any]) => There(process[any]),
           step \in {"term", "kill"} => There(process'[stopping.who])
    PROVE  ProcessIInv'
  <1>1. stopping'.step = step /\ stopping'.who = stopping.who
    BY DEF Step, TypeIInv, TypeOK
  <1>2. Busy'
    BY <1>1 DEF Busy, Idle
  <1>3. BusyWith' /\ JobOfPhase'
    BY <1>1 DEF BusyWith, JobOfPhase, ProcessIInv
  <1>4. SignalsOwnChild'
    BY <1>1 DEF SignalsOwnChild, Exists, There
  <1>5. ServerInRun' /\ ChildInWait'
    BY <1>2 DEF ServerInRun, ChildInWait, InRun, ProcessIInv
  <1> QED
    BY <1>3, <1>4, <1>5 DEF ProcessIInv

\* The steps of terminate() keep the invariant.
LEMMA StoppingProcessIInv ==
    TypeIInv /\ ProcessIInv /\ Stopping => ProcessIInv'
  <1> SUFFICES ASSUME TypeIInv, ProcessIInv, Stopping PROVE ProcessIInv'
    OBVIOUS
  <1> USE DEF children, terminating, current
  <1>1. stopping.who \in {"server", "child"}
    BY DEF TypeIInv, TypeOK
  <1>2. \A step \in {"ask", "term", "poll", "kill", "wait"} :
          stopping.step = step => Busy
    BY DEF Busy, Idle
  <1>3. CASE Ask
    <2>1. process' = [process EXCEPT ![stopping.who] = Polled(@)]
      BY <1>3 DEF Ask
    <2>2. CASE Running(process[stopping.who])
      BY <1>1, <1>2, <1>3, <2>1, <2>2, PollProcessIInv, StepProcessIInv DEF Ask
    <2>3. CASE ~Running(process[stopping.who])
      BY <1>1, <1>2, <1>3, <2>1, <2>3, PollProcessIInv, StepProcessIInv DEF Ask
    <2> QED
      BY <2>2, <2>3
  <1>4. CASE Term
    BY <1>2, <1>4, StepProcessIInv DEF Term, ProcessIInv, Ownership
  <1>5. CASE Poll
    <2>1. process' = [process EXCEPT ![stopping.who] = Polled(@)]
      BY <1>5 DEF Poll
    <2> QED
      BY <1>1, <1>2, <1>5, <2>1, PollProcessIInv, StepProcessIInv DEF Poll
  <1>6. CASE LastPoll
    <2>1. process' = [process EXCEPT ![stopping.who] = Polled(@)]
      BY <1>6 DEF LastPoll
    <2> QED
      BY <1>1, <1>2, <1>6, <2>1, PollProcessIInv, StepProcessIInv
      DEF LastPoll, Kills
  <1>7. CASE Kill
    <2>1. /\ process' = [process EXCEPT ![stopping.who] =
                           [process[stopping.who] EXCEPT !.killed = TRUE]]
          /\ UNCHANGED <<pc, job>> /\ Step("wait") /\ Busy
      BY <1>2, <1>7 DEF Kill
    <2>2. \A any \in {"server", "child"} :
            Owned(process'[any]) /\ (There(process'[any]) => There(process[any]))
      BY <1>1, <2>1, ProcessFacts DEF TypeIInv, TypeOK, ProcessIInv, Ownership
    <2> QED
      BY <2>1, <2>2, StepProcessIInv DEF Ownership
  <1>8. CASE Waited
    <2>1. /\ process' = [process EXCEPT ![stopping.who] = Polled(@)]
          /\ process[stopping.who].os # "alive"
          /\ stopping' = Idle /\ UNCHANGED <<pc, job>>
      BY <1>8 DEF Waited, TerminateEnds, CanWait
    <2>2. /\ Ownership'
          /\ \A any \in {"server", "child"} :
               There(process'[any]) => There(process[any])
          /\ ~There(process'[stopping.who])
      BY <1>1, <2>1, PollProcessIInv
    <2>3. Busy
      BY <1>2, <1>8 DEF Waited
    <2>4. BusyWith' /\ JobOfPhase' /\ SignalsOwnChild'
      BY <2>1 DEF BusyWith, Busy, Idle, JobOfPhase, SignalsOwnChild, ProcessIInv
    <2>5. ServerInRun'
      BY <2>1, <2>2, <2>3 DEF ServerInRun, InRun, ProcessIInv, BusyWith
    <2>6. ChildInWait'
      BY <2>1, <2>2, <2>3 DEF ChildInWait, ProcessIInv, BusyWith
    <2> QED
      BY <2>2, <2>4, <2>5, <2>6 DEF ProcessIInv
  <1> QED
    BY <1>3, <1>4, <1>5, <1>6, <1>7, <1>8 DEF Stopping

\* Waiting for a child keeps the invariant.
LEMMA WaitProcessIInv ==
    TypeIInv /\ ProcessIInv /\ (StopWaiting \/ Return) => ProcessIInv'
  <1> SUFFICES ASSUME TypeIInv, ProcessIInv, StopWaiting \/ Return
               PROVE  ProcessIInv'
    OBVIOUS
  <1> USE DEF children, terminating, current
  <1>1. pc \in {"running", "returning"} /\ ~Busy
    BY DEF StopWaiting, Return, ProcessIInv, BusyWith
  <1>2. CASE StopWaiting
    <2>1. /\ Ownership'
          /\ \A any \in {"server", "child"} :
               There(process'[any]) => There(process[any])
      <3>1. CASE interrupted
        <4>1. process' = process
          BY <1>2, <3>1 DEF StopWaiting, TypeIInv, TypeOK
        <4> QED
          BY <4>1 DEF ProcessIInv, Ownership
      <3>2. CASE ~interrupted
        <4>1. process' = [process EXCEPT !["child"] = Polled(@)]
          BY <1>2, <3>2 DEF StopWaiting
        <4> QED
          BY <4>1, PollProcessIInv
      <3> QED
        BY <3>1, <3>2
    <2> QED
      BY <1>1, <1>2, <2>1 DEF StopWaiting, ProcessIInv, BusyWith, Busy,
         SignalsOwnChild, Idle, ServerInRun, ChildInWait, JobOfPhase, InRun,
         Waiting
  <1>3. CASE Return /\ interrupted
    <2>1. /\ UNCHANGED <<process, job>> /\ pc' = "interrupted"
          /\ stopping' = [who |-> "child", step |-> "ask"]
      BY <1>3 DEF Return, Terminate
    <2> QED
      BY <1>1, <2>1 DEF ProcessIInv, Ownership, BusyWith, Busy, SignalsOwnChild,
         Idle, ServerInRun, ChildInWait, JobOfPhase, InRun, Waiting
  <1>4. CASE Return /\ ~interrupted
    <2>1. /\ process' = [process EXCEPT !["child"] = Polled(@)]
          /\ process["child"].os # "alive"
          /\ UNCHANGED <<stopping, job>> /\ pc' = "returned"
      BY <1>4 DEF Return, CanWait
    <2>2. /\ Ownership' /\ ~There(process'["child"])
          /\ There(process'["server"]) => There(process["server"])
      BY <2>1, PollProcessIInv
    <2> QED
      BY <1>1, <2>1, <2>2 DEF ProcessIInv, BusyWith, Busy, SignalsOwnChild,
         Idle, ServerInRun, ChildInWait, JobOfPhase, InRun, Waiting
  <1> QED
    BY <1>2, <1>3, <1>4

\* So do the steps of runBenchmarkSuite.
LEMMA SuiteProcessIInv ==
    TypeIInv /\ ProcessIInv /\ Suite => ProcessIInv'
  <1> SUFFICES ASSUME TypeIInv, ProcessIInv, Suite
               PROVE  ProcessIInv'
    OBVIOUS
  <1> USE DEF children, terminating, current
  <1>1. ~Busy
    <2>1. CASE HasReturned("client") \/ HasReturned("analyzer") \/ Record
      BY <2>1 DEF HasReturned, Record
    <2>2. CASE pc \notin {"interrupted", "record"}
      BY <2>2 DEF ProcessIInv, BusyWith
    <2> QED
      BY <2>1, <2>2 DEF Suite, Setup, StartServer, ServerNotReady, StartClient,
         ClientDone, StopServer, PlanEnds, SkipAnalysis, StartAnalyzer,
         AnalyzerDone
  <1>3. ASSUME NEW who \in {"server", "child"},
               process' = [process EXCEPT ![who] = NoProcess]
        PROVE  /\ Ownership' /\ ~There(process'[who])
               /\ \A any \in {"server", "child"} \ {who} :
                    There(process'[any]) => There(process[any])
    BY <1>3, ProcessFacts DEF Ownership, ProcessIInv, TypeIInv, TypeOK
  <1>4. ASSUME NEW who \in {"server", "child"},
               process' = [process EXCEPT ![who] = Started]
        PROVE  /\ Ownership'
               /\ \A any \in {"server", "child"} \ {who} :
                    There(process'[any]) => There(process[any])
    BY <1>4, ProcessFacts DEF Ownership, ProcessIInv, TypeIInv, TypeOK
  <1>5. ASSUME UNCHANGED <<process, stopping>>,
               ~There(process["child"]), ~There(process["server"]),
               JobOfPhase'
        PROVE  ProcessIInv'
    BY <1>1, <1>5 DEF ProcessIInv, Ownership, BusyWith, Busy, SignalsOwnChild,
       Idle, ServerInRun, ChildInWait
  <1>6. CASE Setup \/ PlanEnds
    BY <1>5, <1>6 DEF Setup, PlanEnds, ProcessIInv, ServerInRun, ChildInWait,
       InRun, JobOfPhase, Waiting
  <1>7. CASE StartServer
    <2>1. ~There(process["child"]) /\ ~Busy /\ job' = "client"
      BY <1>1, <1>7 DEF StartServer, ProcessIInv, ChildInWait, JobOfPhase, Waiting
    <2>2. CASE pc' = "ready"
      <3>1. process' = [process EXCEPT !["server"] = Started]
        BY <1>7, <2>2 DEF StartServer
      <3> QED
        BY <1>4, <1>7, <2>1, <2>2, <3>1 DEF StartServer, ProcessIInv, BusyWith,
           Busy, SignalsOwnChild, Idle, ServerInRun, ChildInWait, JobOfPhase, InRun
    <2>3. CASE pc' = "record"
      <3>1. process' = [process EXCEPT !["server"] = NoProcess]
        BY <1>7, <2>3 DEF StartServer
      <3> QED
        BY <1>3, <1>7, <2>1, <2>3, <3>1 DEF StartServer, ProcessIInv, BusyWith,
           Busy, SignalsOwnChild, Idle, ServerInRun, ChildInWait, JobOfPhase, InRun
    <2> QED
      BY <1>7, <2>2, <2>3 DEF StartServer
  <1>8. CASE ServerNotReady
    <2>1. process' = [process EXCEPT !["server"] = Polled(@)]
      BY <1>8 DEF ServerNotReady
    <2>2. /\ Ownership'
          /\ There(process'["child"]) => There(process["child"])
      BY <2>1, PollProcessIInv
    <2>3. ~There(process["child"])
      BY <1>8 DEF ServerNotReady, ProcessIInv, ChildInWait, Waiting
    <2> QED
      BY <1>1, <1>8, <2>2, <2>3 DEF ServerNotReady, ProcessIInv, BusyWith, Busy,
         SignalsOwnChild, Idle, ServerInRun, ChildInWait, JobOfPhase, InRun
  <1>9. CASE StartClient
    <2>1. CASE pc' = "running"
      <3>1. process' = [process EXCEPT !["child"] = Started]
        BY <1>9, <2>1 DEF StartClient, RunAndWait
      <3> QED
        BY <1>1, <1>4, <1>9, <2>1, <3>1 DEF StartClient, RunAndWait, ProcessIInv,
           BusyWith, Busy, SignalsOwnChild, Idle, ServerInRun, ChildInWait,
           JobOfPhase, InRun, Waiting
    <2>2. CASE pc' = "stop"
      <3>1. process' = [process EXCEPT !["child"] = NoProcess]
        BY <1>9, <2>2 DEF StartClient, RunAndWait
      <3> QED
        BY <1>1, <1>3, <1>9, <2>2, <3>1 DEF StartClient, RunAndWait, ProcessIInv,
           BusyWith, Busy, SignalsOwnChild, Idle, ServerInRun, ChildInWait,
           JobOfPhase, InRun, Waiting
    <2> QED
      BY <1>9, <2>1, <2>2 DEF StartClient, RunAndWait
  <1>10. CASE ClientDone
    <2>1. ~There(process["child"])
      BY <1>10 DEF ClientDone, HasReturned, ProcessIInv, ChildInWait
    <2> QED
      BY <1>1, <1>10, <2>1 DEF ClientDone, HasReturned, ProcessIInv, Ownership,
         BusyWith, Busy, SignalsOwnChild, Idle, ServerInRun, ChildInWait,
         JobOfPhase, InRun
  <1>11. CASE StopServer
    <2>1. /\ pc = "stop" /\ pc' = "record" /\ UNCHANGED <<process, job>>
          /\ stopping' = [who |-> "server", step |-> "ask"]
      BY <1>11 DEF StopServer, Terminate
    <2>2. ~There(process["child"])
      BY <2>1 DEF ProcessIInv, ChildInWait, Waiting
    <2> QED
      BY <2>1, <2>2 DEF ProcessIInv, Ownership, BusyWith, Busy, SignalsOwnChild,
         Idle, ServerInRun, ChildInWait, JobOfPhase, InRun
  <1>12. CASE Record
    <2>1. ~There(process["child"]) /\ ~There(process["server"])
      BY <1>1, <1>12 DEF Record, ProcessIInv, ChildInWait, ServerInRun, Waiting
    <2> QED
      BY <1>5, <1>12, <2>1 DEF Record, ProcessIInv, JobOfPhase
  <1>13. CASE SkipAnalysis
    BY <1>5, <1>13 DEF SkipAnalysis, ProcessIInv, ServerInRun, ChildInWait,
       InRun, JobOfPhase, Waiting
  <1>14. CASE StartAnalyzer
    <2>1. ~There(process["server"])
      BY <1>14 DEF StartAnalyzer, ProcessIInv, ServerInRun, InRun, JobOfPhase,
         Waiting
    <2>2. CASE pc' = "running"
      <3>1. process' = [process EXCEPT !["child"] = Started]
        BY <1>14, <2>2 DEF StartAnalyzer, RunAndWait
      <3> QED
        BY <1>1, <1>4, <1>14, <2>1, <2>2, <3>1 DEF StartAnalyzer, RunAndWait,
           ProcessIInv, BusyWith, Busy, SignalsOwnChild, Idle, ServerInRun,
           ChildInWait, JobOfPhase, InRun, Waiting
    <2>3. CASE pc' = "noAnalyzer"
      <3>1. process' = [process EXCEPT !["child"] = NoProcess]
        BY <1>14, <2>3 DEF StartAnalyzer, RunAndWait
      <3> QED
        BY <1>1, <1>3, <1>14, <2>1, <2>3, <3>1 DEF StartAnalyzer, RunAndWait,
           ProcessIInv, BusyWith, Busy, SignalsOwnChild, Idle, ServerInRun,
           ChildInWait, JobOfPhase, InRun, Waiting
    <2> QED
      BY <1>14, <2>2, <2>3 DEF StartAnalyzer, RunAndWait
  <1>15. CASE AnalyzerDone
    <2>1. ~There(process["server"]) /\ ~There(process["child"])
      BY <1>15 DEF AnalyzerDone, HasReturned, ProcessIInv, ServerInRun,
         ChildInWait, InRun, Waiting
    <2> QED
      BY <1>5, <1>15, <2>1 DEF AnalyzerDone, ProcessIInv, JobOfPhase
  <1> QED
    BY <1>6, <1>7, <1>8, <1>9, <1>10, <1>11, <1>12, <1>13, <1>14, <1>15 DEF Suite

\* Every step keeps the invariant of the processes.
LEMMA NextProcessIInv ==
    TypeIInv /\ ProcessIInv /\ [Next]_vars => ProcessIInv'
  <1>1. ProcessIInv /\ UNCHANGED <<process, pc, stopping, job>> => ProcessIInv'
    BY DEF ProcessIInv, Ownership, BusyWith, Busy, SignalsOwnChild, Exists,
       ServerInRun, ChildInWait, JobOfPhase, InRun
  <1>2. Signal \/ UNCHANGED vars => UNCHANGED <<process, pc, stopping, job>>
    BY DEF Signal, vars, children, terminating, current
  <1> QED
    BY <1>1, <1>2, ChildrenProcessIInv, StoppingProcessIInv, WaitProcessIInv,
       SuiteProcessIInv DEF Next, Main, Finished

\* The invariant of the processes holds in every reachable state.
LEMMA ProcessesInvariant == Spec => []ProcessIInv
  <1> QED
    BY TypesInvariant, InitProcessIInv, NextProcessIInv, PTL DEF Spec

\* No process outlives its run.
THEOREM NothingLeftBehind == Spec => []NoProcessLeft
  <1>1. ProcessIInv => NoProcessLeft
    BY DEF ProcessIInv, ServerInRun, ChildInWait, JobOfPhase, InRun, Waiting,
       NoProcessLeft, Exists, There
  <1> QED
    BY <1>1, ProcessesInvariant, PTL

\* Signals go to process groups that exist.
THEOREM OwnGroupSignalled == Spec => []SignalsOwnChild
  <1>1. ProcessIInv => SignalsOwnChild
    BY DEF ProcessIInv
  <1> QED
    BY <1>1, ProcessesInvariant, PTL

-----------------------------------------------------------------------------
(* Files and manifest.  The rows are the runs of the plan so far; a run    *)
(* has no file before its client starts; its status speaks of the files    *)
(* that are there.                                                         *)

RowsFollowPlan ==
    /\ Len(manifest) = index - 1
    /\ \A k \in 1 .. Len(manifest) : manifest[k].run = Plan[k]

\* The k-th run has not started its client.
Untouched(k) == k > index \/ (k = index /\ (~InRun \/ pc = "ready"))

LaterRunsEmpty ==
    \A k \in 1 .. PlanLength :
        /\ Untouched(k) => files[Prefix(Plan[k])] = {}
        /\ k >= index => partial[Prefix(Plan[k])] = {}

\* A run fails until its client has returned.
StatusPending == pc = "ready" \/ (job = "client" /\ pc \in Waiting)

StatusSpeaksOfFiles ==
    /\ StatusPending => status = "failed"
    /\ pc \in {"stop", "record"} /\ status = "passed" =>
         clientExit = 0 /\ ResultFile(run.profile) \in files[prefix]

ManifestIInv ==
    /\ RowsFollowPlan
    /\ LaterRunsEmpty
    /\ StatusSpeaksOfFiles
    /\ ManifestAgrees

\* The manifest is empty before the first run.
LEMMA InitManifestIInv == Init => ManifestIInv
  <1> SUFFICES ASSUME Init PROVE ManifestIInv
    OBVIOUS
  <1>1. Len(manifest) = 0 /\ index = 1
    BY DEF Init
  <1>2. RowsFollowPlan /\ ManifestAgrees
    BY <1>1, SMT DEF RowsFollowPlan, ManifestAgrees
  <1>3. \A k \in 1 .. PlanLength : Prefix(Plan[k]) \in Prefixes
    BY DEF Prefixes
  <1>4. LaterRunsEmpty
    BY <1>3 DEF LaterRunsEmpty, Init
  <1>5. StatusSpeaksOfFiles
    BY DEF StatusSpeaksOfFiles, Init
  <1> QED
    BY <1>2, <1>4, <1>5 DEF ManifestIInv

\* The prefix of another run is another prefix.
LEMMA OtherRun ==
    ASSUME TypeOK, index <= PlanLength, NEW k \in 1 .. PlanLength, k # index
    PROVE  Prefix(Plan[k]) \in Prefixes /\ Prefix(Plan[k]) # prefix
  <1>1. index \in 1 .. PlanLength
    BY PlanLengthType, SMT DEF TypeOK
  <1>2. Prefix(Plan[k]) # Prefix(Plan[index])
    BY <1>1, PrefixesDiffer
  <1> QED
    BY <1>2 DEF prefix, run, Prefixes

\* A step that leaves the files and the rows alone and does not leave a run.
LEMMA PhaseManifestIInv ==
    ASSUME ManifestIInv,
           UNCHANGED <<index, clientExit, status, files, partial, manifest>>,
           (~InRun \/ pc = "ready")' => ~InRun \/ pc = "ready",
           StatusPending' => StatusPending,
           pc' \in {"stop", "record"} => pc \in {"stop", "record"} \/ StatusPending
    PROVE  ManifestIInv'
  <1>1. RowsFollowPlan' /\ ManifestAgrees'
    BY DEF ManifestIInv, RowsFollowPlan, ManifestAgrees
  <1>2. LaterRunsEmpty'
    BY DEF ManifestIInv, LaterRunsEmpty, Untouched
  <1>3. StatusSpeaksOfFiles'
    BY DEF ManifestIInv, StatusSpeaksOfFiles, run, prefix
  <1> QED
    BY <1>1, <1>2, <1>3 DEF ManifestIInv

\* A client writes the files of the current run only.
LEMMA WriteManifestIInv ==
    TypeIInv /\ ProcessIInv /\ ManifestIInv /\ ClientWrites => ManifestIInv'
  <1> SUFFICES ASSUME TypeIInv, ProcessIInv, ManifestIInv, ClientWrites
               PROVE  ManifestIInv'
    OBVIOUS
  <1>1. job = "client" /\ pc \in Waiting \ {"returned"}
    BY DEF ClientWrites, ProcessIInv, ChildInWait, There
  <1>2. index <= PlanLength
    BY <1>1 DEF TypeIInv, RunInPlan, InRun
  <1>3. /\ UNCHANGED <<pc, job, index, clientExit, status, partial, manifest>>
        /\ \E name : files' = [files EXCEPT ![prefix] = @ \cup {name}]
    BY DEF ClientWrites, current, outcome
  <1>4. \A k \in 1 .. PlanLength :
          k # index => files'[Prefix(Plan[k])] = files[Prefix(Plan[k])]
    BY <1>2, <1>3, OtherRun DEF TypeIInv, TypeOK
  <1>5. \A k \in 1 .. Len(manifest) : k \in 1 .. PlanLength /\ k # index
    <2>1. Len(manifest) = index - 1 /\ index \in Int
      BY SMT DEF ManifestIInv, RowsFollowPlan, TypeIInv, TypeOK
    <2> QED
      BY <1>2, <2>1, PlanLengthType, SMT
  <1>6. RowsFollowPlan'
    BY <1>3 DEF ManifestIInv, RowsFollowPlan
  <1>7. LaterRunsEmpty'
    <2>1. \A k \in 1 .. PlanLength : Untouched(k)' => Untouched(k) /\ k # index
      BY <1>1, <1>3, PlanLengthType, SMT
      DEF Untouched, InRun, Waiting, TypeIInv, TypeOK
    <2> QED
      BY <1>3, <1>4, <2>1 DEF ManifestIInv, LaterRunsEmpty
  <1>8. StatusSpeaksOfFiles'
    BY <1>1, <1>3 DEF ManifestIInv, StatusSpeaksOfFiles, StatusPending, Waiting
  <1>9. ManifestAgrees'
    <2> SUFFICES ASSUME NEW k \in 1 .. Len(manifest)
                 PROVE  LET row == manifest[k]
                            main == {"summary", "delivery"} \cap
                                        files'[Prefix(row.run)]
                        IN  /\ row.run = Plan[k]
                            /\ row.status = "passed" <=> main # {}
                            /\ row.status = "passed" =>
                                 row.exit = 0 /\ partial[Prefix(row.run)] = {}
      BY <1>3 DEF ManifestAgrees
    <2>1. files'[Prefix(manifest[k].run)] = files[Prefix(manifest[k].run)]
      BY <1>4, <1>5 DEF ManifestIInv, RowsFollowPlan
    <2> QED
      BY <2>1 DEF ManifestIInv, ManifestAgrees
  <1> QED
    BY <1>6, <1>7, <1>8, <1>9 DEF ManifestIInv

\* The status of a client that has returned speaks of the files.
LEMMA DoneManifestIInv ==
    TypeIInv /\ ManifestIInv /\ ClientDone => ManifestIInv'
  <1> SUFFICES ASSUME TypeIInv, ManifestIInv, ClientDone
               PROVE  ManifestIInv'
    OBVIOUS
  <1>1. /\ UNCHANGED <<index, files, partial, manifest>>
        /\ pc' = "stop" /\ InRun /\ InRun'
    BY DEF ClientDone, HasReturned, InRun, Waiting, results, outcome
  <1>2. RowsFollowPlan' /\ ManifestAgrees'
    BY <1>1 DEF ManifestIInv, RowsFollowPlan, ManifestAgrees
  <1>3. LaterRunsEmpty'
    BY <1>1 DEF ManifestIInv, LaterRunsEmpty, Untouched
  <1>4. StatusSpeaksOfFiles'
    BY <1>1 DEF ClientDone, Passes, StatusSpeaksOfFiles, StatusPending, run,
       prefix, Waiting
  <1> QED
    BY <1>2, <1>3, <1>4 DEF ManifestIInv

\* The row that is added agrees with the files that are left.
LEMMA RecordManifestIInv ==
    TypeIInv /\ ManifestIInv /\ Record => ManifestIInv'
  <1> SUFFICES ASSUME TypeIInv, ManifestIInv, Record
               PROVE  ManifestIInv'
    OBVIOUS
  <1> DEFINE moved == IF status = "passed" THEN {} ELSE Renamed(files[prefix])
             added == [run |-> run, status |-> status, exit |-> clientExit]
  <1>1. /\ pc = "record" /\ InRun /\ index <= PlanLength
        /\ index \in 1 .. PlanLength
        /\ pc' = "next" /\ index' = index + 1 /\ UNCHANGED job
        /\ manifest' = Append(manifest, added)
        /\ files' = [files EXCEPT ![prefix] = @ \ moved]
        /\ partial' = [partial EXCEPT ![prefix] = @ \cup moved]
    BY PlanLengthType, SMT
    DEF Record, InRun, TypeIInv, RunInPlan, TypeOK, current
  <1>2. prefix \in Prefixes /\ prefix = Prefix(Plan[index]) /\ run = Plan[index]
    BY <1>1, CurrentRun DEF TypeIInv, prefix, run
  <1>3. /\ files'[prefix] = files[prefix] \ moved
        /\ partial'[prefix] = partial[prefix] \cup moved
        /\ \A k \in 1 .. PlanLength : k # index =>
             /\ files'[Prefix(Plan[k])] = files[Prefix(Plan[k])]
             /\ partial'[Prefix(Plan[k])] = partial[Prefix(Plan[k])]
    BY <1>1, <1>2, OtherRun DEF TypeIInv, TypeOK
  <1>4. partial[prefix] = {}
    BY <1>1, <1>2, SMT DEF ManifestIInv, LaterRunsEmpty
  <1>5. {"summary", "delivery"} \cap files'[prefix] # {} <=> status = "passed"
    <2>1. CASE status = "passed"
      <3>1. ResultFile(run.profile) \in files[prefix]
        BY <1>1, <2>1 DEF ManifestIInv, StatusSpeaksOfFiles
      <3>2. ResultFile(run.profile) \in {"summary", "delivery"}
        BY DEF ResultFile
      <3>3. files'[prefix] = files[prefix]
        BY <1>3, <2>1
      <3> QED
        BY <2>1, <3>1, <3>2, <3>3
    <2>2. CASE status # "passed"
      <3>1. moved = files[prefix] \cap {"summary", "delivery"}
        BY <2>2 DEF Renamed
      <3> QED
        BY <1>3, <2>2, <3>1
    <2> QED
      BY <2>1, <2>2
  <1>6. status = "passed" => clientExit = 0 /\ partial'[prefix] = {}
    BY <1>1, <1>3, <1>4 DEF ManifestIInv, StatusSpeaksOfFiles
  <1> HIDE DEF moved
  <1>7. /\ Len(manifest') = Len(manifest) + 1
        /\ manifest'[Len(manifest) + 1] = added
        /\ \A k \in 1 .. Len(manifest) : manifest'[k] = manifest[k]
        /\ Len(manifest) \in Nat
    BY <1>1, SMT DEF TypeIInv, TypeOK
  <1>8. Len(manifest) + 1 = index
    BY <1>1, <1>7, SMT DEF ManifestIInv, RowsFollowPlan
  <1>9. RowsFollowPlan'
    <2>1. Len(manifest') = index' - 1
      BY <1>1, <1>7, <1>8, SMT
    <2>2. ASSUME NEW k \in 1 .. Len(manifest')
          PROVE  manifest'[k].run = Plan[k]
      <3>1. CASE k = index
        BY <1>2, <1>7, <1>8, <3>1
      <3>2. CASE k \in 1 .. Len(manifest)
        BY <1>7, <3>2 DEF ManifestIInv, RowsFollowPlan
      <3> QED
        BY <1>7, <1>8, <3>1, <3>2, SMT
    <2> QED
      BY <2>1, <2>2 DEF RowsFollowPlan
  <1>10. LaterRunsEmpty'
    <2> SUFFICES ASSUME NEW k \in 1 .. PlanLength
                 PROVE  /\ Untouched(k)' => files'[Prefix(Plan[k])] = {}
                        /\ k >= index' => partial'[Prefix(Plan[k])] = {}
      BY DEF LaterRunsEmpty
    <2>1. Untouched(k)' => k > index
      BY <1>1, SMT DEF Untouched
    <2>2. k >= index' => k > index
      BY <1>1, SMT
    <2>3. k > index => Untouched(k) /\ k # index /\ k >= index
      BY <1>1, SMT DEF Untouched
    <2> QED
      BY <1>3, <2>1, <2>2, <2>3 DEF ManifestIInv, LaterRunsEmpty
  <1>11. StatusSpeaksOfFiles'
    <2>1. ~StatusPending'
      BY <1>1 DEF StatusPending, Waiting
    <2> QED
      BY <1>1, <2>1 DEF StatusSpeaksOfFiles
  <1>12. ManifestAgrees'
    <2> SUFFICES ASSUME NEW k \in 1 .. Len(manifest')
                 PROVE  /\ manifest'[k].run = Plan[k]
                        /\ manifest'[k].status = "passed" <=>
                             {"summary", "delivery"} \cap
                                 files'[Prefix(manifest'[k].run)] # {}
                        /\ manifest'[k].status = "passed" =>
                             /\ manifest'[k].exit = 0
                             /\ partial'[Prefix(manifest'[k].run)] = {}
      BY DEF ManifestAgrees
    <2>1. manifest'[k].run = Plan[k]
      BY <1>9 DEF RowsFollowPlan
    <2>2. CASE k = index
      <3>1. /\ manifest'[k].status = status /\ manifest'[k].exit = clientExit
            /\ Prefix(manifest'[k].run) = prefix
        BY <1>2, <1>7, <1>8, <2>1, <2>2
      <3> QED
        BY <1>5, <1>6, <2>1, <3>1
    <2>3. CASE k \in 1 .. Len(manifest)
      <3>1. k \in 1 .. PlanLength /\ k # index
        <4>1. /\ index \in 1 .. PlanLength /\ k \in 1 .. Len(manifest)
              /\ Len(manifest) + 1 = index /\ Len(manifest) \in Nat
          BY <1>1, <1>7, <1>8, <2>3
        <4> QED
          BY <4>1, PlanLengthType, SMT
      <3>2. manifest'[k] = manifest[k] /\ manifest[k].run = Plan[k]
        BY <1>7, <2>1, <2>3
      <3>3. /\ files'[Prefix(manifest'[k].run)] = files[Prefix(manifest[k].run)]
            /\ partial'[Prefix(manifest'[k].run)] =
                 partial[Prefix(manifest[k].run)]
        BY <1>3, <3>1, <3>2
      <3> QED
        BY <2>3, <3>2, <3>3 DEF ManifestIInv, ManifestAgrees
    <2> QED
      BY <1>7, <1>8, <2>2, <2>3, SMT
  <1> QED
    BY <1>9, <1>10, <1>11, <1>12 DEF ManifestIInv

\* A run that starts has no files and the status "failed".
LEMMA StartManifestIInv ==
    TypeIInv /\ ManifestIInv /\ StartServer => ManifestIInv'
  <1> SUFFICES ASSUME TypeIInv, ManifestIInv, StartServer
               PROVE  ManifestIInv'
    OBVIOUS
  <1>1. /\ UNCHANGED <<index, files, partial, manifest, job>>
        /\ pc = "next" /\ pc' \in {"ready", "record"} /\ status' = "failed"
        /\ ~InRun
    BY DEF StartServer, InRun, Waiting, results, outcome
  <1>2. RowsFollowPlan' /\ ManifestAgrees'
    BY <1>1 DEF ManifestIInv, RowsFollowPlan, ManifestAgrees
  <1>3. LaterRunsEmpty'
    BY <1>1 DEF ManifestIInv, LaterRunsEmpty, Untouched
  <1>4. StatusSpeaksOfFiles'
    BY <1>1 DEF StatusSpeaksOfFiles, StatusPending, Waiting
  <1> QED
    BY <1>2, <1>3, <1>4 DEF ManifestIInv

\* Every step keeps the invariant of the manifest.
LEMMA NextManifestIInv ==
    TypeIInv /\ ProcessIInv /\ ManifestIInv /\ [Next]_vars => ManifestIInv'
  <1> SUFFICES ASSUME TypeIInv, ProcessIInv, ManifestIInv, [Next]_vars
               PROVE  ManifestIInv'
    OBVIOUS
  <1> USE DEF current, results, outcome
  <1>1. ASSUME UNCHANGED <<pc, job, index, clientExit, status, files, partial,
                           manifest>>
        PROVE  ManifestIInv'
    BY <1>1, PhaseManifestIInv DEF InRun, StatusPending
  <1>2. CASE ClientWrites
    BY <1>2, WriteManifestIInv
  <1>3. CASE ClientExits \/ ServerListens \/ ServerExits \/ AnalyzerReads
             \/ AnalyzerExits \/ KilledExits \/ Signal
    BY <1>1, <1>3 DEF ClientExits, ServerListens, ServerExits, AnalyzerReads,
       AnalyzerExits, KilledExits, Signal
  <1>4. CASE Stopping
    BY <1>1, <1>4 DEF Stopping, Ask, Term, Poll, LastPoll, Kill, Waited
  <1>5. CASE StopWaiting \/ Return
    BY <1>5, PhaseManifestIInv
    DEF StopWaiting, Return, InRun, StatusPending, Waiting
  <1>6. CASE Setup
    BY <1>6, PhaseManifestIInv DEF Setup, InRun, StatusPending, Waiting
  <1>7. CASE StartServer
    BY <1>7, StartManifestIInv
  <1>8. CASE ServerNotReady
    BY <1>8, PhaseManifestIInv DEF ServerNotReady, InRun, StatusPending, Waiting
  <1>9. CASE StartClient
    BY <1>9, PhaseManifestIInv
    DEF StartClient, RunAndWait, InRun, StatusPending, Waiting
  <1>10. CASE ClientDone
    BY <1>10, DoneManifestIInv
  <1>11. CASE StopServer
    BY <1>11, PhaseManifestIInv DEF StopServer, InRun, StatusPending, Waiting
  <1>12. CASE Record
    BY <1>12, RecordManifestIInv
  <1>13. CASE PlanEnds
    BY <1>13, PhaseManifestIInv DEF PlanEnds, InRun, StatusPending, Waiting
  <1>14. CASE SkipAnalysis
    BY <1>14, PhaseManifestIInv DEF SkipAnalysis, InRun, StatusPending, Waiting
  <1>15. CASE StartAnalyzer
    BY <1>15, PhaseManifestIInv
    DEF StartAnalyzer, RunAndWait, InRun, StatusPending, Waiting
  <1>16. CASE AnalyzerDone
    BY <1>16, PhaseManifestIInv
    DEF AnalyzerDone, HasReturned, InRun, StatusPending, Waiting
  <1>17. CASE UNCHANGED vars
    BY <1>1, <1>17 DEF vars
  <1> QED
    BY <1>2, <1>3, <1>4, <1>5, <1>6, <1>7, <1>8, <1>9, <1>10, <1>11, <1>12,
       <1>13, <1>14, <1>15, <1>16, <1>17
    DEF Next, Main, Children, Suite, Finished

\* The invariant of the manifest holds in every reachable state.
LEMMA ManifestInvariant == Spec => []ManifestIInv
  <1> QED
    BY TypesInvariant, ProcessesInvariant, InitManifestIInv, NextManifestIInv,
       PTL DEF Spec

\* The manifest and the result files agree.
THEOREM ManifestIsRight == Spec => []ManifestAgrees
  <1>1. ManifestIInv => ManifestAgrees
    BY DEF ManifestIInv
  <1> QED
    BY <1>1, ManifestInvariant, PTL

-----------------------------------------------------------------------------
(* Analysis and exit code.  Every failed run sets failed; the analyzer's   *)
(* input does not change after it was read; zero needs a whole plan.       *)

FailureKept ==
    ~failed => \A k \in 1 .. Len(manifest) : manifest[k].status = "passed"

\* After the plan, until the exit code is known.
AfterPlan ==
    pc \in {"collect", "noAnalyzer"} \/ (job = "analyzer" /\ pc \in Waiting)

WholePlan ==
    /\ AfterPlan /\ ~failed => index = PlanLength + 1
    /\ pc = "collect" /\ ~interrupted => index = PlanLength + 1

AnalyzerInput ==
    { a \in (DOMAIN files) \X Name : a[2] \in files[a[1]] }

InputKept ==
    analyzed # {} =>
        /\ job = "analyzer" /\ pc \in Waiting \cup {"done"}
        /\ analyzed = AnalyzerInput

\* The analyzer succeeds with its input only.
AnalyzerHonest ==
    job = "analyzer" /\ pc \in Waiting =>
        /\ process["child"].code = 0 => analyzed # {}
        /\ process["child"].exit = 0 => analyzed # {}

ExitIInv ==
    exitCode = 0 =>
        /\ pc = "done" /\ ~failed
        /\ index = PlanLength + 1
        /\ interrupted \/ analyzed # {}

AnalysisIInv ==
    /\ FailureKept
    /\ WholePlan
    /\ InputKept
    /\ AnalyzerHonest
    /\ ExitIInv

\* Nothing is analyzed before the first run.
LEMMA InitAnalysisIInv == Init => AnalysisIInv
  <1> SUFFICES ASSUME Init PROVE AnalysisIInv
    OBVIOUS
  <1>1. Len(manifest) = 0
    BY DEF Init
  <1>2. FailureKept
    BY <1>1, SMT DEF FailureKept
  <1>3. exitCode # 0
    BY SMT DEF Init, NoCode
  <1> QED
    BY <1>2, <1>3 DEF Init, AnalysisIInv, WholePlan, AfterPlan, Waiting,
       InputKept, AnalyzerHonest, ExitIInv

\* The only step that lengthens the manifest remembers a failure.
LEMMA NextFailureKept ==
    TypeIInv /\ AnalysisIInv /\ [Next]_vars => FailureKept'
  <1> SUFFICES ASSUME TypeIInv, FailureKept, [Next]_vars PROVE FailureKept'
    BY DEF AnalysisIInv
  <1> USE DEF outcome
  <1>1. CASE Record
    <2> DEFINE added == [run |-> run, status |-> status, exit |-> clientExit]
    <2>1. /\ Len(manifest') = Len(manifest) + 1
          /\ manifest'[Len(manifest) + 1].status = status
          /\ \A k \in 1 .. Len(manifest) : manifest'[k] = manifest[k]
          /\ Len(manifest) \in Nat
      <3>1. manifest' = Append(manifest, added) /\ added.status = status
        BY <1>1 DEF Record
      <3> HIDE DEF added
      <3> QED
        BY <3>1, SMT DEF TypeIInv, TypeOK
    <2>2. ~failed' => ~failed /\ status = "passed"
      BY <1>1 DEF Record
    <2>3. \A k \in 1 .. Len(manifest') :
            k \in 1 .. Len(manifest) \/ k = Len(manifest) + 1
      BY <2>1, SMT
    <2> QED
      BY <2>1, <2>2, <2>3 DEF FailureKept
  <1>2. ASSUME UNCHANGED manifest, failed => failed' PROVE FailureKept'
    BY <1>2 DEF FailureKept
  <1>3. CASE Setup \/ StartServer \/ ServerNotReady \/ StartClient
             \/ ClientDone \/ StopServer \/ PlanEnds \/ SkipAnalysis
             \/ StartAnalyzer \/ AnalyzerDone
    BY <1>2, <1>3 DEF Setup, StartServer, ServerNotReady, StartClient,
       ClientDone, StopServer, PlanEnds, FailedSoFar, SkipAnalysis,
       StartAnalyzer, AnalyzerDone
  <1>4. CASE Stopping \/ StopWaiting \/ Return \/ Children \/ KilledExits
             \/ Signal \/ UNCHANGED vars
    BY <1>2, <1>4 DEF Stopping, Ask, Term, Poll, LastPoll, Kill, Waited,
       StopWaiting, Return, Children, ClientWrites, ClientExits, ServerListens,
       ServerExits, AnalyzerReads, AnalyzerExits, KilledExits, Signal, vars
  <1> QED
    BY <1>1, <1>3, <1>4 DEF Next, Main, Suite, Finished

\* The plan is over only when it was run through or interrupted.
LEMMA NextWholePlan ==
    TypeIInv /\ AnalysisIInv /\ [Next]_vars => WholePlan'
  <1> SUFFICES ASSUME TypeIInv, WholePlan, [Next]_vars PROVE WholePlan'
    BY DEF AnalysisIInv
  <1> USE DEF outcome, current
  <1>1. CASE PlanEnds
    <2>1. /\ UNCHANGED <<index, interrupted>>
          /\ ~failed' => ~interrupted
          /\ ~interrupted => ~(index <= PlanLength)
      BY <1>1 DEF PlanEnds, FailedSoFar, PlanLeft
    <2>2. ~(index <= PlanLength) => index = PlanLength + 1
      BY PlanLengthType, SMT DEF TypeIInv, TypeOK
    <2> QED
      BY <2>1, <2>2 DEF WholePlan
  <1>2. CASE Setup \/ StartServer \/ ServerNotReady \/ StartClient
             \/ ClientDone \/ StopServer \/ Record \/ SkipAnalysis
             \/ AnalyzerDone
    BY <1>2 DEF Setup, StartServer, ServerNotReady, StartClient, RunAndWait,
       ClientDone, StopServer, Record, SkipAnalysis, AnalyzerDone, WholePlan,
       AfterPlan, Waiting
  <1>3. CASE StartAnalyzer
    BY <1>3 DEF StartAnalyzer, RunAndWait, WholePlan, AfterPlan
  <1>4. CASE StopWaiting \/ Return
    BY <1>4 DEF StopWaiting, Return, WholePlan, AfterPlan, Waiting
  <1>5. CASE Signal
    BY <1>5 DEF Signal, WholePlan, AfterPlan
  <1>6. CASE Stopping \/ Children \/ KilledExits \/ UNCHANGED vars
    <2>1. UNCHANGED <<pc, job, index, failed, interrupted>>
      BY <1>6 DEF Stopping, Ask, Term, Poll, LastPoll, Kill, Waited, Children,
         ClientWrites, ClientExits, ServerListens, ServerExits, AnalyzerReads,
         AnalyzerExits, KilledExits, vars
    <2> QED
      BY <2>1 DEF WholePlan, AfterPlan
  <1> QED
    BY <1>1, <1>2, <1>3, <1>4, <1>5, <1>6 DEF Next, Main, Suite, Finished

\* Nothing changes the files once the analyzer has read them.
LEMMA NextInputKept ==
    ProcessIInv /\ AnalysisIInv /\ [Next]_vars => InputKept'
  <1> SUFFICES ASSUME ProcessIInv, InputKept, [Next]_vars PROVE InputKept'
    BY DEF AnalysisIInv
  <1> USE DEF outcome, current, results
  <1>1. CASE AnalyzerReads
    <2>1. job = "analyzer" /\ pc \in Waiting
      BY <1>1 DEF AnalyzerReads, ProcessIInv, ChildInWait, There
    <2> QED
      BY <1>1, <2>1 DEF AnalyzerReads, InputKept, AnalyzerInput
  <1>2. CASE ClientWrites \/ Record \/ StartClient \/ StartServer
             \/ ServerNotReady \/ ClientDone \/ StopServer \/ Setup
             \/ PlanEnds \/ SkipAnalysis \/ StartAnalyzer
    <2>1. /\ analyzed' = analyzed
          /\ job = "client" \/ pc \notin Waiting \cup {"done"}
      BY <1>2 DEF ClientWrites, Record, StartClient, StartServer, ServerNotReady,
         ClientDone, HasReturned, StopServer, Setup, PlanEnds, SkipAnalysis,
         StartAnalyzer, Waiting
    <2> QED
      BY <2>1 DEF InputKept
  <1>3. CASE StopWaiting \/ Return \/ AnalyzerDone
    <2>1. /\ UNCHANGED <<analyzed, files, job>>
          /\ pc' \in Waiting \cup {"done"}
      BY <1>3 DEF StopWaiting, Return, AnalyzerDone, Waiting
    <2> QED
      BY <2>1 DEF InputKept, AnalyzerInput
  <1>4. CASE Stopping \/ ClientExits \/ ServerListens \/ ServerExits
             \/ AnalyzerExits \/ KilledExits \/ Signal \/ UNCHANGED vars
    <2>1. UNCHANGED <<analyzed, files, job, pc>>
      BY <1>4 DEF Stopping, Ask, Term, Poll, LastPoll, Kill, Waited, ClientExits,
         ServerListens, ServerExits, AnalyzerExits, KilledExits, Signal, vars
    <2> QED
      BY <2>1 DEF InputKept, AnalyzerInput
  <1> QED
    BY <1>1, <1>2, <1>3, <1>4 DEF Next, Main, Suite, Children, Finished

\* A poll takes the exit code from the process and nowhere else.
LEMMA PolledCode ==
    ASSUME NEW p \in ProcessRecord
    PROVE  Polled(p).code = p.code /\ Polled(p).exit \in {p.exit, p.code}
  BY DEF Polled, Reap, ProcessRecord

\* An exit code of zero comes from an analyzer with input.
LEMMA NextAnalyzerHonest ==
    TypeIInv /\ ProcessIInv /\ AnalysisIInv /\ [Next]_vars => AnalyzerHonest'
  <1> SUFFICES ASSUME TypeIInv, ProcessIInv, AnalyzerHonest, [Next]_vars
               PROVE  AnalyzerHonest'
    BY DEF AnalysisIInv
  <1> USE DEF outcome, current, children, terminating, results
  <1>1. process["child"] \in ProcessRecord
    BY DEF TypeIInv, TypeOK
  <1>2. ASSUME job' = "analyzer" /\ pc' \in Waiting =>
                   job = "analyzer" /\ pc \in Waiting,
               process'["child"].code = process["child"].code,
               process'["child"].exit \in
                   {process["child"].exit, process["child"].code},
               analyzed' = analyzed
        PROVE  AnalyzerHonest'
    BY <1>2 DEF AnalyzerHonest
  <1>3. ASSUME NEW who \in {"server", "child"},
               process' = [process EXCEPT ![who] = Polled(@)]
        PROVE  /\ process'["child"].code = process["child"].code
               /\ process'["child"].exit \in
                      {process["child"].exit, process["child"].code}
    BY <1>1, <1>3, PolledCode DEF TypeIInv, TypeOK
  <1>4. stopping.who \in {"server", "child"}
    BY DEF TypeIInv, TypeOK
  <1>5. CASE Ask \/ Poll \/ LastPoll \/ Waited
    <2>1. /\ process' = [process EXCEPT ![stopping.who] = Polled(@)]
          /\ UNCHANGED <<job, pc, analyzed>>
      BY <1>5 DEF Ask, Poll, LastPoll, Waited
    <2> QED
      BY <1>2, <1>3, <1>4, <2>1
  <1>6. CASE Kill
    <2>1. /\ process'["child"].code = process["child"].code
          /\ process'["child"].exit = process["child"].exit
          /\ UNCHANGED <<job, pc, analyzed>>
      BY <1>1, <1>4, <1>6 DEF Kill, TypeIInv, TypeOK, ProcessRecord
    <2> QED
      BY <1>2, <2>1
  <1>7. CASE Term \/ ServerListens \/ ClientWrites \/ Signal \/ UNCHANGED vars
    <2>1. UNCHANGED <<process, job, pc, analyzed>>
      BY <1>7 DEF Term, ServerListens, ClientWrites, Signal, vars
    <2> QED
      BY <1>2, <2>1
  <1>8. CASE StopWaiting \/ Return
    <2>1. /\ process' = process
             \/ process' = [process EXCEPT !["child"] = Polled(@)]
          /\ pc \in Waiting /\ UNCHANGED <<job, analyzed>>
      BY <1>8 DEF StopWaiting, Return, Waiting, TypeIInv, TypeOK
    <2> QED
      BY <1>2, <1>3, <2>1
  <1>9. CASE AnalyzerReads
    <2>1. UNCHANGED <<process, job, pc>> /\ analyzed = {}
      BY <1>9 DEF AnalyzerReads
    <2> QED
      BY <2>1 DEF AnalyzerHonest
  <1>10. CASE AnalyzerExits
    <2>1. PICK code \in {0, 1} : (code = 0 => analyzed # {}) /\ Exit("child", code)
      BY <1>10 DEF AnalyzerExits
    <2>2. /\ process'["child"].code = code
          /\ process'["child"].exit = process["child"].exit
      BY <1>1, <2>1 DEF Exit, TypeIInv, TypeOK, ProcessRecord
    <2>3. UNCHANGED <<job, pc, analyzed>>
      BY <1>10 DEF AnalyzerExits
    <2> QED
      BY <2>1, <2>2, <2>3 DEF AnalyzerHonest
  <1>11. CASE ServerExits
    <2>1. UNCHANGED <<job, pc, analyzed>> /\ process'["child"] = process["child"]
      BY <1>11 DEF ServerExits, Exit, TypeIInv, TypeOK
    <2> QED
      BY <1>2, <2>1
  <1>12. CASE KilledExits
    <2>1. PICK who \in {"server", "child"} : Exit(who, 1)
      BY <1>12 DEF KilledExits, TypeIInv, TypeOK
    <2>2. /\ process'["child"].code \in {process["child"].code, 1}
          /\ process'["child"].exit = process["child"].exit
      BY <1>1, <2>1 DEF Exit, TypeIInv, TypeOK, ProcessRecord
    <2>3. UNCHANGED <<job, pc, analyzed>>
      BY <1>12 DEF KilledExits
    <2> QED
      BY <2>2, <2>3 DEF AnalyzerHonest
  <1>13. CASE ClientExits
    BY <1>13 DEF ClientExits, AnalyzerHonest
  <1>14. CASE StartAnalyzer
    <2>1. CASE pc' = "running"
      <3>1. /\ process'["child"] = Started
            /\ Started.code = NoCode /\ Started.exit = NoCode
        BY <1>14, <2>1
        DEF StartAnalyzer, RunAndWait, Started, NoProcess, TypeIInv, TypeOK
      <3>2. NoCode # 0
        BY SMT DEF NoCode
      <3> QED
        BY <3>1, <3>2 DEF AnalyzerHonest
    <2>2. CASE pc' # "running"
      BY <1>14, <2>2 DEF StartAnalyzer, RunAndWait, AnalyzerHonest, Waiting
    <2> QED
      BY <2>1, <2>2
  <1>15. CASE StartClient
    BY <1>15 DEF StartClient, RunAndWait, AnalyzerHonest, Waiting
  <1>16. CASE Setup \/ StartServer \/ ServerNotReady \/ ClientDone
              \/ StopServer \/ Record \/ PlanEnds \/ SkipAnalysis
              \/ AnalyzerDone
    <2>1. pc' \notin Waiting
      BY <1>16 DEF Setup, StartServer, ServerNotReady, ClientDone, StopServer,
         Record, PlanEnds, SkipAnalysis, AnalyzerDone, Waiting
    <2> QED
      BY <2>1 DEF AnalyzerHonest
  <1> QED
    BY <1>5, <1>6, <1>7, <1>8, <1>9, <1>10, <1>11, <1>12, <1>13, <1>14, <1>15,
       <1>16 DEF Next, Main, Stopping, Suite, Children, Finished

\* Zero is the exit code of a whole plan only.
LEMMA NextExitIInv ==
    ProcessIInv /\ AnalysisIInv /\ [Next]_vars => ExitIInv'
  <1> SUFFICES ASSUME ProcessIInv, AnalysisIInv, [Next]_vars PROVE ExitIInv'
    OBVIOUS
  <1> USE DEF outcome, current
  <1>0. 1 # 0 /\ 130 # 0
    BY SMT
  <1>1. CASE SkipAnalysis
    <2>1. exitCode' = 0 => ~failed' /\ ~failed /\ interrupted
      BY <1>0, <1>1, Zenon DEF SkipAnalysis
    <2> QED
      BY <1>1, <2>1 DEF SkipAnalysis, AnalysisIInv, WholePlan, AfterPlan, ExitIInv
  <1>2. CASE AnalyzerDone
    <2> SUFFICES ASSUME exitCode' = 0
                 PROVE  /\ pc' = "done" /\ ~failed'
                        /\ index' = PlanLength + 1
                        /\ interrupted' \/ analyzed' # {}
      BY DEF ExitIInv
    <2>1. ~failed' /\ ~failed /\ pc # "noAnalyzer" /\ Result = 0
      BY <1>0, <1>2, Zenon DEF AnalyzerDone
    <2>2. HasReturned("analyzer") /\ pc \in Waiting /\ job = "analyzer"
      BY <1>2, <2>1 DEF AnalyzerDone, HasReturned, Waiting
    <2>3. process["child"].exit = 0
      BY <1>0, <2>1 DEF Result
    <2>4. analyzed # {}
      BY <2>2, <2>3 DEF AnalysisIInv, AnalyzerHonest
    <2>5. index = PlanLength + 1
      BY <2>1, <2>2 DEF AnalysisIInv, WholePlan, AfterPlan
    <2> QED
      BY <1>2, <2>1, <2>4, <2>5 DEF AnalyzerDone
  <1>3. CASE Setup
    BY <1>3, SMT DEF Setup, AnalysisIInv, ExitIInv
  <1>4. CASE StartServer \/ ServerNotReady \/ StartClient \/ ClientDone
             \/ StopServer \/ Record \/ PlanEnds \/ StartAnalyzer
             \/ StopWaiting \/ Return
    <2>1. exitCode' = exitCode /\ pc # "done"
      BY <1>4 DEF StartServer, ServerNotReady, StartClient, ClientDone,
         HasReturned, StopServer, Record, PlanEnds, StartAnalyzer, StopWaiting,
         Return
    <2> QED
      BY <2>1 DEF AnalysisIInv, ExitIInv
  <1>5. CASE AnalyzerReads
    <2>1. pc # "done" /\ exitCode' = exitCode
      BY <1>5 DEF AnalyzerReads, ProcessIInv, ChildInWait, There, Waiting
    <2> QED
      BY <2>1 DEF AnalysisIInv, ExitIInv
  <1>6. CASE Stopping \/ ClientWrites \/ ClientExits \/ ServerListens
             \/ ServerExits \/ AnalyzerExits \/ KilledExits \/ Signal
             \/ UNCHANGED vars
    <2>1. /\ UNCHANGED <<exitCode, pc, failed, index, analyzed>>
          /\ interrupted => interrupted'
      BY <1>6 DEF Stopping, Ask, Term, Poll, LastPoll, Kill, Waited,
         ClientWrites, ClientExits, ServerListens, ServerExits, AnalyzerExits,
         KilledExits, Signal, vars
    <2> QED
      BY <2>1 DEF AnalysisIInv, ExitIInv
  <1> QED
    BY <1>1, <1>2, <1>3, <1>4, <1>5, <1>6
    DEF Next, Main, Suite, Children, Finished

\* The invariant of the analysis holds in every reachable state.
LEMMA AnalysisInvariant == Spec => []AnalysisIInv
  <1>1. TypeIInv /\ ProcessIInv /\ AnalysisIInv /\ [Next]_vars => AnalysisIInv'
    BY NextFailureKept, NextWholePlan, NextInputKept, NextAnalyzerHonest,
       NextExitIInv DEF AnalysisIInv
  <1> QED
    BY <1>1, TypesInvariant, ProcessesInvariant, InitAnalysisIInv, PTL DEF Spec

\* A suite that was not interrupted has a row for every run.
THEOREM EveryRunRecorded == Spec => []AllRunsRecorded
  <1>1. TypeIInv /\ ManifestIInv /\ AnalysisIInv => AllRunsRecorded
    BY PlanLengthType, SMT DEF AnalysisIInv, WholePlan, ManifestIInv,
       RowsFollowPlan, AllRunsRecorded
  <1> QED
    BY <1>1, TypesInvariant, ManifestInvariant, AnalysisInvariant, PTL

\* Plans are balanced in every state, whatever the bound has grown to.
THEOREM PlansAreBalanced == Spec => []RotationBalanced
  <1>1. TypeOK => RotationBalanced
    <2> SUFFICES ASSUME TypeOK PROVE BalancedUpTo(index + 2)
      BY DEF RotationBalanced
    <2>1. index + 2 \in Nat
      BY PlanLengthType DEF TypeOK
    <2> QED
      BY <2>1, PlanBalanced
  <1> QED
    BY <1>1, TypeCorrect, PTL

\* Exit code zero means a passed and analyzed (or interrupted) suite.
THEOREM ZeroIsSuccess == Spec => []ZeroMeansPassed
  <1>1. ManifestIInv /\ AnalysisIInv => ZeroMeansPassed
    <2> SUFFICES ASSUME ManifestIInv, AnalysisIInv, exitCode = 0
                 PROVE  /\ Len(manifest) = PlanLength
                        /\ \A k \in 1 .. PlanLength : manifest[k].status = "passed"
                        /\ analyzed # {} \/ interrupted
      BY DEF ZeroMeansPassed
    <2>1. ~failed /\ index = PlanLength + 1 /\ (interrupted \/ analyzed # {})
      BY DEF AnalysisIInv, ExitIInv
    <2>2. Len(manifest) = PlanLength
      BY <2>1, PlanLengthType, SMT DEF ManifestIInv, RowsFollowPlan
    <2> QED
      BY <2>1, <2>2 DEF AnalysisIInv, FailureKept
  <1> QED
    BY <1>1, ManifestInvariant, AnalysisInvariant, PTL

\* The analyzer compares the passed runs, all and only.
THEOREM PassedAreAnalyzed == Spec => []AnalyzedArePassed
  <1>1. TypeIInv /\ ManifestIInv /\ AnalysisIInv => AnalyzedArePassed
    <2> SUFFICES ASSUME TypeIInv, ManifestIInv, AnalysisIInv, analyzed # {}
                 PROVE  { a[1] : a \in { b \in analyzed :
                                          b[2] \in {"summary", "delivery"} } } =
                        { Prefix(manifest[k].run) :
                              k \in { i \in 1 .. Len(manifest) :
                                         manifest[i].status = "passed" } }
      BY DEF AnalyzedArePassed
    <2> DEFINE MainFiles(x) == {"summary", "delivery"} \cap files[x]
    <2>1. /\ job = "analyzer" /\ pc \in Waiting \cup {"done"}
          /\ analyzed = AnalyzerInput
      BY DEF AnalysisIInv, InputKept
    <2>2. ~InRun
      BY <2>1 DEF InRun, Waiting
    <2>3. DOMAIN files = Prefixes
      BY DEF TypeIInv, TypeOK
    <2>4. \A k \in 1 .. Len(manifest) :
            /\ manifest[k].run = Plan[k]
            /\ manifest[k].status = "passed" <=> MainFiles(Prefix(Plan[k])) # {}
      BY DEF ManifestIInv, ManifestAgrees
    <2>5. \A k \in 1 .. PlanLength : k >= index => MainFiles(Prefix(Plan[k])) = {}
      <3>1. \A k \in 1 .. PlanLength : k >= index => Untouched(k)
        BY <2>2, PlanLengthType, SMT DEF Untouched, TypeIInv, TypeOK
      <3> QED
        BY <3>1 DEF ManifestIInv, LaterRunsEmpty
    <2>6. /\ Len(manifest) \in Nat /\ Len(manifest) = index - 1
          /\ index \in 1 .. PlanLength + 1
      BY SMT DEF ManifestIInv, RowsFollowPlan, TypeIInv, TypeOK
    <2>7. \A k \in 1 .. Len(manifest) : Prefix(Plan[k]) \in Prefixes
      <3>1. \A k \in 1 .. Len(manifest) : k \in 1 .. PlanLength
        BY <2>6, PlanLengthType, SMT
      <3> QED
        BY <3>1 DEF Prefixes
    <2>8. ASSUME NEW b \in analyzed, b[2] \in {"summary", "delivery"}
          PROVE  \E k \in 1 .. Len(manifest) :
                   manifest[k].status = "passed" /\ b[1] = Prefix(manifest[k].run)
      <3>1. b[1] \in Prefixes /\ MainFiles(b[1]) # {}
        BY <2>1, <2>3, <2>8 DEF AnalyzerInput
      <3>2. PICK k \in 1 .. PlanLength : b[1] = Prefix(Plan[k])
        BY <3>1 DEF Prefixes
      <3>3. ~(k >= index)
        BY <2>5, <3>1, <3>2
      <3>4. k \in 1 .. Len(manifest)
        BY <2>6, <3>3, PlanLengthType, SMT
      <3> QED
        BY <2>4, <3>1, <3>2, <3>4
    <2>9. ASSUME NEW k \in 1 .. Len(manifest), manifest[k].status = "passed"
          PROVE  \E b \in analyzed : /\ b[2] \in {"summary", "delivery"}
                                     /\ b[1] = Prefix(manifest[k].run)
      <3>1. PICK name \in {"summary", "delivery"} : name \in files[Prefix(Plan[k])]
        BY <2>4, <2>9
      <3>2. <<Prefix(Plan[k]), name>> \in analyzed
        BY <2>1, <2>3, <2>7, <3>1 DEF AnalyzerInput, Name
      <3> QED
        BY <2>4, <3>2
    <2> QED
      BY <2>8, <2>9
  <1> QED
    BY <1>1, TypesInvariant, ManifestInvariant, AnalysisInvariant, PTL

-----------------------------------------------------------------------------
(* The text of a task: what toString writes is what parseTask reads.  The  *)
(* provers have no induction over texts, so the proofs are about positions *)
(* of separators: the least number of a set of positions, and texts that   *)
(* are free of a separator.                                                *)

\* LeastIs: the least number of a set.
LEMMA LeastIs ==
    ASSUME NEW S \in SUBSET Int, NEW n \in S, \A m \in S : n <= m
    PROVE  Min(S) = n
  <1>1. Min(S) \in S /\ \A m \in S : Min(S) <= m
    <2>1. \E x \in S : \A m \in S : x <= m
      OBVIOUS
    <2> QED
      BY <2>1 DEF Min
  <1>2. Min(S) \in Int /\ n \in Int
    BY <1>1
  <1> QED
    BY <1>1, <1>2

\* LeastExists: a set of positions has a least one.
LEMMA LeastExists ==
    ASSUME NEW S \in SUBSET Nat, S # {}
    PROVE  Min(S) \in S /\ \A m \in S : Min(S) <= m
  <1>1. IsWellFoundedOn(OpToRel(<, Nat), Nat)
    BY NatLessThanWellFounded
  <1>2. \E x \in S : \A y \in S : ~ (<<y, x>> \in OpToRel(<, Nat))
    BY <1>1, WFMin
  <1>3. PICK x \in S : \A y \in S : ~ (<<y, x>> \in OpToRel(<, Nat))
    BY <1>2
  <1>4. \A y \in S : ~ (y < x)
    BY <1>3 DEF OpToRel
  <1>5. \A y \in S : x <= y
    BY <1>4
  <1> QED
    BY <1>5, LeastIs

\* GreatestExists: a bounded set of numbers has a greatest one.
LEMMA GreatestExists ==
    ASSUME NEW b \in Nat, NEW S \in SUBSET (0..b), S # {}
    PROVE  Max(S) \in S /\ \A m \in S : m <= Max(S)
  <1> DEFINE T == { b - m : m \in S }
  <1>1. T \in SUBSET Nat /\ T # {}
    <2>1. \A m \in S : b - m \in Nat
      OBVIOUS
    <2> QED
      BY <2>1
  <1>2. PICK n \in T : \A m \in T : n <= m
    BY <1>1, LeastExists
  <1>3. PICK x \in S : n = b - x
    OBVIOUS
  <1>4. \A m \in S : x >= m
    <2>1. TAKE m \in S
    <2>2. n <= b - m
      BY <1>2
    <2>3. x \in 0..b /\ m \in 0..b
      OBVIOUS
    <2> QED
      BY <1>3, <2>2, <2>3
  <1> QED
    BY <1>4 DEF Max

\* No token of the text s is a separator in L.
Free(s, L) == \A i \in DOMAIN s : \A mark \in L : s[i] # Mark(mark)

\* The text s is empty or begins with a separator in L.
Begins(s, L) == s = <<>> \/ \E mark \in L : s[1] = Mark(mark)

\* FreeConcat: of two texts one after the other.
LEMMA FreeConcat ==
    ASSUME NEW s \in Seq(Token), NEW t \in Seq(Token), NEW L,
           Free(s, L), Free(t, L)
    PROVE  s \o t \in Seq(Token) /\ Free(s \o t, L)
  <1>1. /\ s \o t \in Seq(Token) /\ DOMAIN (s \o t) = 1..Len(s) + Len(t)
        /\ DOMAIN s = 1..Len(s) /\ DOMAIN t = 1..Len(t)
        /\ \A i \in 1..Len(s) + Len(t) :
             (s \o t)[i] = IF i <= Len(s) THEN s[i] ELSE t[i - Len(s)]
    BY ConcatProperties
  <1>2. ASSUME NEW i \in DOMAIN (s \o t), NEW mark \in L
        PROVE  (s \o t)[i] # Mark(mark)
    <2>1. CASE i <= Len(s)
      BY <1>1, <2>1 DEF Free
    <2>2. CASE i > Len(s)
      <3>1. i - Len(s) \in DOMAIN t /\ (s \o t)[i] = t[i - Len(s)]
        BY <1>1, <2>2
      <3> QED
        BY <3>1 DEF Free
    <2> QED
      BY <1>1, <2>1, <2>2
  <1> QED
    BY <1>1, <1>2 DEF Free

\* FindNone: a separator that is not there.
LEMMA FindNone ==
    ASSUME NEW s \in Seq(Token), NEW mark, Free(s, {mark})
    PROVE  Find(s, mark) = Len(s) + 1 /\ ~Has(s, mark)
  <1>1. Len(s) \in Nat /\ { i \in DOMAIN s : s[i] = Mark(mark) } = {}
    BY DEF Free
  <1> QED
    BY <1>1 DEF Find, Has

\* FindType: find returns a position or the end.
LEMMA FindType ==
    ASSUME NEW s \in Seq(Token), NEW mark
    PROVE  /\ Find(s, mark) \in 1..Len(s) + 1
           /\ Find(s, mark) <= Len(s) => s[Find(s, mark)] = Mark(mark)
           /\ \A i \in DOMAIN s : s[i] = Mark(mark) => Find(s, mark) <= i
  <1> DEFINE at == { i \in DOMAIN s : s[i] = Mark(mark) }
  <1>1. Len(s) \in Nat /\ DOMAIN s = 1..Len(s) /\ at \in SUBSET Nat
    OBVIOUS
  <1>2. CASE at = {}
    BY <1>1, <1>2 DEF Find
  <1>3. CASE at # {}
    <2>1. Min(at) \in at /\ \A m \in at : Min(at) <= m
      BY <1>1, <1>3, LeastExists
    <2>2. Find(s, mark) = Min(at)
      BY <1>3 DEF Find
    <2> QED
      BY <1>1, <2>1, <2>2
  <1> QED
    BY <1>2, <1>3

\* FindFirst: a separator behind a text that is free of it.
LEMMA FindFirst ==
    ASSUME NEW s \in Seq(Token), NEW t \in Seq(Token), NEW mark,
           Free(s, {mark}), t # <<>>, t[1] = Mark(mark)
    PROVE  Find(s \o t, mark) = Len(s) + 1 /\ Has(s \o t, mark)
  <1> DEFINE at == { i \in DOMAIN (s \o t) : (s \o t)[i] = Mark(mark) }
  <1>1. /\ s \o t \in Seq(Token) /\ Len(s \o t) = Len(s) + Len(t)
        /\ Len(s) \in Nat /\ Len(t) \in Nat \ {0}
        /\ DOMAIN (s \o t) = 1..Len(s) + Len(t) /\ DOMAIN s = 1..Len(s)
        /\ \A i \in 1..Len(s) + Len(t) :
             (s \o t)[i] = IF i <= Len(s) THEN s[i] ELSE t[i - Len(s)]
    BY ConcatProperties
  <1>2. Len(s) + 1 \in at
    BY <1>1
  <1>3. \A i \in at : Len(s) + 1 <= i
    BY <1>1 DEF Free
  <1>4. at \in SUBSET Int
    BY <1>1
  <1>5. Min(at) = Len(s) + 1
    BY <1>2, <1>3, <1>4, LeastIs
  <1>6. Find(s \o t, mark) = Len(s) + 1
    BY <1>2, <1>5 DEF Find
  <1> QED
    BY <1>1, <1>6 DEF Has

\* BeforeIs: the first separator of a set behind a text that is free of them.
LEMMA BeforeIs ==
    ASSUME NEW s \in Seq(Token), NEW t \in Seq(Token), NEW L,
           Free(s, L), Begins(t, L)
    PROVE  Before(s \o t, L) = Len(s) + 1
  <1> DEFINE T == s \o t
             S == { Find(T, mark) : mark \in L } \cup {Len(T) + 1}
  <1>1. /\ T \in Seq(Token) /\ Len(T) = Len(s) + Len(t)
        /\ Len(s) \in Nat /\ Len(t) \in Nat /\ DOMAIN s = 1..Len(s)
        /\ \A i \in 1..Len(s) : T[i] = s[i]
    BY ConcatProperties
  <1>2. ASSUME NEW mark \in L
        PROVE  Find(T, mark) \in Nat /\ Len(s) + 1 <= Find(T, mark)
    <2>1. /\ Find(T, mark) \in 1..Len(T) + 1
          /\ Find(T, mark) <= Len(T) => T[Find(T, mark)] = Mark(mark)
      BY <1>1, FindType
    <2>2. CASE Find(T, mark) <= Len(s)
      BY <1>1, <2>1, <2>2 DEF Free
    <2> QED
      BY <1>1, <2>1, <2>2
  <1>3. S \in SUBSET Int /\ \A m \in S : Len(s) + 1 <= m
    BY <1>1, <1>2
  <1>4. Len(s) + 1 \in S
    <2>1. CASE t = <<>>
      BY <1>1, <2>1
    <2>2. CASE t # <<>>
      <3>1. PICK mark \in L : t[1] = Mark(mark)
        BY <2>2 DEF Begins
      <3>2. Free(s, {mark})
        BY <3>1 DEF Free
      <3>3. Find(T, mark) = Len(s) + 1
        BY <2>2, <3>1, <3>2, FindFirst
      <3> QED
        BY <3>1, <3>3
    <2> QED
      BY <2>1, <2>2
  <1>5. Min(S) = Len(s) + 1
    BY <1>3, <1>4, LeastIs
  <1> QED
    BY <1>5 DEF Before

\* SectionIs: a section of a text, between what comes before and behind it.
LEMMA SectionIs ==
    ASSUME NEW s \in Seq(Token), NEW b \in Seq(Token), NEW t \in Seq(Token),
           NEW mark, NEW L, mark \notin L, Free(s, L), Free(s, {mark}),
           b # <<>>, b[1] = Mark(mark), Free(Tail(b), L), Begins(t, L)
    PROVE  /\ Find((s \o b) \o t, mark) = Len(s) + 1
           /\ Has((s \o b) \o t, mark)
           /\ Section((s \o b) \o t, mark, L) = Tail(b)
  <1> DEFINE T == (s \o b) \o t
  <1>1. /\ s \o b \in Seq(Token) /\ b \o t \in Seq(Token) /\ T = s \o (b \o t)
        /\ Len(s \o b) = Len(s) + Len(b) /\ Len(s) \in Nat /\ Len(b) \in Nat \ {0}
        /\ DOMAIN b = 1..Len(b)
    BY ConcatProperties, ConcatAssociative
  <1>2. b \o t # <<>> /\ (b \o t)[1] = Mark(mark)
    BY <1>1, ConcatProperties
  <1>3. Find(T, mark) = Len(s) + 1 /\ Has(T, mark)
    <2>1. /\ Find(s \o (b \o t), mark) = Len(s) + 1
          /\ Has(s \o (b \o t), mark)
      BY <1>1, <1>2, FindFirst
    <2> QED
      BY <1>1, <2>1
  <1>4. Free(b, L)
    <2>1. SUFFICES ASSUME NEW i \in 1..Len(b), NEW m \in L PROVE b[i] # Mark(m)
      BY <1>1 DEF Free
    <2>2. CASE i = 1
      BY <2>2 DEF Mark
    <2>3. CASE i # 1
      <3>1. /\ Tail(b) \in Seq(Token) /\ Len(Tail(b)) = Len(b) - 1
            /\ \A j \in 1..Len(Tail(b)) : Tail(b)[j] = b[j + 1]
        BY HeadTailProperties
      <3>2. i - 1 \in DOMAIN Tail(b) /\ Tail(b)[i - 1] = b[i]
        BY <1>1, <2>3, <3>1
      <3> QED
        BY <3>2 DEF Free
    <2> QED
      BY <2>2, <2>3
  <1>5. Free(s \o b, L)
    BY <1>4, FreeConcat
  <1>6. Before(T, L) = Len(s) + Len(b) + 1
    BY <1>1, <1>5, BeforeIs
  <1>7. Section(T, mark, L) = SubSeq(T, Len(s) + 2, Len(s) + Len(b))
    <2>1. Section(T, mark, L) = SubSeq(T, Find(T, mark) + 1, Before(T, L) - 1)
      BY DEF Section
    <2>2. Find(T, mark) + 1 = Len(s) + 2 /\ Before(T, L) - 1 = Len(s) + Len(b)
      <3>1. Len(s) \in Nat /\ Len(b) \in Nat
        BY <1>1
      <3> QED
        BY <1>3, <1>6, <3>1
    <2> QED
      BY <2>1, <2>2, Zenon
  <1>8. SubSeq(T, Len(s) + 2, Len(s) + Len(b)) = Tail(b)
    <2> DEFINE x == SubSeq(T, Len(s) + 2, Len(s) + Len(b))
    <2>1. \A i \in 1..Len(b) : T[Len(s) + i] = b[i]
      <3>1. \A i \in 1..Len(b) : T[Len(s) + i] = (s \o b)[Len(s) + i]
        BY <1>1, ConcatProperties
      <3>2. \A i \in 1..Len(b) : (s \o b)[Len(s) + i] = b[i]
        BY <1>1, ConcatProperties
      <3> QED
        BY <3>1, <3>2
    <2>2. \A i \in Len(s) + 2..Len(s) + Len(b) : T[i] = b[i - Len(s)] /\ T[i] \in Token
      <3>1. TAKE i \in Len(s) + 2..Len(s) + Len(b)
      <3>2. i - Len(s) \in 1..Len(b) /\ Len(s) + (i - Len(s)) = i
        BY <1>1
      <3> QED
        BY <1>1, <2>1, <3>2
    <2>3. /\ x \in Seq(Token) /\ Len(x) = Len(b) - 1
          /\ \A i \in 1..Len(b) - 1 : x[i] = T[Len(s) + 2 + i - 1]
      BY <1>1, <2>2, SubSeqProperties
    <2>4. /\ Tail(b) \in Seq(Token) /\ Len(Tail(b)) = Len(b) - 1
          /\ \A i \in 1..Len(b) - 1 : Tail(b)[i] = b[i + 1]
      BY HeadTailProperties
    <2>5. \A i \in 1..Len(b) - 1 : x[i] = Tail(b)[i]
      <3>1. TAKE i \in 1..Len(b) - 1
      <3>2. i + 1 \in 1..Len(b) /\ Len(s) + 2 + i - 1 = Len(s) + (i + 1)
        BY <1>1
      <3> QED
        BY <2>1, <2>3, <2>4, <3>2
    <2> QED
      BY <2>3, <2>4, <2>5, SeqEqual
  <1> QED
    BY <1>3, <1>7, <1>8

Marks == {"@", "#", "&", "~"}
PatternItem == [kind : Nat, quantity : Nat]

\* Thirds: the tokens of an item.
LEMMA Thirds ==
    ASSUME NEW j \in Nat \ {0}
    PROVE  /\ (3 * j - 2) \div 3 = j - 1 /\ (3 * j - 2) % 3 = 1
           /\ (3 * j - 1) \div 3 = j - 1 /\ (3 * j - 1) % 3 = 2
           /\ (3 * j) \div 3 = j /\ (3 * j) % 3 = 0
  OBVIOUS

\* InThirds: each position is in one.
LEMMA InThirds ==
    ASSUME NEW i \in Nat \ {0}
    PROVE  \E j \in Nat \ {0} : i = 3 * j - 2 \/ i = 3 * j - 1 \/ i = 3 * j
  <1> DEFINE j == (i + 2) \div 3
  <1>1. j \in Nat \ {0} /\ (i = 3 * j - 2 \/ i = 3 * j - 1 \/ i = 3 * j)
    OBVIOUS
  <1> QED
    BY <1>1

\* TokenTypes: the tokens of a canonical text.
LEMMA TokenTypes ==
    /\ \A mark \in Separator \cup Unit : Mark(mark) \in Token
    /\ \A n \in Nat : Number(n) \in Token /\ Letter(n) \in Token
    /\ \A n : \A mark \in Separator \cup Unit :
         Number(n) # Mark(mark) /\ Letter(n) # Mark(mark)
    /\ \A n, m : Letter(n) # Number(m) /\ (Letter(n) = Letter(m) => n = m)
    /\ \A x, y : Mark(x) = Mark(y) => x = y
    /\ \A n : Letter(n).value = n /\ Number(n).value = n
    /\ \A n : Letter(n).type = "kind" /\ Number(n).type = "number"
  BY DEF Token, Separator, Unit, Mark, Number, Letter

\* ItemsTextIs: the tokens of an item list, written out.
LEMMA ItemsTextIs ==
    ASSUME NEW items \in Seq(PatternItem), items # <<>>
    PROVE  LET a == ItemsText(items)
           IN  /\ a \in Seq(Token)
               /\ Len(a) = 3 * Len(items) - 1
               /\ \A j \in 1..Len(items) :
                    /\ a[3 * j - 2] = Letter(items[j].kind)
                    /\ a[3 * j - 1] = Number(items[j].quantity)
                    /\ j < Len(items) => a[3 * j] = Mark(";")
  <1> DEFINE n == Len(items)
             a == ItemsText(items)
  <1>1. /\ n \in Nat \ {0} /\ DOMAIN items = 1..n
        /\ \A j \in 1..n : items[j].kind \in Nat /\ items[j].quantity \in Nat
    <2>1. n \in Nat \ {0} /\ DOMAIN items = 1..n
      OBVIOUS
    <2>2. \A j \in 1..n : items[j] \in PatternItem
      OBVIOUS
    <2> QED
      BY <2>1, <2>2 DEF PatternItem
  <1> DEFINE three(item) == <<Mark(";"), Letter(item.kind), Number(item.quantity)>>
             item(i) == i \div 3 + 1
             part(i) == (i % 3) + 1
             token(i) == three(items[item(i)])[part(i)]
  <1>2. a = [i \in 1..3 * n - 1 |-> token(i)]
    BY DEF ItemsText
  <1> HIDE DEF n, a
  <1>3. ASSUME NEW j \in 1..n
        PROVE  /\ token(3 * j - 2) = Letter(items[j].kind)
               /\ token(3 * j - 1) = Number(items[j].quantity)
               /\ token(3 * j) = Mark(";")
    <2>1. /\ item(3 * j - 2) = j /\ part(3 * j - 2) = 2
          /\ item(3 * j - 1) = j /\ part(3 * j - 1) = 3
          /\ part(3 * j) = 1
      BY <1>1, Thirds
    <2> HIDE DEF item, part
    <2>2. /\ token(3 * j - 2) = three(items[j])[2]
          /\ token(3 * j - 1) = three(items[j])[3]
          /\ token(3 * j) = three(items[item(3 * j)])[1]
      BY <2>1
    <2>3. \A x : /\ three(x)[1] = Mark(";")
                /\ three(x)[2] = Letter(x.kind)
                /\ three(x)[3] = Number(x.quantity)
      OBVIOUS
    <2> HIDE DEF three, token
    <2> QED
      BY <2>2, <2>3
  <1>4. ASSUME NEW i \in 1..3 * n - 1
        PROVE  token(i) \in Token
    <2>0. n \in Nat \ {0}
      BY <1>1
    <2>a. i \in Nat \ {0} /\ i <= 3 * n - 1
      BY <2>0
    <2>1. PICK j \in Nat \ {0} : i = 3 * j - 2 \/ i = 3 * j - 1 \/ i = 3 * j
      BY <2>a, InThirds
    <2>2. j \in 1..n
      BY <2>0, <2>a, <2>1
    <2>3. token(i) \in {Letter(items[j].kind), Number(items[j].quantity), Mark(";")}
      BY <1>3, <2>1, <2>2
    <2>4. Mark(";") \in Token
      BY TokenTypes DEF Separator
    <2>5. Letter(items[j].kind) \in Token /\ Number(items[j].quantity) \in Token
      BY <1>1, <2>2, TokenTypes
    <2> HIDE DEF token
    <2> QED
      BY <2>3, <2>4, <2>5
  <1> HIDE DEF token
  <1>5. a \in Seq(Token) /\ Len(a) = 3 * n - 1
    <2>1. 3 * n - 1 \in Nat
      BY <1>1
    <2> QED
      BY <1>2, <1>4, <2>1, IsASeq
  <1>6. ASSUME NEW j \in 1..n
        PROVE  /\ a[3 * j - 2] = Letter(items[j].kind)
               /\ a[3 * j - 1] = Number(items[j].quantity)
               /\ j < n => a[3 * j] = Mark(";")
    <2>1. /\ 3 * j - 2 \in 1..3 * n - 1 /\ 3 * j - 1 \in 1..3 * n - 1
          /\ j < n => 3 * j \in 1..3 * n - 1
      BY <1>1
    <2> QED
      BY <1>2, <1>3, <2>1
  <1> QED
    BY <1>5, <1>6 DEF n, a

\* ItemsReadBack: the text of an item list is an item list, the same.
LEMMA ItemsReadBack ==
    ASSUME NEW items \in Seq(PatternItem), items # <<>>,
           \A i \in DOMAIN items : items[i].quantity \in 1..MaxSize,
           \A i, j \in DOMAIN items : items[i].kind = items[j].kind => i = j,
           EventCount(items) <= MaxSize
    PROVE  LET a == ItemsText(items)
           IN  /\ a \in Seq(Token)
               /\ Free(a, Marks)
               /\ ItemsOf(a) = items
               /\ ItemsOk(a)
  <1> DEFINE n == Len(items)
             a == ItemsText(items)
  <1>1. /\ n \in Nat \ {0} /\ DOMAIN items = 1..n
        /\ \A j \in 1..n : /\ items[j].kind \in Nat /\ items[j].quantity \in 1..MaxSize
                           /\ items[j] = [kind |-> items[j].kind,
                                          quantity |-> items[j].quantity]
    <2>1. n \in Nat \ {0} /\ DOMAIN items = 1..n
      OBVIOUS
    <2>2. \A j \in 1..n : items[j] \in PatternItem /\ items[j].quantity \in 1..MaxSize
      BY <2>1
    <2> HIDE DEF n
    <2> QED
      BY <2>1, <2>2 DEF PatternItem
  <1>2. /\ a \in Seq(Token) /\ Len(a) = 3 * n - 1
        /\ \A j \in 1..n : /\ a[3 * j - 2] = Letter(items[j].kind)
                           /\ a[3 * j - 1] = Number(items[j].quantity)
                           /\ j < n => a[3 * j] = Mark(";")
    BY ItemsTextIs
  <1> HIDE DEF n, a
  <1>0. n \in Nat \ {0}
    BY <1>1
  <1>3. DOMAIN a = 1..3 * n - 1
    <2>1. a \in Seq(Token) /\ Len(a) = 3 * n - 1
      BY <1>2
    <2> QED
      BY <2>1, LenProperties
  <1>4. \A i \in DOMAIN a : \E j \in 1..n :
           \/ i = 3 * j - 2 /\ i % 3 = 1 /\ a[i] = Letter(items[j].kind)
           \/ i = 3 * j - 1 /\ i % 3 = 2 /\ a[i] = Number(items[j].quantity)
           \/ i = 3 * j /\ i % 3 = 0 /\ a[i] = Mark(";")
    <2>1. TAKE i \in DOMAIN a
    <2>1a. i \in Nat \ {0} /\ i <= 3 * n - 1
      BY <1>0, <1>3
    <2>2. PICK j \in Nat \ {0} : i = 3 * j - 2 \/ i = 3 * j - 1 \/ i = 3 * j
      BY <2>1a, InThirds
    <2>3. j \in 1..n /\ (i = 3 * j => j < n)
      BY <1>0, <2>1a, <2>2
    <2>4. (3 * j - 2) % 3 = 1 /\ (3 * j - 1) % 3 = 2 /\ (3 * j) % 3 = 0
      BY Thirds
    <2> QED
      BY <1>2, <2>2, <2>3, <2>4
  <1>5. Free(a, Marks)
    <2>1. \A m \in Marks : m # ";" /\ m \in Separator \cup Unit
      BY DEF Marks, Separator
    <2>2. ASSUME NEW i \in DOMAIN a, NEW m \in Marks PROVE a[i] # Mark(m)
      <3>1. PICK j \in 1..n : \/ a[i] = Letter(items[j].kind)
                              \/ a[i] = Number(items[j].quantity)
                              \/ a[i] = Mark(";")
        BY <1>4
      <3>2. m # ";" /\ m \in Separator \cup Unit
        BY <2>1
      <3>3. Letter(items[j].kind) # Mark(m) /\ Number(items[j].quantity) # Mark(m)
        BY <3>2, TokenTypes
      <3>4. Mark(";") # Mark(m)
        BY <3>2, TokenTypes
      <3> QED
        BY <3>1, <3>3, <3>4
    <2> QED
      BY <2>2 DEF Free
  <1>6. ItemsOf(a) = items
    <2>a. Len(a) = 3 * n - 1
      BY <1>2
    <2>0. Len(a) + 1 = 3 * n
      BY <1>0, <2>a
    <2>1. (Len(a) + 1) \div 3 = n
      BY <1>0, <2>0, Thirds
    <2>2. ItemsOf(a) = [i \in 1..n |-> [kind |-> a[3 * i - 2].value,
                                        quantity |-> a[3 * i - 1].value]]
      BY <2>1 DEF ItemsOf
    <2>3. \A i \in 1..n : /\ a[3 * i - 2].value = items[i].kind
                          /\ a[3 * i - 1].value = items[i].quantity
      BY <1>2, TokenTypes
    <2>4. \A i \in 1..n : ItemsOf(a)[i] = items[i]
      BY <1>1, <2>2, <2>3
    <2>5. items = [i \in 1..n |-> items[i]]
      BY <1>1
    <2> QED
      BY <2>2, <2>4, <2>5
  <1>7. ItemsOk(a)
    <2>1. Len(a) % 3 = 2
      BY <1>1, <1>2, Thirds
    <2>2. ASSUME NEW i \in DOMAIN a
          PROVE  CASE i % 3 = 1 -> a[i].type = "kind"
                   [] i % 3 = 2 -> IsNumber(a[i]) /\ a[i].value > 0
                   [] i % 3 = 0 -> a[i] = Mark(";")
      <3>0. PICK r : r = i % 3
        OBVIOUS
      <3>1. PICK j \in 1..n :
               \/ r = 1 /\ a[i] = Letter(items[j].kind)
               \/ r = 2 /\ a[i] = Number(items[j].quantity)
               \/ r = 0 /\ a[i] = Mark(";")
        BY <1>4, <3>0
      <3>2. items[j].quantity \in 1..MaxSize /\ MaxSize \in Nat
        BY <1>1, TaskTextAssumption
      <3>3. r = 1 => a[i].type = "kind"
        BY <3>1, TokenTypes
      <3>4. r = 2 => IsNumber(a[i]) /\ a[i].value > 0
        <4>1. SUFFICES ASSUME r = 2 PROVE IsNumber(a[i]) /\ a[i].value > 0
          OBVIOUS
        <4>2. a[i] = Number(items[j].quantity)
          BY <3>1, <4>1
        <4> QED
          BY <3>2, <4>2, TokenTypes DEF IsNumber
      <3>5. r = 0 => a[i] = Mark(";")
        <4>1. SUFFICES ASSUME r = 0 PROVE a[i] = Mark(";")
          OBVIOUS
        <4>2. r # 1 /\ r # 2
          BY <4>1
        <4> QED
          BY <3>1, <4>2
      <3>6. r = 0 \/ r = 1 \/ r = 2
        BY <3>1
      <3> QED
        BY <3>0, <3>3, <3>4, <3>5, <3>6, Zenon
    <2>3. ASSUME NEW i \in DOMAIN a, NEW k \in DOMAIN a, i % 3 = 1, a[i] = a[k]
          PROVE  i = k
      <3>0. i % 3 # 2 /\ i % 3 # 0
        BY <2>3
      <3>1. PICK j \in 1..n : i = 3 * j - 2 /\ a[i] = Letter(items[j].kind)
        BY <1>4, <3>0
      <3>2. PICK l \in 1..n :
               \/ k = 3 * l - 2 /\ a[k] = Letter(items[l].kind)
               \/ a[k] = Number(items[l].quantity)
               \/ a[k] = Mark(";")
        BY <1>4
      <3>3. k = 3 * l - 2 /\ items[j].kind = items[l].kind
        <4>1. Mark(";") # a[k]
          BY <2>3, <3>1, TokenTypes DEF Separator
        <4>2. Number(items[l].quantity) # a[k]
          BY <2>3, <3>1, TokenTypes
        <4>3. k = 3 * l - 2 /\ a[k] = Letter(items[l].kind)
          BY <3>2, <4>1, <4>2
        <4>4. Letter(items[j].kind) = Letter(items[l].kind)
          BY <2>3, <3>1, <4>3
        <4> QED
          BY <4>3, <4>4, TokenTypes
      <3>4. j = l
        BY <1>1, <3>3
      <3> QED
        BY <3>1, <3>3, <3>4
    <2> QED
      BY <1>6, <2>1, <2>2, <2>3 DEF ItemsOk
  <1> QED
    BY <1>2, <1>5, <1>6, <1>7 DEF a

\* The text b is a section that its separator opens, or nothing.
Opens(b, mark) ==
    b # <<>> => b[1] = Mark(mark) /\ Free(Tail(b), Marks)

\* Assoc: the parts of a text.
LEMMA Assoc ==
    ASSUME NEW s \in Seq(Token), NEW t \in Seq(Token), NEW u \in Seq(Token)
    PROVE  (s \o t) \o u = s \o (t \o u)
  BY ConcatAssociative

\* Joined: one text after another is a text.
LEMMA Joined ==
    ASSUME NEW s \in Seq(Token), NEW t \in Seq(Token)
    PROVE  s \o t \in Seq(Token)
  BY ConcatProperties

\* OpensFree: a section has no other separator.
LEMMA OpensFree ==
    ASSUME NEW b \in Seq(Token), NEW mark, Opens(b, mark),
           NEW L \in SUBSET Marks, mark \notin L
    PROVE  Free(b, L)
  <1> SUFFICES ASSUME NEW i \in DOMAIN b, NEW m \in L PROVE b[i] # Mark(m)
    BY DEF Free
  <1>1. b # <<>> /\ DOMAIN b = 1..Len(b) /\ Len(b) \in Nat
    OBVIOUS
  <1>2. CASE i = 1
    BY <1>1, <1>2, TokenTypes DEF Opens
  <1>3. CASE i # 1
    <2>1. /\ Tail(b) \in Seq(Token) /\ Len(Tail(b)) = Len(b) - 1
          /\ \A j \in 1..Len(Tail(b)) : Tail(b)[j] = b[j + 1]
      BY <1>1, HeadTailProperties
    <2>2. i - 1 \in DOMAIN Tail(b) /\ Tail(b)[i - 1] = b[i]
      BY <1>1, <1>3, <2>1
    <2> QED
      BY <1>1, <2>2 DEF Opens, Free
  <1> QED
    BY <1>2, <1>3

\* BeginsConcat: a section that may be missing, and what follows it.
LEMMA BeginsConcat ==
    ASSUME NEW b \in Seq(Token), NEW t \in Seq(Token), NEW mark, NEW L,
           Opens(b, mark), Begins(t, L)
    PROVE  Begins(b \o t, L \cup {mark})
  <1>1. CASE b = <<>>
    <2>1. b \o t = t
      BY <1>1, ConcatEmptySeq
    <2> QED
      BY <2>1 DEF Begins
  <1>2. CASE b # <<>>
    <2>1. (b \o t)[1] = b[1]
      <3>1. Len(b) \in Nat \ {0} /\ Len(t) \in Nat
        BY <1>2
      <3> QED
        BY <3>1, ConcatProperties
    <2> QED
      BY <1>2, <2>1 DEF Begins, Opens
  <1> QED
    BY <1>1, <1>2

\* What the parser finds in the text T: behind the part s, the section b that
\* a separator opens, up to the separators in L.
Placed(T, s, b, mark, L) ==
    /\ Has(T, mark) <=> b # <<>>
    /\ b # <<>> => Section(T, mark, L) = Tail(b) /\ Find(T, mark) = Len(s) + 1

\* SectionPart: a section of a text in parts, present or not.
LEMMA SectionPart ==
    ASSUME NEW s \in Seq(Token), NEW b \in Seq(Token), NEW t \in Seq(Token),
           NEW mark \in Marks, NEW L \in SUBSET Marks, mark \notin L,
           Free(s, L), Free(s, {mark}), Opens(b, mark), Begins(t, L), Free(t, {mark})
    PROVE  Placed((s \o b) \o t, s, b, mark, L)
  <1>1. CASE b = <<>>
    <2>1. Free(b, {mark}) /\ b = <<>>
      BY <1>1 DEF Free
    <2>2. Free((s \o b) \o t, {mark}) /\ (s \o b) \o t \in Seq(Token)
      BY <2>1, FreeConcat
    <2> QED
      BY <2>1, <2>2, FindNone DEF Placed
  <1>2. CASE b # <<>>
    <2>1. b[1] = Mark(mark) /\ Free(Tail(b), L)
      BY <1>2 DEF Opens, Free
    <2>2. /\ Find((s \o b) \o t, mark) = Len(s) + 1
          /\ Has((s \o b) \o t, mark)
          /\ Section((s \o b) \o t, mark, L) = Tail(b)
      <3>1. /\ mark \notin L /\ Free(s, L) /\ Free(s, {mark}) /\ b # <<>>
            /\ b[1] = Mark(mark) /\ Free(Tail(b), L) /\ Begins(t, L)
        BY <1>2, <2>1
      <3> QED
        BY <3>1, SectionIs
    <2> QED
      BY <1>2, <2>2 DEF Placed
  <1> QED
    BY <1>1, <1>2

\* SectionHere: the same, of a text that is named.
LEMMA SectionHere ==
    ASSUME NEW s \in Seq(Token), NEW b \in Seq(Token), NEW t \in Seq(Token),
           NEW mark \in Marks, NEW L \in SUBSET Marks, mark \notin L,
           Free(s, L), Free(s, {mark}), Opens(b, mark), Begins(t, L), Free(t, {mark}),
           NEW T, T = (s \o b) \o t
    PROVE  Placed(T, s, b, mark, L)
  <1>1. Placed((s \o b) \o t, s, b, mark, L)
    BY SectionPart
  <1> QED
    BY <1>1, Zenon

\* What the parser finds in the text of five parts, the items and the options.
Parted(T, a, b, c, d, e) ==
    /\ SubSeq(T, 1, Before(T, Marks) - 1) = a
    /\ Ordered(T)
    /\ Placed(T, a, b, "@", {"#", "&", "~"})
    /\ Placed(T, a \o b, c, "#", {"&", "~"})
    /\ Placed(T, a \o b \o c, d, "&", {"~"})
    /\ Placed(T, a \o b \o c \o d, e, "~", {})

\* Canonical: what the parser finds in a text in the canonical order.
LEMMA Canonical ==
    ASSUME NEW a \in Seq(Token), NEW b \in Seq(Token), NEW c \in Seq(Token),
           NEW d \in Seq(Token), NEW e \in Seq(Token), Free(a, Marks),
           Opens(b, "@"), Opens(c, "#"), Opens(d, "&"), Opens(e, "~")
    PROVE  Parted(a \o b \o c \o d \o e, a, b, c, d, e)
  <1> DEFINE T == a \o b \o c \o d \o e
             ab == a \o b
             abc == ab \o c
             abcd == abc \o d
             de == d \o e
             cde == c \o de
             bcde == b \o cde
  <1>1. /\ ab \in Seq(Token) /\ abc \in Seq(Token) /\ abcd \in Seq(Token)
        /\ de \in Seq(Token) /\ cde \in Seq(Token) /\ bcde \in Seq(Token)
        /\ <<>> \in Seq(Token) /\ T \in Seq(Token)
    BY ConcatProperties
  <1>2. T = abc \o de /\ T = ab \o cde /\ T = a \o bcde /\ T = abcd \o e /\ T = T \o <<>>
    <2>1. T = abc \o de /\ abc \o de = ab \o cde /\ ab \o cde = a \o bcde
      <3>1. \A x, y \in Seq(Token) : (x \o d) \o y = x \o (d \o y)
        BY Assoc
      <3>2. T = abc \o de
        BY <1>1, <3>1, Zenon
      <3>3. \A x, y \in Seq(Token) : (x \o c) \o y = x \o (c \o y)
        BY Assoc
      <3>4. abc \o de = ab \o cde
        BY <1>1, <3>3, Zenon
      <3>5. \A x \in Seq(Token) : (a \o b) \o x = a \o (b \o x)
        BY Assoc
      <3>6. ab \o cde = a \o bcde
        BY <1>1, <3>5, Zenon
      <3> QED
        BY <3>2, <3>4, <3>6
    <2>2. T = abcd \o e /\ T = T \o <<>>
      BY <1>1, ConcatEmptySeq
    <2> QED
      BY <2>1, <2>2
  <1>3. /\ Free(b, {"#", "&", "~"}) /\ Free(c, {"@", "&", "~"})
        /\ Free(d, {"@", "#", "~"}) /\ Free(e, {"@", "#", "&"})
    <2>1. /\ {"#", "&", "~"} \in SUBSET Marks /\ {"@", "&", "~"} \in SUBSET Marks
          /\ {"@", "#", "~"} \in SUBSET Marks /\ {"@", "#", "&"} \in SUBSET Marks
      BY DEF Marks
    <2>2. Free(b, {"#", "&", "~"})
      BY <2>1, OpensFree
    <2>3. Free(c, {"@", "&", "~"})
      BY <2>1, OpensFree
    <2>4. Free(d, {"@", "#", "~"})
      BY <2>1, OpensFree
    <2>5. Free(e, {"@", "#", "&"})
      BY <2>1, OpensFree
    <2> QED
      BY <2>2, <2>3, <2>4, <2>5
  <1>4. /\ Free(ab, {"#", "&", "~"}) /\ Free(abc, {"&", "~"}) /\ Free(abcd, {"~"})
        /\ Free(de, {"@", "#"}) /\ Free(cde, {"@"}) /\ Free(<<>>, {"~"})
    <2>1. /\ Free(a, {"#", "&", "~"}) /\ Free(b, {"&", "~"}) /\ Free(b, {"~"})
          /\ Free(c, {"&", "~"}) /\ Free(d, {"~"}) /\ Free(c, {"@"})
          /\ Free(d, {"@", "#"}) /\ Free(e, {"@", "#"})
      BY <1>3 DEF Free, Marks
    <2>2. Free(ab, {"#", "&", "~"})
      BY <1>3, <2>1, FreeConcat
    <2>3. Free(ab, {"&", "~"})
      BY <2>2 DEF Free
    <2>4. Free(abc, {"&", "~"})
      BY <1>1, <2>1, <2>3, FreeConcat
    <2>5. Free(abc, {"~"})
      BY <2>4 DEF Free
    <2>6. Free(abcd, {"~"})
      BY <1>1, <2>1, <2>5, FreeConcat
    <2>7. Free(de, {"@", "#"})
      BY <2>1, FreeConcat
    <2>8. Free(de, {"@"})
      BY <2>7 DEF Free
    <2>9. Free(cde, {"@"})
      BY <1>1, <2>1, <2>8, FreeConcat
    <2>10. Free(<<>>, {"~"})
      BY DEF Free
    <2> QED
      BY <2>2, <2>4, <2>6, <2>7, <2>9, <2>10
  <1>5. /\ Begins(<<>>, {}) /\ Begins(e, {"~"}) /\ Begins(de, {"&", "~"})
        /\ Begins(cde, {"#", "&", "~"}) /\ Begins(bcde, Marks)
    <2>1. Begins(<<>>, {}) /\ Begins(e, {"~"})
      BY DEF Begins, Opens
    <2>2. Begins(de, {"~"} \cup {"&"})
      BY <2>1, BeginsConcat
    <2>3. {"~"} \cup {"&"} = {"&", "~"}
      OBVIOUS
    <2>4. Begins(cde, {"&", "~"} \cup {"#"})
      BY <1>1, <2>2, <2>3, BeginsConcat
    <2>5. {"&", "~"} \cup {"#"} = {"#", "&", "~"}
      OBVIOUS
    <2>6. Begins(bcde, {"#", "&", "~"} \cup {"@"})
      BY <1>1, <2>4, <2>5, BeginsConcat
    <2>7. {"#", "&", "~"} \cup {"@"} = Marks
      BY DEF Marks
    <2> QED
      BY <2>1, <2>2, <2>3, <2>4, <2>5, <2>6, <2>7
  <1>6. SubSeq(T, 1, Before(T, Marks) - 1) = a
    <2>1. Before(T, Marks) = Len(a) + 1 /\ Len(a) \in Nat
      <3> HIDE DEF T, bcde
      <3>1. Before(a \o bcde, Marks) = Len(a) + 1
        BY <1>1, <1>5, BeforeIs
      <3> QED
        BY <1>2, <3>1
    <2>2. SubSeq(T, 1, Len(a)) = a
      <3>1. /\ \A i \in 1..Len(a) : T[i] = a[i] /\ a[i] \in Token
        BY <1>1, <1>2, <2>1, ConcatProperties
      <3>2. /\ SubSeq(T, 1, Len(a)) \in Seq(Token)
            /\ Len(SubSeq(T, 1, Len(a))) = IF 1 <= Len(a) THEN Len(a) - 1 + 1 ELSE 0
            /\ \A i \in 1..Len(a) - 1 + 1 : SubSeq(T, 1, Len(a))[i] = T[1 + i - 1]
        BY <2>1, <3>1, SubSeqProperties
      <3>3. /\ Len(SubSeq(T, 1, Len(a))) = Len(a)
            /\ \A i \in 1..Len(a) : SubSeq(T, 1, Len(a))[i] = T[i]
        BY <2>1, <3>2
      <3> QED
        BY <3>1, <3>2, <3>3, SeqEqual
    <2> QED
      BY <2>1, <2>2
  <1>7. Placed(T, a, b, "@", {"#", "&", "~"})
    <2>2. "@" \in Marks /\ {"#", "&", "~"} \in SUBSET Marks /\ "@" \notin {"#", "&", "~"}
      BY DEF Marks
    <2>3. T = (a \o b) \o cde
      BY <1>2
    <2>4. Free(a, {"#", "&", "~"}) /\ Free(a, {"@"})
      BY DEF Free, Marks
    <2> HIDE DEF T, cde
    <2> QED
      BY <1>1, <1>4, <1>5, <2>2, <2>3, <2>4, SectionHere
  <1>8. Placed(T, ab, c, "#", {"&", "~"})
    <2>1. Free(de, {"#"})
      BY <1>4 DEF Free
    <2>2. "#" \in Marks /\ {"&", "~"} \in SUBSET Marks /\ "#" \notin {"&", "~"}
      BY DEF Marks
    <2>3. T = (ab \o c) \o de
      BY <1>2
    <2>4. Free(ab, {"&", "~"}) /\ Free(ab, {"#"})
      BY <1>4 DEF Free
    <2> HIDE DEF T, ab, de
    <2> QED
      BY <1>1, <1>5, <2>1, <2>2, <2>3, <2>4, SectionHere
  <1>9. Placed(T, abc, d, "&", {"~"})
    <2>1. Free(e, {"&"})
      BY <1>3 DEF Free
    <2>2. "&" \in Marks /\ {"~"} \in SUBSET Marks /\ "&" \notin {"~"}
      BY DEF Marks
    <2>3. T = (abc \o d) \o e
      OBVIOUS
    <2>4. Free(abc, {"~"}) /\ Free(abc, {"&"})
      BY <1>4 DEF Free
    <2> HIDE DEF T, abc
    <2> QED
      BY <1>1, <1>5, <2>1, <2>2, <2>3, <2>4, SectionHere
  <1>10. Placed(T, abcd, e, "~", {})
    <2>2. "~" \in Marks /\ {} \in SUBSET Marks /\ "~" \notin {}
      BY DEF Marks
    <2>3. T = (abcd \o e) \o <<>>
      BY <1>2
    <2>4. Free(abcd, {}) /\ Free(<<>>, {"~"})
      BY <1>4 DEF Free
    <2> HIDE DEF T, abcd
    <2> QED
      BY <1>1, <1>4, <1>5, <2>2, <2>3, <2>4, SectionHere
  <1>11. Ordered(T)
    <2>1. /\ Len(ab) = Len(a) + Len(b) /\ Len(abc) = Len(ab) + Len(c)
          /\ Len(abcd) = Len(abc) + Len(d)
          /\ Len(a) \in Nat /\ Len(b) \in Nat /\ Len(c) \in Nat /\ Len(d) \in Nat
          /\ b # <<>> => Len(b) > 0
          /\ c # <<>> => Len(c) > 0
          /\ d # <<>> => Len(d) > 0
      BY <1>1, ConcatProperties
    <2> DEFINE x1 == Len(a)
               x2 == Len(ab)
               x3 == Len(abc)
               x4 == Len(abcd)
    <2>2. /\ x1 \in Nat /\ x2 \in Nat /\ x3 \in Nat /\ x4 \in Nat
          /\ x1 <= x2 /\ x2 <= x3 /\ x3 <= x4
          /\ b # <<>> => x1 < x2
          /\ c # <<>> => x2 < x3
          /\ d # <<>> => x3 < x4
      BY <2>1
    <2> DEFINE order == <<"@", "#", "&", "~">>
    <2>3. SUFFICES ASSUME NEW i \in 1..4, NEW j \in 1..4, i < j,
                          Has(T, order[i]), Has(T, order[j])
                   PROVE  Find(T, order[i]) < Find(T, order[j])
      BY DEF Ordered
    <2>4. order[1] = "@" /\ order[2] = "#" /\ order[3] = "&" /\ order[4] = "~"
      OBVIOUS
    <2> HIDE DEF x1, x2, x3, x4, order, T
    <2>5. /\ i = 1 => b # <<>> /\ Find(T, order[i]) = x1 + 1
          /\ i = 2 => c # <<>> /\ Find(T, order[i]) = x2 + 1
          /\ i = 3 => d # <<>> /\ Find(T, order[i]) = x3 + 1
      BY <1>7, <1>8, <1>9, <2>3, <2>4 DEF x1, x2, x3, Placed
    <2>6. /\ j = 2 => Find(T, order[j]) = x2 + 1
          /\ j = 3 => Find(T, order[j]) = x3 + 1
          /\ j = 4 => Find(T, order[j]) = x4 + 1
      BY <1>8, <1>9, <1>10, <2>3, <2>4 DEF x2, x3, x4, Placed
    <2> QED
      BY <2>2, <2>3, <2>5, <2>6
  <1> QED
    BY <1>6, <1>7, <1>8, <1>9, <1>10, <1>11 DEF Parted

\* What the parser makes of a text, before its items and options are put
\* together: everything that server and clients rely on, with its ranges.
Sound(p) ==
    /\ p = [items |-> p.items, period |-> p.period, symbols |-> p.symbols,
            regional |-> p.regional, seed |-> p.seed]
    /\ p.items \in Seq(PatternItem) /\ p.items # <<>>
    /\ \A i \in DOMAIN p.items : p.items[i].quantity \in 1..MaxSize
    /\ \A i, j \in DOMAIN p.items : p.items[i].kind = p.items[j].kind => i = j
    /\ EventCount(p.items) <= MaxSize
    /\ p.period = 1000 \/ p.period \in 1..MaxMillis
    /\ p.symbols \in 0..MaxSize
    /\ p.regional \in 0..26 /\ p.regional <= MaxSize
    /\ p.seed = <<>> \/ \E n \in 0..MaxSize : p.seed = <<n>>
    /\ SymbolCount(p) >= Maximum(Quantities(p.items))
    /\ MarketSymbolCount(p) <= MaxSize

\* TokenParts: what a token is made of.
LEMMA TokenParts ==
    ASSUME NEW token \in Token
    PROVE  /\ token.value \in Nat
           /\ token = [type |-> token.type, value |-> token.value]
  BY DEF Token

\* ItemsAreSound: what the list of items of a text gives.
LEMMA ItemsAreSound ==
    ASSUME NEW a \in Seq(Token), ItemsOk(a)
    PROVE  LET items == ItemsOf(a)
           IN  /\ items \in Seq(PatternItem) /\ items # <<>>
               /\ \A i \in DOMAIN items : items[i].quantity \in 1..MaxSize
               /\ \A i, j \in DOMAIN items : items[i].kind = items[j].kind => i = j
               /\ EventCount(items) <= MaxSize
  <1> DEFINE n == (Len(a) + 1) \div 3
             items == ItemsOf(a)
  <1>1. Len(a) \in Nat /\ DOMAIN a = 1..Len(a) /\ \A i \in 1..Len(a) : a[i] \in Token
    OBVIOUS
  <1>2. Len(a) = 3 * n - 1 /\ n \in Nat \ {0}
    <2>1. Len(a) % 3 = 2
      BY DEF ItemsOk
    <2>2. Len(a) \in Nat
      BY <1>1
    <2> QED
      BY <2>1, <2>2
  <1>3. items = [i \in 1..n |-> [kind |-> a[3 * i - 2].value,
                                 quantity |-> a[3 * i - 1].value]]
    BY DEF ItemsOf
  <1> HIDE DEF n, items
  <1>4. ASSUME NEW i \in 1..n
        PROVE  /\ 3 * i - 2 \in DOMAIN a /\ 3 * i - 1 \in DOMAIN a
               /\ (3 * i - 2) % 3 = 1 /\ (3 * i - 1) % 3 = 2
    <2>1. n \in Nat \ {0} /\ i \in Nat \ {0} /\ i <= n
      BY <1>2
    <2>2. 3 * i - 2 \in 1..3 * n - 1 /\ 3 * i - 1 \in 1..3 * n - 1
      BY <2>1
    <2> QED
      BY <1>1, <1>2, <2>1, <2>2, Thirds
  <1>5. ASSUME NEW i \in 1..n
        PROVE  /\ a[3 * i - 2].type = "kind" /\ a[3 * i - 2].value \in Nat
               /\ a[3 * i - 1].value \in 1..MaxSize
    <2> DEFINE k == 3 * i - 2
               q == 3 * i - 1
    <2>1. k \in DOMAIN a /\ q \in DOMAIN a /\ k % 3 = 1 /\ q % 3 = 2
      BY <1>4
    <2> HIDE DEF k, q
    <2>2. \A x \in DOMAIN a :
             CASE x % 3 = 1 -> a[x].type = "kind"
               [] x % 3 = 2 -> IsNumber(a[x]) /\ a[x].value > 0
               [] x % 3 = 0 -> a[x] = Mark(";")
      BY DEF ItemsOk
    <2>3. a[k].type = "kind"
      <3> DEFINE r == k % 3
      <3>1. (CASE r = 1 -> a[k].type = "kind"
              [] r = 2 -> IsNumber(a[k]) /\ a[k].value > 0
              [] r = 0 -> a[k] = Mark(";"))
        BY <2>1, <2>2
      <3>2. r = 1
        BY <2>1
      <3> HIDE DEF r
      <3> QED
        BY <3>1, <3>2
    <2>4. IsNumber(a[q]) /\ a[q].value > 0
      <3> DEFINE r == q % 3
      <3>1. (CASE r = 1 -> a[q].type = "kind"
              [] r = 2 -> IsNumber(a[q]) /\ a[q].value > 0
              [] r = 0 -> a[q] = Mark(";"))
        BY <2>1, <2>2
      <3>2. r = 2
        BY <2>1
      <3> HIDE DEF r
      <3> QED
        BY <3>1, <3>2
    <2>5. a[k] \in Token /\ a[q] \in Token
      BY <1>1, <2>1
    <2>6. a[k].value \in Nat /\ a[q].value \in Nat
      BY <2>5, TokenParts
    <2>7. a[q].value \in 1..MaxSize
      BY <2>4, <2>6, TaskTextAssumption DEF IsNumber
    <2> QED
      BY <2>3, <2>6, <2>7 DEF k, q
  <1>6. items \in Seq(PatternItem) /\ Len(items) = n /\ DOMAIN items = 1..n
    <2>1. \A i \in 1..n : [kind |-> a[3 * i - 2].value,
                           quantity |-> a[3 * i - 1].value] \in PatternItem
      <3>1. TAKE i \in 1..n
      <3>2. a[3 * i - 2].value \in Nat /\ a[3 * i - 1].value \in 1..MaxSize
        BY <1>5
      <3>3. \A x, y \in Nat : [kind |-> x, quantity |-> y] \in PatternItem
        BY DEF PatternItem
      <3> QED
        BY <3>2, <3>3, TaskTextAssumption
    <2>2. n \in Nat
      BY <1>2
    <2>3. items \in Seq(PatternItem)
      BY <1>3, <2>1, <2>2, IsASeq
    <2> QED
      BY <1>3, <2>2, <2>3
  <1>7. items # <<>>
    BY <1>2, <1>6
  <1>8. \A i \in DOMAIN items : items[i].quantity \in 1..MaxSize
    BY <1>3, <1>5, <1>6
  <1>9. ASSUME NEW i \in DOMAIN items, NEW j \in DOMAIN items,
               items[i].kind = items[j].kind
        PROVE  i = j
    <2> DEFINE k == 3 * i - 2
               l == 3 * j - 2
    <2>0. i \in 1..n /\ j \in 1..n
      BY <1>6
    <2>1. k \in DOMAIN a /\ l \in DOMAIN a /\ k % 3 = 1
      BY <1>4, <2>0
    <2>2. /\ a[k].type = "kind" /\ a[l].type = "kind"
          /\ a[k].value = a[l].value
      BY <1>3, <1>5, <1>9, <2>0
    <2> HIDE DEF k, l
    <2>3. a[k] = a[l]
      <3>1. a[k] \in Token /\ a[l] \in Token
        BY <1>1, <2>1
      <3>2. /\ a[k] = [type |-> a[k].type, value |-> a[k].value]
            /\ a[l] = [type |-> a[l].type, value |-> a[l].value]
        BY <3>1, TokenParts
      <3> QED
        BY <2>2, <3>2
    <2>4. k = l
      BY <2>1, <2>3 DEF ItemsOk
    <2>5. i \in Nat /\ j \in Nat
      BY <1>2, <2>0
    <2> QED
      BY <2>4, <2>5 DEF k, l
  <1>10. EventCount(items) <= MaxSize
    BY DEF ItemsOk, items
  <1> QED
    BY <1>6, <1>7, <1>8, <1>9, <1>10 DEF items

\* SectionType: the sections of a text are texts.
LEMMA SectionType ==
    ASSUME NEW text \in Seq(Token), NEW mark, NEW L
    PROVE  /\ Section(text, mark, L) \in Seq(Token)
           /\ SubSeq(text, 1, Before(text, L) - 1) \in Seq(Token)
  <1> DEFINE S == { Find(text, m) : m \in L } \cup {Len(text) + 1}
  <1>1. Len(text) \in Nat /\ DOMAIN text = 1..Len(text)
        /\ \A i \in 1..Len(text) : text[i] \in Token
    OBVIOUS
  <1>2. S \in SUBSET (1..Len(text) + 1) /\ S # {}
    BY <1>1, FindType
  <1>3. Before(text, L) \in 1..Len(text) + 1
    <2>1. S \in SUBSET Nat
      <3> HIDE DEF S
      <3>1. \A x \in 1..Len(text) + 1 : x \in Nat
        BY <1>1
      <3> QED
        BY <1>2, <3>1
    <2>2. Min(S) \in S
      BY <1>2, <2>1, LeastExists
    <2> QED
      BY <1>2, <2>2 DEF Before
  <1>4. Find(text, mark) \in 1..Len(text) + 1
    BY FindType
  <1>5. \A m \in 1..Len(text) + 2 : SubSeq(text, m, Before(text, L) - 1) \in Seq(Token)
    <2> DEFINE b == Before(text, L) - 1
    <2>1. b \in 0..Len(text)
      BY <1>1, <1>3
    <2> HIDE DEF b
    <2>2. TAKE m \in 1..Len(text) + 2
    <2>3. m \in Int /\ b \in Int /\ \A i \in m..b : text[i] \in Token
      BY <1>1, <2>1, <2>2
    <2>4. SubSeq(text, m, b) \in Seq(Token)
      BY <2>3, SubSeqProperties
    <2> QED
      BY <2>4 DEF b
  <1>6. Find(text, mark) + 1 \in 1..Len(text) + 2 /\ 1 \in 1..Len(text) + 2
    BY <1>1, <1>4
  <1> QED
    BY <1>5, <1>6 DEF Section

\* PeriodIsSound: the period that a duration in a text gives.
LEMMA PeriodIsSound ==
    ASSUME NEW s \in Seq(Token), DurationOk(s)
    PROVE  Duration(s) \in 1..MaxMillis
  BY DEF DurationOk

\* NumberIsSound: the number that a section gives.
LEMMA NumberIsSound ==
    ASSUME NEW s \in Seq(Token), NumberOk(s)
    PROVE  s[1].value \in 0..MaxSize
  <1>1. s[1] \in Token /\ IsNumber(s[1])
    BY DEF NumberOk
  <1>2. s[1].value \in Nat /\ s[1].value <= MaxSize
    BY <1>1, TokenParts DEF IsNumber
  <1> QED
    BY <1>2, TaskTextAssumption

\* ParsedIsSound: whatever a text spells, a pattern that comes out is sound.
LEMMA ParsedIsSound ==
    ASSUME NEW text \in Seq(Token), Parse(text) # Error
    PROVE  Sound(Parse(text))
  <1> DEFINE items == SubSeq(text, 1, Before(text, {"@", "#", "&", "~"}) - 1)
             period == Section(text, "@", {"#", "&", "~"})
             symbols == Section(text, "#", {"&", "~"})
             regional == Section(text, "&", {"~"})
             seed == Section(text, "~", {})
             p1 == IF Has(text, "@") THEN Duration(period) ELSE 1000
             p2 == IF Has(text, "#") THEN symbols[1].value ELSE 0
             p3 == IF Has(text, "&") THEN regional[1].value ELSE 0
             p4 == IF Has(text, "~") THEN <<seed[1].value>> ELSE <<>>
             pattern == [items |-> ItemsOf(items), period |-> p1, symbols |-> p2,
                         regional |-> p3, seed |-> p4]
  <1>1. /\ Parse(text) = pattern
        /\ ItemsOk(items)
        /\ Has(text, "@") => DurationOk(period)
        /\ Has(text, "#") => NumberOk(symbols) /\ symbols[1].value > 0
        /\ Has(text, "&") => NumberOk(regional) /\ regional[1].value \in 1..26
        /\ Has(text, "~") => NumberOk(seed)
        /\ SymbolCount(pattern) >= Maximum(Quantities(pattern.items))
        /\ MarketSymbolCount(pattern) <= MaxSize
    BY DEF Parse
  <1>2. /\ items \in Seq(Token) /\ period \in Seq(Token) /\ symbols \in Seq(Token)
        /\ regional \in Seq(Token) /\ seed \in Seq(Token)
    BY SectionType
  <1> HIDE DEF items, period, symbols, regional, seed
  <1> DEFINE list == ItemsOf(items)
  <1>3. /\ list \in Seq(PatternItem) /\ list # <<>>
        /\ \A i \in DOMAIN list : list[i].quantity \in 1..MaxSize
        /\ \A i, j \in DOMAIN list : list[i].kind = list[j].kind => i = j
        /\ EventCount(list) <= MaxSize
    BY <1>1, <1>2, ItemsAreSound
  <1>4. p1 = 1000 \/ p1 \in 1..MaxMillis
    <2>1. Has(text, "@") => Duration(period) \in 1..MaxMillis
      BY <1>1, <1>2, PeriodIsSound
    <2> QED
      BY <2>1
  <1>5. p2 \in 0..MaxSize
    <2>1. Has(text, "#") => symbols[1].value \in 0..MaxSize
      BY <1>1, <1>2, NumberIsSound
    <2> QED
      BY <2>1, TaskTextAssumption
  <1>6. p3 \in 0..26 /\ p3 <= MaxSize
    <2>1. Has(text, "&") =>
            regional[1].value \in 0..MaxSize /\ regional[1].value \in 1..26
      BY <1>1, <1>2, NumberIsSound
    <2> QED
      BY <2>1, TaskTextAssumption
  <1>7. p4 = <<>> \/ \E n \in 0..MaxSize : p4 = <<n>>
    <2>1. Has(text, "~") => seed[1].value \in 0..MaxSize
      BY <1>1, <1>2, NumberIsSound
    <2> QED
      BY <2>1
  <1>8. /\ pattern.items = list /\ pattern.period = p1 /\ pattern.symbols = p2
        /\ pattern.regional = p3 /\ pattern.seed = p4
    OBVIOUS
  <1>9. /\ SymbolCount(pattern) >= Maximum(Quantities(list))
        /\ MarketSymbolCount(pattern) <= MaxSize
    BY <1>1, <1>8
  <1> HIDE DEF list, p1, p2, p3, p4
  <1> DEFINE w == pattern
  <1>10. w = [items |-> list, period |-> p1, symbols |-> p2, regional |-> p3, seed |-> p4]
    BY DEF list
  <1>11. /\ w.items = list /\ w.period = p1 /\ w.symbols = p2
         /\ w.regional = p3 /\ w.seed = p4
    BY <1>10
  <1>12. Parse(text) = w
    BY <1>1
  <1> HIDE DEF w
  <1>13. Sound(w)
    <2>1. w = [items |-> w.items, period |-> w.period, symbols |-> w.symbols,
               regional |-> w.regional, seed |-> w.seed]
      BY <1>10, <1>11
    <2> QED
      BY <1>3, <1>4, <1>5, <1>6, <1>7, <1>9, <1>11, <2>1 DEF Sound, w
  <1> QED
    BY <1>12, <1>13

\* SoundIsWellFormed: server and clients can work with a sound pattern.
LEMMA SoundIsWellFormed ==
    ASSUME NEW p, Sound(p)
    PROVE  WellFormed(p)
  <1> DEFINE items == p.items
             Q == Quantities(items)
             n == SymbolCount(p)
             m == Maximum(Q)
  <1>1. /\ items \in Seq(PatternItem) /\ items # <<>>
        /\ \A i \in DOMAIN items : items[i].quantity \in 1..MaxSize
        /\ p.symbols \in 0..MaxSize /\ n >= m
        /\ n = IF p.symbols > 0 THEN p.symbols ELSE m
    BY DEF Sound, SymbolCount
  <1>2. Q \in SUBSET (1..MaxSize) /\ Q # {}
    <2>1. 1 \in DOMAIN items
      BY <1>1
    <2> QED
      BY <1>1, <2>1 DEF Quantities
  <1> HIDE DEF items, Q, n
  <1>3. m \in Q /\ \A q \in Q : q <= m
    <2>1. Q \in SUBSET (0..MaxSize) /\ MaxSize \in Nat
      <3>1. \A x \in 1..MaxSize : x \in 0..MaxSize
        BY TaskTextAssumption
      <3> QED
        BY <1>2, <3>1, TaskTextAssumption
    <2>2. Max(Q) \in Q /\ \A q \in Q : q <= Max(Q)
      BY <1>2, <2>1, GreatestExists
    <2> QED
      BY <1>2, <2>2 DEF Maximum
  <1> HIDE DEF m
  <1>4. ASSUME NEW q \in Q PROVE q \in 1..n
    <2>1. q \in 1..MaxSize /\ m \in 1..MaxSize /\ q <= m /\ MaxSize \in Nat
      BY <1>2, <1>3, TaskTextAssumption
    <2>2. n \in Nat /\ n >= m
      BY <1>1, <2>1
    <2> QED
      BY <2>1, <2>2
  <1>5. \A q \in Quantities(p.items) : q \in 1..SymbolCount(p)
    BY <1>4 DEF Q, n, items
  <1>6. p.period > 0
    BY TaskTextAssumption DEF Sound
  <1> QED
    BY <1>5, <1>6 DEF Sound, WellFormed

\* Sections: a separator and one token, or two.
LEMMA Sections ==
    /\ \A mark \in Marks : \A x \in Token :
         /\ <<Mark(mark), x>> \in Seq(Token) /\ <<Mark(mark), x>> # <<>>
         /\ <<Mark(mark), x>>[1] = Mark(mark) /\ Tail(<<Mark(mark), x>>) = <<x>>
    /\ \A mark \in Marks : \A x, y \in Token :
         /\ <<Mark(mark), x, y>> \in Seq(Token) /\ <<Mark(mark), x, y>> # <<>>
         /\ <<Mark(mark), x, y>>[1] = Mark(mark) /\ Tail(<<Mark(mark), x, y>>) = <<x, y>>
  <1>1. \A mark \in Marks : Mark(mark) \in Token
    BY TokenTypes DEF Marks, Separator
  <1>2. ASSUME NEW m \in Token, NEW x \in Token
        PROVE  /\ <<m, x>> \in Seq(Token) /\ <<m, x>> # <<>>
               /\ <<m, x>>[1] = m /\ Tail(<<m, x>>) = <<x>>
    OBVIOUS
  <1>3. ASSUME NEW m \in Token, NEW x \in Token, NEW y \in Token
        PROVE  /\ <<m, x, y>> \in Seq(Token) /\ <<m, x, y>> # <<>>
               /\ <<m, x, y>>[1] = m /\ Tail(<<m, x, y>>) = <<x, y>>
    OBVIOUS
  <1> QED
    BY <1>1, <1>2, <1>3

\* NumberReadBack: an option and its number, and no other separator.
LEMMA NumberReadBack ==
    ASSUME NEW mark \in Marks, NEW n \in 0..MaxSize, NEW b, b = <<Mark(mark), Number(n)>>
    PROVE  /\ b \in Seq(Token) /\ b # <<>> /\ Opens(b, mark)
           /\ NumberOk(Tail(b)) /\ Tail(b)[1].value = n
  <1>1. Number(n) \in Token /\ n \in Nat
    BY TokenTypes, TaskTextAssumption
  <1>2. b \in Seq(Token) /\ b # <<>> /\ b[1] = Mark(mark) /\ Tail(b) = <<Number(n)>>
    BY <1>1, Sections
  <1>3. \A m \in Marks : Number(n) # Mark(m)
    BY TokenTypes DEF Marks, Separator
  <1>4. Free(Tail(b), Marks)
    BY <1>2, <1>3 DEF Free
  <1>5. Number(n).type = "number" /\ Number(n).value = n
    BY TokenTypes
  <1>6. NumberOk(Tail(b)) /\ Tail(b)[1].value = n
    BY <1>2, <1>5, TaskTextAssumption DEF NumberOk, IsNumber
  <1> QED
    BY <1>2, <1>4, <1>6 DEF Opens

\* OptionReadBack: the text of an option that may be missing.
LEMMA OptionReadBack ==
    ASSUME NEW mark \in Marks, NEW n \in 0..MaxSize
    PROVE  LET b == OptionText(mark, n)
           IN  /\ b \in Seq(Token) /\ Opens(b, mark)
               /\ b # <<>> => NumberOk(Tail(b)) /\ Tail(b)[1].value = n /\ n # 0
               /\ b = <<>> => n = 0
  <1>1. CASE n = 0
    BY <1>1 DEF OptionText, Opens
  <1>2. CASE n # 0
    <2>1. OptionText(mark, n) = <<Mark(mark), Number(n)>>
      BY <1>2 DEF OptionText
    <2> QED
      BY <1>2, <2>1, NumberReadBack
  <1> QED
    BY <1>1, <1>2

\* The text b is the separator of the period and a duration of this length.
Spells(b, period) ==
    /\ b \in Seq(Token) /\ b # <<>> /\ Opens(b, "@")
    /\ DurationOk(Tail(b)) /\ Duration(Tail(b)) = period

\* DurationReadBack: a number and a unit of time, after the separator.
LEMMA DurationReadBack ==
    ASSUME NEW n \in Nat, NEW unit \in Unit,
           NEW period \in 1..MaxMillis, n * Multiplier(unit) = period
    PROVE  Spells(<<Mark("@"), Number(n), Mark(unit)>>, period)
  <1> DEFINE b == <<Mark("@"), Number(n), Mark(unit)>>
  <1>1. Number(n) \in Token /\ Mark(unit) \in Token
    BY TokenTypes
  <1>2. "@" \in Marks
    BY DEF Marks
  <1>3. /\ b \in Seq(Token) /\ b # <<>> /\ b[1] = Mark("@")
        /\ Tail(b) = <<Number(n), Mark(unit)>>
    BY <1>1, <1>2, Sections
  <1>4. \A m \in Marks : Number(n) # Mark(m) /\ Mark(unit) # Mark(m)
    <2>1. \A m \in Marks : m \in Separator \cup Unit /\ m # unit
      BY DEF Marks, Separator, Unit
    <2> QED
      BY <2>1, TokenTypes
  <1>5. Free(Tail(b), Marks)
    <2>1. DOMAIN Tail(b) = 1..2 /\ Tail(b)[1] = Number(n) /\ Tail(b)[2] = Mark(unit)
      BY <1>3
    <2> QED
      BY <1>4, <2>1 DEF Free
  <1>6. Number(n).type = "number" /\ Number(n).value = n /\ Mark(unit).type = unit
    BY TokenTypes DEF Mark
  <1>7. Len(Tail(b)) = 2 /\ Tail(b)[1] = Number(n) /\ Tail(b)[2] = Mark(unit)
    BY <1>3
  <1>8. Duration(Tail(b)) = period
    BY <1>6, <1>7 DEF Duration
  <1>9. DurationOk(Tail(b))
    BY <1>6, <1>7, <1>8 DEF DurationOk
  <1> QED
    BY <1>3, <1>5, <1>8, <1>9 DEF Opens, Spells

\* PeriodReadBack: the text of the period, which a period of a second lacks.
LEMMA PeriodReadBack ==
    ASSUME NEW period, period = 1000 \/ period \in 1..MaxMillis
    PROVE  LET b == PeriodText(period)
           IN  /\ b \in Seq(Token) /\ Opens(b, "@")
               /\ b # <<>> => DurationOk(Tail(b)) /\ Duration(Tail(b)) = period
               /\ b = <<>> => period = 1000
  <1>1. CASE period = 1000
    BY <1>1 DEF PeriodText, Opens
  <1>2. CASE period # 1000 /\ period % 1000 = 0
    <2>1. period \in 1..MaxMillis /\ MaxMillis \in Nat
      BY <1>2, TaskTextAssumption
    <2> DEFINE n == period \div 1000
    <2>2. n \in Nat /\ n * 1000 = period
      BY <1>2, <2>1
    <2> HIDE DEF n
    <2>3. Multiplier("s") = 1000 /\ "s" \in Unit
      BY DEF Multiplier, Unit
    <2>4. PeriodText(period) = <<Mark("@"), Number(n), Mark("s")>>
      BY <1>2 DEF PeriodText, n
    <2>5. n * Multiplier("s") = period
      BY <2>2, <2>3
    <2>6. Spells(<<Mark("@"), Number(n), Mark("s")>>, period)
      BY <2>1, <2>2, <2>3, <2>5, DurationReadBack
    <2>7. Spells(PeriodText(period), period)
      BY <2>4, <2>6, Zenon
    <2> QED
      BY <2>7 DEF Spells
  <1>3. CASE period # 1000 /\ period % 1000 # 0
    <2>1. period \in 1..MaxMillis /\ MaxMillis \in Nat
      BY <1>3, TaskTextAssumption
    <2>2. Multiplier("ms") = 1 /\ "ms" \in Unit
      BY DEF Multiplier, Unit
    <2>3. period \in Nat /\ period * Multiplier("ms") = period
      BY <2>1, <2>2
    <2>4. PeriodText(period) = <<Mark("@"), Number(period), Mark("ms")>>
      BY <1>3 DEF PeriodText
    <2>5. Spells(<<Mark("@"), Number(period), Mark("ms")>>, period)
      BY <2>1, <2>2, <2>3, DurationReadBack
    <2>6. Spells(PeriodText(period), period)
      BY <2>4, <2>5, Zenon
    <2> QED
      BY <2>6 DEF Spells
  <1> QED
    BY <1>1, <1>2, <1>3

\* SeedText: the text of the seed of the shuffling.
SeedText(seed) == IF seed = <<>> THEN <<>> ELSE <<Mark("~"), Number(seed[1])>>

\* SeedReadBack: the seed, which may be missing and may be 0.
LEMMA SeedReadBack ==
    ASSUME NEW seed, seed = <<>> \/ \E n \in 0..MaxSize : seed = <<n>>
    PROVE  LET b == SeedText(seed)
           IN  /\ b \in Seq(Token) /\ Opens(b, "~")
               /\ b # <<>> => NumberOk(Tail(b)) /\ <<Tail(b)[1].value>> = seed
               /\ b = <<>> => seed = <<>>
  <1>1. CASE seed = <<>>
    BY <1>1 DEF SeedText, Opens
  <1>2. CASE seed # <<>>
    <2>1. PICK n \in 0..MaxSize : seed = <<n>>
      BY <1>2
    <2>2. seed[1] = n
      BY <2>1
    <2>3. SeedText(seed) = <<Mark("~"), Number(n)>>
      BY <1>2, <2>2 DEF SeedText
    <2>4. "~" \in Marks
      BY DEF Marks
    <2> QED
      BY <2>1, <2>3, <2>4, NumberReadBack
  <1> QED
    BY <1>1, <1>2

\* The five parts of a text say what the pattern p holds.
Says(p, a, b, c, d, e) ==
    /\ ItemsOf(a) = p.items /\ ItemsOk(a)
    /\ b # <<>> => DurationOk(Tail(b)) /\ Duration(Tail(b)) = p.period
    /\ b = <<>> => p.period = 1000
    /\ c # <<>> => NumberOk(Tail(c)) /\ Tail(c)[1].value = p.symbols /\ p.symbols # 0
    /\ c = <<>> => p.symbols = 0
    /\ d # <<>> => NumberOk(Tail(d)) /\ Tail(d)[1].value = p.regional /\ p.regional # 0
    /\ d = <<>> => p.regional = 0
    /\ e # <<>> => NumberOk(Tail(e)) /\ <<Tail(e)[1].value>> = p.seed
    /\ e = <<>> => p.seed = <<>>

\* ReadBack: a text in the canonical order is parsed into its parts.
LEMMA ReadBack ==
    ASSUME NEW p, Sound(p), NEW T, NEW a, NEW b, NEW c, NEW d, NEW e,
           Parted(T, a, b, c, d, e), Says(p, a, b, c, d, e)
    PROVE  Parse(T) = p
  <1> DEFINE items == SubSeq(T, 1, Before(T, {"@", "#", "&", "~"}) - 1)
             period == Section(T, "@", {"#", "&", "~"})
             symbols == Section(T, "#", {"&", "~"})
             regional == Section(T, "&", {"~"})
             seed == Section(T, "~", {})
             p1 == IF Has(T, "@") THEN Duration(period) ELSE 1000
             p2 == IF Has(T, "#") THEN symbols[1].value ELSE 0
             p3 == IF Has(T, "&") THEN regional[1].value ELSE 0
             p4 == IF Has(T, "~") THEN <<seed[1].value>> ELSE <<>>
             pattern == [items |-> ItemsOf(items), period |-> p1, symbols |-> p2,
                         regional |-> p3, seed |-> p4]
             valid == /\ Ordered(T)
                      /\ ItemsOk(items)
                      /\ Has(T, "@") => DurationOk(period)
                      /\ Has(T, "#") => NumberOk(symbols) /\ symbols[1].value > 0
                      /\ Has(T, "&") => NumberOk(regional) /\ regional[1].value \in 1..26
                      /\ Has(T, "~") => NumberOk(seed)
                      /\ SymbolCount(pattern) >= Maximum(Quantities(pattern.items))
                      /\ MarketSymbolCount(pattern) <= MaxSize
  <1>1. Parse(T) = IF valid THEN pattern ELSE Error
    BY DEF Parse
  <1>2. items = a
    BY DEF Parted, Marks
  <1>3. /\ Has(T, "@") <=> b # <<>>
        /\ b # <<>> => period = Tail(b)
    BY DEF Parted, Placed
  <1>4. /\ Has(T, "#") <=> c # <<>>
        /\ c # <<>> => symbols = Tail(c)
    BY DEF Parted, Placed
  <1>5. /\ Has(T, "&") <=> d # <<>>
        /\ d # <<>> => regional = Tail(d)
    BY DEF Parted, Placed
  <1>6. /\ Has(T, "~") <=> e # <<>>
        /\ e # <<>> => seed = Tail(e)
    BY DEF Parted, Placed
  <1> HIDE DEF items, period, symbols, regional, seed
  <1>7. p1 = p.period /\ (Has(T, "@") => DurationOk(period))
    BY <1>3, Zenon DEF Says
  <1>8. /\ p2 = p.symbols
        /\ Has(T, "#") => /\ NumberOk(symbols)
                          /\ symbols[1].value = p.symbols /\ p.symbols # 0
    <2>1. c # <<>> => NumberOk(Tail(c)) /\ Tail(c)[1].value = p.symbols /\ p.symbols # 0
      BY DEF Says
    <2>2. c = <<>> => p.symbols = 0
      BY DEF Says
    <2>3. CASE c = <<>>
      BY <1>4, <2>2, <2>3
    <2>4. CASE c # <<>>
      <3>1. Has(T, "#") /\ symbols = Tail(c)
        BY <1>4, <2>4
      <3> QED
        BY <2>1, <2>4, <3>1
    <2> QED
      BY <2>3, <2>4
  <1>9. /\ p3 = p.regional
        /\ Has(T, "&") => /\ NumberOk(regional)
                          /\ regional[1].value = p.regional /\ p.regional # 0
    <2>1. d # <<>> => NumberOk(Tail(d)) /\ Tail(d)[1].value = p.regional /\ p.regional # 0
      BY DEF Says
    <2>2. d = <<>> => p.regional = 0
      BY DEF Says
    <2>3. CASE d = <<>>
      BY <1>5, <2>2, <2>3
    <2>4. CASE d # <<>>
      <3>1. Has(T, "&") /\ regional = Tail(d)
        BY <1>5, <2>4
      <3> QED
        BY <2>1, <2>4, <3>1
    <2> QED
      BY <2>3, <2>4
  <1>10. p4 = p.seed /\ (Has(T, "~") => NumberOk(seed))
    <2>1. e # <<>> => NumberOk(Tail(e)) /\ <<Tail(e)[1].value>> = p.seed
      BY DEF Says
    <2>2. e = <<>> => p.seed = <<>>
      BY DEF Says
    <2>3. CASE e = <<>>
      BY <1>6, <2>2, <2>3
    <2>4. CASE e # <<>>
      <3>1. Has(T, "~") /\ seed = Tail(e)
        BY <1>6, <2>4
      <3> QED
        BY <2>1, <2>4, <3>1
    <2> QED
      BY <2>3, <2>4
  <1>11. ItemsOf(items) = p.items /\ ItemsOk(items)
    BY <1>2, Zenon DEF Says
  <1>12. pattern = p
    <2>1. p = [items |-> p.items, period |-> p.period, symbols |-> p.symbols,
               regional |-> p.regional, seed |-> p.seed]
      BY DEF Sound
    <2> HIDE DEF p1, p2, p3, p4
    <2> QED
      BY <1>7, <1>8, <1>9, <1>10, <1>11, <2>1, Zenon
  <1> HIDE DEF p1, p2, p3, p4, pattern
  <1>13. /\ SymbolCount(pattern) >= Maximum(Quantities(pattern.items))
         /\ MarketSymbolCount(pattern) <= MaxSize
    <2>1. /\ SymbolCount(p) >= Maximum(Quantities(p.items))
          /\ MarketSymbolCount(p) <= MaxSize
      BY DEF Sound
    <2> QED
      BY <1>12, <2>1, Zenon
  <1>14. /\ Has(T, "#") => symbols[1].value > 0
         /\ Has(T, "&") => regional[1].value \in 1..26
    <2>1. p.symbols \in Nat /\ p.regional \in 0..26
      BY TaskTextAssumption DEF Sound
    <2> QED
      BY <1>8, <1>9, <2>1
  <1>15. Ordered(T)
    BY DEF Parted
  <1>16. valid
    BY <1>7, <1>8, <1>9, <1>10, <1>11, <1>13, <1>14, <1>15, Zenon
  <1> HIDE DEF valid
  <1> QED
    BY <1>1, <1>12, <1>16, Zenon

\* SoundRoundTrips: the text of a sound pattern is read back as this pattern.
LEMMA SoundRoundTrips ==
    ASSUME NEW p, Sound(p)
    PROVE  Parse(ToText(p)) = p
  <1> DEFINE a == ItemsText(p.items)
             b == PeriodText(p.period)
             c == OptionText("#", p.symbols)
             d == OptionText("&", p.regional)
             e == SeedText(p.seed)
             T == a \o b \o c \o d \o e
  <1>1. ToText(p) = T
    BY DEF ToText, SeedText
  <1>2. /\ a \in Seq(Token) /\ Free(a, Marks) /\ ItemsOf(a) = p.items /\ ItemsOk(a)
    BY ItemsReadBack DEF Sound
  <1>3. /\ b \in Seq(Token) /\ Opens(b, "@")
        /\ b # <<>> => DurationOk(Tail(b)) /\ Duration(Tail(b)) = p.period
        /\ b = <<>> => p.period = 1000
    <2>1. p.period = 1000 \/ p.period \in 1..MaxMillis
      BY DEF Sound
    <2> QED
      BY <2>1, PeriodReadBack
  <1>4. "#" \in Marks /\ "&" \in Marks
    BY DEF Marks
  <1>5. /\ c \in Seq(Token) /\ Opens(c, "#")
        /\ c # <<>> => NumberOk(Tail(c)) /\ Tail(c)[1].value = p.symbols /\ p.symbols # 0
        /\ c = <<>> => p.symbols = 0
    <2>1. p.symbols \in 0..MaxSize
      BY DEF Sound
    <2> QED
      BY <1>4, <2>1, OptionReadBack
  <1>6. /\ d \in Seq(Token) /\ Opens(d, "&")
        /\ d # <<>> => NumberOk(Tail(d)) /\ Tail(d)[1].value = p.regional /\ p.regional # 0
        /\ d = <<>> => p.regional = 0
    <2>1. p.regional \in 0..MaxSize
      <3>1. p.regional \in 0..26 /\ p.regional <= MaxSize
        BY DEF Sound
      <3> QED
        BY <3>1, TaskTextAssumption
    <2> QED
      BY <1>4, <2>1, OptionReadBack
  <1>7. /\ e \in Seq(Token) /\ Opens(e, "~")
        /\ e # <<>> => NumberOk(Tail(e)) /\ <<Tail(e)[1].value>> = p.seed
        /\ e = <<>> => p.seed = <<>>
    <2>1. p.seed = <<>> \/ \E n \in 0..MaxSize : p.seed = <<n>>
      BY DEF Sound
    <2> QED
      BY <2>1, SeedReadBack
  <1> HIDE DEF a, b, c, d, e
  <1>8. Parted(T, a, b, c, d, e)
    BY <1>2, <1>3, <1>5, <1>6, <1>7, Canonical
  <1> HIDE DEF T
  <1>9. Says(p, a, b, c, d, e)
    BY <1>2, <1>3, <1>5, <1>6, <1>7, Zenon DEF Says
  <1>10. Parse(T) = p
    BY <1>8, <1>9, ReadBack
  <1> QED
    BY <1>1, <1>10

\* EveryTextRoundTrips: whatever a text leaves out or spells in its own way,
\* and in whatever order its tokens come: if parseTask accepts it, server and
\* clients can work with the pattern, and the canonical text gives it again.
THEOREM EveryTextRoundTrips ==
    \A text \in Seq(Token) : RoundTrips(text)
  <1>1. SUFFICES ASSUME NEW text \in Seq(Token), Parse(text) # Error
                 PROVE  /\ WellFormed(Parse(text))
                        /\ Parse(ToText(Parse(text))) = Parse(text)
    BY DEF RoundTrips
  <1>2. Sound(Parse(text))
    BY <1>1, ParsedIsSound
  <1> QED
    BY <1>2, SoundIsWellFormed, SoundRoundTrips

\* InstanceTexts: the texts of the runs are texts.
LEMMA InstanceTexts == Texts \subseteq Seq(Token)
  <1>1. /\ \A n \in Nat : Letter(n) \in Token /\ Number(n) \in Token
        /\ \A mark \in Separator \cup Unit : Mark(mark) \in Token
    BY TokenTypes
  <1>2. \A x \in Token : <<x>> \in Seq(Token)
    OBVIOUS
  <1>3. \A x, y \in Token : <<x, y>> \in Seq(Token)
    OBVIOUS
  <1>4. <<>> \in Seq(Token)
    OBVIOUS
  <1>5. \A k, n \in Nat : Item(k, n) \in Seq(Token)
    BY <1>1, <1>3 DEF Item
  <1>6. Mark(";") \in Token
    BY <1>1 DEF Separator
  <1>7. \A s \in Seq(Token), x \in Token : Append(s, x) \in Seq(Token)
    OBVIOUS
  <1>8. \A s, t \in Seq(Token) : s \o t \in Seq(Token)
    BY Joined
  <1>9. \A S, T \in SUBSET Seq(Token) : Concat(S, T) \in SUBSET Seq(Token)
    BY <1>8 DEF Concat
  <1>10. Items \in SUBSET Seq(Token)
    <2> DEFINE first == Append(Item(1, 2), Mark(";"))
               A == { Item(k, n) : k \in {1, 2}, n \in {1, 58, 60} }
               B == {<<>>, <<Letter(1)>>, Item(1, 0), Item(1, 2), first,
                     Item(1, 2) \o Item(2, 1)}
    <2>1. /\ <<Letter(1)>> \in Seq(Token) /\ Item(1, 0) \in Seq(Token)
          /\ Item(1, 2) \in Seq(Token) /\ Item(2, 1) \in Seq(Token)
      BY <1>1, <1>2, <1>5
    <2>2. first \in Seq(Token) /\ Item(1, 2) \o Item(2, 1) \in Seq(Token)
      BY <1>6, <1>7, <1>8, <2>1
    <2>3. A \in SUBSET Seq(Token)
      <3>1. \A Q : (\A k, n \in Nat : Item(k, n) \in Q) => A \in SUBSET Q
        OBVIOUS
      <3> HIDE DEF A
      <3> QED
        BY <1>5, <3>1, Zenon
    <2> HIDE DEF first, A
    <2>4. B \in SUBSET Seq(Token) /\ {first} \in SUBSET Seq(Token)
      BY <1>4, <2>1, <2>2
    <2>5. Concat({first}, A) \in SUBSET Seq(Token)
      BY <1>9, <2>3, <2>4
    <2>6. Items = B \cup Concat({first}, A)
      BY DEF Items, first, A
    <2> HIDE DEF B
    <2> QED
      BY <2>4, <2>5, <2>6
  <1>11. ASSUME NEW mark \in Separator, NEW S \in SUBSET Seq(Token)
         PROVE  With(mark, S) \in SUBSET Seq(Token)
    <2>1. {<<Mark(mark)>>} \in SUBSET Seq(Token)
      BY <1>1, <1>2
    <2> QED
      BY <1>9, <2>1 DEF With
  <1>12. /\ \A S \in SUBSET Nat : Numbers(S) \in SUBSET Seq(Token)
         /\ \A S \in SUBSET Nat : \A unit \in Unit :
              Times(S, unit) \in SUBSET Seq(Token)
    BY <1>1, <1>2, <1>3 DEF Numbers, Times
  <1>13. Periods \in SUBSET Seq(Token)
    <2> DEFINE zero == Numbers({0})
               short == Times({2, 1000}, "ms")
               long == Times({1, 2}, "h")
               S == {<<>>} \cup zero \cup short \cup long
    <2>1. /\ zero \in SUBSET Seq(Token) /\ short \in SUBSET Seq(Token)
          /\ long \in SUBSET Seq(Token)
      BY <1>12 DEF Unit
    <2>2. Periods = With("@", S) /\ "@" \in Separator
      BY DEF Periods, Separator
    <2> HIDE DEF zero, short, long
    <2>3. S \in SUBSET Seq(Token)
      BY <1>4, <2>1
    <2> HIDE DEF S
    <2> QED
      BY <1>11, <2>2, <2>3
  <1>14. Universes \in SUBSET Seq(Token)
    <2>1. Numbers({0, 1, 2}) \in SUBSET Seq(Token)
      BY <1>12
    <2> QED
      BY <1>4, <1>11, <2>1 DEF Universes, Separator
  <1>15. Regions \in SUBSET Seq(Token)
    <2>1. Numbers({1, 26, 27}) \in SUBSET Seq(Token)
      BY <1>12
    <2> QED
      BY <1>11, <2>1 DEF Regions, Separator
  <1>16. Seeds \in SUBSET Seq(Token)
    <2>1. Numbers({0, 7}) \in SUBSET Seq(Token)
      BY <1>12
    <2> QED
      BY <1>4, <1>11, <2>1 DEF Seeds, Separator
  <1>17. AnySection \in SUBSET Seq(Token)
    BY <1>4, <1>13, <1>14, <1>15, <1>16 DEF AnySection
  <1>18. Concat(Concat(Concat(Items, AnySection), AnySection), AnySection)
           \in SUBSET Seq(Token)
    BY <1>9, <1>10, <1>17
  <1>19. Concat(Concat(Concat(Concat(Items, Periods), Universes), Regions), Seeds)
           \in SUBSET Seq(Token)
    BY <1>9, <1>10, <1>13, <1>14, <1>15, <1>16
  <1> QED
    BY <1>18, <1>19 DEF Texts

\* The texts that the runs enumerate are an instance of all texts.
THEOREM TaskTextsRoundTrip == Spec => []TaskTextRoundTrip
  <1>1. TaskTextRoundTrip
    BY EveryTextRoundTrips, InstanceTexts DEF TaskTextRoundTrip, TextsRoundTrip
  <1> QED
    BY <1>1, PTL
=============================================================================
