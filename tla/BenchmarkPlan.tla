---------------------------- MODULE BenchmarkPlan ----------------------------
(***************************************************************************)
(* The order of the runs of a benchmark suite: buildBenchmarkPlan of       *)
(* src/runner.cpp.  Every repetition runs all profiles, and each starts    *)
(* one profile later than the repetition before it.                        *)
(***************************************************************************)
EXTENDS Integers, Sequences

CONSTANTS
    Profile,       \* profile records: a name and what the runs depend on
    Profiles,      \* BenchmarkSuite::profiles
    Repetitions    \* BenchmarkSuite::repetitions

\* parseBenchmarkSuite demands a profile and a repetition.  It accepts two
\* profiles of one name, whose runs would share their files: not modelled.
ASSUME BenchmarkPlanAssumption ==
    /\ Profiles \in Seq(Profile) /\ Len(Profiles) > 0
    /\ Repetitions \in Nat \ {0}
    /\ \A i, j \in 1 .. Len(Profiles) :
         Profiles[i].name = Profiles[j].name => i = j

\* Fault: the rotation starts over with every repetition.
UnrotatedIndex(n, repetition, position) == position

\* The profile, counted from zero, that a repetition runs at a position when
\* there are n of them.
ProfileIndex(n, repetition, position) == (position + repetition - 1) % n

PlanLength == Repetitions * Len(Profiles)

\* The run list, repetition by repetition.
Plan ==
    LET n == Len(Profiles)
    IN  [k \in 1 .. PlanLength |->
            LET repetition == (k - 1) \div n + 1
                position == (k - 1) % n
            IN  [profile |-> Profiles[ProfileIndex(n, repetition, position) + 1],
                 repetition |-> repetition]]

\* The prefix of the names of a run's files.
Prefix(run) == <<run.profile.name, run.repetition>>

-----------------------------------------------------------------------------
(* Properties.                                                             *)

\* Every repetition r runs each of n profiles exactly once.
EveryProfileOnce(n, r) ==
    \A q \in 0 .. n - 1 : \E p \in 0 .. n - 1 :
        /\ ProfileIndex(n, r, p) = q
        /\ \A other \in 0 .. n - 1 : ProfileIndex(n, r, other) = q => other = p

\* Within n repetitions no profile runs twice at one position, so a drift of
\* the host meets every profile alike.
PositionsRotate(n, r, s) ==
    r # s /\ r - s < n /\ s - r < n =>
        \A p \in 0 .. n - 1 : ProfileIndex(n, r, p) # ProfileIndex(n, s, p)

\* The plan "rotates profile order between repetitions" (runner.hpp): for up
\* to this many profiles and repetitions.
BalancedUpTo(bound) ==
    \A n, r \in 1 .. bound :
        /\ EveryProfileOnce(n, r)
        /\ \A s \in 1 .. bound : PositionsRotate(n, r, s)
=============================================================================
