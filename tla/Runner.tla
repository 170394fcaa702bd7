------------------------------- MODULE Runner --------------------------------
(***************************************************************************)
(* The benchmark runner of src/runner.cpp: for every run of the plan it    *)
(* starts a server, waits until it listens, runs a client, stops the       *)
(* server, sorts the client's files and records the run in the manifest;   *)
(* at the end it runs the analyzer.  SIGINT and SIGTERM may come at any    *)
(* time and only set a flag.                                               *)
(*                                                                         *)
(* The runner is one thread; the children run beside it.  They fail, hang  *)
(* or ignore SIGTERM as they like, and stop only of their own accord or by *)
(* SIGKILL.                                                                *)
(***************************************************************************)
EXTENDS BenchmarkPlan, FiniteSets

CONSTANT Attempts    \* polls terminate() grants after SIGTERM: 20 in the code

ASSUME RunnerAssumption == Attempts \in Nat

VARIABLES
    interrupted,   \* the flag of the signal handler
    pc,            \* where runBenchmarkSuite is
    index,         \* the current run, from one
    process,       \* the ChildProcess objects and their processes
    listening,     \* the server's log has the "listening" line
    job,           \* what runAndWait runs: "client" or "analyzer"
    stopping,      \* terminate(): its process and its step
    attempt,       \* polls it made
    clientExit,    \* clientExit of the current run
    status,        \* status of the current run
    files,         \* result files under their final names, by prefix
    partial,       \* result files with the .partial.csv suffix, by prefix
    manifest,      \* rows of run-manifest.csv
    analyzed,      \* the files the analyzer read
    failed,        \* failed
    exitCode       \* of the runner

children == <<process, listening>>
terminating == <<stopping, attempt>>
current == <<job, clientExit, status>>
results == <<files, partial>>
outcome == <<manifest, analyzed, failed, exitCode>>
vars == <<interrupted, pc, index, children, terminating, current, results,
          outcome>>

-----------------------------------------------------------------------------
(* Child processes.                                                        *)

NoCode == -1
Code == {NoCode, 0, 1, 130}

\* A process is owned (process_ >= 0) until it is reaped; exit is exitCode_.
NoProcess == [os |-> "none", owned |-> FALSE, code |-> NoCode, exit |-> NoCode,
              killed |-> FALSE]
Started == [NoProcess EXCEPT !.os = "alive", !.owned = TRUE]

\* waitpid on a process that has exited.
Reap(p) == [p EXCEPT !.os = "reaped", !.owned = FALSE, !.exit = p.code]

\* running(): one poll, which reaps a process that has exited.
Running(p) == p.owned /\ p.os = "alive"
Polled(p) == IF p.owned /\ p.os = "zombie" THEN Reap(p) ELSE p

\* wait() returns when the process has exited, at once if it was reaped.
CanWait(p) == p.os # "alive"

\* A process exits.
Exit(who, code) ==
    /\ process[who].os = "alive"
    /\ process' = [process EXCEPT ![who].os = "zombie", ![who].code = code]

run == Plan[index]
prefix == Prefix(run)

-----------------------------------------------------------------------------
(* The children.                                                           *)

\* The files the analyzer knows by their suffix; a summary stands for all
\* files the correlating client opens with it.
Name == {"summary", "delivery", "time-series", "snapshot-overlap"}

\* What a client writes, in this order: the correlating client opens its
\* files when it starts to report and writes the time series at the end; the
\* delivery clients write one file at the end.
Outputs(profile) ==
    IF profile.client # "graal" THEN <<"delivery">>
    ELSE IF profile.series = "none" THEN <<"summary">>
    ELSE IF profile.series = "prefill" THEN <<"summary", "time-series">>
    ELSE <<"summary", "snapshot-overlap", "time-series">>

Written == { i \in 1 .. Len(Outputs(run.profile)) :
                 Outputs(run.profile)[i] \in files[prefix] }

ClientWrites ==
    /\ job = "client"
    /\ process["child"].os = "alive"
    /\ LET next == Cardinality(Written) + 1
       IN  /\ next <= Len(Outputs(run.profile))
           /\ files' = [files EXCEPT
                  ![prefix] = @ \cup {Outputs(run.profile)[next]}]
    /\ UNCHANGED <<interrupted, pc, index, children, terminating, current,
                   partial, outcome>>

\* It returns 0 only with its files written, 130 after a signal of its own.
ClientExits ==
    /\ job = "client"
    /\ process["child"].os = "alive"
    /\ \E code \in {0, 1, 130} :
         /\ code = 0 => Cardinality(Written) = Len(Outputs(run.profile))
         /\ Exit("child", code)
    /\ UNCHANGED <<interrupted, pc, index, listening, terminating, current,
                   results, outcome>>

ServerListens ==
    /\ process["server"].os = "alive"
    /\ ~listening
    /\ listening' = TRUE
    /\ UNCHANGED <<interrupted, pc, index, process, terminating, current,
                   results, outcome>>

\* It may fail at any time.
ServerExits ==
    /\ \E code \in {0, 1} : Exit("server", code)
    /\ UNCHANGED <<interrupted, pc, index, listening, terminating, current,
                   results, outcome>>

\* The analyzer takes every file whose name ends in a suffix it knows.
AnalyzerReads ==
    /\ job = "analyzer"
    /\ process["child"].os = "alive"
    /\ analyzed = {}
    /\ analyzed' = { a \in (DOMAIN files) \X Name : a[2] \in files[a[1]] }
    /\ UNCHANGED <<interrupted, pc, index, children, terminating, current,
                   results, manifest, failed, exitCode>>

\* It succeeds only if it read its input.
AnalyzerExits ==
    /\ job = "analyzer"
    /\ \E code \in {0, 1} :
         /\ code = 0 => analyzed # {}
         /\ Exit("child", code)
    /\ UNCHANGED <<interrupted, pc, index, listening, terminating, current,
                   results, outcome>>

\* A killed process does not go on.
KilledExits ==
    /\ \E who \in DOMAIN process : process[who].killed /\ Exit(who, 1)
    /\ UNCHANGED <<interrupted, pc, index, listening, terminating, current,
                   results, outcome>>

\* SIGINT or SIGTERM.
Signal ==
    /\ pc \notin {"setup", "done"}
    /\ ~interrupted
    /\ interrupted' = TRUE
    /\ UNCHANGED <<pc, index, children, terminating, current, results, outcome>>

-----------------------------------------------------------------------------
(* terminate(): SIGTERM, a few polls, SIGKILL, wait.                       *)

\* The next step of terminate().
Step(step) == stopping' = [stopping EXCEPT !.step = step]

\* A call of terminate() on a process.
Terminate(who) ==
    /\ stopping' = [who |-> who, step |-> "ask"]
    /\ attempt' = 0

Idle == [who |-> "server", step |-> "idle"]

\* running() decides whether there is anything to signal.
Ask ==
    /\ stopping.step = "ask"
    /\ LET p == process[stopping.who]
       IN  /\ Step(IF Running(p) THEN "term" ELSE "wait")
           /\ process' = [process EXCEPT ![stopping.who] = Polled(p)]
    /\ UNCHANGED <<interrupted, pc, index, listening, attempt, current, results,
                   outcome>>

\* kill(-process_, SIGTERM): what follows is up to the process.
Term ==
    /\ stopping.step = "term"
    /\ Step("poll")
    /\ UNCHANGED <<interrupted, pc, index, children, attempt, current, results,
                   outcome>>

\* Up to Attempts polls while it is running.
PollsLeft == attempt < Attempts

Poll ==
    /\ stopping.step = "poll"
    /\ PollsLeft
    /\ LET p == process[stopping.who]
       IN  /\ attempt' = IF Running(p) THEN attempt + 1 ELSE attempt
           /\ Step(IF Running(p) THEN "poll" ELSE "wait")
           /\ process' = [process EXCEPT ![stopping.who] = Polled(p)]
    /\ UNCHANGED <<interrupted, pc, index, listening, current, results, outcome>>

\* Fault: SIGKILL goes out without a last poll of the process.
KillsAnyway(p) == TRUE

\* Whether SIGKILL follows after the last attempt.
Kills(p) == Running(p)

\* The polls are used up.
LastPoll ==
    /\ stopping.step = "poll"
    /\ ~PollsLeft
    /\ LET p == process[stopping.who]
       IN  /\ Step(IF Kills(p) THEN "kill" ELSE "wait")
           /\ process' = [process EXCEPT ![stopping.who] = Polled(p)]
    /\ UNCHANGED <<interrupted, pc, index, listening, attempt, current, results,
                   outcome>>

\* kill(-process_, SIGKILL)
Kill ==
    /\ stopping.step = "kill"
    /\ Step("wait")
    /\ process' = [process EXCEPT ![stopping.who].killed = TRUE]
    /\ UNCHANGED <<interrupted, pc, index, listening, attempt, current, results,
                   outcome>>

\* Fault: the last waitpid does not block.
AbandonedAfter(p) == TRUE

\* terminate() ends when an owned process was waited for.
TerminateEnds(p) == CanWait(p)

Waited ==
    /\ stopping.step = "wait"
    /\ TerminateEnds(process[stopping.who])
    /\ process' = [process EXCEPT ![stopping.who] = Polled(@)]
    /\ stopping' = Idle
    /\ UNCHANGED <<interrupted, pc, index, listening, attempt, current, results,
                   outcome>>

-----------------------------------------------------------------------------
(* runAndWait: the client of a run, or the analyzer.                       *)

Busy == stopping # Idle

\* Creating the log or fork() may fail; a started child is polled.
RunAndWait(what, afterFailure) ==
    /\ job' = what
    /\ \/ /\ process' = [process EXCEPT !["child"] = Started]
          /\ pc' = "running"
       \/ /\ process' = [process EXCEPT !["child"] = NoProcess]
          /\ pc' = afterFailure

\* Fault: signals do not end the wait for a child.
PatientlyWaits(p) == Running(p)

\* while (!interrupted && process->running())
Waits(p) == ~interrupted /\ Running(p)

\* The loop ends; with the flag up the process is not polled any more.
StopWaiting ==
    /\ pc = "running"
    /\ ~Busy
    /\ ~Waits(process["child"])
    /\ process' = [process EXCEPT
           !["child"] = IF interrupted THEN @ ELSE Polled(@)]
    /\ pc' = "returning"
    /\ UNCHANGED <<interrupted, index, listening, terminating, current, results,
                   outcome>>

\* The flag is read again: a child that has just succeeded counts as
\* interrupted, too.
Return ==
    /\ pc = "returning"
    /\ IF interrupted
       THEN /\ Terminate("child")
            /\ pc' = "interrupted"
            /\ UNCHANGED process
       ELSE /\ CanWait(process["child"])
            /\ process' = [process EXCEPT !["child"] = Polled(@)]
            /\ pc' = "returned"
            /\ UNCHANGED terminating
    /\ UNCHANGED <<interrupted, index, listening, current, results, outcome>>

\* The result of runAndWait.
Result == IF pc = "interrupted" THEN 130 ELSE process["child"].exit

HasReturned(what) ==
    /\ pc \in {"interrupted", "returned"}
    /\ job = what
    /\ ~Busy

-----------------------------------------------------------------------------
(* runBenchmarkSuite.                                                      *)

\* The result directory cannot be created, or it can.
Setup ==
    /\ pc = "setup"
    /\ \/ pc' = "next" /\ UNCHANGED exitCode
       \/ pc' = "done" /\ exitCode' = 1
    /\ UNCHANGED <<interrupted, index, children, terminating, current, results,
                   manifest, analyzed, failed>>

\* Fault: the first failed run ends the suite.
PlanLeftWhilePassing == index <= PlanLength /\ ~interrupted /\ ~failed

\* The condition of the loop over the plan.
PlanLeft == index <= PlanLength /\ ~interrupted

\* A run begins with its server, whose log starts empty.
StartServer ==
    /\ pc = "next"
    /\ PlanLeft
    /\ status' = "failed"
    /\ clientExit' = NoCode
    /\ listening' = FALSE
    /\ \/ /\ process' = [process EXCEPT !["server"] = Started]
          /\ pc' = "ready"
       \/ /\ process' = [process EXCEPT !["server"] = NoProcess]
          /\ pc' = "record"
    /\ UNCHANGED <<interrupted, index, terminating, job, results, outcome>>

\* waitForText gives up: a signal, thirty seconds, or an early exit.
ServerNotReady ==
    /\ pc = "ready"
    /\ process' = [process EXCEPT !["server"] = Polled(@)]
    /\ pc' = "stop"
    /\ UNCHANGED <<interrupted, index, listening, terminating, current, results,
                   outcome>>

\* waitForText sees the line while the server runs; the client starts.
StartClient ==
    /\ pc = "ready"
    /\ listening
    /\ Running(process["server"])
    /\ RunAndWait("client", "stop")
    /\ UNCHANGED <<interrupted, index, listening, terminating, clientExit,
                   status, results, outcome>>

\* Fault: a result file is enough.
PassesWithFile(code) == TRUE

\* The exit code that lets a client pass.
Passes(code) == code = 0

ResultFile(profile) == IF profile.client = "graal" THEN "summary" ELSE "delivery"

\* The run passed if the client returned zero and left its result file; the
\* wait for the server's summary that follows changes nothing.
ClientDone ==
    /\ HasReturned("client")
    /\ clientExit' = Result
    /\ status' = IF Passes(Result) /\ ResultFile(run.profile) \in files[prefix]
                 THEN "passed" ELSE "failed"
    /\ pc' = "stop"
    /\ UNCHANGED <<interrupted, index, children, terminating, job, results,
                   outcome>>

StopServer ==
    /\ pc = "stop"
    /\ Terminate("server")
    /\ pc' = "record"
    /\ UNCHANGED <<interrupted, index, children, current, results, outcome>>

\* Fault: a failed run keeps its files.
RenamedNone(names) == {}

\* makePartial renames these files.
Renamed(names) == names \cap {"summary", "delivery"}

\* The run goes into the manifest, after its files were sorted.
Record ==
    /\ pc = "record"
    /\ ~Busy
    /\ LET moved == IF status = "passed" THEN {} ELSE Renamed(files[prefix])
       IN  /\ files' = [files EXCEPT ![prefix] = @ \ moved]
           /\ partial' = [partial EXCEPT ![prefix] = @ \cup moved]
    /\ failed' = (failed \/ status # "passed")
    /\ manifest' = Append(manifest, [run |-> run, status |-> status,
                                     exit |-> clientExit])
    /\ index' = index + 1
    /\ pc' = "next"
    /\ UNCHANGED <<interrupted, children, terminating, current, analyzed,
                   exitCode>>

\* Fault: an interrupted suite is not a failed one.
FailedRunsOnly == failed

\* if (interrupted) failed = true;
FailedSoFar == failed \/ interrupted

\* The loop over the plan ends.
PlanEnds ==
    /\ pc = "next"
    /\ ~PlanLeft
    /\ failed' = FailedSoFar
    /\ pc' = "collect"
    /\ UNCHANGED <<interrupted, index, children, terminating, current, results,
                   manifest, analyzed, exitCode>>

HasResult == \E x \in DOMAIN files : {"summary", "delivery"} \cap files[x] # {}

\* An interrupted suite is not analyzed; the flag is read a second time.
SkipAnalysis ==
    /\ pc = "collect"
    /\ interrupted \/ ~HasResult
    /\ failed' = (failed \/ ~interrupted)
    /\ exitCode' = IF failed' THEN 1 ELSE 0
    /\ pc' = "done"
    /\ UNCHANGED <<interrupted, index, children, terminating, current, results,
                   manifest, analyzed>>

StartAnalyzer ==
    /\ pc = "collect"
    /\ ~interrupted /\ HasResult
    /\ RunAndWait("analyzer", "noAnalyzer")
    /\ UNCHANGED <<interrupted, index, listening, terminating, clientExit,
                   status, results, outcome>>

\* The analyzer could not be started, or it has returned.
AnalyzerDone ==
    /\ pc = "noAnalyzer" \/ HasReturned("analyzer")
    /\ failed' = (failed \/ pc = "noAnalyzer" \/ Result # 0)
    /\ exitCode' = IF failed' THEN 1 ELSE 0
    /\ pc' = "done"
    /\ UNCHANGED <<interrupted, index, children, terminating, current, results,
                   manifest, analyzed>>

-----------------------------------------------------------------------------
Prefixes == { Prefix(Plan[k]) : k \in 1 .. PlanLength }

Init ==
    /\ interrupted = FALSE
    /\ pc = "setup"
    /\ index = 1
    /\ process = [who \in {"server", "child"} |-> NoProcess]
    /\ listening = FALSE
    /\ job = "client"
    /\ stopping = Idle
    /\ attempt = 0
    /\ clientExit = NoCode
    /\ status = "failed"
    /\ files = [x \in Prefixes |-> {}]
    /\ partial = [x \in Prefixes |-> {}]
    /\ manifest = <<>>
    /\ analyzed = {}
    /\ failed = FALSE
    /\ exitCode = NoCode

\* The runner has returned.
Finished == pc = "done" /\ UNCHANGED vars

Stopping == Ask \/ Term \/ Poll \/ LastPoll \/ Kill \/ Waited

Suite ==
    \/ Setup \/ StartServer \/ ServerNotReady \/ StartClient
    \/ ClientDone \/ StopServer \/ Record \/ PlanEnds
    \/ SkipAnalysis \/ StartAnalyzer \/ AnalyzerDone

Main == Stopping \/ StopWaiting \/ Return \/ Suite

Children ==
    \/ ClientWrites \/ ClientExits \/ ServerListens \/ ServerExits
    \/ AnalyzerReads \/ AnalyzerExits

Next == Main \/ Children \/ KilledExits \/ Signal \/ Finished

Spec == Init /\ [][Next]_vars

\* The runner's thread goes on and SIGKILL works; children promise nothing.
FairSpec == Spec /\ WF_vars(Main) /\ WF_vars(KilledExits)

-----------------------------------------------------------------------------
(* Properties.                                                             *)

ProcessRecord == [os : {"none", "alive", "zombie", "reaped"}, owned : BOOLEAN,
                  code : Code, exit : Code, killed : BOOLEAN]

\* Types.
TypeOK ==
    /\ interrupted \in BOOLEAN /\ failed \in BOOLEAN /\ listening \in BOOLEAN
    /\ pc \in {"setup", "next", "ready", "running", "returning", "interrupted",
               "returned", "stop", "record", "collect", "noAnalyzer", "done"}
    /\ index \in 1 .. PlanLength + 1
    /\ process \in [{"server", "child"} -> ProcessRecord]
    /\ job \in {"client", "analyzer"}
    /\ stopping \in [who : {"server", "child"},
                     step : {"idle", "ask", "term", "poll", "kill", "wait"}]
    /\ attempt \in 0 .. Attempts
    /\ {clientExit, exitCode} \subseteq Code
    /\ status \in {"passed", "failed"}
    /\ files \in [Prefixes -> SUBSET Name] /\ partial \in [Prefixes -> SUBSET Name]
    /\ manifest \in Seq([run : {Plan[k] : k \in 1 .. PlanLength},
                         status : {"passed", "failed"}, exit : Code])
    /\ analyzed \subseteq Prefixes \X Name

\* Alive, or dead and still an entry of the process table.
Exists(who) == process[who].os \in {"alive", "zombie"}

\* No process outlives its run: between two runs and after the last, however
\* the run ended, neither a server that holds the port nor a client is left.
NoProcessLeft ==
    pc \in {"setup", "next", "collect", "noAnalyzer", "done"} =>
        ~Exists("server") /\ ~Exists("child")

\* SIGTERM and SIGKILL go to a process group that still exists: after
\* waitpid the number could belong to a stranger.
SignalsOwnChild == stopping.step \in {"term", "kill"} => Exists(stopping.who)

\* The files agree with the manifest: a run is passed if and only if its main
\* result is there under its final name, and no client is alive to change it.
ManifestAgrees ==
    \A k \in 1 .. Len(manifest) :
        LET row == manifest[k]
            main == {"summary", "delivery"} \cap files[Prefix(row.run)]
        IN  /\ row.run = Plan[k]
            /\ row.status = "passed" <=> main # {}
            /\ row.status = "passed" =>
                 row.exit = 0 /\ partial[Prefix(row.run)] = {}

\* The analyzer compares the main results of the passed runs, all and only.
AnalyzedArePassed ==
    analyzed # {} =>
        { a[1] : a \in { b \in analyzed : b[2] \in {"summary", "delivery"} } } =
        { Prefix(manifest[k].run) :
              k \in { i \in 1 .. Len(manifest) : manifest[i].status = "passed" } }

\* Exit code zero means that every run of the plan passed and, unless a
\* signal came, that the results were analyzed.
ZeroMeansPassed ==
    exitCode = 0 =>
        /\ Len(manifest) = PlanLength
        /\ \A k \in 1 .. PlanLength : manifest[k].status = "passed"
        /\ analyzed # {} \/ interrupted

\* README: "the remaining profiles still run": a failed run stops nothing.
AllRunsRecorded ==
    pc = "collect" /\ ~interrupted => Len(manifest) = PlanLength

\* RotationBalanced: runner.hpp's "rotates profile order between repetitions",
\* for up to two profiles and repetitions more than runs have begun (a bound
\* that grows with the behaviour, so that TLC tries several sizes).
RotationBalanced == BalancedUpTo(index + 2)

\* A signal ends the suite, whatever the children do.
InterruptEnds == interrupted ~> (pc = "done")

\* runner.cpp: makePartial "renames incomplete client CSV files so the
\* analyzer ignores them".
PartialIgnored ==
    \A a \in analyzed : \A k \in 1 .. Len(manifest) :
        Prefix(manifest[k].run) = a[1] => manifest[k].status = "passed"

\* runner.hpp: runBenchmarkSuite "executes a complete benchmark suite and
\* invokes the result analyzer" and returns "zero on success".
ZeroMeansAnalyzed == exitCode = 0 => analyzed # {}
=============================================================================
