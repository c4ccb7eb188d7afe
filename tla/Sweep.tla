------------------------------- MODULE Sweep --------------------------------
(***************************************************************************)
(* The benchmark's servers: the sweeps of src/tools/httpbench/src/sweep.rs *)
(* with the child processes of servers.rs.                                 *)
(*                                                                         *)
(* For each engine the sweep starts a server on the engine's port for each *)
(* of its two sweeps, waits until it answers, measures, asks it to stop    *)
(* and kills it when it does not.  Any error ends the program; dropping    *)
(* the ServerProcess kills the child.  Measuring a point is one step here  *)
(* and takes two load runs in Bench.  A sample is the engine and the point *)
(* it belongs to.  After the last sweep come the summary, results.csv and  *)
(* the charts.                                                             *)
(***************************************************************************)
EXTENDS Naturals, Sequences

CONSTANTS Engines,    \* ENGINES: how many engines, each on a port of its own
          Points,     \* measured points of a sweep: each list has a value
          MaxPolls,   \* turns of the loop in `stop', 40 in the code
          MaxProbes   \* readiness probes that fit into the 20 seconds

ASSUME ConstantsAssumption ==
    /\ Engines \in Nat \ {0} /\ Points \in Nat \ {0}
    /\ MaxPolls \in Nat /\ MaxProbes \in Nat

\* The servers in the order they are started, and the port of each.
Servers == 1..(2 * Engines)
Port(i) == (i + 1) \div 2

VARIABLES
    pc,        \* where `run' is
    cur,       \* the server it has started last
    child,     \* each child process
    points,    \* points measured in this sweep
    tries,     \* probes sent, or polls of `try_wait'
    answered,  \* history: which server answered the probe
    result,    \* what the program ends with
    concurrency, size,  \* the samples of each kind of sweep
    charts     \* charts rendered

reportVars == <<concurrency, size, charts>>
vars == <<pc, cur, child, points, tries, answered, result, reportVars>>

Charts == 6    \* of write_charts

Init ==
    /\ pc = "spawn" /\ cur = 1
    /\ child = [i \in Servers |-> "none"]
    /\ points = 0 /\ tries = 0
    /\ answered = 0 /\ result = "running"
    /\ concurrency = <<>> /\ size = <<>> /\ charts = 0

Bound(i) == child[i] \in {"listening", "stopping"}
Live(i) == child[i] = "starting" \/ Bound(i)

-----------------------------------------------------------------------------
(* The child processes.                                                    *)

\* `serve' binds its port; that fails when the port is taken.
Listen(i) ==
    /\ child[i] = "starting"
    /\ \A j \in Servers \ {i} : Port(j) = Port(i) => ~Bound(j)
    /\ child' = [child EXCEPT ![i] = "listening"]
    /\ UNCHANGED <<pc, cur, points, tries, answered, result, reportVars>>

\* It cannot start, it crashes, or it has been stopped and returns.
Exit(i) ==
    /\ Live(i)
    /\ child' = [child EXCEPT ![i] = "exited"]
    /\ UNCHANGED <<pc, cur, points, tries, answered, result, reportVars>>

-----------------------------------------------------------------------------
(* ServerProcess::spawn.                                                   *)

Spawn ==
    /\ pc = "spawn"
    /\ child' = [child EXCEPT ![cur] = "starting"]
    /\ pc' = "open"
    /\ UNCHANGED <<cur, points, tries, answered, result, reportVars>>

\* No port for the engine, or no process: the error ends the program.
SpawnFails ==
    /\ pc = "spawn"
    /\ pc' = "end" /\ result' = "err"
    /\ UNCHANGED <<cur, child, points, tries, answered, reportVars>>

Open ==
    /\ pc = "open"
    /\ pc' = "probe" /\ tries' = 0
    /\ UNCHANGED <<cur, child, points, answered, result, reportVars>>

\* ProcessCpu::open fails before there is a ServerProcess to drop: the Child
\* goes out of scope and the process runs on.
OpenFails ==
    /\ pc = "open"
    /\ pc' = "end" /\ result' = "no_handle"
    /\ UNCHANGED <<cur, child, points, tries, answered, reportVars>>

\* wait_until_ready: a server on the port answers.
Ready ==
    /\ pc = "probe" /\ tries < MaxProbes
    /\ \E i \in Servers : Port(i) = Port(cur) /\ Bound(i) /\ answered' = i
    /\ pc' = "measure" /\ points' = 0
    /\ UNCHANGED <<cur, child, tries, result, reportVars>>

NotReady ==
    /\ pc = "probe" /\ tries < MaxProbes
    /\ tries' = tries + 1
    /\ UNCHANGED <<pc, cur, child, points, answered, result, reportVars>>

\* The server does not answer in time.  From here on the child has an owner,
\* and an error drops it.
GivesUp ==
    /\ pc = "probe" /\ tries = MaxProbes
    /\ pc' = "drop" /\ result' = "err"
    /\ UNCHANGED <<cur, child, points, tries, answered, reportVars>>

-----------------------------------------------------------------------------
(* The sweep and ServerProcess::stop.                                      *)

\* One point: warmup, snapshot, load run, snapshot.
Measure ==
    /\ pc = "measure" /\ points < Points
    /\ points' = points + 1
    /\ UNCHANGED <<pc, cur, child, tries, answered, result, reportVars>>

\* ProcessCpu::snapshot fails.
SnapshotFails ==
    /\ pc = "measure" /\ points < Points
    /\ pc' = "drop" /\ result' = "err"
    /\ UNCHANGED <<cur, child, points, tries, answered, reportVars>>

\* All points are measured: `stop' asks the server on the shutdown path.  The
\* request may get no answer; it is not repeated.
Ask ==
    /\ pc = "measure" /\ points = Points
    /\ \/ /\ child[cur] = "listening"
          /\ child' = [child EXCEPT ![cur] = "stopping"]
       \/ UNCHANGED child
    /\ pc' = "poll" /\ tries' = 0
    /\ UNCHANGED <<cur, points, answered, result, reportVars>>

\* Mutant: the server is given its time and then left alone.
PollOnly ==
    /\ pc = "poll"
    /\ pc' = "next"
    /\ UNCHANGED <<cur, child, points, tries, answered, result, reportVars>>

\* Mutant: the loop has no end.
PollForever ==
    /\ pc = "poll"
    /\ IF child[cur] = "exited" THEN pc' = "drop" ELSE UNCHANGED pc
    /\ UNCHANGED <<cur, child, points, tries, answered, result, reportVars>>

\* try_wait: gone, or one more turn; after the last one, or on an error, the
\* child is killed.
Poll ==
    /\ pc = "poll"
    /\ IF child[cur] = "exited" THEN pc' = "drop" /\ UNCHANGED tries
       ELSE \/ tries < MaxPolls /\ tries' = tries + 1 /\ UNCHANGED pc
            \/ tries = MaxPolls /\ pc' = "kill" /\ UNCHANGED tries
            \/ pc' = "kill" /\ UNCHANGED tries
    /\ UNCHANGED <<cur, child, points, answered, result, reportVars>>

Kill ==
    /\ pc = "kill"
    /\ child' = [child EXCEPT ![cur] = "exited"]
    /\ pc' = "drop"
    /\ UNCHANGED <<cur, points, tries, answered, result, reportVars>>

\* Mutant: dropping the ServerProcess leaves the child alone.
DropNothing ==
    /\ pc = "drop"
    /\ pc' = IF result = "err" THEN "end" ELSE "next"
    /\ UNCHANGED <<cur, child, points, tries, answered, result, reportVars>>

\* ServerProcess::drop, at the end of `stop' as well as after an error.
Drop ==
    /\ pc = "drop"
    /\ child' = [child EXCEPT ![cur] = "exited"]
    /\ pc' = IF result = "err" THEN "end" ELSE "next"
    /\ UNCHANGED <<cur, points, tries, answered, result, reportVars>>

\* What concurrency_sweep or size_sweep returns.
Samples == [k \in 1..points |-> <<Port(cur), k>>]

\* Mutant: the samples go to the list of their engine.
NextSweepByEngine ==
    /\ pc = "next"
    /\ IF cur + 1 \in Servers THEN cur' = cur + 1 /\ pc' = "spawn"
                              ELSE pc' = "report" /\ UNCHANGED cur
    /\ IF Port(cur) % 2 = 1
       THEN concurrency' = concurrency \o Samples /\ UNCHANGED size
       ELSE size' = size \o Samples /\ UNCHANGED concurrency
    /\ UNCHANGED <<child, points, tries, answered, result, charts>>

\* The sweep's samples join those of the engines before; the next sweep, or
\* the report.
NextSweep ==
    /\ pc = "next"
    /\ IF cur + 1 \in Servers THEN cur' = cur + 1 /\ pc' = "spawn"
                              ELSE pc' = "report" /\ UNCHANGED cur
    /\ IF cur % 2 = 1
       THEN concurrency' = concurrency \o Samples /\ UNCHANGED size
       ELSE size' = size \o Samples /\ UNCHANGED concurrency
    /\ UNCHANGED <<child, points, tries, answered, result, charts>>

-----------------------------------------------------------------------------
(* The results.                                                            *)

\* `report' compares the best sample of each engine, and panics when there is
\* none.
PrintReport ==
    /\ pc = "report"
    /\ IF <<>> \in {concurrency, size} THEN pc' = "end" /\ result' = "panic"
       ELSE pc' = "csv" /\ UNCHANGED result
    /\ UNCHANGED <<cur, child, points, tries, answered, reportVars>>

WriteCsv ==
    /\ pc = "csv"
    /\ \/ pc' = "charts" /\ UNCHANGED result
       \/ pc' = "end" /\ result' = "err"
    /\ UNCHANGED <<cur, child, points, tries, answered, reportVars>>

\* Chart::render refuses a chart without points.  The first half of the charts
\* are of the concurrency sweep.
HasPoints(chart) == (IF chart <= Charts \div 2 THEN concurrency ELSE size) # <<>>

\* write_charts: the first chart that cannot be rendered ends it.
WriteCharts ==
    /\ pc = "charts"
    /\ \E n \in 0..Charts :
        /\ \A chart \in 1..n : HasPoints(chart)
        /\ charts' = n
        /\ result' = IF n = Charts THEN "ok" ELSE "err"
    /\ pc' = "end"
    /\ UNCHANGED <<cur, child, points, tries, answered, concurrency, size>>

-----------------------------------------------------------------------------
Run ==
    \/ Spawn \/ SpawnFails \/ Open \/ OpenFails \/ Ready \/ NotReady \/ GivesUp
    \/ Measure \/ SnapshotFails \/ Ask \/ Poll \/ Kill \/ Drop \/ NextSweep
    \/ PrintReport \/ WriteCsv \/ WriteCharts

Next == Run \/ \E i \in Servers : Listen(i) \/ Exit(i)

Spec == Init /\ [][Next]_vars

-----------------------------------------------------------------------------
(* Properties.                                                             *)

\* What is measured is the server that was started for it: no earlier server
\* is left on the port to answer the probe, or the load, in its place.
MeasuresItsServer ==
    pc = "measure" =>
        /\ answered = cur
        /\ \A i \in Servers : Port(i) = Port(cur) /\ Bound(i) => i = cur

\* The summary and the files are made of complete results: every point of every
\* engine, once and in order, among the samples of the sweep it was measured
\* in; so that every comparison has its two sides.
AllSamples ==
    [i \in 1..Engines * Points |-> <<(i - 1) \div Points + 1, ((i - 1) % Points) + 1>>]

ReportComplete ==
    /\ pc \in {"report", "csv", "charts"} \/ result = "ok" =>
           concurrency = AllSamples /\ size = AllSamples
    /\ result # "panic"

\* No server outlives the program, however it ends, but for the one whose
\* process could not be opened.
NoOrphans ==
    pc = "end" => \A i \in Servers : Live(i) => i = cur /\ result = "no_handle"
=============================================================================
