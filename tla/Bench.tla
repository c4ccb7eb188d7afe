------------------------------- MODULE Bench --------------------------------
(***************************************************************************)
(* The benchmark as it runs: the sweep of Sweep.tla with the load runs of  *)
(* Load.tla inside each measured point (`measure' in                       *)
(* src/tools/httpbench/src/sweep.rs), against servers that crash, hang or  *)
(* ignore the shutdown request while requests are under way.               *)
(***************************************************************************)
EXTENDS Sweep, Report

CONSTANTS N, Latencies, MaxRequests,  \* as in Load
          Warmup,                     \* options.warmup is not zero
          Numbers                     \* what a sample can say

ASSUME LoadAssumption ==
    /\ N \in Nat \ {0} /\ Latencies \subseteq Nat /\ MaxRequests \in Nat
    /\ Warmup \in BOOLEAN /\ Numbers \subseteq Nat

\* The engines the verdicts compare are among those the sweep runs.
ASSUME EnginesAssumption == Axum <= Engines

VARIABLES
    late, spawned, joined, cpc, lat, errors, merged, finished,  \* as in Load
    warm      \* the warmup is done: this load run counts

L == INSTANCE Load

loadVars == <<late, spawned, joined, cpc, lat, errors, merged, finished>>
benchVars == <<vars, loadVars, warm>>

BenchInit == Init /\ L!Init /\ warm = ~Warmup

\* A new call of load::run.
LoadReset ==
    /\ late' = FALSE /\ spawned' = 0 /\ joined' = 0
    /\ cpc' = [c \in L!Conns |-> "none"]
    /\ lat' = [c \in L!Conns |-> << >>]
    /\ errors' = 0 /\ merged' = << >> /\ finished' = FALSE

-----------------------------------------------------------------------------
(* measure.                                                                *)

Measuring == pc = "measure" /\ points < Points

\* A server on the port accepts and answers; one that is gone does not.  (An
\* answer read after its server has gone is read before that here.)
Served == \E i \in Servers : Port(i) = Port(cur) /\ Bound(i)

Connection(c) ==
    /\ Measuring
    /\ \/ L!Send(c) \/ L!Fails(c) \/ L!Drained(c)
       \/ Served /\ (L!Connected(c) \/ \E d \in Latencies : L!Answered(c, d))
    /\ UNCHANGED <<vars, warm>>

LoadRun ==
    /\ Measuring
    /\ L!Spawn \/ L!Join \/ L!Finish
    /\ UNCHANGED <<vars, warm>>

\* The deadline is a matter of the clock.
DeadlinePasses ==
    /\ Measuring /\ spawned > 0 /\ L!Deadline
    /\ UNCHANGED <<vars, warm>>

\* The result of the warmup is thrown away.
WarmupDone ==
    /\ Measuring /\ finished /\ ~warm
    /\ warm' = TRUE /\ LoadReset
    /\ UNCHANGED vars

\* The load run that counts has returned, between two snapshots.
MeasureDone ==
    /\ Measure /\ finished /\ warm
    /\ warm' = ~Warmup /\ LoadReset

\* The rest of the program.  load::run never fails; a snapshot is taken before
\* and after the load run that counts.
SweepStep ==
    /\ \/ Spawn \/ SpawnFails \/ Open \/ OpenFails \/ Ready \/ NotReady \/ GivesUp
       \/ Ask \/ Poll \/ Kill \/ Drop \/ NextSweep
       \/ PrintReport \/ WriteCsv \/ WriteCharts
       \/ SnapshotFails /\ warm /\ (spawned = 0 \/ finished)
    /\ UNCHANGED <<loadVars, warm>>

Child(i) == (Listen(i) \/ Exit(i)) /\ UNCHANGED <<loadVars, warm>>

BenchNext ==
    \/ SweepStep \/ LoadRun \/ WarmupDone \/ MeasureDone \/ DeadlinePasses
    \/ \E c \in L!Conns : Connection(c)
    \/ \E i \in Servers : Child(i)

\* The program and its tasks run and time passes.  The servers may hang or
\* never listen, but a request they have accepted is answered or its connection
\* closed: requests have no timeout.
BenchSpec ==
    /\ BenchInit /\ [][BenchNext]_benchVars
    /\ WF_benchVars(SweepStep \/ LoadRun \/ WarmupDone \/ MeasureDone)
    /\ WF_benchVars(DeadlinePasses)
    /\ \A c \in L!Conns : WF_benchVars(Connection(c))

-----------------------------------------------------------------------------
(* Properties.                                                             *)

\* Load's promise on the result of `run' holds whatever becomes of the server.
ResultComplete == L!ResultComplete

\* "A connection that dies mid-run is a server-side failure, not a harness bug:
\* count it and keep the samples we already have."
SamplesKept == L!SamplesKept

\* The percentiles of every result are quantiles of its samples.
PercentileSplits == L!PercentileSplits

\* A list of samples with the numbers `m', and those of one engine that no
\* other one of it exceeds.
With(samples, m) ==
    [i \in 1..Len(samples) |-> [engine |-> samples[i][1], rps |-> m[samples[i]].rps,
        bytes |-> samples[i][2], cpu |-> m[samples[i]].cpu, cores |-> m[samples[i]].cpu]]

Peaks(all, metric, e) ==
    {s \in Range(all) : s.engine = e /\ \A t \in Range(all) :
        t.engine = e => Metric(metric, s) >= Metric(metric, t)}

\* No sample of axum beats httpsys's best, and that is not zero.
Beats(all, metric) ==
    \E s \in Peaks(all, metric, Httpsys) : \A t \in Peaks(all, metric, Axum) :
        Metric(metric, s) > 0 /\ Metric(metric, s) >= Metric(metric, t)

\* Each engine has one best sample, s and t, and both have answered requests.
Duel(all, metric, s, t) ==
    /\ Peaks(all, metric, Httpsys) = {s} /\ Peaks(all, metric, Axum) = {t}
    /\ s.rps > 0 /\ s.cpu > 0 /\ t.rps > 0 /\ t.cpu > 0

\* The verdicts of the summary are those of the numbers: httpsys is called
\* faster exactly if its best sample is not beaten by any of axum's and not
\* zero; and, by CPU, if it has used no more of it at its peak, or for the
\* largest body, than axum, where both have answered requests.
VerdictsAgree ==
    pc = "report" =>
        \A m \in [Range(concurrency) -> [rps : Numbers, cpu : Numbers]] :
            LET all == With(concurrency, m)
            IN /\ Faster("throughput", all, all) <=> Beats(all, "rps")
               /\ Faster("ingest", all, all) <=> Beats(all, "mib_per_second")
               /\ \A s, t \in Range(all) :
                     /\ Duel(all, "rps", s, t) => (Faster("cpu", all, all) <=> s.cpu <= t.cpu)
                     /\ Duel(all, "body_bytes", s, t) =>
                            (Faster("uploads", all, all)
                                <=> s.cores * MibPerSecond(t) <= t.cores * MibPerSecond(s))

\* The benchmark ends, through both sweeps of every engine or with an error,
\* even when its servers crash under load or do not stop when asked.
SweepEnds == <>(pc = "end")
=============================================================================
