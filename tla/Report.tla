------------------------------- MODULE Report -------------------------------
(***************************************************************************)
(* The verdicts of the benchmark's summary: `report', `best' and `compare' *)
(* of src/tools/httpbench/src/sweep.rs, as operators.                      *)
(*                                                                         *)
(* A sample is what a verdict looks at: engine, body size, request rate,   *)
(* CPU time per request and cores in use.  Numbers are naturals; a zero    *)
(* that the code raises to f64::MIN_POSITIVE is below any other number.    *)
(***************************************************************************)
EXTENDS Naturals, Sequences, Functions

Httpsys == 1
Axum == 2

Rps(s) == s.rps
MibPerSecond(s) == s.rps * s.bytes
BodyBytes(s) == s.bytes

\* The closures `report' hands to `best', by name.
Metric(metric, s) ==
    CASE metric = "rps" -> Rps(s)
      [] metric = "mib_per_second" -> MibPerSecond(s)
      [] metric = "body_bytes" -> BodyBytes(s)

\* `best' for an engine that has samples: of equal maxima max_by takes the last.
BestOf(samples, metric, engine) ==
    LET own == {i \in DOMAIN samples : samples[i].engine = engine}
        m(i) == Metric(metric, samples[i])
    IN samples[CHOOSE i \in own : \A j \in own : m(j) < m(i) \/ (m(j) = m(i) /\ j <= i)]

\* Mutant: two zeros are equal.
AtLeastOneOrEqual(x, y) == x >= y

\* x / y >= 1.0 in floating point, also when y has MIN_POSITIVE as its floor:
\* a zero is less than nothing, itself included.
AtLeastOne(x, y) == IF y = 0 THEN x > 0 ELSE x >= y

\* cores_per_mib(s) / cores_per_mib(t) >= 1.0; a rate of zero has a floor.
CoresPerMibAtLeast(s, t) ==
    LET rate(u) == IF MibPerSecond(u) = 0 THEN 1 ELSE 1000 * MibPerSecond(u)
    IN AtLeastOne(s.cores * rate(t), t.cores * rate(s))

\* Does the summary call httpsys "faster" under each of its titles?
Faster(title, concurrency, size) ==
    LET peak(e) == BestOf(concurrency, "rps", e)
        ingest(e) == BestOf(size, "mib_per_second", e)
        largest(e) == BestOf(size, "body_bytes", e)
    IN CASE title = "throughput" -> AtLeastOne(Rps(peak(Httpsys)), Rps(peak(Axum)))
         [] title = "ingest" -> AtLeastOne(MibPerSecond(ingest(Httpsys)), MibPerSecond(ingest(Axum)))
         [] title = "cpu" -> AtLeastOne(peak(Axum).cpu, peak(Httpsys).cpu)
         [] title = "uploads" -> CoresPerMibAtLeast(largest(Axum), largest(Httpsys))
=============================================================================
