----------------------------- MODULE BenchProofs ----------------------------
(***************************************************************************)
(* Theorems about the benchmark, for any number of engines, points, polls, *)
(* probes, connections, requests and latencies.                            *)
(*                                                                         *)
(* SInv is inductive for Sweep.  Its heart is that only the server started *)
(* last can be alive: the ones before have been dropped, the ones behind   *)
(* have not been started.  Bench, which runs the load of a point in many   *)
(* steps among crashing servers, implements Sweep, so that all of it holds *)
(* of Bench too.                                                           *)
(*                                                                         *)
(* LInv is inductive for the load runs inside Bench: the connections that  *)
(* have been joined are in the result, and the result ends up sorted.      *)
(* That a list can be sorted at all, which Sort and BestOf rely on, needs  *)
(* no induction: the arrangement that is first in the order of a           *)
(* dictionary is the sorted one, and a well-founded order has a first.     *)
(***************************************************************************)
EXTENDS Bench, FiniteSetTheorems, TLAPS

-----------------------------------------------------------------------------
(* Lists of samples.                                                       *)

\* The samples of the first k engines.
UpTo(k) == [i \in 1..k * Points |-> <<(i - 1) \div Points + 1, ((i - 1) % Points) + 1>>]

\* The place of a sample in the list says its engine and point.
LEMMA Place ==
    ASSUME NEW m \in Nat \ {0}, NEW a \in Nat, NEW k \in 1..m
    PROVE  (a * m + k - 1) \div m = a /\ (a * m + k - 1) % m = k - 1
OBVIOUS

\* What lists, their lengths and their concatenation are.
LEMMA SeqOfFunction ==
    ASSUME NEW n \in Nat, NEW S, NEW f \in [1..n -> S]
    PROVE  f \in Seq(S) /\ Len(f) = n
OBVIOUS

LEMMA LenFacts ==
    ASSUME NEW S, NEW s \in Seq(S)
    PROVE  /\ Len(s) \in Nat /\ s \in [1..Len(s) -> S] /\ DOMAIN s = 1..Len(s)
           /\ s = <<>> <=> Len(s) = 0
OBVIOUS

LEMMA ConcatFacts ==
    ASSUME NEW S, NEW s \in Seq(S), NEW t \in Seq(S)
    PROVE  /\ s \o t \in Seq(S) /\ Len(s \o t) = Len(s) + Len(t)
           /\ \A i \in 1..Len(s) + Len(t) :
                  (s \o t)[i] = IF i <= Len(s) THEN s[i] ELSE t[i - Len(s)]
OBVIOUS

\* Lists of one length with the same elements are equal.
LEMMA EqualLists ==
    ASSUME NEW S, NEW s \in Seq(S), NEW t \in Seq(S), Len(s) = Len(t),
           \A i \in 1..Len(s) : s[i] = t[i]
    PROVE  s = t
OBVIOUS

LEMMA UpToFacts ==
    ASSUME NEW k \in Nat
    PROVE  /\ k * Points \in Nat
           /\ UpTo(k) \in Seq(Nat \X Nat) /\ Len(UpTo(k)) = k * Points
           /\ \A i \in 1..k * Points :
                  UpTo(k)[i] = <<(i - 1) \div Points + 1, ((i - 1) % Points) + 1>>
<1>1. Points \in Nat \ {0}
  BY ConstantsAssumption, Zenon
<1>2. k * Points \in Nat
  BY <1>1
<1>3. ASSUME NEW i \in 1..k * Points
      PROVE  <<(i - 1) \div Points + 1, ((i - 1) % Points) + 1>> \in Nat \X Nat
  <2>1. i - 1 \in Nat
    BY <1>2
  <2>. QED  BY <1>1, <2>1
<1>4. UpTo(k) \in [1..k * Points -> Nat \X Nat]
  BY <1>3, Zenon DEF UpTo
<1>. QED  BY <1>2, <1>4, SeqOfFunction, Zenon DEF UpTo

\* The samples of one more engine.
LEMMA OneMore ==
    ASSUME NEW k \in Nat
    PROVE  UpTo(k) \o [j \in 1..Points |-> <<k + 1, j>>] = UpTo(k + 1)
<1>. DEFINE a == UpTo(k)
            b == [j \in 1..Points |-> <<k + 1, j>>]
            c == UpTo(k + 1)
            n == k * Points
<1>1. Points \in Nat \ {0} /\ n \in Nat /\ k + 1 \in Nat /\ (k + 1) * Points = n + Points
  BY ConstantsAssumption
<1>2. a \in Seq(Nat \X Nat) /\ Len(a) = n
  BY UpToFacts, Zenon
<1>3. \A i \in 1..n : a[i] = <<(i - 1) \div Points + 1, ((i - 1) % Points) + 1>>
  BY UpToFacts, Zenon
<1>4. b \in Seq(Nat \X Nat) /\ Len(b) = Points /\ \A j \in 1..Points : b[j] = <<k + 1, j>>
  <2>1. b \in [1..Points -> Nat \X Nat]
    BY <1>1
  <2>. QED  BY <1>1, <2>1, SeqOfFunction, Zenon
<1>5. /\ c \in Seq(Nat \X Nat) /\ Len(c) = n + Points
      /\ \A i \in 1..n + Points : c[i] = <<(i - 1) \div Points + 1, ((i - 1) % Points) + 1>>
  BY <1>1, UpToFacts, Zenon
<1>6. ASSUME NEW i \in n + 1..n + Points
      PROVE  (i - 1) \div Points = k /\ (i - 1) % Points = i - n - 1
  <2>. DEFINE j == i - n
  <2>1. j \in 1..Points /\ i - 1 = k * Points + j - 1
    BY <1>1
  <2>. HIDE DEF j
  <2>2. (k * Points + j - 1) \div Points = k /\ (k * Points + j - 1) % Points = j - 1
    BY <1>1, <2>1, Place, Zenon
  <2>. QED  BY <2>1, <2>2, Zenon DEF j
<1>. HIDE DEF a, b, c, n
<1>7. /\ a \o b \in Seq(Nat \X Nat) /\ Len(a \o b) = n + Points
      /\ \A i \in 1..n + Points : (a \o b)[i] = IF i <= n THEN a[i] ELSE b[i - n]
  BY <1>2, <1>4, ConcatFacts, Zenon
<1>8. ASSUME NEW i \in 1..Len(a \o b) PROVE (a \o b)[i] = c[i]
  <2>1. i \in 1..n + Points
    BY <1>7, Zenon
  <2>2. CASE i <= n
    <3>1. i \in 1..n
      BY <1>1, <2>1, <2>2
    <3>. QED  BY <1>3, <1>5, <1>7, <2>1, <2>2, <3>1, Zenon
  <2>3. CASE ~(i <= n)
    <3>1. i \in n + 1..n + Points /\ i - n \in 1..Points /\ i - n - 1 + 1 = i - n
      BY <1>1, <2>1, <2>3
    <3>2. b[i - n] = <<k + 1, i - n>>
      BY <1>4, <3>1, Zenon
    <3>3. c[i] = <<k + 1, i - n>>
      BY <1>5, <1>6, <2>1, <3>1, Zenon
    <3>. QED  BY <1>7, <2>1, <2>3, <3>2, <3>3, Zenon
  <2>. QED  BY <2>2, <2>3, Zenon
<1>9. a \o b = c
  BY <1>5, <1>7, <1>8, EqualLists, Zenon
<1>. QED  BY <1>9, Zenon DEF a, b, c

-----------------------------------------------------------------------------
(* The invariant.                                                          *)

Types ==
    /\ pc \in {"spawn", "open", "probe", "measure", "poll", "kill", "drop", "next",
               "report", "csv", "charts", "end"}
    /\ cur \in Servers /\ points \in 0..Points
    /\ child \in [Servers -> {"none", "starting", "listening", "stopping", "exited"}]
    /\ result \in {"running", "err", "no_handle", "ok"}

\* Who can be alive.
ChildInv ==
    /\ \A i \in Servers : i < cur => child[i] = "exited"
    /\ \A i \in Servers : i > cur => child[i] = "none"
    /\ pc = "spawn" => child[cur] = "none"
    /\ pc \in {"next", "report", "csv", "charts"} => child[cur] = "exited"
    /\ pc = "end" /\ result # "no_handle" => ~Live(cur)
    /\ pc = "measure" => answered = cur

\* The sweeps that are complete are the ones before the current one.
ListInv ==
    /\ pc \notin {"drop", "end"} => result = "running"
    /\ pc = "drop" => result \in {"running", "err"}
    /\ pc \in {"poll", "kill", "next"} \/ (pc = "drop" /\ result = "running") => points = Points
    /\ pc \in {"spawn", "open", "probe", "measure", "poll", "kill", "drop", "next"} =>
           concurrency = UpTo(cur \div 2) /\ size = UpTo((cur - 1) \div 2)
    /\ pc \in {"report", "csv", "charts"} \/ result = "ok" =>
           concurrency = UpTo(Engines) /\ size = UpTo(Engines)

SInv == Types /\ ChildInv /\ ListInv

LEMMA CurFacts == ASSUME Types PROVE cur \in Nat /\ cur >= 1 /\ cur <= 2 * Engines /\ Engines \in Nat
BY ConstantsAssumption DEF Types, Servers

LEMMA InitInv == Init => SInv
<1>. SUFFICES ASSUME Init PROVE SInv
  OBVIOUS
<1>1. 1 \in Servers /\ Points \in Nat \ {0}
  BY ConstantsAssumption DEF Servers
<1>2. 1 \div 2 = 0 /\ (1 - 1) \div 2 = 0
  OBVIOUS
<1>3. UpTo(0) = <<>>
  <2>1. 0 * Points = 0
    BY <1>1
  <2>2. Len(UpTo(0)) = 0 /\ UpTo(0) \in Seq(Nat \X Nat)
    BY <2>1, UpToFacts, Zenon
  <2>. QED  BY <2>2, LenFacts
<1>4. Types
  BY <1>1 DEF Init, Types
<1>5. ChildInv
  BY <1>1 DEF Init, ChildInv, Servers
<1>6. ListInv
  BY <1>2, <1>3, Zenon DEF Init, ListInv
<1>. QED  BY <1>4, <1>5, <1>6, Zenon DEF SInv

-----------------------------------------------------------------------------
(* The steps.                                                              *)

\* A child listens, or is gone; only the current one can.
LEMMA ChildStep ==
    ASSUME SInv, NEW i \in Servers, Listen(i) \/ Exit(i)
    PROVE  SInv'
<1>1. /\ UNCHANGED <<pc, cur, points, answered, result, concurrency, size>> /\ Live(i)
      /\ \E c \in {"listening", "exited"} : child' = [child EXCEPT ![i] = c]
      /\ pc = "end" /\ result # "no_handle" => ~Live(cur)
  BY Zenon DEF Listen, Exit, reportVars, Live, Bound, SInv, ChildInv
<1>2. i = cur
  BY <1>1, CurFacts DEF SInv, Types, ChildInv, Live, Bound, Servers
<1>3. Types'
  BY <1>1, Zenon DEF SInv, Types
<1>4. ChildInv'
  <2>1. pc \notin {"spawn", "next", "report", "csv", "charts"} /\ ~(pc = "end" /\ result # "no_handle")
    BY <1>1, <1>2, Zenon DEF SInv, ChildInv, Live, Bound
  <2>2. \A j \in Servers : j # cur => child'[j] = child[j]
    BY <1>1, <1>2, Zenon DEF SInv, Types
  <2>. QED  BY <1>1, <2>1, <2>2, CurFacts, Zenon DEF SInv, ChildInv, Servers
<1>5. ListInv'
  BY <1>1, Zenon DEF SInv, ListInv, UpTo
<1>. QED  BY <1>3, <1>4, <1>5, Zenon DEF SInv

\* A step that changes neither the current server, the children nor the lists.
LEMMA PlainStep ==
    ASSUME SInv,
           SpawnFails \/ Open \/ OpenFails \/ NotReady \/ GivesUp \/ Measure \/ SnapshotFails
    PROVE  SInv'
<1>1. UNCHANGED <<cur, child, concurrency, size>> /\ points' \in 0..Points
  BY ConstantsAssumption DEF SpawnFails, Open, OpenFails, NotReady, GivesUp, Measure, SnapshotFails,
     reportVars, SInv, Types
<1>2. /\ pc \in {"spawn", "open", "probe", "measure"} /\ result = "running"
      /\ pc = "measure" => answered = cur
      /\ pc = "spawn" => ~Live(cur)
  BY Zenon DEF SpawnFails, Open, OpenFails, NotReady, GivesUp, Measure, SnapshotFails, SInv, ListInv,
     ChildInv, Live, Bound
<1>3. \/ pc = "spawn" /\ pc' = "end" /\ result' = "err"
      \/ pc = "open" /\ pc' = "end" /\ result' = "no_handle"
      \/ pc \in {"probe", "measure"} /\ pc' = "drop" /\ result' = "err"
      \/ pc' = "probe" /\ result' = result
      \/ pc = "measure" /\ pc' = "measure" /\ result' = result /\ answered' = answered
  BY Zenon DEF SpawnFails, Open, OpenFails, NotReady, GivesUp, Measure, SnapshotFails
<1>4. Types'
  BY <1>1, <1>2, <1>3, Zenon DEF SInv, Types
<1>5. ChildInv'
  BY <1>1, <1>2, <1>3, Zenon DEF SInv, ChildInv, Live, Bound
<1>6. ListInv'
  BY <1>1, <1>2, <1>3, Zenon DEF SInv, ListInv, UpTo
<1>. QED  BY <1>4, <1>5, <1>6, Zenon DEF SInv

\* A probe is answered by the only server there can be.
LEMMA ReadyStep ==
    ASSUME SInv, Ready
    PROVE  SInv'
<1>1. PICK i \in Servers : Port(i) = Port(cur) /\ Bound(i) /\ answered' = i
  BY Zenon DEF Ready
<1>2. i = cur
  BY <1>1, CurFacts DEF SInv, ChildInv, Bound, Servers
<1>3. /\ pc = "probe" /\ pc' = "measure" /\ points' = 0
      /\ UNCHANGED <<cur, child, result, concurrency, size>>
  BY Zenon DEF Ready, reportVars
<1>4. Types'
  BY <1>3, ConstantsAssumption DEF SInv, Types
<1>5. ChildInv'
  BY <1>1, <1>2, <1>3, Zenon DEF SInv, ChildInv, Live, Bound
<1>6. ListInv'
  BY <1>3, Zenon DEF SInv, ListInv, UpTo
<1>. QED  BY <1>4, <1>5, <1>6, Zenon DEF SInv

\* The steps on the current child.
LEMMA ServerStep ==
    ASSUME SInv, Spawn \/ Ask \/ Poll \/ Kill \/ Drop
    PROVE  SInv'
<1>1. /\ UNCHANGED <<cur, points, answered, result, concurrency, size>>
      /\ \/ UNCHANGED child
         \/ \E c \in {"starting", "stopping", "exited"} : child' = [child EXCEPT ![cur] = c]
  BY Zenon DEF Spawn, Ask, Poll, Kill, Drop, reportVars
<1>2. \/ pc = "spawn" /\ pc' = "open"
      \/ pc = "measure" /\ points = Points /\ pc' = "poll"
      \/ pc = "poll" /\ pc' \in {"poll", "kill", "drop"}
      \/ pc = "kill" /\ pc' = "drop"
      \/ pc = "drop" /\ pc' = "next" /\ result # "err" /\ child'[cur] = "exited"
      \/ pc = "drop" /\ pc' = "end" /\ result = "err" /\ child'[cur] = "exited"
  BY Zenon DEF Spawn, Ask, Poll, Kill, Drop, SInv, Types
<1>3. Types'
  BY <1>1, <1>2, Zenon DEF SInv, Types
<1>4. ChildInv'
  <2>1. \A j \in Servers : j # cur => child'[j] = child[j]
    BY <1>1, Zenon DEF SInv, Types
  <2>. QED  BY <1>1, <1>2, <2>1, CurFacts, Zenon DEF SInv, ChildInv, Servers, Live, Bound
<1>5. ListInv'
  BY <1>1, <1>2, Zenon DEF SInv, ListInv, UpTo
<1>. QED  BY <1>3, <1>4, <1>5, Zenon DEF SInv

\* The sweep's samples are those of its engine, behind those of the engines
\* before it.
LEMMA NextSweepStep ==
    ASSUME SInv, NextSweep
    PROVE  SInv'
<1>1. /\ pc = "next" /\ points = Points /\ result = "running" /\ child[cur] = "exited"
      /\ concurrency = UpTo(cur \div 2) /\ size = UpTo((cur - 1) \div 2)
      /\ cur \in Nat /\ cur >= 1 /\ cur <= 2 * Engines /\ Engines \in Nat
  BY CurFacts, Zenon DEF NextSweep, SInv, ChildInv, ListInv
<1>2. /\ UNCHANGED <<child, points, answered, result>>
      /\ \/ cur + 1 \in Servers /\ cur' = cur + 1 /\ pc' = "spawn"
         \/ cur + 1 \notin Servers /\ cur' = cur /\ pc' = "report"
  BY Zenon DEF NextSweep
<1>3. Types'
  BY <1>2, Zenon DEF SInv, Types
<1>4. ChildInv'
  <2>1. \A i \in Servers : i \in Nat
    BY DEF Servers
  <2>. QED  BY <1>1, <1>2, <2>1 DEF SInv, ChildInv
<1>5. CASE cur % 2 = 1
  <2>. DEFINE k == cur \div 2
  <2>1. k \in Nat /\ (cur + 1) \div 2 = k + 1 /\ (cur - 1) \div 2 = k /\ cur = 2 * k + 1
    BY <1>1, <1>5
  <2>2. concurrency' = concurrency \o Samples /\ size' = size
    BY <1>5, Zenon DEF NextSweep
  <2>3. Samples = [j \in 1..Points |-> <<k + 1, j>>]
    BY <1>1, <2>1, Zenon DEF Samples, Port
  <2>. HIDE DEF k
  <2>4. concurrency' = UpTo(k + 1) /\ size' = UpTo(k)
    BY <1>1, <2>1, <2>2, <2>3, OneMore, Zenon DEF k
  <2>5. cur + 1 \in Servers
    BY <1>1, <2>1 DEF Servers
  <2>6. (cur + 1) - 1 = cur
    BY <1>1
  <2>7. concurrency' = UpTo(cur' \div 2) /\ size' = UpTo((cur' - 1) \div 2)
    BY <1>2, <2>1, <2>4, <2>5, <2>6, Zenon DEF k
  <2>8. ListInv'
    BY <1>1, <1>2, <2>5, <2>7, Zenon DEF ListInv, UpTo
  <2>. QED  BY <1>3, <1>4, <2>8, Zenon DEF SInv
<1>6. CASE cur % 2 # 1
  <2>. DEFINE k == (cur - 1) \div 2
  <2>1. k \in Nat /\ cur = 2 * k + 2 /\ cur \div 2 = k + 1 /\ (cur + 1) \div 2 = k + 1
    BY <1>1, <1>6
  <2>2. size' = size \o Samples /\ concurrency' = concurrency
    BY <1>6, Zenon DEF NextSweep
  <2>3. Samples = [j \in 1..Points |-> <<k + 1, j>>]
    BY <1>1, <2>1, Zenon DEF Samples, Port
  <2>. HIDE DEF k
  <2>4. concurrency' = UpTo(k + 1) /\ size' = UpTo(k + 1)
    BY <1>1, <2>1, <2>2, <2>3, OneMore, Zenon DEF k
  <2>5. CASE cur + 1 \in Servers
    <3>1. cur' \div 2 = k + 1 /\ (cur' - 1) \div 2 = k + 1
      BY <1>1, <1>2, <2>1, <2>5
    <3>2. ListInv'
      BY <1>1, <1>2, <2>4, <2>5, <3>1, Zenon DEF ListInv, UpTo
    <3>. QED  BY <1>3, <1>4, <3>2, Zenon DEF SInv
  <2>6. CASE cur + 1 \notin Servers
    <3>1. k + 1 = Engines
      BY <1>1, <2>1, <2>6 DEF Servers
    <3>2. ListInv'
      BY <1>1, <1>2, <2>4, <2>6, <3>1, Zenon DEF ListInv, UpTo
    <3>. QED  BY <1>3, <1>4, <3>2, Zenon DEF SInv
  <2>. QED  BY <2>5, <2>6, Zenon
<1>. QED  BY <1>5, <1>6, Zenon

\* There are samples to report.
LEMMA ReportStep ==
    ASSUME SInv, PrintReport \/ WriteCsv \/ WriteCharts
    PROVE  SInv'
<1>1. /\ pc \in {"report", "csv", "charts"} /\ result = "running" /\ child[cur] = "exited"
      /\ concurrency = UpTo(Engines) /\ size = UpTo(Engines)
      /\ UNCHANGED <<cur, child, points, answered, concurrency, size>>
  BY Zenon DEF PrintReport, WriteCsv, WriteCharts, reportVars, SInv, ChildInv, ListInv
<1>2. <<>> \notin {concurrency, size}
  <2>1. Engines \in Nat \ {0} /\ Points \in Nat \ {0}
    BY ConstantsAssumption, Zenon
  <2>2. Engines * Points > 0
    BY <2>1
  <2>3. Len(UpTo(Engines)) > 0
    BY <2>1, <2>2, UpToFacts, Zenon
  <2>. QED  BY <1>1, <2>3
<1>3. \/ pc' \in {"csv", "charts"} /\ result' = "running"
      \/ pc' = "end" /\ result' \in {"err", "ok"}
  BY <1>1, <1>2, Zenon DEF PrintReport, WriteCsv, WriteCharts
<1>4. Types'
  BY <1>1, <1>3, Zenon DEF SInv, Types
<1>5. ChildInv'
  BY <1>1, <1>3, Zenon DEF SInv, ChildInv, Live, Bound
<1>6. ListInv'
  BY <1>1, <1>3, Zenon DEF SInv, ListInv, UpTo
<1>. QED  BY <1>4, <1>5, <1>6, Zenon DEF SInv

LEMMA Inductive == SInv /\ [Next]_vars => SInv'
<1>. SUFFICES ASSUME SInv, [Next]_vars PROVE SInv'
  OBVIOUS
<1>1. CASE UNCHANGED vars
  BY <1>1, Zenon DEF vars, reportVars, SInv, Types, ChildInv, ListInv, UpTo, Live, Bound
<1>2. CASE Run
  BY <1>2, PlainStep, ReadyStep, ServerStep, NextSweepStep, ReportStep, Zenon DEF Run
<1>3. ASSUME NEW i \in Servers, Listen(i) \/ Exit(i) PROVE SInv'
  BY <1>3, ChildStep, Zenon
<1>. QED  BY <1>1, <1>2, <1>3, Zenon DEF Next

-----------------------------------------------------------------------------
(* The theorems.                                                           *)

\* Whatever the children do, a point is only measured while the server that
\* was started for it is the only one on its port, and it answered the probe.
THEOREM OnlyItsServerIsMeasured == Spec => []MeasuresItsServer
<1>1. SInv => MeasuresItsServer
  BY CurFacts DEF SInv, ChildInv, MeasuresItsServer, Bound, Servers
<1>. QED  BY <1>1, InitInv, Inductive, PTL DEF Spec

\* However the program ends, it leaves no server behind, but for one whose
\* process handle could not be opened.
THEOREM NoServerIsLeft == Spec => []NoOrphans
<1>1. SInv => NoOrphans
  BY CurFacts DEF SInv, ChildInv, NoOrphans, Live, Bound, Servers
<1>. QED  BY <1>1, InitInv, Inductive, PTL DEF Spec

\* The report is made of every point of every engine, once and in order, and
\* never of an empty list.
THEOREM ReportsAreComplete == Spec => []ReportComplete
<1>1. UpTo(Engines) = AllSamples
  BY Zenon DEF UpTo, AllSamples
<1>2. SInv => ReportComplete
  BY <1>1, Zenon DEF SInv, Types, ListInv, ReportComplete
<1>. QED  BY <1>2, InitInv, Inductive, PTL DEF Spec

\* Running the load of each point, with its warmup and its connections, is
\* an implementation of the sweep.
THEOREM BenchImplementsSweep == BenchSpec => Spec
<1>1. BenchInit => Init
  BY Zenon DEF BenchInit
<1>2. [BenchNext]_benchVars => [Next]_vars
  <2>. SUFFICES ASSUME [BenchNext]_benchVars PROVE [Next]_vars
    OBVIOUS
  <2>1. CASE SweepStep
    BY <2>1, Zenon DEF SweepStep, Next, Run
  <2>2. CASE MeasureDone
    BY <2>2, Zenon DEF MeasureDone, Next, Run
  <2>3. CASE LoadRun \/ WarmupDone \/ DeadlinePasses \/ \E c \in L!Conns : Connection(c)
    BY <2>3, Zenon DEF LoadRun, WarmupDone, DeadlinePasses, Connection
  <2>4. ASSUME NEW i \in Servers, Child(i) PROVE Next
    BY <2>4, Zenon DEF Child, Next
  <2>5. CASE UNCHANGED benchVars
    BY <2>5, Zenon DEF benchVars
  <2>. QED  BY <2>1, <2>2, <2>3, <2>4, <2>5, Zenon DEF BenchNext
<1>. QED  BY <1>1, <1>2, PTL DEF BenchSpec, Spec

\* So what is proved of the sweep is true of the benchmark as it runs.
COROLLARY TheBenchmarkIsSound == BenchSpec => [](MeasuresItsServer /\ NoOrphans /\ ReportComplete)
BY BenchImplementsSweep, OnlyItsServerIsMeasured, NoServerIsLeft, ReportsAreComplete, PTL

-----------------------------------------------------------------------------
(* Sorting, the largest element, and bijections.                           *)

\* A bijection, in first-order terms.
LEMMA BijectionFacts ==
    ASSUME NEW S, NEW T, NEW f
    PROVE  f \in Bijection(S, T) <=>
               /\ f \in [S -> T]
               /\ \A a, b \in S : f[a] = f[b] => a = b
               /\ \A t \in T : \E x \in S : f[x] = t
<1>1. f \in [S -> T] => DOMAIN f = S
  OBVIOUS
<1>. QED  BY <1>1, Zenon DEF Bijection, Injection, Surjection, IsInjective

\* Two values of a bijection may change places.
LEMMA Swap ==
    ASSUME NEW S, NEW T, NEW p \in Bijection(S, T), NEW a \in S, NEW b \in S
    PROVE  [p EXCEPT ![a] = p[b], ![b] = p[a]] \in Bijection(S, T)
<1>1. /\ p \in [S -> T] /\ \A i, j \in S : p[i] = p[j] => i = j
      /\ \A t \in T : \E x \in S : p[x] = t
  BY BijectionFacts
<1>. DEFINE q == [p EXCEPT ![a] = p[b], ![b] = p[a]]
<1>2. q \in [S -> T] /\ q[b] = p[a] /\ q[a] = p[b] /\ \A i \in S \ {a, b} : q[i] = p[i]
  BY <1>1
<1>. HIDE DEF q
<1>3. \A i, j \in S : q[i] = q[j] => i = j
  BY <1>1, <1>2
<1>4. \A t \in T : \E x \in S : q[x] = t
  BY <1>1, <1>2
<1>5. q \in Bijection(S, T)
  BY <1>2, <1>3, <1>4, BijectionFacts, Zenon
<1>. QED  BY <1>5, Zenon DEF q

\* p arranges s in ascending order.
Orders(p, s) ==
    p \in Bijection(DOMAIN s, DOMAIN s) /\ \A i, j \in DOMAIN s : i < j => s[p[i]] <= s[p[j]]

\* Every list can be sorted: the first of its arrangements, in the order of a
\* dictionary, is the sorted one.
LEMMA SortExists ==
    ASSUME NEW n \in Nat, NEW s \in [1..n -> Nat]
    PROVE  \E p : Orders(p, s)
<1>. DEFINE B == Bijection(1..n, 1..n)
            Less == {ss \in Nat \X Nat : ss[1] < ss[2]}
            Order == LexProductOrdering(Less, Nat, n)
            Arr(p) == [i \in 1..n |-> s[p[i]]]
            All == {t \in [1..n -> Nat] : \E p \in B : t = Arr(p)}
<1>1. ASSUME NEW p \in B PROVE Arr(p) \in All
  <2>1. p \in [1..n -> 1..n]
    BY BijectionFacts, Zenon
  <2>. QED  BY <2>1, Zenon
<1>2. PICK t \in All : \A u \in All : <<u, t>> \notin Order
  <2>1. IsWellFoundedOn(Less, Nat)
    <3>1. OpToRel(<, Nat) = Less
      BY DEF OpToRel
    <3>. QED  BY <3>1, NatLessThanWellFounded, Zenon
  <2>2. IsWellFoundedOn(Order, [1..n -> Nat])
    BY <2>1, WFLexProductOrdering, Zenon
  <2>3. [i \in 1..n |-> i] \in B
    BY BijectionFacts
  <2>4. All # {} /\ All \subseteq [1..n -> Nat]
    BY <1>1, <2>3, Zenon
  <2>. HIDE DEF All, Order
  <2>. QED  BY <2>2, <2>4, WFMin, Zenon
<1>3. PICK p \in B : t = Arr(p)
  BY <1>2
<1>4. p \in [1..n -> 1..n]
  BY BijectionFacts, Zenon
<1>5. ASSUME NEW a \in 1..n, NEW b \in 1..n, a < b, s[p[a]] > s[p[b]] PROVE FALSE
  <2>. DEFINE q == [p EXCEPT ![a] = p[b], ![b] = p[a]]
              u == Arr(q)
  <2>1. q \in B
    BY Swap, Zenon
  <2>2. u \in All
    BY <1>1, <2>1, Zenon
  <2>3. q[a] = p[b] /\ \A i \in 1..a - 1 : q[i] = p[i] /\ i \in 1..n
    BY <1>4, <1>5
  <2>4. /\ \A i \in 1..a - 1 : u[i] = t[i]
        /\ u[a] = s[p[b]] /\ t[a] = s[p[a]]
    <3>. HIDE DEF q
    <3>. QED  BY <1>3, <2>3
  <2>5. <<u[a], t[a]>> \in Less
    BY <1>4, <1>5, <2>4
  <2>6. u \in [1..n -> Nat] /\ t \in [1..n -> Nat]
    BY <1>2, <2>2, Zenon
  <2>. HIDE DEF u, Less, All
  <2>7. <<u, t>> \in Order
    BY <2>4, <2>5, <2>6, Zenon DEF LexProductOrdering
  <2>. QED  BY <1>2, <2>2, <2>7, Zenon
<1>6. ASSUME NEW i \in 1..n, NEW j \in 1..n, i < j PROVE s[p[i]] <= s[p[j]]
  <2>1. s[p[i]] \in Nat /\ s[p[j]] \in Nat
    BY <1>4, Zenon
  <2>2. ~(s[p[i]] > s[p[j]])
    BY <1>5, <1>6, Zenon
  <2>. HIDE DEF B, All
  <2>. QED  BY <2>1, <2>2
<1>7. DOMAIN s = 1..n
  OBVIOUS
<1>8. Orders(p, s)
  BY <1>3, <1>6, <1>7, Zenon DEF Orders
<1>. QED  BY <1>8, Zenon

\* i is the last of the places in own where f is largest.
Best(f, own, i) == i \in own /\ \A j \in own : f[j] < f[i] \/ (f[j] = f[i] /\ j <= i)

\* The last of the largest elements exists: it comes last when the elements are
\* sorted by value and then by place.
LEMMA LastMax ==
    ASSUME NEW n \in Nat, NEW f \in [1..n -> Nat], NEW own \in SUBSET (1..n), own # {}
    PROVE  \E i : Best(f, own, i)
<1>. DEFINE g == [i \in 1..n |-> IF i \in own THEN f[i] * (n + 1) + i ELSE 0]
<1>1. ASSUME NEW i \in own PROVE i \in 1..n /\ g[i] = f[i] * (n + 1) + i /\ f[i] \in Nat /\ g[i] > 0
  <2>1. i \in 1..n /\ f[i] \in Nat
    OBVIOUS
  <2>2. f[i] * (n + 1) \in Nat
    BY <2>1
  <2>. QED  BY <2>1, <2>2
<1>2. g \in [1..n -> Nat] /\ DOMAIN g = 1..n
  BY <1>1
<1>3. \A i \in 1..n : i \notin own => g[i] = 0
  OBVIOUS
<1>. HIDE DEF g
<1>4. PICK p : Orders(p, g)
  BY <1>2, SortExists, Zenon
<1>. DEFINE b == p[n]
<1>5. PICK k \in own : TRUE
  BY Zenon
<1>6. p \in [1..n -> 1..n] /\ \A j \in 1..n : \E i \in 1..n : p[i] = j
  <2>1. p \in Bijection(1..n, 1..n)
    BY <1>2, <1>4 DEF Orders
  <2>. QED  BY <2>1, Zenon DEF Bijection, Injection, Surjection
<1>7. n \in 1..n /\ b \in 1..n /\ g[b] \in Nat
  <2>1. n \in 1..n
    BY <1>1, <1>5
  <2>. QED  BY <1>6, <1>2, <2>1, Zenon
<1>8. \A j \in 1..n : g[j] <= g[b]
  <2>. TAKE j \in 1..n
  <2>1. PICK i \in 1..n : p[i] = j
    BY <1>6
  <2>2. i = n \/ g[p[i]] <= g[p[n]]
    BY <1>2, <1>4, <1>7 DEF Orders
  <2>. QED  BY <1>7, <2>1, <2>2
<1>. HIDE DEF b
<1>9. b \in own
  BY <1>1, <1>3, <1>5, <1>7, <1>8
<1>10. ASSUME NEW j \in own PROVE f[j] < f[b] \/ (f[j] = f[b] /\ j <= b)
  <2>1. ASSUME NEW x \in Nat, NEW y \in Nat, NEW c \in 1..n, NEW d \in 1..n,
               x * (n + 1) + c <= y * (n + 1) + d
        PROVE  x < y \/ (x = y /\ c <= d)
    <3>1. CASE x > y
      <4>1. x * (n + 1) >= (y + 1) * (n + 1) /\ (y + 1) * (n + 1) = y * (n + 1) + (n + 1)
        BY <3>1
      <4>. QED  BY <2>1, <4>1
    <3>2. CASE x = y
      BY <2>1, <3>2
    <3>. QED  BY <3>1, <3>2
  <2>2. f[j] * (n + 1) + j <= f[b] * (n + 1) + b
    BY <1>1, <1>8, <1>9, Zenon
  <2>. QED  BY <1>1, <1>9, <2>1, <2>2, Zenon
<1>. QED  BY <1>9, <1>10, Zenon DEF Best

\* The library's operators are the same inside Load.
LEMMA SameBijection ==
    ASSUME NEW S, NEW T
    PROVE  L!Bijection(S, T) = Bijection(S, T)
BY Zenon DEF L!Bijection, Bijection, L!Injection, Injection, L!Surjection, Surjection,
   L!IsInjective, IsInjective

LEMMA SameCardinality ==
    ASSUME NEW S
    PROVE  L!Cardinality(S) = Cardinality(S)
BY Zenon DEF L!Cardinality, Cardinality

\* What Sort returns.
LEMMA SortFacts ==
    ASSUME NEW s \in Seq(Nat)
    PROVE  /\ L!Sort(s) \in Seq(Nat) /\ Len(L!Sort(s)) = Len(s)
           /\ \A i, j \in 1..Len(s) : i < j => L!Sort(s)[i] <= L!Sort(s)[j]
           /\ \E p \in Bijection(1..Len(s), 1..Len(s)) : \A i \in 1..Len(s) : L!Sort(s)[i] = s[p[i]]
<1>. DEFINE n == Len(s)
            order == CHOOSE p \in L!Bijection(DOMAIN s, DOMAIN s) :
                         \A i, j \in DOMAIN s : i < j => s[p[i]] <= s[p[j]]
<1>1. n \in Nat /\ s \in [1..n -> Nat] /\ DOMAIN s = 1..n
  BY LenFacts, Zenon
<1>2. \E p : Orders(p, s)
  BY <1>1, SortExists, Zenon
<1>3. Orders(order, s)
  BY <1>2, SameBijection, Zenon DEF Orders
<1>4. L!Sort(s) = [i \in DOMAIN s |-> s[order[i]]]
  BY Zenon DEF L!Sort
<1>. HIDE DEF order
<1>5. order \in [1..n -> 1..n]
  BY <1>1, <1>3, Zenon DEF Orders, Bijection, Injection
<1>6. L!Sort(s) \in [1..n -> Nat]
  BY <1>1, <1>4, <1>5, Zenon
<1>7. L!Sort(s) \in Seq(Nat) /\ Len(L!Sort(s)) = n
  BY <1>1, <1>6, SeqOfFunction
<1>8. \A i, j \in 1..n : i < j => L!Sort(s)[i] <= L!Sort(s)[j]
  <2>1. \A i, j \in 1..n : i < j => s[order[i]] <= s[order[j]]
    BY <1>1, <1>3, Zenon DEF Orders
  <2>2. \A i \in 1..n : L!Sort(s)[i] = s[order[i]]
    BY <1>1, <1>4, Zenon
  <2>. QED  BY <2>1, <2>2, Zenon
<1>. QED  BY <1>1, <1>3, <1>4, <1>7, <1>8, Zenon DEF Orders

\* The arrangement of an arrangement is one.
LEMMA Compose ==
    ASSUME NEW S, NEW T, NEW p \in Bijection(S, S), NEW f \in Bijection(S, T)
    PROVE  [i \in S |-> f[p[i]]] \in Bijection(S, T)
<1>. DEFINE g == [i \in S |-> f[p[i]]]
<1>1. /\ p \in [S -> S] /\ \A a, b \in S : p[a] = p[b] => a = b
      /\ \A t \in S : \E x \in S : p[x] = t
  BY BijectionFacts
<1>2. /\ f \in [S -> T] /\ \A a, b \in S : f[a] = f[b] => a = b
      /\ \A t \in T : \E x \in S : f[x] = t
  BY BijectionFacts
<1>3. g \in [S -> T]
  BY <1>1, <1>2, Zenon
<1>4. \A a, b \in S : g[a] = g[b] => a = b
  BY <1>1, <1>2, Zenon
<1>5. \A t \in T : \E x \in S : g[x] = t
  <2>. TAKE t \in T
  <2>1. PICK y \in S : f[y] = t
    BY <1>2, Zenon
  <2>2. PICK x \in S : p[x] = y
    BY <1>1, Zenon
  <2>. QED  BY <2>1, <2>2, Zenon
<1>. HIDE DEF g
<1>6. g \in Bijection(S, T)
  BY <1>3, <1>4, <1>5, BijectionFacts, Zenon
<1>. QED  BY <1>6, Zenon DEF g

\* Numbering n more things after the first m.
LEMMA Extend ==
    ASSUME NEW m \in Nat, NEW n \in Nat, NEW S, NEW f \in Bijection(1..m, S),
           NEW c, \A i \in 1..n : <<c, i>> \notin S
    PROVE  [i \in 1..m + n |-> IF i <= m THEN f[i] ELSE <<c, i - m>>]
               \in Bijection(1..m + n, S \cup ({c} \X (1..n)))
<1>. DEFINE g == [i \in 1..m + n |-> IF i <= m THEN f[i] ELSE <<c, i - m>>]
            U == S \cup ({c} \X (1..n))
<1>1. /\ f \in [1..m -> S] /\ \A a, b \in 1..m : f[a] = f[b] => a = b
      /\ \A t \in S : \E x \in 1..m : f[x] = t
  BY BijectionFacts
<1>2. ASSUME NEW i \in 1..m + n
      PROVE  /\ i <= m => i \in 1..m /\ g[i] = f[i] /\ g[i] \in S
             /\ i > m => i - m \in 1..n /\ g[i] = <<c, i - m>> /\ g[i] \notin S
  BY <1>1
<1>3. DOMAIN g = 1..m + n /\ g = [i \in DOMAIN g |-> g[i]]
  OBVIOUS
<1>. HIDE DEF g
<1>4. ASSUME NEW i \in 1..m + n PROVE g[i] \in U
  <2>1. CASE i <= m
    BY <1>2, <2>1, Zenon
  <2>2. CASE i > m
    <3>1. <<c, i - m>> \in {c} \X (1..n)
      BY <1>2, <2>2, Zenon
    <3>. QED  BY <1>2, <2>2, <3>1, Zenon
  <2>. QED  BY <2>1, <2>2
<1>5. g \in [1..m + n -> U]
  BY <1>3, <1>4, Zenon
<1>6. ASSUME NEW a \in 1..m + n, NEW b \in 1..m + n, g[a] = g[b] PROVE a = b
  <2>1. CASE a <= m
    <3>1. b <= m
      BY <1>2, <1>6, <2>1
    <3>. QED  BY <1>1, <1>2, <1>6, <2>1, <3>1, Zenon
  <2>2. CASE a > m
    <3>1. b > m
      BY <1>2, <1>6, <2>2
    <3>2. <<c, a - m>> = <<c, b - m>>
      BY <1>2, <1>6, <2>2, <3>1, Zenon
    <3>. QED  BY <3>2
  <2>. QED  BY <2>1, <2>2
<1>7. ASSUME NEW t \in U PROVE \E x \in 1..m + n : g[x] = t
  <2>1. CASE t \in S
    <3>1. PICK x \in 1..m : f[x] = t
      BY <1>1, <2>1, Zenon
    <3>2. x \in 1..m + n /\ x <= m
      OBVIOUS
    <3>. QED  BY <1>2, <3>1, <3>2, Zenon
  <2>2. CASE t \in {c} \X (1..n)
    <3>1. PICK j \in 1..n : t = <<c, j>>
      BY <2>2
    <3>2. m + j \in 1..m + n /\ m + j > m /\ (m + j) - m = j
      OBVIOUS
    <3>3. g[m + j] = <<c, j>>
      BY <1>2, <3>2, Zenon
    <3>. QED  BY <3>1, <3>2, <3>3, Zenon
  <2>. QED  BY <2>1, <2>2, Zenon
<1>. HIDE DEF U
<1>8. g \in Bijection(1..m + n, U)
  BY <1>5, <1>6, <1>7, BijectionFacts, Zenon
<1>. QED  BY <1>8, Zenon DEF g, U

-----------------------------------------------------------------------------
(* The load run.                                                           *)

\* No element is larger than a later one.
Ascending(s) == \A i, j \in 1..Len(s) : i < j => s[i] <= s[j]

\* What the variables of a load run hold.
LTypes ==
    /\ spawned \in 0..N /\ joined \in 0..N
    /\ cpc \in [L!Conns -> {"none", "connect", "loop", "sent", "drain", "ok", "err"}]
    /\ lat \in [L!Conns -> Seq(Nat)] /\ merged \in Seq(Nat)

\* Each of the first k connections is in the result: one that has failed as an
\* error only, any other with every one of its samples, once.
Accounted(k) ==
    /\ \A c \in 1..k : cpc[c] \in {"ok", "err"}
    /\ errors = L!Cardinality({c \in 1..k : cpc[c] = "err"})
    /\ \E from \in L!Bijection(DOMAIN merged, L!Measured(k)) :
           \A i \in DOMAIN merged : merged[i] = lat[from[i][1]][from[i][2]]

\* The inductive invariant of a load run: tasks are joined once all are spawned,
\* and the connections joined so far, no others, are in the result.
LInv ==
    /\ LTypes
    /\ joined > 0 => spawned = N
    /\ finished => joined = N /\ Ascending(merged)
    /\ Accounted(joined)

\* The samples of the first k connections, one connection at a time.
LEMMA MeasuredFacts ==
    ASSUME NEW x, NEW k
    PROVE  x \in L!Measured(k) <=> \E c \in 1..k : cpc[c] = "ok" /\ x \in {c} \X DOMAIN lat[c]
BY Zenon DEF L!Measured

\* The samples of the connections joined and the result stay as they are.
LEMMA SameAccount ==
    ASSUME NEW k, Accounted(k), errors' = errors, merged' = merged,
           \A c \in 1..k : cpc'[c] = cpc[c] /\ lat'[c] = lat[c]
    PROVE  Accounted(k)'
<1>1. \A x : x \in L!Measured(k)' <=> x \in L!Measured(k)
  BY Zenon DEF L!Measured
<1>2. L!Measured(k)' = L!Measured(k)
  BY <1>1, Zenon
<1>3. {c \in 1..k : cpc'[c] = "err"} = {c \in 1..k : cpc[c] = "err"}
  OBVIOUS
<1>4. PICK from \in L!Bijection(DOMAIN merged, L!Measured(k)) :
          \A i \in DOMAIN merged : merged[i] = lat[from[i][1]][from[i][2]]
  BY Zenon DEF Accounted
<1>5. ASSUME NEW i \in DOMAIN merged PROVE merged[i] = lat'[from[i][1]][from[i][2]]
  <2>1. from[i] \in L!Measured(k)
    BY <1>4, SameBijection, BijectionFacts
  <2>2. from[i][1] \in 1..k
    BY <2>1, MeasuredFacts
  <2>. QED  BY <1>4, <2>2, Zenon
<1>. QED  BY <1>2, <1>3, <1>4, <1>5, Zenon DEF Accounted

\* Nothing is joined yet.
LEMMA Nothing ==
    /\ 1..0 = {} /\ DOMAIN <<>> = {} /\ <<>> \in L!Bijection({}, {}) /\ L!Cardinality({}) = 0
    /\ <<>> \in Seq(Nat) /\ Len(<<>>) = 0
<1>1. <<>> \in [{} -> {}]
  OBVIOUS
<1>2. <<>> \in Bijection({}, {})
  BY <1>1, BijectionFacts, Zenon
<1>. QED  BY <1>2, FS_EmptySet, SameBijection, SameCardinality

\* LInv holds of a load run that has not begun, the first one and any later.
LEMMA LoadInit == L!Init => LInv
<1>. SUFFICES ASSUME L!Init PROVE LInv
  OBVIOUS
<1>1. LTypes
  BY Nothing, LoadAssumption DEF L!Init, LTypes
<1>2. L!Measured(0) = {}
  BY Nothing, Zenon DEF L!Measured
<1>3. Accounted(0)
  BY <1>2, Nothing, Zenon DEF L!Init, Accounted
<1>. QED  BY <1>1, <1>3 DEF L!Init, LInv

LEMMA ResetStep == LoadReset => LInv'
<1>. SUFFICES ASSUME LoadReset PROVE LInv'
  OBVIOUS
<1>1. LTypes'
  BY Nothing, LoadAssumption DEF LoadReset, LTypes, L!Conns
<1>2. L!Measured(0)' = {}
  BY Nothing, Zenon DEF L!Measured
<1>3. Accounted(0)'
  BY <1>2, Nothing, Zenon DEF LoadReset, Accounted
<1>. QED  BY <1>1, <1>3 DEF LoadReset, LInv

\* A connection that has not ended yet, and so not been joined, takes a step.
LEMMA ConnectionStep ==
    ASSUME LInv, NEW c \in L!Conns, Connection(c)
    PROVE  LInv'
<1>1. /\ UNCHANGED <<spawned, joined, errors, merged, finished>>
      /\ cpc[c] \notin {"ok", "err"}
      /\ \E to \in {"loop", "sent", "drain", "ok", "err"} : cpc' = [cpc EXCEPT ![c] = to]
      /\ \/ UNCHANGED lat
         \/ \E d \in Latencies : lat' = [lat EXCEPT ![c] = Append(@, d)]
  BY Zenon DEF Connection, L!Send, L!Fails, L!Drained, L!Connected, L!Answered, L!Step
<1>2. ASSUME NEW d \in Latencies PROVE Append(lat[c], d) \in Seq(Nat)
  BY LoadAssumption DEF LInv, LTypes
<1>3. LTypes'
  BY <1>1, <1>2 DEF LInv, LTypes, L!Conns
<1>4. \A k \in 1..joined : k # c /\ k \in L!Conns
  BY <1>1, LoadAssumption DEF LInv, LTypes, Accounted, L!Conns
<1>5. \A k \in 1..joined : cpc'[k] = cpc[k] /\ lat'[k] = lat[k]
  BY <1>1, <1>4, Zenon DEF LInv, LTypes
<1>6. Accounted(joined)'
  <2>1. Accounted(joined)
    BY Zenon DEF LInv
  <2>2. \A k : k = joined => Accounted(k)'
    BY <1>1, <1>5, <2>1, SameAccount, Zenon
  <2>. QED  BY <1>1, <2>2, Zenon
<1>. QED  BY <1>1, <1>3, <1>6, Zenon DEF LInv, Ascending

\* Connections are only spawned while none has been joined.
LEMMA SpawnStep ==
    ASSUME LInv, L!Spawn
    PROVE  LInv'
<1>1. /\ UNCHANGED <<joined, lat, errors, merged, finished>>
      /\ spawned < N /\ spawned' = spawned + 1 /\ cpc' = [cpc EXCEPT ![spawned'] = "connect"]
  BY Zenon DEF L!Spawn
<1>2. joined = 0 /\ ~finished /\ spawned' \in 0..N
  BY <1>1, LoadAssumption DEF LInv, LTypes
<1>3. LTypes'
  BY <1>1, <1>2, Zenon DEF LInv, LTypes, L!Conns
<1>4. Accounted(0)'
  <2>1. Accounted(0)
    BY <1>2, Zenon DEF LInv
  <2>. QED  BY <1>1, <2>1, Nothing, SameAccount, Zenon
<1>. QED  BY <1>1, <1>2, <1>3, <1>4 DEF LInv

\* The next connection joins the result, as an error or with its samples.
LEMMA JoinStep ==
    ASSUME LInv, L!Join
    PROVE  LInv'
<1>. DEFINE k == joined
            c == joined + 1
<1>1. /\ UNCHANGED <<late, spawned, cpc, lat, finished>> /\ joined' = c
      /\ spawned = N /\ k < N /\ cpc[c] \in {"ok", "err"} /\ ~finished
      /\ IF cpc[c] = "ok" THEN merged' = merged \o lat[c] /\ errors' = errors
                          ELSE errors' = errors + 1 /\ merged' = merged
  BY LoadAssumption DEF L!Join, LInv, LTypes
<1>2. /\ k \in Nat /\ c \in L!Conns /\ c = k + 1 /\ c \in Nat /\ c \in 0..N
      /\ 1..c = (1..k) \cup {c} /\ c \notin 1..k
  BY <1>1, LoadAssumption DEF LInv, LTypes, L!Conns
<1>3. merged \in Seq(Nat) /\ lat[c] \in Seq(Nat)
  BY <1>2, Zenon DEF LInv, LTypes
<1>4. LTypes'
  <2>1. merged' \in Seq(Nat)
    BY <1>1, <1>3, ConcatFacts, Zenon
  <2>. QED  BY <1>1, <1>2, <2>1, Zenon DEF LInv, LTypes
<1>5. /\ \A d \in 1..k : cpc[d] \in {"ok", "err"}
      /\ errors = Cardinality({d \in 1..k : cpc[d] = "err"})
      /\ \E from \in Bijection(DOMAIN merged, L!Measured(k)) :
             \A i \in DOMAIN merged : merged[i] = lat[from[i][1]][from[i][2]]
  BY SameBijection, SameCardinality, Zenon DEF LInv, Accounted
<1>6. PICK from \in Bijection(DOMAIN merged, L!Measured(k)) :
          \A i \in DOMAIN merged : merged[i] = lat[from[i][1]][from[i][2]]
  BY <1>5, Zenon
<1>7. /\ \A d \in 1..c : cpc'[d] \in {"ok", "err"}
      /\ L!Measured(joined)' = L!Measured(c)
  BY <1>1, <1>2, <1>5 DEF L!Measured
<1>8. ASSUME NEW x
      PROVE  x \in L!Measured(c) <=>
                 x \in L!Measured(k) \/ (cpc[c] = "ok" /\ x \in {c} \X DOMAIN lat[c])
  BY <1>2, MeasuredFacts, Zenon
<1>9. CASE cpc[c] = "ok"
  <2>. DEFINE m == Len(merged)
              n == Len(lat[c])
              g == [i \in 1..m + n |-> IF i <= m THEN from[i] ELSE <<c, i - m>>]
  <2>1. m \in Nat /\ n \in Nat /\ DOMAIN merged = 1..m /\ DOMAIN lat[c] = 1..n
    BY <1>3, LenFacts, Zenon
  <2>2. L!Measured(c) = L!Measured(k) \cup ({c} \X (1..n))
    BY <1>8, <1>9, <2>1, Zenon
  <2>3. \A i \in 1..n : <<c, i>> \notin L!Measured(k)
    BY <1>2, MeasuredFacts
  <2>4. g \in Bijection(1..m + n, L!Measured(c))
    <3>1. from \in Bijection(1..m, L!Measured(k))
      BY <1>6, <2>1, Zenon
    <3>. HIDE DEF m, n, k, c
    <3>2. g \in Bijection(1..m + n, L!Measured(k) \cup ({c} \X (1..n)))
      BY <2>1, <2>3, <3>1, Extend, Zenon
    <3>. QED  BY <2>2, <3>2, Zenon
  <2>5. /\ DOMAIN merged' = 1..m + n
        /\ \A i \in 1..m + n : merged'[i] = IF i <= m THEN merged[i] ELSE lat[c][i - m]
    <3>1. merged' = merged \o lat[c] /\ merged' \in Seq(Nat)
      BY <1>1, <1>4, <1>9, Zenon DEF LTypes
    <3>2. Len(merged') = m + n
      BY <1>3, <3>1, ConcatFacts, Zenon
    <3>3. DOMAIN merged' = 1..m + n
      BY <3>1, <3>2, LenFacts, Zenon
    <3>4. \A i \in 1..m + n : (merged \o lat[c])[i] = IF i <= m THEN merged[i] ELSE lat[c][i - m]
      BY <1>3, ConcatFacts, Zenon
    <3>. QED  BY <3>1, <3>3, <3>4, Zenon
  <2>6. ASSUME NEW i \in 1..m + n PROVE merged'[i] = lat[g[i][1]][g[i][2]]
    <3>1. CASE i <= m
      <4>1. g[i] = from[i] /\ merged'[i] = merged[i]
        BY <2>5, <3>1, Zenon
      <4>. HIDE DEF g, m, n
      <4>2. i \in 1..m
        BY <2>1, <3>1
      <4>. QED  BY <1>6, <2>1, <4>1, <4>2, Zenon
    <3>2. CASE ~(i <= m)
      <4>1. g[i] = <<c, i - m>>
        BY <3>2, Zenon
      <4>2. merged'[i] = lat[c][i - m]
        BY <2>5, <3>2, Zenon
      <4>. HIDE DEF g, m, c
      <4>. QED  BY <4>1, <4>2
    <3>. QED  BY <3>1, <3>2, Zenon
  <2>7. {d \in 1..c : cpc[d] = "err"} = {d \in 1..k : cpc[d] = "err"}
    BY <1>2, <1>9, Zenon
  <2>. HIDE DEF g, m, n
  <2>8. Accounted(joined)'
    <3>1. errors' = L!Cardinality({d \in 1..joined' : cpc'[d] = "err"})
      BY <1>1, <1>5, <1>9, <2>7, SameCardinality, Zenon
    <3>2. \A d \in 1..joined' : cpc'[d] \in {"ok", "err"}
      BY <1>1, <1>7, Zenon
    <3>3. g \in L!Bijection(DOMAIN merged', L!Measured(joined)')
      BY <1>7, <2>4, <2>5, SameBijection, Zenon
    <3>4. \A i \in DOMAIN merged' : merged'[i] = lat'[g[i][1]][g[i][2]]
      BY <1>1, <2>5, <2>6, Zenon
    <3>. QED  BY <3>1, <3>2, <3>3, <3>4, Zenon DEF Accounted
  <2>. QED  BY <1>1, <1>4, <2>8, Zenon DEF LInv
<1>10. CASE cpc[c] # "ok"
  <2>1. L!Measured(c) = L!Measured(k)
    BY <1>8, <1>10, Zenon
  <2>2. {d \in 1..c : cpc[d] = "err"} = {d \in 1..k : cpc[d] = "err"} \cup {c}
    BY <1>1, <1>2, <1>10, Zenon
  <2>3. IsFiniteSet({d \in 1..k : cpc[d] = "err"})
    <3>1. IsFiniteSet(1..k)
      BY <1>2, FS_Interval
    <3>. QED  BY <3>1, FS_Subset, Zenon
  <2>4. Cardinality({d \in 1..c : cpc[d] = "err"}) = errors + 1
    BY <1>2, <1>5, <2>2, <2>3, FS_AddElement, Zenon
  <2>5. Accounted(joined)'
    <3>1. errors' = L!Cardinality({d \in 1..joined' : cpc'[d] = "err"})
      BY <1>1, <1>10, <2>4, SameCardinality, Zenon
    <3>2. \A d \in 1..joined' : cpc'[d] \in {"ok", "err"}
      BY <1>1, <1>7, Zenon
    <3>3. from \in L!Bijection(DOMAIN merged', L!Measured(joined)')
      BY <1>1, <1>6, <1>7, <1>10, <2>1, SameBijection, Zenon
    <3>4. \A i \in DOMAIN merged' : merged'[i] = lat'[from[i][1]][from[i][2]]
      BY <1>1, <1>6, <1>10, Zenon
    <3>. QED  BY <3>1, <3>2, <3>3, <3>4, Zenon DEF Accounted
  <2>. QED  BY <1>1, <1>4, <2>5, Zenon DEF LInv
<1>. QED  BY <1>9, <1>10, Zenon

\* Sorting moves the samples and loses none.
LEMMA FinishStep ==
    ASSUME LInv, L!Finish
    PROVE  LInv'
<1>1. /\ UNCHANGED <<late, spawned, joined, cpc, lat, errors>>
      /\ joined = N /\ finished' = TRUE /\ merged' = L!Sort(merged)
  BY Zenon DEF L!Finish
<1>. DEFINE n == Len(merged)
<1>2. merged \in Seq(Nat) /\ n \in Nat /\ DOMAIN merged = 1..n
  BY LenFacts, Zenon DEF LInv, LTypes
<1>3. merged' \in Seq(Nat) /\ DOMAIN merged' = 1..n /\ Len(merged') = n
  BY <1>1, <1>2, SortFacts, LenFacts, Zenon
<1>4. Ascending(merged)'
  BY <1>1, <1>2, SortFacts, Zenon DEF Ascending
<1>5. PICK p \in Bijection(1..n, 1..n) : \A i \in 1..n : merged'[i] = merged[p[i]]
  BY <1>1, <1>2, SortFacts, Zenon
<1>6. PICK from \in Bijection(1..n, L!Measured(N)) :
          \A i \in 1..n : merged[i] = lat[from[i][1]][from[i][2]]
  BY <1>1, <1>2, SameBijection DEF LInv, Accounted
<1>. DEFINE g == [i \in 1..n |-> from[p[i]]]
<1>7. g \in Bijection(1..n, L!Measured(N))
  BY <1>5, <1>6, Compose, Zenon
<1>8. \A i \in 1..n : merged'[i] = lat[g[i][1]][g[i][2]]
  <2>1. p \in [1..n -> 1..n]
    BY <1>5, BijectionFacts, Zenon
  <2>. QED  BY <1>5, <1>6, <2>1, Zenon
<1>9. L!Measured(N)' = L!Measured(N)
  BY <1>1, Zenon DEF L!Measured
<1>. HIDE DEF g
<1>10. Accounted(N)'
  <2>1. /\ \A c \in 1..N : cpc[c] \in {"ok", "err"}
        /\ errors = L!Cardinality({c \in 1..N : cpc[c] = "err"})
    BY <1>1, Zenon DEF LInv, Accounted
  <2>. QED  BY <1>1, <1>3, <1>7, <1>8, <1>9, <2>1, SameBijection DEF Accounted
<1>11. LTypes'
  BY <1>1, <1>3, Zenon DEF LInv, LTypes
<1>. QED  BY <1>1, <1>4, <1>10, <1>11, Zenon DEF LInv

\* No step of the benchmark violates LInv: those of the sweep and of the servers
\* leave the load run alone.
LEMMA LoadInductive == LInv /\ [BenchNext]_benchVars => LInv'
<1>. SUFFICES ASSUME LInv, [BenchNext]_benchVars PROVE LInv'
  OBVIOUS
<1>1. CASE UNCHANGED <<spawned, joined, cpc, lat, errors, merged, finished>>
  <2>1. L!Measured(joined)' = L!Measured(joined)
    BY <1>1, Zenon DEF L!Measured
  <2>2. Accounted(joined)'
    BY <1>1, <2>1, Zenon DEF LInv, Accounted
  <2>. QED  BY <1>1, <2>2, Zenon DEF LInv, LTypes, Ascending
<1>2. CASE LoadRun
  BY <1>2, SpawnStep, JoinStep, FinishStep, Zenon DEF LoadRun
<1>3. CASE WarmupDone \/ MeasureDone
  BY <1>3, ResetStep, Zenon DEF WarmupDone, MeasureDone
<1>4. CASE DeadlinePasses
  BY <1>1, <1>4, Zenon DEF DeadlinePasses, L!Deadline
<1>5. ASSUME NEW c \in L!Conns, Connection(c) PROVE LInv'
  BY <1>5, ConnectionStep, Zenon
<1>6. CASE SweepStep \/ (\E i \in Servers : Child(i)) \/ UNCHANGED benchVars
  BY <1>1, <1>6, Zenon DEF SweepStep, Child, benchVars, loadVars
<1>. QED  BY <1>2, <1>3, <1>4, <1>5, <1>6, Zenon DEF BenchNext

\* Whatever becomes of the server, when `run' returns every connection is in
\* its result: one that has failed as an error, any other with each of its
\* samples, once.
THEOREM EveryConnectionCounts == BenchSpec => []ResultComplete
<1>1. ASSUME LInv, finished
      PROVE  /\ \A c \in L!Conns : cpc[c] \in {"ok", "err"}
             /\ errors = L!Cardinality({c \in L!Conns : cpc[c] = "err"})
             /\ \E more \in SUBSET L!Broken :
                    \E from \in L!Bijection(DOMAIN merged, L!Measured(N) \cup more) :
                        \A i \in DOMAIN merged : merged[i] = lat[from[i][1]][from[i][2]]
  <2>1. Accounted(N)
    BY <1>1, Zenon DEF LInv
  <2>2. L!Measured(N) \cup {} = L!Measured(N) /\ {} \in SUBSET L!Broken
    BY Zenon
  <2>3. PICK from \in L!Bijection(DOMAIN merged, L!Measured(N)) :
            \A i \in DOMAIN merged : merged[i] = lat[from[i][1]][from[i][2]]
    BY <2>1, Zenon DEF Accounted
  <2>4. from \in L!Bijection(DOMAIN merged, L!Measured(N) \cup {})
    BY <2>2, <2>3, Zenon
  <2>. QED  BY <2>1, <2>2, <2>3, <2>4, Zenon DEF Accounted, L!Conns
<1>2. LInv => ResultComplete
  BY <1>1, Zenon DEF ResultComplete, L!ResultComplete
<1>3. BenchInit => LInv
  BY LoadInit, Zenon DEF BenchInit
<1>. QED  BY <1>2, <1>3, LoadInductive, PTL DEF BenchSpec

\* In an ascending list the place of a quantile splits it.
LEMMA Quantile ==
    ASSUME NEW s \in Seq(Nat), s # <<>>, Ascending(s), NEW q \in 0..100
    PROVE  L!Splits(s, q)
<1>. DEFINE n == Len(s)
            index == (n * q) \div 100
            k == IF index < n THEN index + 1 ELSE n
            Below == {i \in DOMAIN s : s[i] <= s[k]}
            Above == {i \in DOMAIN s : s[i] >= s[k]}
<1>1. n \in Nat \ {0} /\ DOMAIN s = 1..n
  BY LenFacts
<1>2. index \in Nat /\ index * 100 <= n * q /\ n * q < (index + 1) * 100
  <2>1. n * q \in Nat
    BY <1>1
  <2>. HIDE DEF n
  <2>. QED  BY <2>1
<1>. HIDE DEF n, index
<1>3. k \in 1..n
  BY <1>1, <1>2
<1>4. k * 100 >= q * n
  <2>1. n * 100 >= q * n /\ n * q = q * n
    BY <1>1
  <2>. QED  BY <1>1, <1>2, <2>1
<1>5. (n - k + 1) * 100 >= (100 - q) * n
  <2>1. (100 - q) * n = 100 * n - n * q /\ n * q \in Nat
    BY <1>1
  <2>2. k - 1 <= index
    BY <1>1, <1>2
  <2>. QED  BY <1>1, <1>2, <1>3, <2>1, <2>2
<1>6. L!Percentile(s, q, 100) = s[k]
  BY Zenon DEF L!Percentile, n, index
<1>. HIDE DEF k
<1>7. \A i \in 1..n : s[i] \in Nat
  BY <1>1
<1>8. 1..k \subseteq Below /\ k..n \subseteq Above
  <2>1. ASSUME NEW i \in 1..k PROVE i \in Below
    <3>1. i = k \/ s[i] <= s[k]
      BY <1>3, <2>1 DEF Ascending, n
    <3>. QED  BY <1>1, <1>3, <1>7, <3>1
  <2>2. ASSUME NEW i \in k..n PROVE i \in Above
    <3>1. i = k \/ s[k] <= s[i]
      BY <1>1, <1>3, <2>2 DEF Ascending, n
    <3>. QED  BY <1>1, <1>3, <1>7, <3>1
  <2>. QED  BY <2>1, <2>2, Zenon
<1>9. /\ IsFiniteSet(Below) /\ IsFiniteSet(Above)
  <2>1. IsFiniteSet(1..n)
    BY <1>1, FS_Interval
  <2>2. Below \in SUBSET (1..n) /\ Above \in SUBSET (1..n)
    BY <1>1, Zenon
  <2>. QED  BY <2>1, <2>2, FS_Subset, Zenon
<1>10. Cardinality(1..k) = k /\ Cardinality(k..n) = n - k + 1
  BY <1>1, <1>3, FS_Interval
<1>11. /\ Cardinality(Below) \in Nat /\ Cardinality(Above) \in Nat
       /\ Cardinality(Below) >= k /\ Cardinality(Above) >= n - k + 1
  <2>. HIDE DEF Below, Above
  <2>1. Cardinality(Below) \in Nat /\ Cardinality(Above) \in Nat
    BY <1>9, FS_CardinalityType, Zenon
  <2>2. Cardinality(1..k) <= Cardinality(Below) /\ Cardinality(k..n) <= Cardinality(Above)
    BY <1>8, <1>9, FS_Subset, Zenon
  <2>. QED  BY <1>1, <1>3, <1>10, <2>1, <2>2, Zenon
<1>12. Cardinality(Below) * 100 >= q * n /\ Cardinality(Above) * 100 >= (100 - q) * n
  BY <1>1, <1>3, <1>4, <1>5, <1>11
<1>. QED  BY <1>6, <1>12, SameCardinality, Zenon DEF n, L!Splits

\* The percentiles of every result are quantiles of its samples: sorting them
\* is what makes the index of percentile_ms right.
THEOREM PercentilesAreQuantiles == BenchSpec => []PercentileSplits
<1>1. LInv => PercentileSplits
  <2>. SUFFICES ASSUME LInv, finished, merged # <<>> PROVE PercentileSplits
    BY Zenon DEF PercentileSplits, L!PercentileSplits
  <2>1. \A q \in {50, 99, 100} : q \in 0..100
    OBVIOUS
  <2>2. merged \in Seq(Nat) /\ Ascending(merged)
    BY Zenon DEF LInv, LTypes
  <2>. QED  BY <2>1, <2>2, Quantile, Zenon DEF PercentileSplits, L!PercentileSplits
<1>2. BenchInit => LInv
  BY LoadInit, Zenon DEF BenchInit
<1>. QED  BY <1>1, <1>2, LoadInductive, PTL DEF BenchSpec

-----------------------------------------------------------------------------
(* The verdicts.                                                           *)

\* A row of the report.
Sample == [engine : Nat, rps : Nat, bytes : Nat \ {0}, cpu : Nat, cores : Nat]

\* Every metric of a row is a natural number.
LEMMA MetricIsNatural ==
    ASSUME NEW s \in Sample, NEW metric \in {"rps", "mib_per_second", "body_bytes"}
    PROVE  Metric(metric, s) \in Nat
BY DEF Sample, Metric, Rps, MibPerSecond, BodyBytes

\* `best' returns a sample of the engine that no other one of it exceeds.
LEMMA BestIsAPeak ==
    ASSUME NEW n \in Nat, NEW all \in [1..n -> Sample],
           NEW metric \in {"rps", "mib_per_second", "body_bytes"},
           NEW e, \E i \in 1..n : all[i].engine = e
    PROVE  BestOf(all, metric, e) \in Peaks(all, metric, e)
<1>. DEFINE own == {i \in 1..n : all[i].engine = e}
            f == [i \in 1..n |-> Metric(metric, all[i])]
            best == CHOOSE i \in own : \A j \in own :
                        \/ Metric(metric, all[j]) < Metric(metric, all[i])
                        \/ Metric(metric, all[j]) = Metric(metric, all[i]) /\ j <= i
<1>1. f \in [1..n -> Nat]
  BY MetricIsNatural, Zenon
<1>2. PICK i : Best(f, own, i)
  BY <1>1, LastMax, Zenon
<1>3. \A j \in own : f[j] = Metric(metric, all[j]) /\ f[j] \in Nat
  BY <1>1, Zenon
<1>4. /\ best \in own
      /\ \A j \in own : \/ Metric(metric, all[j]) < Metric(metric, all[best])
                        \/ Metric(metric, all[j]) = Metric(metric, all[best]) /\ j <= best
  BY <1>2, <1>3, Zenon DEF Best
<1>5. BestOf(all, metric, e) = all[best]
  <2>1. DOMAIN all = 1..n
    OBVIOUS
  <2>. QED  BY <2>1, Zenon DEF BestOf
<1>. HIDE DEF best
<1>6. ASSUME NEW t \in Range(all), t.engine = e
      PROVE  Metric(metric, all[best]) >= Metric(metric, t)
  <2>1. PICK j \in 1..n : t = all[j]
    BY Zenon DEF Range
  <2>2. j \in own
    BY <1>6, <2>1, Zenon
  <2>. QED  BY <1>3, <1>4, <2>1, <2>2
<1>7. all[best] \in Range(all) /\ all[best].engine = e
  BY <1>4, Zenon DEF Range
<1>. QED  BY <1>5, <1>6, <1>7, Zenon DEF Peaks

\* All peaks of an engine are equally high.
LEMMA PeaksAreEqual ==
    ASSUME NEW all, NEW metric, NEW e, NEW s \in Peaks(all, metric, e), NEW t \in Peaks(all, metric, e),
           Metric(metric, s) \in Nat, Metric(metric, t) \in Nat
    PROVE  Metric(metric, s) = Metric(metric, t)
BY DEF Peaks

\* "faster" is what the peaks say.
LEMMA BeatsIsAtLeastOne ==
    ASSUME NEW n \in Nat, NEW all \in [1..n -> Sample],
           NEW metric \in {"rps", "mib_per_second", "body_bytes"},
           NEW s \in Peaks(all, metric, Httpsys), NEW t \in Peaks(all, metric, Axum)
    PROVE  AtLeastOne(Metric(metric, s), Metric(metric, t)) <=> Beats(all, metric)
<1>1. \A u \in Range(all) : u \in Sample /\ Metric(metric, u) \in Nat
  BY MetricIsNatural, Zenon DEF Range
<1>2. \A e : \A u \in Peaks(all, metric, e) : Metric(metric, u) \in Nat
  BY <1>1, Zenon DEF Peaks
<1>3. \A u \in Peaks(all, metric, Httpsys) : Metric(metric, u) = Metric(metric, s)
  BY <1>2, PeaksAreEqual
<1>4. \A u \in Peaks(all, metric, Axum) : Metric(metric, u) = Metric(metric, t)
  BY <1>2, PeaksAreEqual
<1>. DEFINE x == Metric(metric, s)
            y == Metric(metric, t)
<1>5. x \in Nat /\ y \in Nat
  BY <1>2, Zenon
<1>6. Beats(all, metric) <=> x > 0 /\ x >= y
  BY <1>3, <1>4, Zenon DEF Beats
<1>. HIDE DEF x, y
<1>7. AtLeastOne(x, y) <=> x > 0 /\ x >= y
  BY <1>5 DEF AtLeastOne
<1>. QED  BY <1>6, <1>7, Zenon DEF x, y

\* The list the report is made of, whatever has been measured.
LEMMA ReportedSamples ==
    ASSUME NEW m \in [Range(UpTo(Engines)) -> [rps : Numbers, cpu : Numbers]]
    PROVE  /\ Engines * Points \in Nat
           /\ With(UpTo(Engines), m) \in [1..Engines * Points -> Sample]
           /\ \A i \in 1..Engines * Points :
                  With(UpTo(Engines), m)[i].cores = With(UpTo(Engines), m)[i].cpu
           /\ \A e \in {Httpsys, Axum} : \E i \in 1..Engines * Points :
                  With(UpTo(Engines), m)[i].engine = e
<1>. DEFINE c == UpTo(Engines)
            n == Engines * Points
            all == With(c, m)
<1>1. Engines \in Nat \ {0} /\ Points \in Nat \ {0} /\ Engines >= 2
  BY ConstantsAssumption, EnginesAssumption, Zenon DEF Axum
<1>2. /\ n \in Nat /\ c \in Seq(Nat \X Nat) /\ Len(c) = n
      /\ \A i \in 1..n : c[i] = <<(i - 1) \div Points + 1, ((i - 1) % Points) + 1>>
  BY <1>1, UpToFacts, Zenon
<1>. HIDE DEF c, n
<1>3. ASSUME NEW i \in 1..n
      PROVE  c[i][1] \in Nat /\ c[i][2] \in Nat \ {0} /\ m[c[i]].rps \in Nat /\ m[c[i]].cpu \in Nat
  <2>1. c[i] \in Range(c)
    <3>1. DOMAIN c = 1..n
      BY <1>2, LenFacts, Zenon
    <3>. QED  BY <3>1, Zenon DEF Range
  <2>2. m[c[i]] \in [rps : Numbers, cpu : Numbers]
    BY <2>1, Zenon DEF c
  <2>3. m[c[i]].rps \in Nat /\ m[c[i]].cpu \in Nat
    BY <2>2, LoadAssumption, Zenon
  <2>4. (i - 1) \div Points \in Nat /\ (i - 1) % Points \in Nat
    <3>1. i - 1 \in Nat
      BY <1>2
    <3>. QED  BY <1>1, <3>1
  <2>5. c[i][1] = (i - 1) \div Points + 1 /\ c[i][2] = ((i - 1) % Points) + 1
    BY <1>2
  <2>. QED  BY <2>3, <2>4, <2>5
<1>4. all = [i \in 1..n |-> [engine |-> c[i][1], rps |-> m[c[i]].rps, bytes |-> c[i][2],
                             cpu |-> m[c[i]].cpu, cores |-> m[c[i]].cpu]]
  BY <1>2, Zenon DEF With
<1>. HIDE DEF all
<1>5. all \in [1..n -> Sample]
  BY <1>3, <1>4, Zenon DEF Sample
<1>6. \A i \in 1..n : all[i].cores = all[i].cpu /\ all[i].engine = c[i][1]
  BY <1>4, Zenon
<1>7. ASSUME NEW e \in {1, 2} PROVE \E i \in 1..n : c[i][1] = e
  <2>. DEFINE a == e - 1
              i == a * Points + 1
  <2>1. a \in Nat /\ a + 1 = e /\ a + 1 <= Engines /\ 1 \in 1..Points
    BY <1>1
  <2>2. i \in 1..n
    <3>1. (a + 1) * Points <= Engines * Points /\ (a + 1) * Points = a * Points + Points
          /\ a * Points \in Nat
      BY <1>1, <2>1
    <3>. QED  BY <1>1, <3>1 DEF n
  <2>. HIDE DEF a
  <2>3. (i - 1) \div Points = a
    BY <1>1, <2>1, Place
  <2>. HIDE DEF i
  <2>4. c[i][1] = a + 1
    BY <1>2, <2>2, <2>3
  <2>. QED  BY <2>1, <2>2, <2>4, Zenon
<1>8. \A e \in {Httpsys, Axum} : \E i \in 1..n : all[i].engine = e
  BY <1>6, <1>7, Zenon DEF Httpsys, Axum
<1>. QED  BY <1>2, <1>5, <1>6, <1>8, Zenon DEF c, n, all

\* Cross-multiplied, with the factor that keeps a floor below any rate.
LEMMA CrossMultiplied ==
    ASSUME NEW a \in Nat, NEW b \in Nat, NEW x \in Nat \ {0}, NEW y \in Nat \ {0}, b # 0
    PROVE  AtLeastOne(a * (1000 * x), b * (1000 * y)) <=> b * y <= a * x
<1>1. a * (1000 * x) = 1000 * (a * x) /\ b * (1000 * y) = 1000 * (b * y)
  OBVIOUS
<1>2. a * x \in Nat /\ b * y \in Nat /\ b * y # 0
  OBVIOUS
<1>. DEFINE u == a * x
            v == b * y
<1>. HIDE DEF u, v
<1>3. AtLeastOne(1000 * u, 1000 * v) <=> v <= u
  BY <1>2 DEF AtLeastOne, u, v
<1>. QED  BY <1>1, <1>3 DEF u, v

\* The verdicts of the summary are those of the numbers, whatever has been
\* measured: the last of equal maxima, the order of the samples and the floors
\* under the quotients make no difference to them.
THEOREM VerdictsAreThoseOfTheNumbers == BenchSpec => []VerdictsAgree
<1>1. SInv => VerdictsAgree
  <2>. SUFFICES ASSUME SInv, pc = "report",
                       NEW m \in [Range(concurrency) -> [rps : Numbers, cpu : Numbers]]
                PROVE  LET all == With(concurrency, m)
                       IN /\ Faster("throughput", all, all) <=> Beats(all, "rps")
                          /\ Faster("ingest", all, all) <=> Beats(all, "mib_per_second")
                          /\ \A s, t \in Range(all) :
                                /\ Duel(all, "rps", s, t) => (Faster("cpu", all, all) <=> s.cpu <= t.cpu)
                                /\ Duel(all, "body_bytes", s, t) =>
                                       (Faster("uploads", all, all)
                                           <=> s.cores * MibPerSecond(t) <= t.cores * MibPerSecond(s))
    BY Zenon DEF VerdictsAgree
  <2>. DEFINE all == With(concurrency, m)
              n == Engines * Points
  <2>1. concurrency = UpTo(Engines)
    BY Zenon DEF SInv, ListInv
  <2>2. /\ n \in Nat /\ all \in [1..n -> Sample]
        /\ \A i \in 1..n : all[i].cores = all[i].cpu
        /\ \A e \in {Httpsys, Axum} : \E i \in 1..n : all[i].engine = e
    BY <2>1, ReportedSamples, Zenon
  <2>. HIDE DEF all, n
  <2>3. ASSUME NEW metric \in {"rps", "mib_per_second", "body_bytes"}
        PROVE  /\ BestOf(all, metric, Httpsys) \in Peaks(all, metric, Httpsys)
               /\ BestOf(all, metric, Axum) \in Peaks(all, metric, Axum)
    BY <2>2, BestIsAPeak, Zenon
  <2>4. Faster("throughput", all, all) <=> Beats(all, "rps")
    <3>. DEFINE s == BestOf(all, "rps", Httpsys)
                t == BestOf(all, "rps", Axum)
    <3>1. Faster("throughput", all, all) <=> AtLeastOne(Metric("rps", s), Metric("rps", t))
      BY Zenon DEF Faster, Metric
    <3>2. s \in Peaks(all, "rps", Httpsys) /\ t \in Peaks(all, "rps", Axum)
      BY <2>3, Zenon
    <3>. HIDE DEF s, t
    <3>. QED  BY <2>2, <3>1, <3>2, BeatsIsAtLeastOne, Zenon
  <2>5. Faster("ingest", all, all) <=> Beats(all, "mib_per_second")
    <3>. DEFINE s == BestOf(all, "mib_per_second", Httpsys)
                t == BestOf(all, "mib_per_second", Axum)
    <3>1. Faster("ingest", all, all) <=>
              AtLeastOne(Metric("mib_per_second", s), Metric("mib_per_second", t))
      BY Zenon DEF Faster, Metric
    <3>2. s \in Peaks(all, "mib_per_second", Httpsys) /\ t \in Peaks(all, "mib_per_second", Axum)
      BY <2>3, Zenon
    <3>. HIDE DEF s, t
    <3>. QED  BY <2>2, <3>1, <3>2, BeatsIsAtLeastOne, Zenon
  <2>6. ASSUME NEW s \in Range(all), NEW t \in Range(all)
        PROVE  s \in Sample /\ t \in Sample /\ s.cores = s.cpu /\ t.cores = t.cpu
    <3>1. \A u \in Range(all) : \E i \in 1..n : u = all[i]
      BY <2>2, Zenon DEF Range
    <3>. QED  BY <2>2, <3>1, Zenon
  <2>7. ASSUME NEW s \in Range(all), NEW t \in Range(all), Duel(all, "rps", s, t)
        PROVE  Faster("cpu", all, all) <=> s.cpu <= t.cpu
    <3>1. BestOf(all, "rps", Httpsys) = s /\ BestOf(all, "rps", Axum) = t /\ s.cpu > 0
      BY <2>3, <2>7, Zenon DEF Duel
    <3>2. Faster("cpu", all, all) <=> AtLeastOne(t.cpu, s.cpu)
      BY <3>1, Zenon DEF Faster
    <3>3. s.cpu \in Nat /\ t.cpu \in Nat
      BY <2>6, Zenon DEF Sample
    <3>. QED  BY <3>1, <3>2, <3>3 DEF AtLeastOne
  <2>8. ASSUME NEW s \in Range(all), NEW t \in Range(all), Duel(all, "body_bytes", s, t)
        PROVE  Faster("uploads", all, all) <=> s.cores * MibPerSecond(t) <= t.cores * MibPerSecond(s)
    <3>1. /\ BestOf(all, "body_bytes", Httpsys) = s /\ BestOf(all, "body_bytes", Axum) = t
          /\ s.cpu > 0 /\ s.rps > 0 /\ t.rps > 0
      BY <2>3, <2>8, Zenon DEF Duel
    <3>2. s.cores \in Nat \ {0} /\ t.cores \in Nat
      BY <2>6, <3>1 DEF Sample
    <3>3. MibPerSecond(s) \in Nat \ {0} /\ MibPerSecond(t) \in Nat \ {0}
      <4>1. ASSUME NEW r \in Nat, NEW b \in Nat \ {0}, r > 0 PROVE r * b \in Nat \ {0}
        BY <4>1
      <4>. QED  BY <2>6, <3>1, <4>1, Zenon DEF Sample, MibPerSecond
    <3>4. Faster("uploads", all, all)
              <=> AtLeastOne(t.cores * (1000 * MibPerSecond(s)), s.cores * (1000 * MibPerSecond(t)))
      <4>1. Faster("uploads", all, all) <=> CoresPerMibAtLeast(t, s)
        BY <3>1, Zenon DEF Faster
      <4>. QED  BY <3>3, <4>1 DEF CoresPerMibAtLeast
    <3>. QED  BY <3>2, <3>3, <3>4, CrossMultiplied
  <2>. QED  BY <2>4, <2>5, <2>7, <2>8, Zenon DEF all
<1>. QED  BY <1>1, InitInv, Inductive, BenchImplementsSweep, PTL DEF Spec
=============================================================================
