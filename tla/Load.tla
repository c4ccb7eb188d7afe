-------------------------------- MODULE Load --------------------------------
(***************************************************************************)
(* One run of the load generator: src/tools/httpbench/src/load.rs.         *)
(*                                                                         *)
(* `run' spawns one task per connection, each of which sends one request   *)
(* after the other until the deadline, and then joins the tasks in order   *)
(* and merges their samples.  A latency is a small number.                 *)
(***************************************************************************)
EXTENDS Naturals, Sequences, FiniteSets, Functions

CONSTANTS N,            \* spec.connections, at least 1
          Latencies,    \* what a request can take
          MaxRequests   \* bound: requests of a connection before the deadline

Conns == 1..N

VARIABLES
    late,      \* the deadline has passed
    spawned,   \* connection tasks spawned so far
    joined,    \* connection tasks joined so far
    cpc,       \* where each connection is in `connection_loop'
    lat,       \* its `latencies'
    errors,    \* result.errors
    merged,    \* result.latencies_ns
    finished   \* `run' has returned

vars == <<late, spawned, joined, cpc, lat, errors, merged, finished>>

Init ==
    /\ late = FALSE /\ spawned = 0 /\ joined = 0
    /\ cpc = [c \in Conns |-> "none"]
    /\ lat = [c \in Conns |-> << >>]
    /\ errors = 0 /\ merged = << >> /\ finished = FALSE

\* The clock reaches the deadline.
Deadline ==
    /\ ~late /\ late' = TRUE
    /\ UNCHANGED <<spawned, joined, cpc, lat, errors, merged, finished>>

Step(c, from, to) == cpc[c] = from /\ cpc' = [cpc EXCEPT ![c] = to]

Spawn ==
    /\ spawned < N
    /\ spawned' = spawned + 1
    /\ cpc' = [cpc EXCEPT ![spawned'] = "connect"]
    /\ UNCHANGED <<late, joined, lat, errors, merged, finished>>

-----------------------------------------------------------------------------
(* connection_loop.                                                        *)

Connected(c) ==
    /\ Step(c, "connect", "loop")
    /\ UNCHANGED <<late, spawned, joined, lat, errors, merged, finished>>

\* The head of the loop: one more request, or none once the deadline is past.
Send(c) ==
    /\ IF late THEN Step(c, "loop", "drain")
       ELSE Len(lat[c]) < MaxRequests /\ Step(c, "loop", "sent")
    /\ UNCHANGED <<late, spawned, joined, lat, errors, merged, finished>>

\* The response is in, its body read to the end, and its status a success.
Answered(c, d) ==
    /\ Step(c, "sent", "loop")
    /\ lat' = [lat EXCEPT ![c] = Append(@, d)]
    /\ UNCHANGED <<late, spawned, joined, errors, merged, finished>>

\* The connection cannot be made or breaks, or the status is not a success:
\* the task returns the error, and its samples are dropped with it.
Fails(c) ==
    /\ Step(c, "connect", "err") \/ Step(c, "sent", "err")
    /\ UNCHANGED <<late, spawned, joined, lat, errors, merged, finished>>

\* The sender is dropped and the connection's own task ends.
Drained(c) ==
    /\ Step(c, "drain", "ok")
    /\ UNCHANGED <<late, spawned, joined, lat, errors, merged, finished>>

-----------------------------------------------------------------------------
(* The end of run.                                                         *)

\* Mutant: whoever has finished is joined, and the others are left out.
JoinAnyway ==
    /\ spawned = N /\ joined < N
    /\ joined' = joined + 1
    /\ IF cpc[joined'] = "ok"
       THEN merged' = merged \o lat[joined'] /\ UNCHANGED errors
       ELSE errors' = errors + 1 /\ UNCHANGED merged
    /\ UNCHANGED <<late, spawned, cpc, lat, finished>>

\* The next task, in order, has ended.
Join ==
    /\ spawned = N /\ joined < N
    /\ joined' = joined + 1
    /\ cpc[joined'] \in {"ok", "err"}
    /\ IF cpc[joined'] = "ok"
       THEN merged' = merged \o lat[joined'] /\ UNCHANGED errors
       ELSE errors' = errors + 1 /\ UNCHANGED merged
    /\ UNCHANGED <<late, spawned, cpc, lat, finished>>

\* sort_unstable.
Sort(s) ==
    LET order == CHOOSE p \in Bijection(DOMAIN s, DOMAIN s) :
                     \A i, j \in DOMAIN s : i < j => s[p[i]] <= s[p[j]]
    IN [i \in DOMAIN s |-> s[order[i]]]

\* Mutant: the samples are left in the order of the connections.
FinishUnsorted ==
    /\ joined = N /\ ~finished
    /\ finished' = TRUE
    /\ UNCHANGED <<late, spawned, joined, cpc, lat, errors, merged>>

Finish ==
    /\ joined = N /\ ~finished
    /\ finished' = TRUE
    /\ merged' = Sort(merged)
    /\ UNCHANGED <<late, spawned, joined, cpc, lat, errors>>

\* LoadResult::percentile_ms at the quantile num/den.
Percentile(s, num, den) ==
    IF s = << >> THEN 0
    ELSE LET index == (Len(s) * num) \div den
         IN s[IF index < Len(s) THEN index + 1 ELSE Len(s)]

ConnNext(c) ==
    \/ Connected(c) \/ Send(c) \/ (\E d \in Latencies : Answered(c, d)) \/ Fails(c) \/ Drained(c)

Next ==
    \/ Deadline \/ Spawn \/ Join \/ Finish
    \/ \E c \in Conns : ConnNext(c)

-----------------------------------------------------------------------------
(* Properties.                                                             *)

\* The samples of the first k connections, but for those that have failed.
Measured(k) == UNION {{c} \X DOMAIN lat[c] : c \in {d \in 1..k : cpc[d] = "ok"}}

\* The samples of connections that have failed.
Broken == UNION {{c} \X DOMAIN lat[c] : c \in {d \in Conns : cpc[d] = "err"}}

\* When `run' returns, every connection has ended and is in the result: one
\* that has failed as an error, any other with each of its samples once.  No
\* sample is there twice or out of nowhere.  (Whether those of a connection
\* that has failed are there is the subject of SamplesKept.)
ResultComplete ==
    finished =>
        /\ \A c \in Conns : cpc[c] \in {"ok", "err"}
        /\ errors = Cardinality({c \in Conns : cpc[c] = "err"})
        /\ \E more \in SUBSET Broken :
               \E from \in Bijection(DOMAIN merged, Measured(N) \cup more) :
                   \A i \in DOMAIN merged : merged[i] = lat[from[i][1]][from[i][2]]

\* `run' on a connection that dies: "count it and keep the samples we already
\* have".
SamplesKept ==
    finished => \A c \in Conns : \A i \in DOMAIN lat[c] : lat[c][i] \in Range(merged)

\* No fewer than q hundredths of the list are at or below the percentile, and
\* no fewer than the rest at or above.
Splits(s, q) ==
    LET p == Percentile(s, q, 100)
        below == Cardinality({i \in DOMAIN s : s[i] <= p})
        above == Cardinality({i \in DOMAIN s : s[i] >= p})
    IN below * 100 >= q * Len(s) /\ above * 100 >= (100 - q) * Len(s)

\* What percentile_ms reports is a quantile of the samples.
PercentileSplits == finished /\ merged # << >> => \A q \in {50, 99, 100} : Splits(merged, q)
=============================================================================
