------------------------------- MODULE IoPort -------------------------------
(***************************************************************************)
(* The completion port and its threads: src/crates/httpsys/src/iocp.rs.    *)
(*                                                                         *)
(* `IoPort::new' spawns the threads, `IoPort::drop' posts one sentinel per *)
(* thread, joins the threads and closes the port.  A thread removes up to  *)
(* BATCH entries at a time; sentinels and completion packets share one     *)
(* first-in first-out queue.  Delivering one packet is one step here; what *)
(* happens inside it is the subject of Overlapped.                         *)
(***************************************************************************)
EXTENDS Naturals, Sequences, Functions

CONSTANTS NThreads,      \* completion threads asked for
          Batch,         \* BATCH
          Packets,       \* completion packets the kernel may queue
          PostMayFail,   \* PostQueuedCompletionStatus can fail
          Sentinel       \* the packet with SHUTDOWN_KEY

ASSUME ConstantsAssumption ==
    /\ NThreads \in Nat \ {0} /\ Batch \in Nat \ {0}
    /\ PostMayFail \in BOOLEAN /\ Sentinel \notin Packets

Threads == 1..NThreads
Entries == Packets \cup {Sentinel}

VARIABLES
    owner,      \* where the code that owns the port is in `new' and `drop'
    spawned,    \* length of IoPort.threads
    tried,      \* sentinels `drop' has tried to post
    joined,     \* threads it has joined
    associated, \* a file handle is associated with the port
    port,       \* the entries queued on the port
    tpc,        \* where each thread is in `completion_loop'
    entries,    \* the part of its batch the thread has still to look at
    stop,       \* its local `stop'
    unposted,   \* packets the kernel has not queued yet
    delivered,  \* packets given to `deliver_completion'
    early       \* history: packets queued before `drop' began

ownerVars == <<owner, spawned, tried, joined, associated>>
threadVars == <<tpc, entries, stop>>
packetVars == <<unposted, delivered, early>>
vars == <<ownerVars, port, threadVars, packetVars>>

Init ==
    /\ owner = "create" /\ spawned = 0 /\ tried = 0 /\ joined = 0
    /\ associated = FALSE
    /\ port = <<>>
    /\ tpc = [th \in Threads |-> "unborn"]
    /\ entries = [th \in Threads |-> <<>>]
    /\ stop = [th \in Threads |-> FALSE]
    /\ unposted = Packets /\ delivered = {} /\ early = {}

-----------------------------------------------------------------------------
(* The owner.                                                              *)

\* CreateIoCompletionPort; without a port there is nothing to drop.
Create ==
    /\ owner = "create"
    /\ owner' \in {"spawn", "failed"}
    /\ UNCHANGED <<spawned, tried, joined, associated, port, threadVars, packetVars>>

\* One turn of the loop of `new': the thread is spawned and pushed.
Spawn ==
    /\ owner = "spawn" /\ spawned < NThreads
    /\ spawned' = spawned + 1
    /\ tpc' = [tpc EXCEPT ![spawned + 1] = "wait"]
    /\ UNCHANGED <<owner, tried, joined, associated, port, entries, stop, packetVars>>

StartDrop ==
    /\ owner' = "post"
    /\ early' = Packets \ unposted

\* A spawn fails: `new' returns the error and port_guard is dropped.
SpawnFails ==
    /\ owner = "spawn" /\ spawned < NThreads
    /\ StartDrop
    /\ UNCHANGED <<spawned, tried, joined, associated, port, threadVars, unposted, delivered>>

\* IoPort::associate, called once by RequestQueue::new; when it fails the port
\* is dropped again.
Associate ==
    /\ owner = "spawn" /\ spawned = NThreads
    /\ \/ owner' = "up" /\ associated' = TRUE /\ UNCHANGED early
       \/ StartDrop /\ UNCHANGED associated
    /\ UNCHANGED <<spawned, tried, joined, port, threadVars, unposted, delivered>>

\* RequestQueue::drop has run and the field `_io' is dropped.
Drop ==
    /\ owner = "up"
    /\ StartDrop
    /\ UNCHANGED <<spawned, tried, joined, associated, port, threadVars, unposted, delivered>>

\* One sentinel per spawned thread; a failure to post is ignored.
PostSentinel ==
    /\ owner = "post" /\ tried < spawned
    /\ tried' = tried + 1
    /\ \/ port' = Append(port, Sentinel)
       \/ PostMayFail /\ UNCHANGED port
    /\ UNCHANGED <<owner, spawned, joined, associated, threadVars, packetVars>>

\* Mutant: the owner does not wait for the threads.
JoinNothing ==
    /\ owner = "post" /\ tried = spawned
    /\ joined' = joined + 1
    /\ UNCHANGED <<owner, spawned, tried, associated, port, threadVars, packetVars>>

\* Threads are joined in the order they were spawned.
Join ==
    /\ owner = "post" /\ tried = spawned /\ joined < spawned
    /\ tpc[joined + 1] = "exited"
    /\ joined' = joined + 1
    /\ UNCHANGED <<owner, spawned, tried, associated, port, threadVars, packetVars>>

Close ==
    /\ owner = "post" /\ tried = spawned /\ joined = spawned
    /\ owner' = "closed"
    /\ UNCHANGED <<spawned, tried, joined, associated, port, threadVars, packetVars>>

-----------------------------------------------------------------------------
\* The kernel queues the packet of an operation that ended.
KernelPost(p) ==
    /\ associated /\ owner # "closed"
    /\ p \in unposted
    /\ unposted' = unposted \ {p}
    /\ port' = Append(port, p)
    /\ UNCHANGED <<ownerVars, threadVars, delivered, early>>

-----------------------------------------------------------------------------
(* A completion thread.                                                    *)

\* Mutant: the newest packets are taken first.
DequeueNewest(th) ==
    /\ tpc[th] = "wait"
    /\ \E n \in 1..Len(port) :
        /\ n <= Batch
        /\ entries' = [entries EXCEPT ![th] = SubSeq(port, Len(port) - n + 1, Len(port))]
        /\ port' = SubSeq(port, 1, Len(port) - n)
    /\ tpc' = [tpc EXCEPT ![th] = "batch"]
    /\ UNCHANGED <<ownerVars, stop, packetVars>>

\* GetQueuedCompletionStatusEx removes up to BATCH entries; it waits for one.
Dequeue(th) ==
    /\ tpc[th] = "wait"
    /\ \E n \in 1..Len(port) :
        /\ n <= Batch
        /\ entries' = [entries EXCEPT ![th] = SubSeq(port, 1, n)]
        /\ port' = SubSeq(port, n + 1, Len(port))
    /\ tpc' = [tpc EXCEPT ![th] = "batch"]
    /\ UNCHANGED <<ownerVars, stop, packetVars>>

\* Mutant: the thread leaves as soon as it meets a sentinel.
EntryReturns(th) ==
    /\ tpc[th] = "batch" /\ entries[th] # <<>>
    /\ LET e == Head(entries[th]) IN
        IF e = Sentinel
        THEN tpc' = [tpc EXCEPT ![th] = "exited"] /\ UNCHANGED delivered
        ELSE delivered' = delivered \cup {e} /\ UNCHANGED tpc
    /\ entries' = [entries EXCEPT ![th] = Tail(@)]
    /\ UNCHANGED <<ownerVars, port, stop, unposted, early>>

\* The next entry of the batch: note a sentinel, deliver anything else.
Entry(th) ==
    /\ tpc[th] = "batch" /\ entries[th] # <<>>
    /\ LET e == Head(entries[th]) IN
        IF e = Sentinel
        THEN stop' = [stop EXCEPT ![th] = TRUE] /\ UNCHANGED delivered
        ELSE delivered' = delivered \cup {e} /\ UNCHANGED stop
    /\ entries' = [entries EXCEPT ![th] = Tail(@)]
    /\ UNCHANGED <<ownerVars, port, tpc, unposted, early>>

\* The batch is finished: leave or wait for the next one.
EndBatch(th) ==
    /\ tpc[th] = "batch" /\ entries[th] = <<>>
    /\ tpc' = [tpc EXCEPT ![th] = IF stop[th] THEN "exited" ELSE "wait"]
    /\ UNCHANGED <<ownerVars, port, entries, stop, packetVars>>

-----------------------------------------------------------------------------
OwnerRuns == Create \/ Spawn \/ SpawnFails \/ Associate \/ PostSentinel \/ Join \/ Close
ThreadNext(th) == Dequeue(th) \/ Entry(th) \/ EndBatch(th)

Next ==
    \/ OwnerRuns \/ Drop
    \/ \E p \in Packets : KernelPost(p)
    \/ \E th \in Threads : ThreadNext(th)

Spec == Init /\ [][Next]_vars

\* Threads run and `drop' goes on while it can; nobody has to drop the port and
\* the kernel has to post nothing.
FairSpec ==
    /\ Spec
    /\ WF_vars(OwnerRuns)
    /\ \A th \in Threads : WF_vars(ThreadNext(th))

-----------------------------------------------------------------------------
(* Properties.                                                             *)

TypeOK ==
    /\ owner \in {"create", "spawn", "up", "post", "closed", "failed"}
    /\ spawned \in 0..NThreads /\ tried \in 0..spawned /\ joined \in 0..spawned
    /\ associated \in BOOLEAN
    /\ port \in Seq(Entries)
    /\ tpc \in [Threads -> {"unborn", "wait", "batch", "exited"}]
    /\ entries \in [Threads -> Seq(Entries)]
    /\ stop \in [Threads -> BOOLEAN]
    /\ unposted \subseteq Packets /\ delivered \subseteq Packets /\ early \subseteq Packets

\* No thread can touch a closed port: `drop' joins every thread that was
\* spawned, those of a failed `new' included, before it closes the handle.  So
\* the loop's "port closed underneath us" return is never taken.
PortOutlivesThreads ==
    owner = "closed" => \A th \in Threads : tpc[th] \in {"unborn", "exited"}

\* A thread that leaves has looked at its whole batch: a packet behind the
\* sentinel is delivered, never dropped on the floor.
BatchFinished ==
    \A p \in Packets \ (unposted \cup delivered) :
        \/ p \in Range(port)
        \/ \E th \in Threads : tpc[th] = "batch" /\ p \in Range(entries[th])

\* Every packet that was queued before `drop' began has been delivered when
\* the port is closed, whichever threads took the sentinels.
EarlyDelivered == owner = "closed" => early \subseteq delivered

\* Dropping the port returns: every thread gets to see a sentinel.
DropReturns == owner = "post" ~> owner = "closed"
=============================================================================
