---------------------------- MODULE Overlapped ----------------------------
(***************************************************************************)
(* Overlapped I/O as Rust futures: src/crates/httpsys/src/overlapped.rs,   *)
(* with the dequeue loop of iocp.rs that feeds it.                         *)
(*                                                                         *)
(* A task takes an `OverlappedWrap' from the pool, gives one strong        *)
(* reference to the kernel and awaits.  A completion thread turns the      *)
(* kernel's packet back into that reference, stores the result, wakes the  *)
(* task and drops the reference.  The task may be dropped while it waits:  *)
(* it then cancels the operation and spins until the completion is in.     *)
(*                                                                         *)
(* Every step of one thread that another thread can observe is an action   *)
(* of its own.  Reference counts are kept the way `Arc' keeps them, as a   *)
(* number; who the references belong to is stated by RefsExact.            *)
(***************************************************************************)
EXTENDS Integers, FiniteSets

CONSTANTS Tasks,          \* tasks that await operations
          Threads,        \* completion threads of the IoPort
          Wraps,          \* addresses an OverlappedWrap can be allocated at
          PoolSlots,      \* capacity of the OpPool
          Batch,          \* BATCH: packets one thread dequeues at a time
          SkipOnSuccess,  \* FILE_SKIP_COMPLETION_PORT_ON_SUCCESS was accepted
          Errs,           \* Win32 codes an operation can fail with
          Lens,           \* byte counts an operation can report
          NoTask, NoWrap, NoResult

ERROR_IO_PENDING == 997

\* OverlappedWrap::result: Ok(len) when err is 0, Err(err) otherwise.
Result(e, n) == [err |-> e, len |-> IF e = 0 THEN n ELSE 0]

Outcomes == {Result(e, n) : e \in Errs \cup {0}, n \in Lens}

ASSUME ConstantsAssumption ==
    /\ NoTask \notin Tasks /\ NoWrap \notin Wraps /\ NoResult \notin Outcomes
    /\ PoolSlots \in Nat \ {0} /\ Batch \in Nat \ {0}
    /\ SkipOnSuccess \in BOOLEAN
    /\ Errs \subseteq Nat \ {0, ERROR_IO_PENDING}
    /\ Lens \subseteq Nat /\ 0 \in Lens

VARIABLES
    wrap,       \* contents of each OverlappedWrap
    refs,       \* strong count of its Arc; 0: not allocated
    free,       \* OpPool.free
    leak,       \* where the reference given to the kernel is now
    packet,     \* dwNumberOfBytesTransferred of the packet of each wrap
    lender,     \* the task whose buffer the kernel was given with the wrap
    pc,         \* where each task is in `finish', `poll' or `drop'
    op,         \* Op.wrap of each task's operation
    ec,         \* what the Http* call returned to the task
    result,     \* what the task's last operation resolved to
    woken,      \* the executor was told to poll the task
    tpc,        \* where each thread is in `deliver_completion'
    batch,      \* packets the thread has dequeued and not yet looked at
    cur,        \* the wrap the thread is delivering
    status,     \* the err it computed for it
    outcome     \* history: what the kernel settled each task's operation with

wrapVars == <<wrap, refs, free, leak, packet, lender>>
taskVars == <<pc, op, ec, result, woken>>
threadVars == <<tpc, batch, cur, status>>
vars == <<wrapVars, taskVars, threadVars, outcome>>

\* OverlappedWrap::new and OverlappedWrap::reset.
Fresh ==
    [inner |-> 0, bytes |-> 0, completed |-> FALSE,
     waker |-> NoTask, err |-> 0, len |-> 0]

WrapType ==
    [inner : Errs \cup {0}, bytes : Lens, completed : BOOLEAN,
     waker : Tasks \cup {NoTask}, err : Errs \cup {0}, len : Lens]

-----------------------------------------------------------------------------
Init ==
    /\ wrap = [w \in Wraps |-> Fresh]
    /\ refs = [w \in Wraps |-> 0]
    /\ free = {}
    /\ leak = [w \in Wraps |-> "none"]
    /\ packet = [w \in Wraps |-> 0]
    /\ lender = [w \in Wraps |-> NoTask]
    /\ pc = [t \in Tasks |-> "idle"]
    /\ op = [t \in Tasks |-> NoWrap]
    /\ ec = [t \in Tasks |-> 0]
    /\ result = [t \in Tasks |-> NoResult]
    /\ woken = [t \in Tasks |-> FALSE]
    /\ tpc = [th \in Threads |-> "loop"]
    /\ batch = [th \in Threads |-> {}]
    /\ cur = [th \in Threads |-> NoWrap]
    /\ status = [th \in Threads |-> 0]
    /\ outcome = [t \in Tasks |-> NoResult]

Goto(t, to) == pc' = [pc EXCEPT ![t] = to]

\* k references to w are dropped; the last one frees it.  What is at an address
\* that is not allocated does not matter: it is shown as OverlappedWrap::new
\* will make it.
DropArcs(w, k) ==
    /\ refs' = [refs EXCEPT ![w] = @ - k]
    /\ wrap' = IF refs[w] = k THEN [wrap EXCEPT ![w] = Fresh] ELSE wrap

\* The operation is over for the task; its locals go out of scope.
LeaveOp(t) ==
    /\ Goto(t, "idle")
    /\ op' = [op EXCEPT ![t] = NoWrap]
    /\ result' = [result EXCEPT ![t] = NoResult]
    /\ outcome' = [outcome EXCEPT ![t] = NoResult]

-----------------------------------------------------------------------------
(* The submitting task.                                                    *)

\* OpPool::take: a pooled wrap, or a new allocation when the pool is empty.
Take(w) ==
    \/ w \in free /\ free' = free \ {w}
    \/ free = {} /\ refs[w] = 0 /\ UNCHANGED free

\* Op::new: the Op holds one reference, the kernel is about to get the other.
OpNew(t) ==
    /\ pc[t] = "idle"
    /\ \E w \in Wraps :
        /\ Take(w)
        /\ refs' = [refs EXCEPT ![w] = 2]
        /\ leak' = [leak EXCEPT ![w] = "task"]
        /\ op' = [op EXCEPT ![t] = w]
    /\ Goto(t, "new")
    /\ UNCHANGED <<wrap, packet, lender, ec, result, woken, threadVars, outcome>>

\* The Http* call returns NO_ERROR.  The byte count is in place.  Unless the
\* packet is suppressed it is queued as well, before the call returns.
CallInline(t, n) ==
    /\ pc[t] = "new"
    /\ ec' = [ec EXCEPT ![t] = 0]
    /\ wrap' = [wrap EXCEPT ![op[t]].bytes = n]
    /\ IF SkipOnSuccess
       THEN UNCHANGED <<leak, packet>>
       ELSE /\ leak' = [leak EXCEPT ![op[t]] = "port"]
            /\ packet' = [packet EXCEPT ![op[t]] = n]
    /\ outcome' = [outcome EXCEPT ![t] = Result(0, n)]
    /\ Goto(t, "returned")
    /\ UNCHANGED <<refs, free, lender, op, result, woken, threadVars>>

\* The call returns ERROR_IO_PENDING: the kernel has the reference.
CallPending(t) ==
    /\ pc[t] = "new"
    /\ ec' = [ec EXCEPT ![t] = ERROR_IO_PENDING]
    /\ leak' = [leak EXCEPT ![op[t]] = "kernel"]
    /\ lender' = [lender EXCEPT ![op[t]] = t]
    /\ Goto(t, "returned")
    /\ UNCHANGED <<wrap, refs, free, packet, op, result, woken, threadVars, outcome>>

\* The call returns another code: the kernel refused, no packet will arrive.
CallRefused(t, e) ==
    /\ pc[t] = "new"
    /\ ec' = [ec EXCEPT ![t] = e]
    /\ outcome' = [outcome EXCEPT ![t] = Result(e, 0)]
    /\ Goto(t, "returned")
    /\ UNCHANGED <<wrapVars, op, result, woken, threadVars>>

\* Op::finish, the two arms that reclaim: drop the kernel's reference here.
Reclaim(t) ==
    /\ refs' = [refs EXCEPT ![op[t]] = @ - 1]
    /\ leak' = [leak EXCEPT ![op[t]] = "none"]

FinishInline(t) ==
    /\ pc[t] = "returned" /\ ec[t] = 0 /\ SkipOnSuccess
    /\ Reclaim(t)
    /\ result' = [result EXCEPT ![t] = Result(0, wrap[op[t]].bytes)]
    /\ ec' = [ec EXCEPT ![t] = 0]
    /\ Goto(t, "giveback")
    /\ UNCHANGED <<wrap, free, packet, lender, op, woken, threadVars, outcome>>

\* Mutant: the refused operation's reference is never reclaimed.
FinishRefusedLeaks(t) ==
    /\ pc[t] = "returned" /\ ec[t] \notin {0, ERROR_IO_PENDING}
    /\ result' = [result EXCEPT ![t] = Result(ec[t], 0)]
    /\ ec' = [ec EXCEPT ![t] = 0]
    /\ Goto(t, "giveback")
    /\ UNCHANGED <<wrapVars, op, woken, threadVars, outcome>>

FinishRefused(t) ==
    /\ pc[t] = "returned" /\ ec[t] \notin {0, ERROR_IO_PENDING}
    /\ Reclaim(t)
    /\ result' = [result EXCEPT ![t] = Result(ec[t], 0)]
    /\ ec' = [ec EXCEPT ![t] = 0]
    /\ Goto(t, "giveback")
    /\ UNCHANGED <<wrap, free, packet, lender, op, woken, threadVars, outcome>>

\* Mutant: the future shares the Op's reference instead of cloning the Arc.
FinishAwaitNoClone(t) ==
    /\ pc[t] = "returned"
    /\ ec[t] = ERROR_IO_PENDING \/ (ec[t] = 0 /\ ~SkipOnSuccess)
    /\ ec' = [ec EXCEPT ![t] = 0]
    /\ Goto(t, "poll")
    /\ UNCHANGED <<wrapVars, op, result, woken, threadVars, outcome>>

\* Op::finish, the arm that awaits: build the AsyncOverlappedFuture.
FinishAwait(t) ==
    /\ pc[t] = "returned"
    /\ ec[t] = ERROR_IO_PENDING \/ (ec[t] = 0 /\ ~SkipOnSuccess)
    /\ refs' = [refs EXCEPT ![op[t]] = @ + 1]
    /\ ec' = [ec EXCEPT ![t] = 0]
    /\ Goto(t, "poll")
    /\ UNCHANGED <<wrap, free, leak, packet, lender, op, result, woken, threadVars, outcome>>

\* OverlappedWrap::poll_complete: check, register, check again.
PollCheck(t) ==
    /\ pc[t] = "poll"
    /\ Goto(t, IF wrap[op[t]].completed THEN "ready" ELSE "register")
    /\ UNCHANGED <<wrapVars, op, ec, result, woken, threadVars, outcome>>

PollRegister(t) ==
    /\ pc[t] = "register"
    /\ wrap' = [wrap EXCEPT ![op[t]].waker = t]
    /\ Goto(t, "recheck")
    /\ UNCHANGED <<refs, free, leak, packet, lender, op, ec, result, woken, threadVars, outcome>>

\* Mutant: no second look after registering the waker.
PollNoRecheck(t) ==
    /\ pc[t] = "recheck"
    /\ Goto(t, "parked")
    /\ UNCHANGED <<wrapVars, op, ec, result, woken, threadVars, outcome>>

PollRecheck(t) ==
    /\ pc[t] = "recheck"
    /\ Goto(t, IF wrap[op[t]].completed THEN "ready" ELSE "parked")
    /\ UNCHANGED <<wrapVars, op, ec, result, woken, threadVars, outcome>>

\* The executor polls the task again because it was woken.
Resume(t) ==
    /\ pc[t] = "parked" /\ woken[t]
    /\ woken' = [woken EXCEPT ![t] = FALSE]
    /\ Goto(t, "poll")
    /\ UNCHANGED <<wrapVars, op, ec, result, threadVars, outcome>>

\* The task is polled for a reason of its own (a timer, a joined future).
PollAgain(t) ==
    /\ pc[t] = "parked"
    /\ Goto(t, "poll")
    /\ UNCHANGED <<wrapVars, op, ec, result, woken, threadVars, outcome>>

\* Poll::Ready(self.result()); the future is dropped at the end of the await.
ReadResult(t) ==
    /\ pc[t] = "ready"
    /\ result' = [result EXCEPT ![t] = Result(wrap[op[t]].err, wrap[op[t]].len)]
    /\ refs' = [refs EXCEPT ![op[t]] = @ - 1]
    /\ Goto(t, "giveback")
    /\ UNCHANGED <<wrap, free, leak, packet, lender, op, ec, woken, threadVars, outcome>>

\* Mutants: recycle without Arc::get_mut, and without reset.
GiveBackShared(t) ==
    /\ pc[t] = "giveback"
    /\ IF Cardinality(free) < PoolSlots
       THEN /\ wrap' = [wrap EXCEPT ![op[t]] = Fresh]
            /\ free' = free \cup {op[t]}
            /\ UNCHANGED refs
       ELSE DropArcs(op[t], 1) /\ UNCHANGED free
    /\ LeaveOp(t)
    /\ UNCHANGED <<leak, packet, lender, ec, woken, threadVars>>

GiveBackNoReset(t) ==
    /\ pc[t] = "giveback"
    /\ IF refs[op[t]] = 1 /\ Cardinality(free) < PoolSlots
       THEN free' = free \cup {op[t]} /\ UNCHANGED <<wrap, refs>>
       ELSE DropArcs(op[t], 1) /\ UNCHANGED free
    /\ LeaveOp(t)
    /\ UNCHANGED <<leak, packet, lender, ec, woken, threadVars>>

\* OpPool::give_back: recycle a wrap nobody else refers to, else let it go.
GiveBack(t) ==
    /\ pc[t] = "giveback"
    /\ IF refs[op[t]] = 1 /\ Cardinality(free) < PoolSlots
       THEN /\ wrap' = [wrap EXCEPT ![op[t]] = Fresh]
            /\ free' = free \cup {op[t]}
            /\ UNCHANGED refs
       ELSE DropArcs(op[t], 1) /\ UNCHANGED free
    /\ LeaveOp(t)
    /\ UNCHANGED <<leak, packet, lender, ec, woken, threadVars>>

-----------------------------------------------------------------------------
(* Dropping the future while it is pending: AsyncOverlappedFuture::drop.   *)

DropFuture(t) ==
    /\ pc[t] = "parked"
    /\ Goto(t, IF wrap[op[t]].completed THEN "dropped" ELSE "cancel")
    /\ UNCHANGED <<wrapVars, op, ec, result, woken, threadVars, outcome>>

\* Mutant: drop cancels and returns without waiting for the completion.
CancelNoWait(t) ==
    /\ pc[t] = "cancel"
    /\ Goto(t, "dropped")
    /\ UNCHANGED <<wrapVars, op, ec, result, woken, threadVars, outcome>>

\* CancelIoEx.  The kernel may still finish the operation in its own way; all
\* that changes is that it will finish it.  Its failure is ignored.
CancelIoEx(t) ==
    /\ pc[t] = "cancel"
    /\ Goto(t, "spin")
    /\ UNCHANGED <<wrapVars, op, ec, result, woken, threadVars, outcome>>

BlockUntilComplete(t) ==
    /\ pc[t] = "spin" /\ wrap[op[t]].completed
    /\ Goto(t, "dropped")
    /\ UNCHANGED <<wrapVars, op, ec, result, woken, threadVars, outcome>>

\* The future's Arc and then the Op's are dropped; the wrap is not recycled.
Release(t) ==
    /\ pc[t] = "dropped"
    /\ DropArcs(op[t], 2)
    /\ LeaveOp(t)
    /\ UNCHANGED <<free, leak, packet, lender, ec, woken, threadVars>>

-----------------------------------------------------------------------------
(* The kernel.                                                             *)

\* An accepted operation ends with status e and n bytes, and its packet is
\* queued on the port.  This is the kernel's last use of wrap and buffer.
KernelComplete(w, e, n) ==
    /\ leak[w] = "kernel"
    /\ wrap' = [wrap EXCEPT ![w].inner = e]
    /\ packet' = [packet EXCEPT ![w] = n]
    /\ leak' = [leak EXCEPT ![w] = "port"]
    /\ outcome' = [outcome EXCEPT ![lender[w]] = Result(e, n)]
    /\ lender' = [lender EXCEPT ![w] = NoTask]
    /\ UNCHANGED <<refs, free, taskVars, threadVars>>

-----------------------------------------------------------------------------
(* A completion thread: completion_loop and deliver_completion.            *)

Port == {w \in Wraps : leak[w] = "port"}

\* GetQueuedCompletionStatusEx removes up to BATCH packets.
DequeueSet(th, S) ==
    /\ tpc[th] = "loop" /\ batch[th] = {}
    /\ S # {} /\ Cardinality(S) <= Batch
    /\ batch' = [batch EXCEPT ![th] = S]
    /\ leak' = [w \in Wraps |-> IF w \in S THEN "thread" ELSE leak[w]]
    /\ UNCHANGED <<wrap, refs, free, packet, lender, taskVars, tpc, cur, status, outcome>>

Dequeue(th) == \E S \in SUBSET Port : DequeueSet(th, S)

\* Arc::from_raw on the next entry, and GetOverlappedResult for its status.
FromRaw(th) ==
    /\ tpc[th] = "loop"
    /\ \E w \in batch[th] :
        /\ batch' = [batch EXCEPT ![th] = @ \ {w}]
        /\ cur' = [cur EXCEPT ![th] = w]
        /\ status' = [status EXCEPT ![th] = wrap[w].inner]
    /\ tpc' = [tpc EXCEPT ![th] = "err"]
    /\ UNCHANGED <<wrapVars, taskVars, outcome>>

\* Mutant: `completed' is published with `err', before `len' is stored.
StoreErrAndCompleted(th) ==
    /\ tpc[th] = "err"
    /\ wrap' = [wrap EXCEPT ![cur[th]].err = status[th], ![cur[th]].completed = TRUE]
    /\ tpc' = [tpc EXCEPT ![th] = "len"]
    /\ UNCHANGED <<refs, free, leak, packet, lender, taskVars, batch, cur, status, outcome>>

\* OverlappedWrap::complete, one store at a time.
StoreErr(th) ==
    /\ tpc[th] = "err"
    /\ wrap' = [wrap EXCEPT ![cur[th]].err = status[th]]
    /\ tpc' = [tpc EXCEPT ![th] = "len"]
    /\ UNCHANGED <<refs, free, leak, packet, lender, taskVars, batch, cur, status, outcome>>

StoreLen(th) ==
    /\ tpc[th] = "len"
    /\ wrap' = [wrap EXCEPT ![cur[th]].len = packet[cur[th]]]
    /\ tpc' = [tpc EXCEPT ![th] = "completed"]
    /\ UNCHANGED <<refs, free, leak, packet, lender, taskVars, batch, cur, status, outcome>>

\* Mutant: an operation that moved no bytes is not marked completed.
StoreCompletedIfBytes(th) ==
    /\ tpc[th] = "completed"
    /\ wrap' = [wrap EXCEPT ![cur[th]].completed = (packet[cur[th]] # 0)]
    /\ tpc' = [tpc EXCEPT ![th] = "wake"]
    /\ UNCHANGED <<refs, free, leak, packet, lender, taskVars, batch, cur, status, outcome>>

StoreCompleted(th) ==
    /\ tpc[th] = "completed"
    /\ wrap' = [wrap EXCEPT ![cur[th]].completed = TRUE]
    /\ tpc' = [tpc EXCEPT ![th] = "wake"]
    /\ UNCHANGED <<refs, free, leak, packet, lender, taskVars, batch, cur, status, outcome>>

\* Mutant: the thread drops its reference and forgets to wake.
WakeNobody(th) ==
    /\ tpc[th] = "wake"
    /\ tpc' = [tpc EXCEPT ![th] = "drop"]
    /\ UNCHANGED <<wrapVars, taskVars, batch, cur, status, outcome>>

\* AtomicWaker::wake takes the registered waker, if there is one.
Wake(th) ==
    /\ tpc[th] = "wake"
    /\ woken' = [t \in Tasks |-> woken[t] \/ t = wrap[cur[th]].waker]
    /\ wrap' = [wrap EXCEPT ![cur[th]].waker = NoTask]
    /\ tpc' = [tpc EXCEPT ![th] = "drop"]
    /\ UNCHANGED <<refs, free, leak, packet, lender, pc, op, ec, result, batch, cur, status, outcome>>

\* The Arc made by from_raw goes out of scope, and the loop moves on.
DropRef(th) ==
    /\ tpc[th] = "drop"
    /\ DropArcs(cur[th], 1)
    /\ leak' = [leak EXCEPT ![cur[th]] = "none"]
    /\ packet' = [packet EXCEPT ![cur[th]] = 0]
    /\ cur' = [cur EXCEPT ![th] = NoWrap]
    /\ status' = [status EXCEPT ![th] = 0]
    /\ tpc' = [tpc EXCEPT ![th] = "loop"]
    /\ UNCHANGED <<free, lender, taskVars, batch, outcome>>

-----------------------------------------------------------------------------
\* The steps a task takes without waiting for anyone once it is running.
TaskRuns(t) ==
    \/ \E n \in Lens : CallInline(t, n)
    \/ CallPending(t)
    \/ \E e \in Errs : CallRefused(t, e)
    \/ FinishInline(t) \/ FinishRefused(t) \/ FinishAwait(t)
    \/ PollCheck(t) \/ PollRegister(t) \/ PollRecheck(t) \/ Resume(t)
    \/ ReadResult(t) \/ GiveBack(t)
    \/ CancelIoEx(t) \/ BlockUntilComplete(t) \/ Release(t)

TaskNext(t) == OpNew(t) \/ PollAgain(t) \/ DropFuture(t) \/ TaskRuns(t)

KernelNext(w) == \E e \in Errs \cup {0}, n \in Lens : KernelComplete(w, e, n)

ThreadNext(th) ==
    \/ Dequeue(th) \/ FromRaw(th)
    \/ StoreErr(th) \/ StoreLen(th) \/ StoreCompleted(th)
    \/ Wake(th) \/ DropRef(th)

Next ==
    \/ \E t \in Tasks : TaskNext(t)
    \/ \E w \in Wraps : KernelNext(w)
    \/ \E th \in Threads : ThreadNext(th)

Spec == Init /\ [][Next]_vars

\* What the code may rely on: a task that can run is run, a woken task is
\* polled, completion threads run, and an operation that was cancelled ends.
\* The port is first in, first out, so no packet is passed over for ever; the
\* set of packets does not show the order, strong fairness stands for it.
\* An operation nobody cancelled may stay with the kernel for ever, and nobody
\* has to submit, poll for other reasons or drop anything.
Cancelled(w) == \E t \in Tasks : op[t] = w /\ pc[t] = "spin"

Fairness ==
    /\ \A t \in Tasks : WF_vars(TaskRuns(t))
    /\ \A w \in Wraps : WF_vars(Cancelled(w) /\ KernelNext(w))
    /\ \A th \in Threads : WF_vars(ThreadNext(th))
    /\ \A w \in Wraps : SF_vars(\E th \in Threads, S \in SUBSET Port :
                                   w \in S /\ DequeueSet(th, S))

FairSpec == Spec /\ Fairness

-----------------------------------------------------------------------------
(* Properties.                                                             *)

Awaiting == {"poll", "register", "recheck", "parked", "ready", "cancel", "spin", "dropped"}
InOp == {"new", "returned", "giveback"} \cup Awaiting

TypeOK ==
    /\ wrap \in [Wraps -> WrapType]
    /\ refs \in [Wraps -> Nat]
    /\ free \subseteq Wraps
    /\ leak \in [Wraps -> {"none", "task", "kernel", "port", "thread"}]
    /\ packet \in [Wraps -> Lens]
    /\ lender \in [Wraps -> Tasks \cup {NoTask}]
    /\ pc \in [Tasks -> {"idle"} \cup InOp]
    /\ op \in [Tasks -> Wraps \cup {NoWrap}]
    /\ ec \in [Tasks -> Errs \cup {0, ERROR_IO_PENDING}]
    /\ result \in [Tasks -> Outcomes \cup {NoResult}]
    /\ woken \in [Tasks -> BOOLEAN]
    /\ tpc \in [Threads -> {"loop", "err", "len", "completed", "wake", "drop"}]
    /\ batch \in [Threads -> SUBSET Wraps]
    /\ cur \in [Threads -> Wraps \cup {NoWrap}]
    /\ status \in [Threads -> Errs \cup {0}]
    /\ outcome \in [Tasks -> Outcomes \cup {NoResult}]

B(p) == IF p THEN 1 ELSE 0

\* Somebody still answers for the reference given to the kernel: the kernel, a
\* queued packet, a thread, or the Op whose call has not been accepted and
\* which therefore has to reclaim it.
KernelRefHeld(w) ==
    \/ leak[w] \in {"kernel", "port", "thread"}
    \/ leak[w] = "task" /\ \E t \in Tasks : op[t] = w /\ pc[t] \in {"new", "returned"}

\* The strong count of every wrap is exactly the number of parties that hold
\* it: the pool, an Op, a future, and whoever has the kernel's reference.  So
\* that reference is taken back exactly once on every path (packet, inline
\* success, refusal, cancellation), nothing leaks and nothing is freed early.
RefsExact ==
    \A w \in Wraps :
        refs[w] = B(w \in free) + B(KernelRefHeld(w))
                  + B(\E t \in Tasks : op[t] = w)
                  + B(\E t \in Tasks : op[t] = w /\ pc[t] \in Awaiting)

\* A wrap that `take' can hand out, from the pool or from the allocator, has
\* nobody left who could still touch it: no kernel, no queued packet and no
\* completion thread between its last store and its drop (`give_back' lets a
\* wrap with a second reference go).
NoReuseUnderneath ==
    \A w \in Wraps :
        w \in free \/ refs[w] = 0 =>
            /\ leak[w] = "none"
            /\ \A th \in Threads : w # cur[th] /\ w \notin batch[th]
            /\ \A t \in Tasks : op[t] # w

\* While the kernel can still write to a task's buffer, that task is inside
\* the operation that lent it: `AsyncOverlappedFuture::drop' does not return
\* before the kernel has relinquished the buffer.
BufferStaysLent ==
    \A w \in Wraps :
        leak[w] = "kernel" =>
            lender[w] \in Tasks /\ op[lender[w]] = w /\ pc[lender[w]] \in InOp

\* What the task's await returns is what the kernel reported for that very
\* operation: never a half-written result, never the result of an operation
\* that used the same wrap before.
ResultIsOutcome ==
    \A t \in Tasks : pc[t] = "giveback" => result[t] = outcome[t]

\* A task that returned Pending is never forgotten: once `completed' is set
\* either it has been woken or a thread is about to wake it, because
\* `poll_complete' looks again after registering.
NoLostWakeup ==
    \A t \in Tasks :
        pc[t] = "parked" /\ wrap[op[t]].completed =>
            woken[t] \/ \E th \in Threads :
                            cur[th] = op[t] /\ tpc[th] = "wake" /\ wrap[op[t]].waker = t

\* Every operation whose packet has been queued is resolved or released.
CompletionsArrive ==
    \A t \in Tasks : (op[t] # NoWrap /\ leak[op[t]] = "port") ~> pc[t] = "idle"

\* `block_until_complete' ends: dropping a pending future always returns.
CancellationReturns ==
    \A t \in Tasks : pc[t] = "cancel" ~> pc[t] = "idle"

\* `completed' is stored once per submission: a wrap that shows a result goes
\* back to not completed only by reset or reallocation, with no Op on it.
CompletedOnce ==
    [][\A th \in Threads : StoreCompleted(th) => ~wrap[cur[th]].completed]_vars

-----------------------------------------------------------------------------
(* Refinement.                                                             *)

\* An operation is lent until the kernel settles it and settled until the
\* task has its answer or has let go.
Phase(t) ==
    CASE pc[t] = "idle" -> "idle"
      [] pc[t] = "giveback" -> "resolved"
      [] pc[t] = "new" -> "lent"
      [] OTHER -> IF leak[op[t]] = "kernel" THEN "lent" ELSE "settled"

Abstract == INSTANCE AsyncIo WITH
    phase <- [t \in Tasks |-> Phase(t)], answer <- result

\* Overlapped operations implement the promise made to the awaiting task.
ImplementsAsyncIo == Abstract!Spec
=============================================================================
