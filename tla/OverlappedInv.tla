--------------------------- MODULE OverlappedInv ----------------------------
(***************************************************************************)
(* The inductive invariant of Overlapped, what follows from it, and the    *)
(* steps of a task that takes a wrap, submits it and gets one of the       *)
(* kernel's three answers.  Everything is proved for any number of tasks,  *)
(* threads and wraps.                                                      *)
(***************************************************************************)
EXTENDS Overlapped, TLAPS

-----------------------------------------------------------------------------
(* The data the model is built from.                                       *)

\* Every result the code can build is an outcome, and none is NoResult.
LEMMA ResultTyped ==
    \A e \in Errs \cup {0}, n \in Lens : Result(e, n) \in Outcomes
BY DEF Outcomes

\* OverlappedWrap::new and reset leave a wrap that is not completed.
LEMMA FreshFields ==
    /\ Fresh \in WrapType
    /\ Fresh.inner = 0 /\ Fresh.bytes = 0 /\ Fresh.completed = FALSE
    /\ Fresh.waker = NoTask /\ Fresh.err = 0 /\ Fresh.len = 0
BY ConstantsAssumption, Zenon DEF Fresh, WrapType

LEMMA WrapFields ==
    ASSUME NEW r \in WrapType
    PROVE  /\ r.inner \in Errs \cup {0} /\ r.bytes \in Lens /\ r.completed \in BOOLEAN
           /\ r.waker \in Tasks \cup {NoTask} /\ r.err \in Errs \cup {0} /\ r.len \in Lens
BY Zenon DEF WrapType

\* Storing one field of a wrap leaves a wrap, and the other fields alone.
LEMMA StoreInner ==
    ASSUME NEW r \in WrapType, NEW v \in Errs \cup {0}
    PROVE  [r EXCEPT !.inner = v] \in WrapType
BY Zenon DEF WrapType

LEMMA StoreBytes ==
    ASSUME NEW r \in WrapType, NEW v \in Lens
    PROVE  [r EXCEPT !.bytes = v] \in WrapType
BY Zenon DEF WrapType

LEMMA StoreFlag ==
    ASSUME NEW r \in WrapType
    PROVE  [r EXCEPT !.completed = TRUE] \in WrapType
BY Zenon DEF WrapType

LEMMA StoreWaker ==
    ASSUME NEW r \in WrapType, NEW v \in Tasks \cup {NoTask}
    PROVE  [r EXCEPT !.waker = v] \in WrapType
BY Zenon DEF WrapType

LEMMA StoreErrField ==
    ASSUME NEW r \in WrapType, NEW v \in Errs \cup {0}
    PROVE  [r EXCEPT !.err = v] \in WrapType
BY Zenon DEF WrapType

LEMMA StoreLenField ==
    ASSUME NEW r \in WrapType, NEW v \in Lens
    PROVE  [r EXCEPT !.len = v] \in WrapType
BY Zenon DEF WrapType

-----------------------------------------------------------------------------
(* The inductive invariant.                                                *)

\* An operation belongs to one task, and a task in no operation has no wrap.
OpInv ==
    /\ \A t \in Tasks : op[t] = NoWrap <=> pc[t] = "idle"
    /\ \A t, u \in Tasks : op[t] = op[u] /\ op[t] # NoWrap => t = u

\* The strong counts, wrap by wrap: of the wraps in operations and of the rest.
RefsInv ==
    /\ \A t \in Tasks : op[t] # NoWrap =>
          refs[op[t]] = 1 + B(leak[op[t]] # "none") + B(pc[t] \in Awaiting)
    /\ \A w \in Wraps : (\A t \in Tasks : op[t] # w) =>
          refs[w] = B(w \in free) + B(leak[w] # "none")

\* A wrap nobody uses is as `new' or `reset' leaves it, and a pooled wrap is
\* held by the pool alone.
PoolInv ==
    /\ \A w \in Wraps : w \in free \/ refs[w] = 0 => wrap[w] = Fresh
    /\ \A w \in free : leak[w] = "none" /\ \A t \in Tasks : op[t] # w

\* Where the kernel's reference is, seen from the task's program counter.
LeakOf(t) ==
    /\ pc[t] = "new" => leak[op[t]] = "task" /\ wrap[op[t]].inner = 0
    /\ leak[op[t]] = "task" => pc[t] \in {"new", "returned"}
    /\ pc[t] = "returned" =>
          (leak[op[t]] = "task" <=> (ec[t] # ERROR_IO_PENDING /\ (ec[t] = 0 => SkipOnSuccess)))
    /\ pc[t] \in {"ready", "dropped"} => wrap[op[t]].completed
    /\ pc[t] = "giveback" => leak[op[t]] \in {"none", "thread"}

LeakInv == \A t \in Tasks : op[t] # NoWrap => LeakOf(t)

\* Who lent the buffer the kernel is using.
KernelInv ==
    \A w \in Wraps : leak[w] = "kernel" =>
        /\ lender[w] \in Tasks /\ op[lender[w]] = w
        /\ pc[lender[w]] \in (Awaiting \ {"ready", "dropped"}) \cup {"returned"}

\* A reference the kernel did not take is with an Op that will reclaim it.
TaskRefInv ==
    \A w \in Wraps : leak[w] = "task" => \E t \in Tasks : op[t] = w

\* Every dequeued packet has one thread, which alone has the reference.
ThreadInv ==
    /\ \A th \in Threads : cur[th] = NoWrap <=> tpc[th] = "loop"
    /\ \A th \in Threads : cur[th] # NoWrap => leak[cur[th]] = "thread"
    /\ \A th \in Threads : \A w \in batch[th] : leak[w] = "thread"
    /\ \A th, ti \in Threads : cur[th] = cur[ti] /\ cur[th] # NoWrap => th = ti
    /\ \A th, ti \in Threads : cur[th] \notin batch[ti]
    /\ \A th, ti \in Threads : th # ti => batch[th] \cap batch[ti] = {}

\* `completed' is set by the thread's store and by nothing before it.
CompletedInv ==
    /\ \A w \in Wraps : leak[w] \in {"task", "kernel", "port"} => ~wrap[w].completed
    /\ \A th \in Threads : \A w \in batch[th] : ~wrap[w].completed
    /\ \A th \in Threads : cur[th] # NoWrap =>
          (wrap[cur[th]].completed <=> tpc[th] \in {"wake", "drop"})

\* The result on its way from the kernel to the task.
ResultOf(t) ==
    /\ pc[t] = "idle" => outcome[t] = NoResult
    /\ pc[t] # "giveback" => result[t] = NoResult
    /\ pc[t] = "giveback" => result[t] = outcome[t]
    /\ pc[t] = "returned" /\ leak[op[t]] = "task" =>
          outcome[t] = IF ec[t] = 0 THEN Result(0, wrap[op[t]].bytes) ELSE Result(ec[t], 0)
    /\ op[t] # NoWrap /\ leak[op[t]] = "port" =>
          outcome[t] = Result(wrap[op[t]].inner, packet[op[t]])
    /\ \A th \in Threads : op[t] \in batch[th] /\ op[t] # NoWrap =>
          outcome[t] = Result(wrap[op[t]].inner, packet[op[t]])
    /\ \A th \in Threads : op[t] = cur[th] /\ op[t] # NoWrap =>
          /\ tpc[th] \in {"err", "len", "completed"} =>
                outcome[t] = Result(status[th], packet[op[t]])
          /\ tpc[th] \in {"len", "completed"} => wrap[op[t]].err = status[th]
          /\ tpc[th] = "completed" => wrap[op[t]].len = packet[op[t]]
    /\ pc[t] \in Awaiting \cup {"returned"} /\ wrap[op[t]].completed =>
          outcome[t] = Result(wrap[op[t]].err, wrap[op[t]].len)

ResultInv == \A t \in Tasks : ResultOf(t)

\* A task that has registered and not been completed is the one to be woken.
WakeInv ==
    /\ \A t \in Tasks : pc[t] \in {"recheck", "parked"} /\ ~wrap[op[t]].completed
                           => wrap[op[t]].waker = t
    /\ NoLostWakeup

IInv ==
    /\ TypeOK /\ OpInv /\ RefsInv /\ PoolInv /\ LeakInv /\ KernelInv
    /\ TaskRefInv /\ ThreadInv /\ CompletedInv /\ ResultInv /\ WakeInv

-----------------------------------------------------------------------------
(* Consequences of the invariant that most steps need.                     *)

\* The wrap of a task's operation is that task's, counted and not pooled.
LEMMA OpFacts ==
    ASSUME IInv, NEW t \in Tasks, pc[t] # "idle"
    PROVE  /\ op[t] \in Wraps /\ op[t] # NoWrap /\ op[t] \notin free
           /\ refs[op[t]] = 1 + B(leak[op[t]] # "none") + B(pc[t] \in Awaiting)
           /\ \A u \in Tasks : u # t => op[u] # op[t]
BY ConstantsAssumption DEF IInv, TypeOK, OpInv, RefsInv, PoolInv

\* A wrap whose kernel reference is out is counted and not pooled.
LEMMA LeakFacts ==
    ASSUME IInv, NEW w \in Wraps, leak[w] # "none"
    PROVE  w \notin free /\ refs[w] >= 1
<1>1. w \notin free
  BY Zenon DEF IInv, PoolInv
<1>2. CASE \E t \in Tasks : op[t] = w
  <2>1. PICK t \in Tasks : op[t] = w
    BY <1>2, Zenon
  <2>2. refs[w] = 1 + B(leak[w] # "none") + B(pc[t] \in Awaiting)
    BY <2>1, ConstantsAssumption, Zenon DEF IInv, RefsInv
  <2>. QED  BY <1>1, <2>2 DEF B
<1>3. CASE \A t \in Tasks : op[t] # w
  BY <1>1, <1>3 DEF IInv, RefsInv, B
<1>. QED  BY <1>2, <1>3, Zenon

\* The wrap a thread is delivering has its reference with that thread.
LEMMA CurFacts ==
    ASSUME IInv, NEW th \in Threads, tpc[th] # "loop"
    PROVE  /\ cur[th] \in Wraps /\ cur[th] # NoWrap
           /\ leak[cur[th]] = "thread"
           /\ cur[th] \notin free /\ refs[cur[th]] >= 1
<1>1. cur[th] \in Wraps /\ cur[th] # NoWrap /\ leak[cur[th]] = "thread"
  BY ConstantsAssumption DEF IInv, TypeOK, ThreadInv
<1>. QED  BY <1>1, LeakFacts, Zenon

\* The strong counts of the invariant are the exact ones.
LEMMA CountsAreExact == IInv => RefsExact
<1> SUFFICES ASSUME IInv, NEW w \in Wraps
             PROVE  refs[w] = B(w \in free) + B(KernelRefHeld(w))
                              + B(\E t \in Tasks : op[t] = w)
                              + B(\E t \in Tasks : op[t] = w /\ pc[t] \in Awaiting)
  BY Zenon DEF RefsExact
<1>a. KernelRefHeld(w) <=> leak[w] # "none"
  BY ConstantsAssumption DEF IInv, KernelRefHeld, LeakInv, LeakOf, TaskRefInv, TypeOK
<1>1. CASE \E t \in Tasks : op[t] = w
  <2>1. PICK t \in Tasks : op[t] = w
    BY <1>1, Zenon
  <2>2. pc[t] # "idle"
    BY <2>1, ConstantsAssumption, Zenon DEF IInv, OpInv
  <2>3. (\E u \in Tasks : op[u] = w /\ pc[u] \in Awaiting) <=> pc[t] \in Awaiting
    BY <2>1, <2>2, OpFacts, Zenon
  <2>4. w \notin free /\ refs[w] = 1 + B(leak[w] # "none") + B(pc[t] \in Awaiting)
    BY <2>1, <2>2, OpFacts, Zenon
  <2>. QED  BY <1>a, <1>1, <2>3, <2>4 DEF B
<1>2. CASE \A t \in Tasks : op[t] # w
  <2>1. refs[w] = B(w \in free) + B(leak[w] # "none")
    BY <1>2, Zenon DEF IInv, RefsInv
  <2>. QED  BY <1>a, <1>2, <2>1 DEF B
<1>. QED  BY <1>1, <1>2, Zenon

-----------------------------------------------------------------------------
(* Every action preserves the invariant.                                   *)

\* A task none of whose state changes keeps its result.
LEMMA ResultSame ==
    ASSUME NEW u \in Tasks, ResultOf(u), op[u] = NoWrap => pc[u] = "idle",
           op'[u] = op[u], pc'[u] = pc[u], ec'[u] = ec[u], outcome'[u] = outcome[u],
           result'[u] = result[u], UNCHANGED <<tpc, batch, cur, status>>,
           op[u] # NoWrap => /\ leak'[op[u]] = leak[op[u]] /\ wrap'[op[u]] = wrap[op[u]]
                             /\ packet'[op[u]] = packet[op[u]]
    PROVE  ResultOf(u)'
<1>1. CASE op[u] = NoWrap
  BY <1>1, Zenon DEF ResultOf, Awaiting
<1>2. CASE op[u] # NoWrap
  BY <1>2, ZenonT(40) DEF ResultOf
<1>. QED  BY <1>1, <1>2, Zenon

\* A task that leaves its operation has nothing left of it.
LEMMA ResultLeft ==
    ASSUME NEW u \in Tasks, op'[u] = NoWrap, pc'[u] = "idle",
           result'[u] = NoResult, outcome'[u] = NoResult
    PROVE  ResultOf(u)'
BY Zenon DEF ResultOf, Awaiting

\* Nor does its reference move.
LEMMA LeakSame ==
    ASSUME NEW u \in Tasks, LeakOf(u), op'[u] = op[u], pc'[u] = pc[u], ec'[u] = ec[u],
           leak'[op[u]] = leak[op[u]], wrap'[op[u]] = wrap[op[u]]
    PROVE  LeakOf(u)'
BY Zenon DEF LeakOf

\* A step of a task that is not left registered, and that leaves the wraps of
\* the others alone, loses nobody's wakeup.
LEMMA WakeSame ==
    ASSUME WakeInv, NEW t \in Tasks, pc'[t] \notin {"recheck", "parked"},
           \A u \in Tasks : u # t => pc'[u] = pc[u] /\ op'[u] = op[u],
           \A u \in Tasks : u # t /\ pc[u] \in {"recheck", "parked"} => wrap'[op[u]] = wrap[op[u]],
           UNCHANGED <<woken, tpc, cur>>
    PROVE  WakeInv'
<1>1. ASSUME NEW u \in Tasks, pc'[u] \in {"recheck", "parked"}
      PROVE  pc[u] = pc'[u] /\ op'[u] = op[u] /\ wrap'[op'[u]] = wrap[op[u]]
  BY <1>1, Zenon
<1>2. ASSUME NEW u \in Tasks, pc'[u] \in {"recheck", "parked"}, ~wrap'[op'[u]].completed
      PROVE  wrap'[op'[u]].waker = u
  <2>1. wrap[op[u]].waker = u
    BY <1>1, <1>2, Zenon DEF WakeInv
  <2>. QED  BY <1>1, <1>2, <2>1, Zenon
<1>3. ASSUME NEW u \in Tasks, pc'[u] = "parked", wrap'[op'[u]].completed, ~woken'[u]
      PROVE  \E th \in Threads :
                cur'[th] = op'[u] /\ tpc'[th] = "wake" /\ wrap'[op'[u]].waker = u
  <2>1. pc'[u] \in {"recheck", "parked"}
    BY <1>3, Zenon
  <2>2. pc[u] = "parked" /\ wrap[op[u]].completed /\ ~woken[u]
    BY <1>1, <1>3, <2>1, Zenon
  <2>3. \E th \in Threads : cur[th] = op[u] /\ tpc[th] = "wake" /\ wrap[op[u]].waker = u
    BY <2>2, Zenon DEF WakeInv, NoLostWakeup
  <2>. QED  BY <1>1, <2>1, <2>3, Zenon
<1>. QED  BY <1>2, <1>3, Zenon DEF WakeInv, NoLostWakeup

\* A task moves between two points of its await and touches nothing else.
LEMMA MoveStep ==
    ASSUME IInv, NEW t \in Tasks, NEW to \in Awaiting,
           pc[t] \in Awaiting, pc' = [pc EXCEPT ![t] = to],
           woken' \in [Tasks -> BOOLEAN],
           \A u \in Tasks : u # t => woken'[u] = woken[u],
           UNCHANGED <<wrapVars, op, ec, result, threadVars, outcome>>,
           to # "recheck",
           to = "parked" => pc[t] = "recheck" /\ ~wrap[op[t]].completed,
           to \in {"ready", "dropped"} => wrap[op[t]].completed,
           pc[t] \in {"ready", "dropped"} => to \in {"ready", "dropped"}
    PROVE  IInv'
<1>. USE ConstantsAssumption
<1>a. TypeOK /\ OpInv /\ RefsInv /\ PoolInv /\ LeakInv /\ KernelInv
      /\ ThreadInv /\ CompletedInv /\ ResultInv /\ WakeInv
  BY Zenon DEF IInv
<1>b. /\ \A u \in Tasks : pc'[u] = IF u = t THEN to ELSE pc[u]
      /\ UNCHANGED <<wrap, refs, free, leak, packet, lender, op, ec, result>>
      /\ UNCHANGED <<tpc, batch, cur, status, outcome>>
  BY <1>a, Zenon DEF TypeOK, wrapVars, threadVars
<1>c. pc[t] # "idle" /\ to # "idle" /\ pc[t] # "giveback" /\ to # "giveback"
      /\ to \notin {"new", "returned"} /\ pc[t] \notin {"new", "returned"}
  BY Zenon DEF Awaiting
<1>1. TypeOK'
  BY <1>a, <1>b, Zenon DEF TypeOK, InOp
<1>2. OpInv'
  BY <1>a, <1>b, <1>c DEF OpInv
<1>3. RefsInv'
  BY <1>a, <1>b DEF RefsInv
<1>4. PoolInv'
  BY <1>a, <1>b DEF PoolInv
<1>5. LeakInv'
  BY <1>a, <1>b, <1>c DEF LeakInv, LeakOf
<1>6. KernelInv'
  BY <1>a, <1>b, <1>c DEF KernelInv, CompletedInv
<1>7. ThreadInv'
  BY <1>a, <1>b, Zenon DEF ThreadInv
<1>8. CompletedInv'
  BY <1>a, <1>b, Zenon DEF CompletedInv
<1>9. ResultInv'
  <2>1. ResultOf(t)'
    BY <1>a, <1>b, <1>c DEF ResultInv, ResultOf
  <2>2. ASSUME NEW u \in Tasks, u # t  PROVE ResultOf(u)'
    <3>1. /\ op'[u] = op[u] /\ pc'[u] = pc[u] /\ ec'[u] = ec[u] /\ outcome'[u] = outcome[u]
          /\ result'[u] = result[u] /\ UNCHANGED <<tpc, batch, cur, status>>
          /\ op[u] # NoWrap => /\ leak'[op[u]] = leak[op[u]] /\ wrap'[op[u]] = wrap[op[u]]
                               /\ packet'[op[u]] = packet[op[u]]
      BY <1>b, <2>2, Zenon
    <3>. QED  BY <1>a, <3>1, ResultSame, Zenon DEF ResultInv, OpInv
  <2>. QED  BY <2>1, <2>2, Zenon DEF ResultInv
<1>10. WakeInv'
  BY <1>a, <1>b, <1>c DEF WakeInv, NoLostWakeup
<1>11. TaskRefInv'
  BY <1>b DEF IInv, TaskRefInv
<1>. QED  BY <1>1, <1>2, <1>3, <1>4, <1>5, <1>6, <1>7, <1>8, <1>9, <1>10, <1>11, Zenon DEF IInv

\* The seven actions that only move the task.
LEMMA MoveSteps ==
    ASSUME IInv, NEW t \in Tasks,
           \/ PollCheck(t) \/ PollRecheck(t) \/ Resume(t) \/ PollAgain(t)
           \/ DropFuture(t) \/ CancelIoEx(t) \/ BlockUntilComplete(t)
    PROVE  IInv'
<1>. USE DEF Goto, taskVars
<1>a. woken \in [Tasks -> BOOLEAN] /\ pc[t] \in {"ready", "dropped"} \cup InOp \cup {"idle"}
  BY Zenon DEF IInv, TypeOK
<1>1. CASE PollCheck(t)
  BY <1>1, <1>a, MoveStep, Zenon DEF PollCheck, Awaiting
<1>2. CASE PollRecheck(t)
  BY <1>2, <1>a, MoveStep, Zenon DEF PollRecheck, Awaiting
<1>3. CASE Resume(t)
  BY <1>3, <1>a, MoveStep, Zenon DEF Resume, Awaiting
<1>4. CASE PollAgain(t)
  BY <1>4, <1>a, MoveStep, Zenon DEF PollAgain, Awaiting
<1>5. CASE DropFuture(t)
  BY <1>5, <1>a, MoveStep, Zenon DEF DropFuture, Awaiting
<1>6. CASE CancelIoEx(t)
  BY <1>6, <1>a, MoveStep, Zenon DEF CancelIoEx, Awaiting
<1>7. CASE BlockUntilComplete(t)
  BY <1>7, <1>a, MoveStep, Zenon DEF BlockUntilComplete, Awaiting
<1>. QED  BY <1>1, <1>2, <1>3, <1>4, <1>5, <1>6, <1>7, Zenon

LEMMA OpNewStep ==
    ASSUME IInv, NEW t \in Tasks, OpNew(t)
    PROVE  IInv'
<1>. USE ConstantsAssumption, FreshFields
<1>a. TypeOK /\ OpInv /\ RefsInv /\ PoolInv /\ LeakInv /\ KernelInv
      /\ ThreadInv /\ CompletedInv /\ ResultInv /\ WakeInv
  BY Zenon DEF IInv
<1>w. PICK w \in Wraps :
        /\ Take(w)
        /\ refs' = [refs EXCEPT ![w] = 2]
        /\ leak' = [leak EXCEPT ![w] = "task"]
        /\ op' = [op EXCEPT ![t] = w]
  BY Zenon DEF OpNew
<1>b. /\ pc[t] = "idle" /\ op[t] = NoWrap /\ pc' = [pc EXCEPT ![t] = "new"]
      /\ UNCHANGED <<wrap, packet, lender, ec, result, woken, outcome>>
      /\ UNCHANGED <<tpc, batch, cur, status>>
  BY <1>a, Zenon DEF OpNew, Goto, threadVars, OpInv
<1>c. leak[w] = "none" /\ wrap[w] = Fresh /\ \A u \in Tasks : op[u] # w
  <2>1. CASE w \in free
    BY <1>a, <2>1, Zenon DEF PoolInv
  <2>2. CASE refs[w] = 0
    <3>1. \A u \in Tasks : op[u] # w
      BY <1>a, <2>2 DEF RefsInv, B
    <3>2. leak[w] = "none" /\ wrap[w] = Fresh
      BY <1>a, <2>2, <3>1 DEF RefsInv, PoolInv, B
    <3>. QED  BY <3>1, <3>2, Zenon
  <2>. QED  BY <1>w, <2>1, <2>2, Zenon DEF Take
<1>d. w \notin free' /\ free' \subseteq free /\ \A x \in Wraps : x # w => (x \in free' <=> x \in free)
  BY <1>w, Zenon DEF Take
<1>e. \A th \in Threads : cur[th] # w /\ w \notin batch[th]
  BY <1>a, <1>c DEF ThreadInv
<1>1. TypeOK'
  BY <1>a, <1>b, <1>w, <1>d, Zenon DEF TypeOK, InOp
<1>2. OpInv'
  BY <1>a, <1>b, <1>w, <1>c, Zenon DEF OpInv, TypeOK
<1>3. RefsInv'
  BY <1>a, <1>b, <1>w, <1>c, <1>d DEF RefsInv, TypeOK, B, Awaiting
<1>4. PoolInv'
  BY <1>a, <1>b, <1>w, <1>c, <1>d DEF PoolInv, TypeOK
<1>5. LeakInv'
  BY <1>a, <1>b, <1>w, <1>c DEF LeakInv, LeakOf, TypeOK
<1>6. KernelInv'
  BY <1>a, <1>b, <1>w, <1>c DEF KernelInv, TypeOK, Awaiting
<1>7. ThreadInv'
  BY <1>a, <1>b, <1>w, <1>e DEF ThreadInv, TypeOK
<1>8. CompletedInv'
  BY <1>a, <1>b, <1>w, <1>c, Zenon DEF CompletedInv, TypeOK
<1>9. ResultInv'
  <2>1. ResultOf(t)'
    <3>1. op'[t] = w /\ pc'[t] = "new" /\ leak'[w] = "task" /\ ~wrap[w].completed
          /\ ResultOf(t) /\ w # NoWrap
      BY <1>a, <1>b, <1>w, <1>c, Zenon DEF TypeOK, ResultInv
    <3>. QED  BY <1>b, <1>e, <3>1, Zenon DEF ResultOf, Awaiting
  <2>2. ASSUME NEW u \in Tasks, u # t  PROVE ResultOf(u)'
    <3>1. /\ op'[u] = op[u] /\ pc'[u] = pc[u] /\ ec'[u] = ec[u] /\ outcome'[u] = outcome[u]
          /\ result'[u] = result[u] /\ UNCHANGED <<tpc, batch, cur, status>>
          /\ op[u] # NoWrap => /\ leak'[op[u]] = leak[op[u]] /\ wrap'[op[u]] = wrap[op[u]]
                               /\ packet'[op[u]] = packet[op[u]]
      BY <1>a, <1>b, <1>w, <1>c, <2>2, Zenon DEF TypeOK
    <3>. QED  BY <1>a, <3>1, ResultSame, Zenon DEF ResultInv, OpInv
  <2>. QED  BY <2>1, <2>2, Zenon DEF ResultInv
<1>10. WakeInv'
  BY <1>a, <1>b, <1>w, WakeSame, Zenon DEF TypeOK
<1>11. TaskRefInv'
  BY <1>b, <1>w DEF IInv, TaskRefInv, TypeOK
<1>. QED  BY <1>1, <1>2, <1>3, <1>4, <1>5, <1>6, <1>7, <1>8, <1>9, <1>10, <1>11, Zenon DEF IInv

-----------------------------------------------------------------------------
(* A task submits an operation: the kernel's three answers and what        *)
(* follows each.                                                           *)

\* The reference an Op has yet to hand over is in no packet and with no thread.
LEMMA HeldFacts ==
    ASSUME IInv, NEW t \in Tasks, op[t] # NoWrap, leak[op[t]] = "task"
    PROVE  /\ ~wrap[op[t]].completed
           /\ \A th \in Threads : op[t] \notin batch[th] /\ op[t] # cur[th]
<1>1. op[t] \in Wraps
  BY Zenon DEF IInv, TypeOK
<1>2. ~wrap[op[t]].completed
  BY <1>1, Zenon DEF IInv, CompletedInv
<1>3. \A th \in Threads : op[t] \notin batch[th] /\ op[t] # cur[th]
  BY Zenon DEF IInv, ThreadInv
<1>. QED  BY <1>2, <1>3, Zenon

\* The call of a task that has its wrap ready: what every answer starts from.
LEMMA NewFacts ==
    ASSUME IInv, NEW t \in Tasks, pc[t] = "new"
    PROVE  /\ op[t] \in Wraps /\ op[t] # NoWrap /\ op[t] \notin free
           /\ \A u \in Tasks : u # t => op[u] # op[t]
           /\ leak[op[t]] = "task" /\ wrap[op[t]].inner = 0 /\ ~wrap[op[t]].completed
           /\ \A th \in Threads : op[t] \notin batch[th] /\ op[t] # cur[th]
           /\ result[t] = NoResult /\ refs[op[t]] = 2
<1>1. /\ op[t] \in Wraps /\ op[t] # NoWrap /\ op[t] \notin free
      /\ refs[op[t]] = 1 + B(leak[op[t]] # "none") + B(pc[t] \in Awaiting)
      /\ \A u \in Tasks : u # t => op[u] # op[t]
  BY OpFacts, Zenon
<1>2. leak[op[t]] = "task" /\ wrap[op[t]].inner = 0
  BY <1>1, Zenon DEF IInv, LeakInv, LeakOf
<1>3. result[t] = NoResult
  BY Zenon DEF IInv, ResultInv, ResultOf
<1>4. refs[op[t]] = 2
  BY <1>1, <1>2 DEF Awaiting, B
<1>. QED  BY <1>1, <1>2, <1>3, <1>4, HeldFacts, Zenon

LEMMA CallInlineStep ==
    ASSUME IInv, NEW t \in Tasks, NEW n \in Lens, CallInline(t, n)
    PROVE  IInv'
<1>a. TypeOK /\ OpInv /\ RefsInv /\ PoolInv /\ LeakInv /\ KernelInv
      /\ ThreadInv /\ CompletedInv /\ ResultInv /\ WakeInv /\ TaskRefInv
  BY Zenon DEF IInv
<1>w. PICK w : w = op[t]
  OBVIOUS
<1>b. /\ pc[t] = "new" /\ w \in Wraps /\ w # NoWrap /\ w \notin free
      /\ \A u \in Tasks : u # t => op[u] # w
      /\ leak[w] = "task" /\ wrap[w].inner = 0 /\ ~wrap[w].completed
      /\ \A th \in Threads : w \notin batch[th] /\ w # cur[th]
      /\ result[t] = NoResult /\ refs[w] = 2
  BY <1>w, NewFacts, Zenon DEF CallInline
<1>c. Result(0, n) \in Outcomes
  BY ResultTyped, ConstantsAssumption, Zenon
<1>e. /\ UNCHANGED <<refs, free, lender, op, result, woken>>
      /\ UNCHANGED <<tpc, batch, cur, status>>
      /\ pc' = [pc EXCEPT ![t] = "returned"] /\ ec' = [ec EXCEPT ![t] = 0]
      /\ wrap' = [wrap EXCEPT ![w].bytes = n]
      /\ leak' = IF SkipOnSuccess THEN leak ELSE [leak EXCEPT ![w] = "port"]
      /\ packet' = IF SkipOnSuccess THEN packet ELSE [packet EXCEPT ![w] = n]
      /\ outcome' = [outcome EXCEPT ![t] = Result(0, n)]
  BY <1>w, Zenon DEF CallInline, Goto, threadVars
<1>f. /\ pc'[t] = "returned" /\ ec'[t] = 0 /\ outcome'[t] = Result(0, n)
      /\ \A u \in Tasks : u # t => pc'[u] = pc[u] /\ ec'[u] = ec[u] /\ outcome'[u] = outcome[u]
  BY <1>a, <1>e, Zenon DEF TypeOK
<1>g. /\ leak'[w] = IF SkipOnSuccess THEN "task" ELSE "port"
      /\ ~SkipOnSuccess => packet'[w] = n
      /\ \A x \in Wraps : x # w => leak'[x] = leak[x] /\ packet'[x] = packet[x]
  BY <1>a, <1>b, <1>e, Zenon DEF TypeOK
<1>h. wrap' \in [Wraps -> WrapType]
  BY <1>a, <1>b, <1>e, StoreBytes, Zenon DEF TypeOK
<1>i. /\ wrap'[w] = [wrap[w] EXCEPT !.bytes = n] /\ wrap[w] \in WrapType
      /\ \A x \in Wraps : x # w => wrap'[x] = wrap[x]
  BY <1>a, <1>b, <1>e, Zenon DEF TypeOK
<1>j. /\ wrap'[w].bytes = n /\ wrap'[w].inner = 0 /\ ~wrap'[w].completed
      /\ wrap'[w].waker = wrap[w].waker
  BY <1>b, <1>i, Zenon DEF WrapType
<1>k. \A u \in Tasks : u # t /\ op[u] # NoWrap =>
        op[u] \in Wraps /\ leak'[op[u]] = leak[op[u]] /\ wrap'[op[u]] = wrap[op[u]]
                        /\ packet'[op[u]] = packet[op[u]]
  <2>1. \A u \in Tasks : op[u] # NoWrap => op[u] \in Wraps
    BY <1>a, Zenon DEF TypeOK
  <2>. QED  BY <1>b, <1>g, <1>i, <2>1, Zenon
<1>1. TypeOK'
  BY <1>a, <1>c, <1>e, <1>h, ConstantsAssumption, Zenon DEF TypeOK, InOp
<1>2. OpInv'
  <2>1. \A u \in Tasks : op'[u] = op[u] /\ (pc'[u] = "idle" <=> pc[u] = "idle")
    BY <1>b, <1>e, <1>f, Zenon
  <2>. QED  BY <1>a, <2>1, Zenon DEF OpInv
<1>3. RefsInv'
  BY <1>a, <1>b, <1>e, <1>f, <1>g, <1>k, <1>w DEF RefsInv, Awaiting
<1>4. PoolInv'
  BY <1>a, <1>b, <1>e, <1>g, <1>i DEF PoolInv
<1>5. LeakInv'
  BY <1>a, <1>b, <1>e, <1>f, <1>g, <1>k, <1>w DEF LeakInv, LeakOf, ERROR_IO_PENDING
<1>6. KernelInv'
  BY <1>a, <1>b, <1>e, <1>f, <1>g DEF KernelInv, Awaiting
<1>7. ThreadInv'
  BY <1>a, <1>b, <1>e, <1>g DEF ThreadInv, TypeOK
<1>8. CompletedInv'
  BY <1>a, <1>b, <1>e, <1>g, <1>i, <1>j DEF CompletedInv, TypeOK
<1>9. ResultInv'
  <2>1. ResultOf(t)'
    BY <1>b, <1>e, <1>f, <1>g, <1>j, <1>w DEF ResultOf
  <2>2. ASSUME NEW u \in Tasks, u # t  PROVE ResultOf(u)'
    <3>1. /\ op'[u] = op[u] /\ pc'[u] = pc[u] /\ ec'[u] = ec[u] /\ outcome'[u] = outcome[u]
          /\ result'[u] = result[u] /\ UNCHANGED <<tpc, batch, cur, status>>
          /\ op[u] # NoWrap => /\ leak'[op[u]] = leak[op[u]] /\ wrap'[op[u]] = wrap[op[u]]
                               /\ packet'[op[u]] = packet[op[u]]
      BY <1>e, <1>f, <1>k, <2>2, Zenon
    <3>. QED  BY <1>a, <3>1, ResultSame, Zenon DEF ResultInv, OpInv
  <2>. QED  BY <2>1, <2>2, Zenon DEF ResultInv
<1>10. WakeInv'
  <2>1. \A u \in Tasks : pc[u] \in {"recheck", "parked"} => op[u] # NoWrap
    BY <1>a, Zenon DEF OpInv
  <2>. QED  BY <1>a, <1>e, <1>f, <1>k, <2>1, WakeSame, Zenon
<1>11. TaskRefInv'
  BY <1>a, <1>b, <1>e, <1>g DEF TaskRefInv
<1>. QED  BY <1>1, <1>2, <1>3, <1>4, <1>5, <1>6, <1>7, <1>8, <1>9, <1>10, <1>11, Zenon DEF IInv

LEMMA CallPendingStep ==
    ASSUME IInv, NEW t \in Tasks, CallPending(t)
    PROVE  IInv'
<1>a. TypeOK /\ OpInv /\ RefsInv /\ PoolInv /\ LeakInv /\ KernelInv
      /\ ThreadInv /\ CompletedInv /\ ResultInv /\ WakeInv /\ TaskRefInv
  BY Zenon DEF IInv
<1>w. PICK w : w = op[t]
  OBVIOUS
<1>b. /\ pc[t] = "new" /\ w \in Wraps /\ w # NoWrap /\ w \notin free
      /\ \A u \in Tasks : u # t => op[u] # w
      /\ leak[w] = "task" /\ wrap[w].inner = 0 /\ ~wrap[w].completed
      /\ \A th \in Threads : w \notin batch[th] /\ w # cur[th]
      /\ result[t] = NoResult /\ refs[w] = 2
  BY <1>w, NewFacts, Zenon DEF CallPending
<1>e. /\ UNCHANGED <<wrap, refs, free, packet, op, result, woken, outcome>>
      /\ UNCHANGED <<tpc, batch, cur, status>>
      /\ pc' = [pc EXCEPT ![t] = "returned"] /\ ec' = [ec EXCEPT ![t] = ERROR_IO_PENDING]
      /\ leak' = [leak EXCEPT ![w] = "kernel"] /\ lender' = [lender EXCEPT ![w] = t]
  BY <1>w, Zenon DEF CallPending, Goto, threadVars
<1>f. /\ pc'[t] = "returned" /\ ec'[t] = ERROR_IO_PENDING
      /\ \A u \in Tasks : u # t => pc'[u] = pc[u] /\ ec'[u] = ec[u]
  BY <1>a, <1>e, Zenon DEF TypeOK
<1>g. /\ leak'[w] = "kernel" /\ lender'[w] = t
      /\ \A x \in Wraps : x # w => leak'[x] = leak[x] /\ lender'[x] = lender[x]
  BY <1>a, <1>b, <1>e, Zenon DEF TypeOK
<1>k. \A u \in Tasks : u # t /\ op[u] # NoWrap =>
        op[u] \in Wraps /\ leak'[op[u]] = leak[op[u]]
  <2>1. \A u \in Tasks : op[u] # NoWrap => op[u] \in Wraps
    BY <1>a, Zenon DEF TypeOK
  <2>. QED  BY <1>b, <1>g, <2>1, Zenon
<1>1. TypeOK'
  BY <1>a, <1>b, <1>e, ConstantsAssumption, Zenon DEF TypeOK, InOp
<1>2. OpInv'
  <2>1. \A u \in Tasks : op'[u] = op[u] /\ (pc'[u] = "idle" <=> pc[u] = "idle")
    BY <1>b, <1>e, <1>f, Zenon
  <2>. QED  BY <1>a, <2>1, Zenon DEF OpInv
<1>3. RefsInv'
  BY <1>a, <1>b, <1>e, <1>f, <1>g, <1>k, <1>w DEF RefsInv, Awaiting
<1>4. PoolInv'
  BY <1>a, <1>b, <1>e, <1>g DEF PoolInv, TypeOK
<1>5. LeakInv'
  BY <1>a, <1>b, <1>e, <1>f, <1>g, <1>k, <1>w DEF LeakInv, LeakOf, ERROR_IO_PENDING
<1>6. KernelInv'
  BY <1>a, <1>b, <1>e, <1>f, <1>g, <1>w DEF KernelInv, Awaiting
<1>7. ThreadInv'
  BY <1>a, <1>b, <1>e, <1>g DEF ThreadInv, TypeOK
<1>8. CompletedInv'
  BY <1>a, <1>b, <1>e, <1>g, Zenon DEF CompletedInv, TypeOK
<1>9. ResultInv'
  <2>1. ResultOf(t)'
    BY <1>b, <1>e, <1>f, <1>g, <1>w, Zenon DEF ResultOf
  <2>2. ASSUME NEW u \in Tasks, u # t  PROVE ResultOf(u)'
    <3>1. /\ op'[u] = op[u] /\ pc'[u] = pc[u] /\ ec'[u] = ec[u] /\ outcome'[u] = outcome[u]
          /\ result'[u] = result[u] /\ UNCHANGED <<tpc, batch, cur, status>>
          /\ op[u] # NoWrap => /\ leak'[op[u]] = leak[op[u]] /\ wrap'[op[u]] = wrap[op[u]]
                               /\ packet'[op[u]] = packet[op[u]]
      BY <1>e, <1>f, <1>k, <2>2, Zenon
    <3>. QED  BY <1>a, <3>1, ResultSame, Zenon DEF ResultInv, OpInv
  <2>. QED  BY <2>1, <2>2, Zenon DEF ResultInv
<1>10. WakeInv'
  BY <1>a, <1>e, <1>f, WakeSame, Zenon
<1>11. TaskRefInv'
  BY <1>a, <1>b, <1>e, <1>g, Zenon DEF TaskRefInv
<1>. QED  BY <1>1, <1>2, <1>3, <1>4, <1>5, <1>6, <1>7, <1>8, <1>9, <1>10, <1>11, Zenon DEF IInv

LEMMA CallRefusedStep ==
    ASSUME IInv, NEW t \in Tasks, NEW e \in Errs, CallRefused(t, e)
    PROVE  IInv'
<1>a. TypeOK /\ OpInv /\ RefsInv /\ PoolInv /\ LeakInv /\ KernelInv
      /\ ThreadInv /\ CompletedInv /\ ResultInv /\ WakeInv /\ TaskRefInv
  BY Zenon DEF IInv
<1>w. PICK w : w = op[t]
  OBVIOUS
<1>b. /\ pc[t] = "new" /\ w \in Wraps /\ w # NoWrap /\ w \notin free
      /\ \A u \in Tasks : u # t => op[u] # w
      /\ leak[w] = "task" /\ wrap[w].inner = 0 /\ ~wrap[w].completed
      /\ \A th \in Threads : w \notin batch[th] /\ w # cur[th]
      /\ result[t] = NoResult /\ refs[w] = 2
  BY <1>w, NewFacts, Zenon DEF CallRefused
<1>c. Result(e, 0) \in Outcomes /\ e # 0 /\ e # ERROR_IO_PENDING
  BY ResultTyped, ConstantsAssumption, Zenon
<1>e. /\ UNCHANGED <<wrap, refs, free, leak, packet, lender, op, result, woken>>
      /\ UNCHANGED <<tpc, batch, cur, status>>
      /\ pc' = [pc EXCEPT ![t] = "returned"] /\ ec' = [ec EXCEPT ![t] = e]
      /\ outcome' = [outcome EXCEPT ![t] = Result(e, 0)]
  BY Zenon DEF CallRefused, Goto, wrapVars, threadVars
<1>f. /\ pc'[t] = "returned" /\ ec'[t] = e /\ outcome'[t] = Result(e, 0)
      /\ \A u \in Tasks : u # t => pc'[u] = pc[u] /\ ec'[u] = ec[u] /\ outcome'[u] = outcome[u]
  BY <1>a, <1>e, Zenon DEF TypeOK
<1>1. TypeOK'
  BY <1>a, <1>c, <1>e, Zenon DEF TypeOK, InOp
<1>2. OpInv'
  <2>1. \A u \in Tasks : op'[u] = op[u] /\ (pc'[u] = "idle" <=> pc[u] = "idle")
    BY <1>b, <1>e, <1>f, Zenon
  <2>. QED  BY <1>a, <2>1, Zenon DEF OpInv
<1>3. RefsInv'
  BY <1>a, <1>e, <1>f, <1>b DEF RefsInv, Awaiting
<1>4. PoolInv'
  BY <1>a, <1>e, Zenon DEF PoolInv
<1>5. LeakInv'
  BY <1>a, <1>b, <1>c, <1>e, <1>f, <1>w DEF LeakInv, LeakOf, ERROR_IO_PENDING
<1>6. KernelInv'
  BY <1>a, <1>b, <1>e, <1>f DEF KernelInv, Awaiting
<1>7. ThreadInv'
  BY <1>a, <1>e, Zenon DEF ThreadInv
<1>8. CompletedInv'
  BY <1>a, <1>e, Zenon DEF CompletedInv
<1>9. ResultInv'
  <2>1. ResultOf(t)'
    BY <1>b, <1>c, <1>e, <1>f, <1>w, Zenon DEF ResultOf
  <2>2. ASSUME NEW u \in Tasks, u # t  PROVE ResultOf(u)'
    <3>1. /\ op'[u] = op[u] /\ pc'[u] = pc[u] /\ ec'[u] = ec[u] /\ outcome'[u] = outcome[u]
          /\ result'[u] = result[u] /\ UNCHANGED <<tpc, batch, cur, status>>
          /\ op[u] # NoWrap => /\ leak'[op[u]] = leak[op[u]] /\ wrap'[op[u]] = wrap[op[u]]
                               /\ packet'[op[u]] = packet[op[u]]
      BY <1>e, <1>f, <2>2, Zenon
    <3>. QED  BY <1>a, <3>1, ResultSame, Zenon DEF ResultInv, OpInv
  <2>. QED  BY <2>1, <2>2, Zenon DEF ResultInv
<1>10. WakeInv'
  BY <1>a, <1>e, <1>f, WakeSame, Zenon
<1>11. TaskRefInv'
  BY <1>a, <1>e, Zenon DEF TaskRefInv
<1>. QED  BY <1>1, <1>2, <1>3, <1>4, <1>5, <1>6, <1>7, <1>8, <1>9, <1>10, <1>11, Zenon DEF IInv

\* Op::finish when no packet will come: the Op reclaims the kernel's reference
\* and has the result at hand.
LEMMA ReclaimStep ==
    ASSUME IInv, NEW t \in Tasks, pc[t] = "returned", leak[op[t]] = "task",
           Reclaim(t), result' = [result EXCEPT ![t] = outcome[t]],
           outcome[t] \in Outcomes, ec' = [ec EXCEPT ![t] = 0],
           Goto(t, "giveback"),
           UNCHANGED <<wrap, free, packet, lender, op, woken, threadVars, outcome>>
    PROVE  IInv'
<1>a. TypeOK /\ OpInv /\ RefsInv /\ PoolInv /\ LeakInv /\ KernelInv
      /\ ThreadInv /\ CompletedInv /\ ResultInv /\ WakeInv /\ TaskRefInv
  BY Zenon DEF IInv
<1>w. PICK w : w = op[t]
  OBVIOUS
<1>b. /\ w \in Wraps /\ w # NoWrap /\ w \notin free /\ leak[w] = "task"
      /\ refs[w] = 1 + B(leak[w] # "none") + B(pc[t] \in Awaiting)
      /\ \A u \in Tasks : u # t => op[u] # w
  BY <1>w, OpFacts, Zenon
<1>c. ~wrap[w].completed /\ \A th \in Threads : w \notin batch[th] /\ w # cur[th]
  BY <1>w, <1>b, HeldFacts, Zenon
<1>d. refs[w] = 2
  BY <1>b DEF Awaiting, B
<1>e. /\ UNCHANGED <<wrap, free, packet, lender, op, woken, outcome>>
      /\ UNCHANGED <<tpc, batch, cur, status>>
      /\ pc' = [pc EXCEPT ![t] = "giveback"] /\ ec' = [ec EXCEPT ![t] = 0]
      /\ refs' = [refs EXCEPT ![w] = 1] /\ leak' = [leak EXCEPT ![w] = "none"]
  BY <1>w, <1>d DEF Reclaim, Goto, threadVars
<1>f. /\ pc'[t] = "giveback" /\ result'[t] = outcome[t]
      /\ \A u \in Tasks : u # t => pc'[u] = pc[u] /\ ec'[u] = ec[u] /\ result'[u] = result[u]
  BY <1>a, <1>e, Zenon DEF TypeOK
<1>g. /\ leak'[w] = "none" /\ refs'[w] = 1
      /\ \A x \in Wraps : x # w => leak'[x] = leak[x] /\ refs'[x] = refs[x]
  BY <1>a, <1>b, <1>d, <1>e, Zenon DEF TypeOK
<1>k. \A u \in Tasks : u # t /\ op[u] # NoWrap =>
        op[u] \in Wraps /\ leak'[op[u]] = leak[op[u]] /\ refs'[op[u]] = refs[op[u]]
  <2>1. \A u \in Tasks : op[u] # NoWrap => op[u] \in Wraps
    BY <1>a, Zenon DEF TypeOK
  <2>. QED  BY <1>b, <1>g, <2>1, Zenon
<1>1. TypeOK'
  BY <1>a, <1>e, ConstantsAssumption, ZenonT(30) DEF TypeOK, InOp
<1>2. OpInv'
  <2>1. \A u \in Tasks : op'[u] = op[u] /\ (pc'[u] = "idle" <=> pc[u] = "idle")
    BY <1>b, <1>e, <1>f, Zenon
  <2>. QED  BY <1>a, <2>1, Zenon DEF OpInv
<1>3. RefsInv'
  <2>1. refs'[op'[t]] = 1 + B(leak'[op'[t]] # "none") + B(pc'[t] \in Awaiting)
    <3>1. op'[t] = w /\ refs'[w] = 1 /\ leak'[w] = "none" /\ pc'[t] = "giveback"
      BY <1>e, <1>f, <1>g, <1>w, Zenon
    <3>. QED  BY <3>1 DEF Awaiting, B
  <2>2. ASSUME NEW u \in Tasks, u # t, op'[u] # NoWrap
        PROVE  refs'[op'[u]] = 1 + B(leak'[op'[u]] # "none") + B(pc'[u] \in Awaiting)
    <3>1. /\ op'[u] = op[u] /\ pc'[u] = pc[u] /\ op[u] # NoWrap
          /\ refs'[op[u]] = refs[op[u]] /\ leak'[op[u]] = leak[op[u]]
      BY <1>e, <1>f, <1>k, <2>2, Zenon
    <3>2. refs[op[u]] = 1 + B(leak[op[u]] # "none") + B(pc[u] \in Awaiting)
      BY <1>a, <3>1, Zenon DEF RefsInv
    <3>. QED  BY <3>1, <3>2, Zenon
  <2>3. ASSUME NEW x \in Wraps, \A u \in Tasks : op'[u] # x
        PROVE  refs'[x] = B(x \in free') + B(leak'[x] # "none")
    <3>1. /\ \A u \in Tasks : op[u] # x
          /\ refs'[x] = refs[x] /\ leak'[x] = leak[x] /\ free' = free
      BY <1>e, <1>g, <1>w, <2>3, Zenon
    <3>2. refs[x] = B(x \in free) + B(leak[x] # "none")
      BY <1>a, <3>1, Zenon DEF RefsInv
    <3>. QED  BY <3>1, <3>2, Zenon
  <2>. QED  BY <2>1, <2>2, <2>3, Zenon DEF RefsInv
<1>4. PoolInv'
  BY <1>a, <1>b, <1>e, <1>g DEF PoolInv, TypeOK
<1>5. LeakInv'
  <2>1. op'[t] = w /\ leak'[w] = "none" /\ pc'[t] = "giveback"
    BY <1>e, <1>f, <1>g, <1>w, Zenon
  <2>2. \A u \in Tasks : u # t /\ op'[u] # NoWrap =>
          /\ op'[u] = op[u] /\ pc'[u] = pc[u] /\ ec'[u] = ec[u]
          /\ leak'[op[u]] = leak[op[u]] /\ wrap'[op[u]] = wrap[op[u]]
    BY <1>e, <1>f, <1>k, Zenon
  <2>. SUFFICES ASSUME NEW u \in Tasks, op'[u] # NoWrap
                PROVE  LeakOf(u)'
    BY Zenon DEF LeakInv
  <2>3. CASE u = t
    BY <2>1, <2>3, Zenon DEF LeakOf
  <2>4. CASE u # t
    BY <1>a, <2>2, <2>4, LeakSame, Zenon DEF LeakInv
  <2>. QED  BY <2>3, <2>4, Zenon
<1>6. KernelInv'
  <2>. SUFFICES ASSUME NEW x \in Wraps, leak'[x] = "kernel"
                PROVE  /\ lender[x] \in Tasks /\ op[lender[x]] = x
                       /\ pc'[lender[x]] \in (Awaiting \ {"ready", "dropped"}) \cup {"returned"}
    BY <1>e, Zenon DEF KernelInv
  <2>1. x # w /\ leak[x] = "kernel"
    BY <1>g, Zenon
  <2>2. /\ lender[x] \in Tasks /\ op[lender[x]] = x
        /\ pc[lender[x]] \in (Awaiting \ {"ready", "dropped"}) \cup {"returned"}
    BY <1>a, <2>1, Zenon DEF KernelInv
  <2>. QED  BY <1>f, <1>w, <2>1, <2>2, Zenon
<1>7. ThreadInv'
  BY <1>a, <1>c, <1>e, <1>g DEF ThreadInv, TypeOK
<1>8. CompletedInv'
  BY <1>a, <1>b, <1>e, <1>g, Zenon DEF CompletedInv
<1>9. ResultInv'
  <2>1. ResultOf(t)'
    <3>1. /\ op'[t] = w /\ pc'[t] = "giveback" /\ result'[t] = outcome'[t]
          /\ leak'[w] = "none" /\ ~wrap'[w].completed
          /\ \A th \in Threads : w \notin batch'[th] /\ w # cur'[th]
      BY <1>c, <1>e, <1>f, <1>g, <1>w, Zenon
    <3>. QED  BY <3>1, Zenon DEF ResultOf
  <2>2. ASSUME NEW u \in Tasks, u # t  PROVE ResultOf(u)'
    <3>1. /\ op'[u] = op[u] /\ pc'[u] = pc[u] /\ ec'[u] = ec[u] /\ outcome'[u] = outcome[u]
          /\ result'[u] = result[u] /\ UNCHANGED <<tpc, batch, cur, status>>
          /\ op[u] # NoWrap => /\ leak'[op[u]] = leak[op[u]] /\ wrap'[op[u]] = wrap[op[u]]
                               /\ packet'[op[u]] = packet[op[u]]
      BY <1>e, <1>f, <1>k, <2>2, Zenon
    <3>. QED  BY <1>a, <3>1, ResultSame, Zenon DEF ResultInv, OpInv
  <2>. QED  BY <2>1, <2>2, Zenon DEF ResultInv
<1>10. WakeInv'
  BY <1>a, <1>e, <1>f, WakeSame, Zenon
<1>11. TaskRefInv'
  <2>. SUFFICES ASSUME NEW x \in Wraps, leak'[x] = "task"
                PROVE  \E u \in Tasks : op[u] = x
    BY <1>e, Zenon DEF TaskRefInv
  <2>1. leak[x] = "task"
    BY <1>g, Zenon
  <2>. QED  BY <1>a, <2>1, Zenon DEF TaskRefInv
<1>. QED  BY <1>1, <1>2, <1>3, <1>4, <1>5, <1>6, <1>7, <1>8, <1>9, <1>10, <1>11, Zenon DEF IInv

LEMMA FinishInlineStep ==
    ASSUME IInv, NEW t \in Tasks, FinishInline(t)
    PROVE  IInv'
<1>1. op[t] # NoWrap /\ op[t] \in Wraps
  BY OpFacts, Zenon DEF FinishInline
<1>2. leak[op[t]] = "task"
  <2>1. pc[t] = "returned" /\ ec[t] # ERROR_IO_PENDING /\ SkipOnSuccess
    BY DEF FinishInline, ERROR_IO_PENDING
  <2>. QED  BY <1>1, <2>1, Zenon DEF IInv, LeakInv, LeakOf
<1>3. outcome[t] = Result(0, wrap[op[t]].bytes)
  BY <1>2, Zenon DEF IInv, ResultInv, ResultOf, FinishInline
<1>4. Result(0, wrap[op[t]].bytes) \in Outcomes
  BY <1>1, ResultTyped, WrapFields, ConstantsAssumption, Zenon DEF IInv, TypeOK
<1>. QED  BY <1>2, <1>3, <1>4, ReclaimStep, Zenon DEF FinishInline

LEMMA FinishRefusedStep ==
    ASSUME IInv, NEW t \in Tasks, FinishRefused(t)
    PROVE  IInv'
<1>1. op[t] # NoWrap /\ op[t] \in Wraps
  BY OpFacts, Zenon DEF FinishRefused
<1>2. leak[op[t]] = "task"
  <2>1. pc[t] = "returned" /\ ec[t] # 0 /\ ec[t] # ERROR_IO_PENDING
    BY Zenon DEF FinishRefused
  <2>. QED  BY <1>1, <2>1, Zenon DEF IInv, LeakInv, LeakOf
<1>3. outcome[t] = Result(ec[t], 0)
  BY <1>2, Zenon DEF IInv, ResultInv, ResultOf, FinishRefused
<1>4. Result(ec[t], 0) \in Outcomes
  <2>1. ec[t] \in Errs
    BY Zenon DEF IInv, TypeOK, FinishRefused
  <2>. QED  BY <2>1, ResultTyped, ConstantsAssumption, Zenon
<1>. QED  BY <1>2, <1>3, <1>4, ReclaimStep, Zenon DEF FinishRefused
=============================================================================
