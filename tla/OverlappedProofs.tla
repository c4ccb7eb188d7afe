------------------------- MODULE OverlappedProofs ---------------------------
(***************************************************************************)
(* The steps of the completion threads and of the kernel, and those that   *)
(* await a completion or end an operation, also preserve the inductive     *)
(* invariant, so it holds in every reachable state, for any number of      *)
(* tasks, threads and wraps, and so do its consequences; and the           *)
(* operations implement AsyncIo.                                           *)
(***************************************************************************)
EXTENDS OverlappedInv

-----------------------------------------------------------------------------
(* A completion thread moves or drops a reference to a wrap.               *)

LEMMA DequeueStep ==
    ASSUME IInv, NEW th \in Threads, Dequeue(th)
    PROVE  IInv'
<1>. USE ConstantsAssumption
<1>a. TypeOK /\ OpInv /\ RefsInv /\ PoolInv /\ LeakInv /\ KernelInv
      /\ ThreadInv /\ CompletedInv /\ ResultInv /\ WakeInv
  BY Zenon DEF IInv
<1>s. PICK S \in SUBSET Port : DequeueSet(th, S)
  BY Zenon DEF Dequeue
<1>b. /\ tpc[th] = "loop" /\ batch[th] = {}
      /\ batch' = [batch EXCEPT ![th] = S]
      /\ UNCHANGED <<wrap, refs, free, packet, lender, pc, op, ec, result, woken>>
      /\ UNCHANGED <<tpc, cur, status, outcome>>
  BY <1>s, Zenon DEF DequeueSet, taskVars
<1>c. /\ S \subseteq Wraps
      /\ \A w \in S : leak[w] = "port"
      /\ \A w \in Wraps : leak'[w] = IF w \in S THEN "thread" ELSE leak[w]
      /\ leak' \in [Wraps -> {"none", "task", "kernel", "port", "thread"}]
  BY <1>s, <1>a, Zenon DEF DequeueSet, Port, TypeOK
<1>d. \A t \in Tasks : op[t] # NoWrap => op[t] \in Wraps
  BY <1>a, Zenon DEF TypeOK
<1>e. \A w \in Wraps : (leak'[w] = "none" <=> leak[w] = "none")
  BY <1>c, Zenon
<1>f. /\ \A ti \in Threads : ti # th => batch'[ti] = batch[ti]
      /\ batch'[th] = S
      /\ \A ti \in Threads : batch[ti] \cap S = {} /\ cur[ti] \notin S
  BY <1>a, <1>b, <1>c DEF ThreadInv, TypeOK
<1>1. TypeOK'
  BY <1>a, <1>b, <1>c, Zenon DEF TypeOK
<1>2. OpInv'
  BY <1>a, <1>b, Zenon DEF OpInv
<1>3. RefsInv'
  BY <1>a, <1>b, <1>d, <1>e, Zenon DEF RefsInv
<1>4. PoolInv'
  BY <1>a, <1>b, <1>e, Zenon DEF PoolInv, TypeOK
<1>5. LeakInv'
  BY <1>a, <1>b, <1>c, <1>d DEF LeakInv, LeakOf
<1>6. KernelInv'
  BY <1>a, <1>b, <1>c DEF KernelInv
<1>7. ThreadInv'
  BY <1>a, <1>b, <1>c, <1>f DEF ThreadInv, TypeOK
<1>8. CompletedInv'
  BY <1>a, <1>b, <1>c, <1>f, Zenon DEF CompletedInv, TypeOK
<1>9. ResultInv'
  <2>1. \A t \in Tasks : op[t] \in S =>
          outcome[t] = Result(wrap[op[t]].inner, packet[op[t]])
    BY <1>a, <1>c DEF ResultInv, ResultOf
  <2>2. \A t \in Tasks, ti \in Threads : op[t] \in batch'[ti] /\ op[t] # NoWrap =>
          outcome[t] = Result(wrap[op[t]].inner, packet[op[t]])
    BY <1>a, <1>f, <2>1, Zenon DEF ResultInv, ResultOf
  <2>3. \A t \in Tasks : op[t] # NoWrap =>
          /\ leak'[op[t]] = "port" => leak[op[t]] = "port"
          /\ leak'[op[t]] = "task" => leak[op[t]] = "task"
    BY <1>c, <1>d, Zenon
  <2>4. \A t \in Tasks : pc[t] = "returned" => op[t] # NoWrap
    BY <1>a, Zenon DEF OpInv
  <2>5. ASSUME NEW t \in Tasks  PROVE ResultOf(t)'
    <3>1. ResultOf(t)
      BY <1>a, Zenon DEF ResultInv
    <3>. QED  BY <1>b, <2>2, <2>3, <2>4, <3>1, Zenon DEF ResultOf
  <2>. QED  BY <2>5, Zenon DEF ResultInv
<1>10. WakeInv'
  BY <1>a, <1>b DEF WakeInv, NoLostWakeup
<1>11. TaskRefInv'
  BY <1>b, <1>c, Zenon DEF IInv, TaskRefInv
<1>. QED  BY <1>1, <1>2, <1>3, <1>4, <1>5, <1>6, <1>7, <1>8, <1>9, <1>10, <1>11, Zenon DEF IInv

LEMMA FromRawStep ==
    ASSUME IInv, NEW th \in Threads, FromRaw(th)
    PROVE  IInv'
<1>. USE ConstantsAssumption
<1>a. TypeOK /\ OpInv /\ RefsInv /\ PoolInv /\ LeakInv /\ KernelInv
      /\ ThreadInv /\ CompletedInv /\ ResultInv /\ WakeInv
  BY Zenon DEF IInv
<1>w. PICK w \in batch[th] :
        /\ batch' = [batch EXCEPT ![th] = batch[th] \ {w}]
        /\ cur' = [cur EXCEPT ![th] = w]
        /\ status' = [status EXCEPT ![th] = wrap[w].inner]
  BY Zenon DEF FromRaw
<1>b. /\ tpc[th] = "loop" /\ tpc' = [tpc EXCEPT ![th] = "err"]
      /\ UNCHANGED <<wrap, refs, free, leak, packet, lender, outcome>>
      /\ UNCHANGED <<pc, op, ec, result, woken>>
  BY Zenon DEF FromRaw, wrapVars, taskVars
<1>c. /\ w \in Wraps /\ leak[w] = "thread" /\ ~wrap[w].completed
      /\ cur[th] = NoWrap /\ wrap[w].inner \in Errs \cup {0}
      /\ \A ti \in Threads : cur[ti] # w /\ (ti # th => w \notin batch[ti])
  BY <1>a, <1>b, <1>w, WrapFields DEF TypeOK, ThreadInv, CompletedInv
<1>d. /\ cur'[th] = w /\ tpc'[th] = "err" /\ status'[th] = wrap[w].inner
      /\ batch'[th] = batch[th] \ {w}
      /\ \A ti \in Threads : ti # th =>
            cur'[ti] = cur[ti] /\ tpc'[ti] = tpc[ti] /\ status'[ti] = status[ti]
            /\ batch'[ti] = batch[ti]
  BY <1>a, <1>b, <1>w, Zenon DEF TypeOK
<1>1. TypeOK'
  BY <1>a, <1>b, <1>c, <1>w, Zenon DEF TypeOK
<1>2. OpInv'
  BY <1>a, <1>b, Zenon DEF OpInv
<1>3. RefsInv'
  BY <1>a, <1>b, Zenon DEF RefsInv
<1>4. PoolInv'
  BY <1>a, <1>b, Zenon DEF PoolInv
<1>5. LeakInv'
  BY <1>a, <1>b, Zenon DEF LeakInv, LeakOf
<1>6. KernelInv'
  BY <1>a, <1>b, Zenon DEF KernelInv
<1>7. ThreadInv'
  BY <1>a, <1>b, <1>c, <1>d DEF ThreadInv
<1>8. CompletedInv'
  BY <1>a, <1>b, <1>c, <1>d DEF CompletedInv
<1>9. ResultInv'
  BY <1>a, <1>b, <1>c, <1>d DEF ResultInv, ResultOf
<1>10. WakeInv'
  <2>1. NoLostWakeup'
    <3>. SUFFICES ASSUME NEW t \in Tasks, pc[t] = "parked", wrap[op[t]].completed, ~woken[t]
                  PROVE  \E ti \in Threads :
                            cur'[ti] = op[t] /\ tpc'[ti] = "wake" /\ wrap[op[t]].waker = t
      BY <1>b DEF NoLostWakeup
    <3>1. PICK ti \in Threads : cur[ti] = op[t] /\ tpc[ti] = "wake" /\ wrap[op[t]].waker = t
      BY <1>a, Zenon DEF WakeInv, NoLostWakeup
    <3>2. ti # th
      BY <1>b, <3>1, Zenon
    <3>. QED  BY <1>d, <3>1, <3>2, Zenon
  <2>. QED  BY <1>a, <1>b, <2>1, Zenon DEF WakeInv
<1>11. TaskRefInv'
  BY <1>b, Zenon DEF IInv, TaskRefInv
<1>. QED  BY <1>1, <1>2, <1>3, <1>4, <1>5, <1>6, <1>7, <1>8, <1>9, <1>10, <1>11, Zenon DEF IInv

LEMMA DropRefStep ==
    ASSUME IInv, NEW th \in Threads, DropRef(th)
    PROVE  IInv'
<1>. USE ConstantsAssumption, FreshFields
<1>a. TypeOK /\ OpInv /\ RefsInv /\ PoolInv /\ LeakInv /\ KernelInv
      /\ ThreadInv /\ CompletedInv /\ ResultInv /\ WakeInv
  BY Zenon DEF IInv
<1>w. PICK w \in Wraps : w = cur[th]
  BY CurFacts, Zenon DEF DropRef
<1>b. /\ tpc' = [tpc EXCEPT ![th] = "loop"] /\ cur' = [cur EXCEPT ![th] = NoWrap]
      /\ status' = [status EXCEPT ![th] = 0]
      /\ leak' = [leak EXCEPT ![w] = "none"] /\ packet' = [packet EXCEPT ![w] = 0]
      /\ UNCHANGED <<free, lender, batch, outcome>>
      /\ UNCHANGED <<pc, op, ec, result, woken>>
  BY <1>w, Zenon DEF DropRef, taskVars
<1>c. /\ tpc[th] = "drop" /\ leak[w] = "thread" /\ w \notin free /\ w # NoWrap
      /\ refs[w] >= 1 /\ wrap[w].completed
      /\ \A ti \in Threads : w \notin batch[ti] /\ (ti # th => cur[ti] # w)
  <2>1. tpc[th] = "drop" /\ leak[w] = "thread" /\ w \notin free /\ w # NoWrap /\ refs[w] >= 1
    BY <1>w, CurFacts, Zenon DEF DropRef
  <2>. QED  BY <1>a, <1>w, <2>1, Zenon DEF ThreadInv, CompletedInv
<1>d. /\ refs' = [refs EXCEPT ![w] = refs[w] - 1]
      /\ wrap' = IF refs[w] = 1 THEN [wrap EXCEPT ![w] = Fresh] ELSE wrap
  BY <1>w, Zenon DEF DropRef, DropArcs
<1>e. \A t \in Tasks : op[t] = w => refs[w] # 1
  BY <1>a, <1>c, <1>w DEF RefsInv, B
<1>f. /\ \A x \in Wraps : x # w => wrap'[x] = wrap[x] /\ refs'[x] = refs[x]
                                   /\ leak'[x] = leak[x] /\ packet'[x] = packet[x]
      /\ leak'[w] = "none" /\ refs'[w] = refs[w] - 1
      /\ \A t \in Tasks : op[t] = w => wrap'[w] = wrap[w]
      /\ refs'[w] = 0 => wrap'[w] = Fresh
  BY <1>a, <1>b, <1>d, <1>e DEF TypeOK
<1>g. \A t \in Tasks : op[t] # NoWrap => op[t] \in Wraps
  BY <1>a, Zenon DEF TypeOK
<1>h. \A t \in Tasks : op[t] # NoWrap => wrap'[op[t]] = wrap[op[t]]
  BY <1>f, <1>g, Zenon
<1>k. /\ cur'[th] = NoWrap /\ tpc'[th] = "loop"
      /\ \A ti \in Threads : ti # th =>
            cur'[ti] = cur[ti] /\ tpc'[ti] = tpc[ti] /\ status'[ti] = status[ti]
  BY <1>a, <1>b, Zenon DEF TypeOK
<1>1. TypeOK'
  BY <1>a, <1>b, <1>c, <1>d DEF TypeOK
<1>2. OpInv'
  BY <1>a, <1>b, Zenon DEF OpInv
<1>3. RefsInv'
  <2>1. ASSUME NEW u \in Tasks, op'[u] # NoWrap
        PROVE  refs'[op'[u]] = 1 + B(leak'[op'[u]] # "none") + B(pc'[u] \in Awaiting)
    <3>1. /\ op'[u] = op[u] /\ pc'[u] = pc[u] /\ op[u] \in Wraps
          /\ refs[op[u]] = 1 + B(leak[op[u]] # "none") + B(pc[u] \in Awaiting)
      BY <1>a, <1>b, <1>g, <2>1, Zenon DEF RefsInv
    <3>2. CASE op[u] = w
      BY <1>c, <1>f, <3>1, <3>2 DEF B
    <3>3. CASE op[u] # w
      BY <1>f, <3>1, <3>3, Zenon
    <3>. QED  BY <3>2, <3>3, Zenon
  <2>2. ASSUME NEW x \in Wraps, \A u \in Tasks : op'[u] # x
        PROVE  refs'[x] = B(x \in free') + B(leak'[x] # "none")
    <3>1. free' = free /\ refs[x] = B(x \in free) + B(leak[x] # "none")
      BY <1>a, <1>b, <2>2, Zenon DEF RefsInv
    <3>2. CASE x = w
      BY <1>c, <1>f, <3>1, <3>2 DEF B
    <3>3. CASE x # w
      BY <1>f, <3>1, <3>3, Zenon
    <3>. QED  BY <3>2, <3>3, Zenon
  <2>. QED  BY <2>1, <2>2, Zenon DEF RefsInv
<1>4. PoolInv'
  BY <1>a, <1>b, <1>c, <1>f DEF PoolInv, TypeOK
<1>5. LeakInv'
  BY <1>a, <1>b, <1>c, <1>f, <1>g, <1>h DEF LeakInv, LeakOf
<1>6. KernelInv'
  BY <1>a, <1>b, <1>f DEF KernelInv
<1>7. ThreadInv'
  BY <1>a, <1>b, <1>c, <1>f, <1>k DEF ThreadInv, TypeOK
<1>8. CompletedInv'
  <2>1. ASSUME NEW x \in Wraps, leak'[x] \in {"task", "kernel", "port"}
        PROVE  ~wrap'[x].completed
    BY <1>a, <1>f, <2>1, Zenon DEF CompletedInv
  <2>2. ASSUME NEW ti \in Threads, NEW x \in batch'[ti]
        PROVE  ~wrap'[x].completed
    <3>1. x \in batch[ti]
      BY <1>b, <2>2, Zenon
    <3>2. batch[ti] \subseteq Wraps
      BY <1>a DEF TypeOK
    <3>3. x \in Wraps /\ x # w
      BY <1>c, <3>1, <3>2, Zenon
    <3>. QED  BY <1>a, <1>f, <3>1, <3>3, Zenon DEF CompletedInv
  <2>3. ASSUME NEW ti \in Threads, cur'[ti] # NoWrap
        PROVE  wrap'[cur'[ti]].completed <=> tpc'[ti] \in {"wake", "drop"}
    <3>1. ti # th /\ cur'[ti] = cur[ti] /\ tpc'[ti] = tpc[ti]
      BY <1>k, <2>3, Zenon
    <3>2. cur[ti] \in Wraps
      BY <1>a, <2>3, <3>1, Zenon DEF TypeOK
    <3>3. wrap'[cur[ti]] = wrap[cur[ti]]
      BY <1>c, <1>f, <3>1, <3>2, Zenon
    <3>. QED  BY <1>a, <2>3, <3>1, <3>3, Zenon DEF CompletedInv
  <2>. QED  BY <2>1, <2>2, <2>3, Zenon DEF CompletedInv
<1>9. ResultInv'
  <2>1. \A u \in Tasks : pc[u] \in Awaiting \cup {"returned"} => op[u] # NoWrap
    BY <1>a, Zenon DEF OpInv, Awaiting
  <2>2. ASSUME NEW u \in Tasks, op[u] # w  PROVE ResultOf(u)'
    <3>1. op[u] # NoWrap => leak'[op[u]] = leak[op[u]] /\ packet'[op[u]] = packet[op[u]]
                            /\ wrap'[op[u]] = wrap[op[u]]
      BY <1>f, <1>g, <2>2, Zenon
    <3>2. ResultOf(u)
      BY <1>a, Zenon DEF ResultInv
    <3>3. UNCHANGED <<pc, op, ec, result, outcome, batch>>
      BY <1>b, Zenon
    <3>4. \A ti \in Threads : op[u] = cur'[ti] /\ op[u] # NoWrap =>
             cur[ti] = op[u] /\ tpc'[ti] = tpc[ti] /\ status'[ti] = status[ti]
      BY <1>k, Zenon
    <3>. QED  BY <2>1, <3>1, <3>2, <3>3, <3>4 DEF ResultOf
  <2>3. ASSUME NEW u \in Tasks, op[u] = w  PROVE ResultOf(u)'
    <3>1. ResultOf(u) /\ wrap'[w] = wrap[w]
      BY <1>a, <1>f, <2>3, Zenon DEF ResultInv
    <3>. QED  BY <1>b, <1>c, <1>f, <1>k, <2>3, <3>1 DEF ResultOf
  <2>. QED  BY <2>2, <2>3, Zenon DEF ResultInv
<1>10. WakeInv'
  BY <1>a, <1>b, <1>c, <1>g, <1>h, <1>k DEF WakeInv, NoLostWakeup, OpInv
<1>11. TaskRefInv'
  BY <1>b, <1>f, Zenon DEF IInv, TaskRefInv
<1>. QED  BY <1>1, <1>2, <1>3, <1>4, <1>5, <1>6, <1>7, <1>8, <1>9, <1>10, <1>11, Zenon DEF IInv

-----------------------------------------------------------------------------
(* A task awaits a completion; the kernel and a completion thread bring it.*)

LEMMA FinishAwaitStep ==
    ASSUME IInv, NEW t \in Tasks, FinishAwait(t)
    PROVE  IInv'
<1>. USE ConstantsAssumption
<1>a. TypeOK /\ OpInv /\ RefsInv /\ PoolInv /\ LeakInv /\ KernelInv
      /\ ThreadInv /\ CompletedInv /\ ResultInv /\ WakeInv /\ TaskRefInv
  BY Zenon DEF IInv
<1>b. /\ op[t] \in Wraps /\ op[t] # NoWrap /\ op[t] \notin free
      /\ refs[op[t]] = 1 + B(leak[op[t]] # "none") + B(pc[t] \in Awaiting)
      /\ \A u \in Tasks : u # t => op[u] # op[t]
  BY OpFacts, Zenon DEF FinishAwait
<1>1. TypeOK'
  BY <1>a, <1>b DEF FinishAwait, Goto, threadVars, TypeOK, InOp, Awaiting
<1>2. OpInv'
  BY <1>a, <1>b, Zenon DEF FinishAwait, Goto, threadVars, OpInv, TypeOK
<1>3. RefsInv'
  BY <1>a, <1>b DEF FinishAwait, Goto, threadVars, RefsInv, TypeOK, Awaiting, B
<1>4. PoolInv'
  BY <1>a, <1>b DEF FinishAwait, Goto, threadVars, PoolInv, TypeOK
<1>5. LeakInv'
  BY <1>a, <1>b DEF FinishAwait, Goto, threadVars, LeakInv, LeakOf, TypeOK, ERROR_IO_PENDING
<1>6. KernelInv'
  BY <1>a, <1>b DEF FinishAwait, Goto, threadVars, KernelInv, Awaiting
<1>7. ThreadInv'
  BY <1>a, <1>b, Zenon DEF FinishAwait, Goto, threadVars, ThreadInv
<1>8. CompletedInv'
  BY <1>a, <1>b, Zenon DEF FinishAwait, Goto, threadVars, CompletedInv
<1>9. ResultInv'
  <2>1. ResultOf(t)'
    <3>1. /\ pc'[t] = "poll" /\ pc[t] = "returned" /\ ResultOf(t) /\ leak[op[t]] # "task"
          /\ UNCHANGED <<op, wrap, leak, packet, result, outcome, tpc, batch, cur, status>>
      BY <1>a, <1>b, ConstantsAssumption DEF FinishAwait, Goto, threadVars, TypeOK, ResultInv, LeakInv, LeakOf, ERROR_IO_PENDING
    <3>. QED  BY <3>1, Zenon DEF ResultOf, Awaiting
  <2>2. ASSUME NEW u \in Tasks, u # t  PROVE ResultOf(u)'
    <3>1. /\ op'[u] = op[u] /\ pc'[u] = pc[u] /\ ec'[u] = ec[u] /\ outcome'[u] = outcome[u]
          /\ result'[u] = result[u] /\ UNCHANGED <<tpc, batch, cur, status>>
          /\ op[u] # NoWrap => /\ leak'[op[u]] = leak[op[u]] /\ wrap'[op[u]] = wrap[op[u]]
                               /\ packet'[op[u]] = packet[op[u]]
      BY <1>a, <1>b, <2>2, Zenon DEF FinishAwait, Goto, threadVars, TypeOK
    <3>. QED  BY <1>a, <3>1, ResultSame, Zenon DEF ResultInv, OpInv
  <2>. QED  BY <2>1, <2>2, Zenon DEF ResultInv
<1>10. WakeInv'
  BY <1>a, WakeSame, Zenon DEF FinishAwait, Goto, threadVars, TypeOK
<1>11. TaskRefInv'
  BY <1>a, <1>b, Zenon DEF FinishAwait, Goto, threadVars, TaskRefInv
<1>. QED  BY <1>1, <1>2, <1>3, <1>4, <1>5, <1>6, <1>7, <1>8, <1>9, <1>10, <1>11, Zenon DEF IInv

LEMMA PollRegisterStep ==
    ASSUME IInv, NEW t \in Tasks, PollRegister(t)
    PROVE  IInv'
<1>. USE ConstantsAssumption
<1>a. TypeOK /\ OpInv /\ RefsInv /\ PoolInv /\ LeakInv /\ KernelInv
      /\ ThreadInv /\ CompletedInv /\ ResultInv /\ WakeInv /\ TaskRefInv
  BY Zenon DEF IInv
<1>b. /\ op[t] \in Wraps /\ op[t] # NoWrap /\ op[t] \notin free
      /\ refs[op[t]] = 1 + B(leak[op[t]] # "none") + B(pc[t] \in Awaiting)
      /\ \A u \in Tasks : u # t => op[u] # op[t]
  BY OpFacts, Zenon DEF PollRegister
<1>1. TypeOK'
  BY <1>a, <1>b, StoreWaker, Zenon DEF PollRegister, Goto, threadVars, TypeOK, InOp, Awaiting
<1>2. OpInv'
  BY <1>a, <1>b DEF PollRegister, Goto, threadVars, OpInv
<1>3. RefsInv'
  BY <1>a, <1>b DEF PollRegister, Goto, threadVars, RefsInv, Awaiting, B
<1>4. PoolInv'
  BY <1>a, <1>b DEF PollRegister, Goto, threadVars, PoolInv, TypeOK, B
<1>5. LeakInv'
  BY <1>a, <1>b DEF PollRegister, Goto, threadVars, LeakInv, LeakOf, ERROR_IO_PENDING
<1>6. KernelInv'
  BY <1>a, <1>b DEF PollRegister, Goto, threadVars, KernelInv, Awaiting
<1>7. ThreadInv'
  BY <1>a, <1>b, Zenon DEF PollRegister, Goto, threadVars, ThreadInv
<1>8. CompletedInv'
  BY <1>a, <1>b DEF PollRegister, Goto, threadVars, CompletedInv
<1>9. ResultInv'
  <2>1. ResultOf(t)'
    BY <1>a, <1>b DEF PollRegister, Goto, threadVars, ResultInv, ResultOf, TypeOK, Awaiting
  <2>2. ASSUME NEW u \in Tasks, u # t  PROVE ResultOf(u)'
    <3>1. /\ op'[u] = op[u] /\ pc'[u] = pc[u] /\ ec'[u] = ec[u] /\ outcome'[u] = outcome[u]
          /\ result'[u] = result[u] /\ UNCHANGED <<tpc, batch, cur, status>>
          /\ op[u] # NoWrap => /\ leak'[op[u]] = leak[op[u]] /\ wrap'[op[u]] = wrap[op[u]]
                               /\ packet'[op[u]] = packet[op[u]]
      BY <1>a, <1>b, <2>2, Zenon DEF PollRegister, Goto, threadVars, TypeOK
    <3>. QED  BY <1>a, <3>1, ResultSame, Zenon DEF ResultInv, OpInv
  <2>. QED  BY <2>1, <2>2, Zenon DEF ResultInv
<1>10. WakeInv'
  BY <1>a, <1>b DEF PollRegister, Goto, threadVars, WakeInv, TypeOK, NoLostWakeup
<1>11. TaskRefInv'
  BY <1>a, <1>b, Zenon DEF PollRegister, Goto, threadVars, TaskRefInv
<1>. QED  BY <1>1, <1>2, <1>3, <1>4, <1>5, <1>6, <1>7, <1>8, <1>9, <1>10, <1>11, Zenon DEF IInv

LEMMA ReadResultStep ==
    ASSUME IInv, NEW t \in Tasks, ReadResult(t)
    PROVE  IInv'
<1>. USE ConstantsAssumption
<1>a. TypeOK /\ OpInv /\ RefsInv /\ PoolInv /\ LeakInv /\ KernelInv
      /\ ThreadInv /\ CompletedInv /\ ResultInv /\ WakeInv /\ TaskRefInv
  BY Zenon DEF IInv
<1>b. /\ op[t] \in Wraps /\ op[t] # NoWrap /\ op[t] \notin free
      /\ refs[op[t]] = 1 + B(leak[op[t]] # "none") + B(pc[t] \in Awaiting)
      /\ \A u \in Tasks : u # t => op[u] # op[t]
  BY OpFacts, Zenon DEF ReadResult
<1>c. Result(wrap[op[t]].err, wrap[op[t]].len) \in Outcomes
  BY <1>a, <1>b, ResultTyped, WrapFields, Zenon DEF TypeOK
<1>d. wrap[op[t]].completed /\ leak[op[t]] \in {"none", "thread"}
  BY <1>a, <1>b DEF ReadResult, TypeOK, LeakInv, LeakOf, CompletedInv
<1>e. refs'[op[t]] = 1 + B(leak[op[t]] # "none")
  BY <1>a, <1>b DEF ReadResult, TypeOK, Awaiting, B
<1>f. outcome[t] = Result(wrap[op[t]].err, wrap[op[t]].len)
  BY <1>a, <1>b, <1>d, Zenon DEF ReadResult, ResultInv, ResultOf, Awaiting
<1>1. TypeOK'
  BY <1>a, <1>b, <1>c, <1>d, <1>e, <1>f DEF ReadResult, Goto, threadVars, TypeOK, InOp, Awaiting, B
<1>2. OpInv'
  BY <1>a, <1>b, <1>c, <1>d, <1>e, <1>f, Zenon DEF ReadResult, Goto, threadVars, OpInv, TypeOK
<1>3. RefsInv'
  BY <1>a, <1>b, <1>c, <1>d, <1>e, <1>f DEF ReadResult, Goto, threadVars, RefsInv, TypeOK, Awaiting, B
<1>4. PoolInv'
  BY <1>a, <1>b, <1>c, <1>d, <1>e, <1>f DEF ReadResult, Goto, threadVars, PoolInv, TypeOK, B
<1>5. LeakInv'
  BY <1>a, <1>b, <1>c, <1>d, <1>e, <1>f DEF ReadResult, Goto, threadVars, LeakInv, LeakOf, TypeOK, ERROR_IO_PENDING
<1>6. KernelInv'
  BY <1>a, <1>b, <1>c, <1>d, <1>e, <1>f, Zenon DEF ReadResult, Goto, threadVars, KernelInv, TypeOK, Awaiting
<1>7. ThreadInv'
  BY <1>a, <1>b, <1>c, <1>d, <1>e, <1>f, Zenon DEF ReadResult, Goto, threadVars, ThreadInv
<1>8. CompletedInv'
  BY <1>a, <1>b, <1>c, <1>d, <1>e, <1>f, Zenon DEF ReadResult, Goto, threadVars, CompletedInv
<1>9. ResultInv'
  <2>1. ResultOf(t)'
    <3>1. /\ pc'[t] = "giveback" /\ pc[t] = "ready" /\ ResultOf(t) /\ result'[t] = outcome[t]
          /\ UNCHANGED <<op, wrap, leak, packet, outcome, tpc, batch, cur, status>>
      BY <1>a, <1>b, <1>f, Zenon DEF ReadResult, Goto, threadVars, TypeOK, ResultInv
    <3>. QED  BY <3>1, Zenon DEF ResultOf, Awaiting
  <2>2. ASSUME NEW u \in Tasks, u # t  PROVE ResultOf(u)'
    <3>1. /\ op'[u] = op[u] /\ pc'[u] = pc[u] /\ ec'[u] = ec[u] /\ outcome'[u] = outcome[u]
          /\ result'[u] = result[u] /\ UNCHANGED <<tpc, batch, cur, status>>
          /\ op[u] # NoWrap => /\ leak'[op[u]] = leak[op[u]] /\ wrap'[op[u]] = wrap[op[u]]
                               /\ packet'[op[u]] = packet[op[u]]
      BY <1>a, <1>b, <2>2, Zenon DEF ReadResult, Goto, threadVars, TypeOK
    <3>. QED  BY <1>a, <3>1, ResultSame, Zenon DEF ResultInv, OpInv
  <2>. QED  BY <2>1, <2>2, Zenon DEF ResultInv
<1>10. WakeInv'
  BY <1>a, WakeSame, Zenon DEF ReadResult, Goto, threadVars, TypeOK
<1>11. TaskRefInv'
  BY <1>a, <1>b, <1>c, <1>d, <1>e, <1>f, Zenon DEF ReadResult, Goto, threadVars, TaskRefInv
<1>. QED  BY <1>1, <1>2, <1>3, <1>4, <1>5, <1>6, <1>7, <1>8, <1>9, <1>10, <1>11, Zenon DEF IInv

LEMMA KernelCompleteStep ==
    ASSUME IInv, NEW w \in Wraps, NEW e \in Errs \cup {0}, NEW n \in Lens, KernelComplete(w, e, n)
    PROVE  IInv'
<1>. USE ConstantsAssumption
<1>a. TypeOK /\ OpInv /\ RefsInv /\ PoolInv /\ LeakInv /\ KernelInv
      /\ ThreadInv /\ CompletedInv /\ ResultInv /\ WakeInv /\ TaskRefInv
  BY Zenon DEF IInv
<1>b. w \notin free /\ refs[w] >= 1
  BY LeakFacts, Zenon DEF KernelComplete
<1>c. Result(e, n) \in Outcomes
  BY ResultTyped, Zenon
<1>d. wrap' \in [Wraps -> WrapType]
  BY <1>a, StoreInner, Zenon DEF TypeOK, KernelComplete
<1>1. TypeOK'
  BY <1>a, <1>c, <1>d, Zenon DEF KernelComplete, TypeOK, taskVars, threadVars
<1>2. OpInv'
  BY <1>a, <1>b, <1>c, <1>d, Zenon DEF KernelComplete, taskVars, threadVars, OpInv
<1>3. RefsInv'
  BY <1>a, <1>b, <1>c, <1>d DEF KernelComplete, taskVars, threadVars, RefsInv, Awaiting, B
<1>4. PoolInv'
  BY <1>a, <1>b, <1>c, <1>d DEF KernelComplete, taskVars, threadVars, PoolInv
<1>5. LeakInv'
  BY <1>a, <1>b, <1>c, <1>d DEF KernelComplete, taskVars, threadVars, LeakInv, LeakOf, ERROR_IO_PENDING
<1>6. KernelInv'
  BY <1>a, <1>b, <1>c, <1>d DEF KernelComplete, taskVars, threadVars, KernelInv, TypeOK, Awaiting
<1>7. ThreadInv'
  BY <1>a, <1>b, <1>c, <1>d DEF KernelComplete, taskVars, threadVars, ThreadInv
<1>8. CompletedInv'
  BY <1>a, <1>b, <1>c, <1>d DEF KernelComplete, taskVars, threadVars, CompletedInv
<1>9. ResultInv'
  <2>1. PICK t \in Tasks : t = lender[w] /\ op[t] = w
                         /\ pc[t] \in (Awaiting \ {"ready", "dropped"}) \cup {"returned"}
    BY <1>a, Zenon DEF KernelInv, KernelComplete
  <2>2. /\ outcome'[t] = Result(e, n) /\ leak'[w] = "port" /\ packet'[w] = n
        /\ wrap'[w].inner = e /\ wrap'[w].completed = wrap[w].completed
        /\ \A u \in Tasks : u # t => outcome'[u] = outcome[u]
        /\ \A x \in Wraps : x # w => leak'[x] = leak[x] /\ packet'[x] = packet[x] /\ wrap'[x] = wrap[x]
        /\ UNCHANGED <<pc, op, ec, result, tpc, batch, cur, status>>
    BY <1>a, <2>1, WrapFields DEF KernelComplete, TypeOK, taskVars, threadVars, WrapType
  <2>3. ~wrap[w].completed /\ \A th \in Threads : w \notin batch[th] /\ w # cur[th]
    BY <1>a DEF KernelComplete, CompletedInv, ThreadInv
  <2>4. ResultOf(t)'
    <3>1. /\ op'[t] = w /\ pc'[t] = pc[t] /\ ec'[t] = ec[t] /\ result'[t] = result[t]
          /\ outcome'[t] = Result(wrap'[w].inner, packet'[w]) /\ leak'[w] = "port"
          /\ ~wrap'[w].completed /\ pc[t] # "idle" /\ pc[t] # "giveback"
          /\ \A th \in Threads : w \notin batch'[th] /\ w # cur'[th]
      BY <2>1, <2>2, <2>3, Zenon DEF Awaiting
    <3>2. result[t] = NoResult
      BY <1>a, <3>1, Zenon DEF ResultInv, ResultOf
    <3>. QED  BY <3>1, <3>2, Zenon DEF ResultOf
  <2>5. ASSUME NEW u \in Tasks, u # t  PROVE ResultOf(u)'
    <3>1. /\ op'[u] = op[u] /\ pc'[u] = pc[u] /\ ec'[u] = ec[u] /\ outcome'[u] = outcome[u]
          /\ result'[u] = result[u] /\ UNCHANGED <<tpc, batch, cur, status>>
          /\ op[u] # NoWrap => /\ leak'[op[u]] = leak[op[u]] /\ wrap'[op[u]] = wrap[op[u]]
                               /\ packet'[op[u]] = packet[op[u]]
      BY <1>a, <2>1, <2>2, <2>5 DEF OpInv, TypeOK
    <3>. QED  BY <1>a, <3>1, ResultSame, Zenon DEF ResultInv, OpInv
  <2>. QED  BY <2>4, <2>5, Zenon DEF ResultInv
<1>10. WakeInv'
  BY <1>a, <1>b, <1>c, <1>d DEF KernelComplete, taskVars, threadVars, WakeInv, NoLostWakeup
<1>11. TaskRefInv'
  BY <1>a, <1>b, <1>c, <1>d DEF KernelComplete, taskVars, threadVars, TaskRefInv
<1>. QED  BY <1>1, <1>2, <1>3, <1>4, <1>5, <1>6, <1>7, <1>8, <1>9, <1>10, <1>11, Zenon DEF IInv

LEMMA StoreErrStep ==
    ASSUME IInv, NEW th \in Threads, StoreErr(th)
    PROVE  IInv'
<1>. USE ConstantsAssumption
<1>a. TypeOK /\ OpInv /\ RefsInv /\ PoolInv /\ LeakInv /\ KernelInv
      /\ ThreadInv /\ CompletedInv /\ ResultInv /\ WakeInv /\ TaskRefInv
  BY Zenon DEF IInv
<1>b. /\ cur[th] \in Wraps /\ cur[th] # NoWrap /\ leak[cur[th]] = "thread"
      /\ cur[th] \notin free /\ refs[cur[th]] >= 1
  BY CurFacts, Zenon DEF StoreErr
<1>1. TypeOK'
  BY <1>a, <1>b, StoreErrField, WrapFields, Zenon DEF StoreErr, taskVars, TypeOK, InOp, Awaiting
<1>2. OpInv'
  BY <1>a, <1>b, Zenon DEF StoreErr, taskVars, OpInv
<1>3. RefsInv'
  BY <1>a, <1>b, Zenon DEF StoreErr, taskVars, RefsInv, Awaiting, B
<1>4. PoolInv'
  BY <1>a, <1>b DEF StoreErr, taskVars, PoolInv
<1>5. LeakInv'
  BY <1>a, <1>b DEF StoreErr, taskVars, LeakInv, LeakOf, ERROR_IO_PENDING
<1>6. KernelInv'
  BY <1>a, <1>b, Zenon DEF StoreErr, taskVars, KernelInv, Awaiting
<1>7. ThreadInv'
  BY <1>a, <1>b DEF StoreErr, taskVars, ThreadInv
<1>8. CompletedInv'
  BY <1>a, <1>b DEF StoreErr, taskVars, CompletedInv
<1>9. ResultInv'
  BY <1>a, <1>b, FreshFields, WrapFields DEF StoreErr, taskVars, ResultInv, ResultOf, TypeOK, OpInv, LeakInv, LeakOf, CompletedInv, ThreadInv, Awaiting
<1>10. WakeInv'
  BY <1>a, <1>b DEF StoreErr, taskVars, WakeInv, NoLostWakeup
<1>11. TaskRefInv'
  BY <1>a, <1>b, Zenon DEF StoreErr, taskVars, TaskRefInv
<1>. QED  BY <1>1, <1>2, <1>3, <1>4, <1>5, <1>6, <1>7, <1>8, <1>9, <1>10, <1>11, Zenon DEF IInv

LEMMA StoreLenStep ==
    ASSUME IInv, NEW th \in Threads, StoreLen(th)
    PROVE  IInv'
<1>. USE ConstantsAssumption
<1>a. TypeOK /\ OpInv /\ RefsInv /\ PoolInv /\ LeakInv /\ KernelInv
      /\ ThreadInv /\ CompletedInv /\ ResultInv /\ WakeInv /\ TaskRefInv
  BY Zenon DEF IInv
<1>b. /\ cur[th] \in Wraps /\ cur[th] # NoWrap /\ leak[cur[th]] = "thread"
      /\ cur[th] \notin free /\ refs[cur[th]] >= 1
  BY CurFacts, Zenon DEF StoreLen
<1>1. TypeOK'
  BY <1>a, <1>b, StoreLenField, WrapFields, Zenon DEF StoreLen, taskVars, TypeOK, InOp, Awaiting
<1>2. OpInv'
  BY <1>a, <1>b, Zenon DEF StoreLen, taskVars, OpInv
<1>3. RefsInv'
  BY <1>a, <1>b, Zenon DEF StoreLen, taskVars, RefsInv, Awaiting, B
<1>4. PoolInv'
  BY <1>a, <1>b DEF StoreLen, taskVars, PoolInv
<1>5. LeakInv'
  BY <1>a, <1>b DEF StoreLen, taskVars, LeakInv, LeakOf, ERROR_IO_PENDING
<1>6. KernelInv'
  BY <1>a, <1>b, Zenon DEF StoreLen, taskVars, KernelInv, Awaiting
<1>7. ThreadInv'
  BY <1>a, <1>b DEF StoreLen, taskVars, ThreadInv
<1>8. CompletedInv'
  BY <1>a, <1>b DEF StoreLen, taskVars, CompletedInv
<1>9. ResultInv'
  BY <1>a, <1>b DEF StoreLen, taskVars, ResultInv, ResultOf, TypeOK, Awaiting
<1>10. WakeInv'
  BY <1>a, <1>b DEF StoreLen, taskVars, WakeInv, NoLostWakeup
<1>11. TaskRefInv'
  BY <1>a, <1>b, Zenon DEF StoreLen, taskVars, TaskRefInv
<1>. QED  BY <1>1, <1>2, <1>3, <1>4, <1>5, <1>6, <1>7, <1>8, <1>9, <1>10, <1>11, Zenon DEF IInv

LEMMA StoreCompletedStep ==
    ASSUME IInv, NEW th \in Threads, StoreCompleted(th)
    PROVE  IInv'
<1>. USE ConstantsAssumption
<1>a. TypeOK /\ OpInv /\ RefsInv /\ PoolInv /\ LeakInv /\ KernelInv
      /\ ThreadInv /\ CompletedInv /\ ResultInv /\ WakeInv /\ TaskRefInv
  BY Zenon DEF IInv
<1>b. /\ cur[th] \in Wraps /\ cur[th] # NoWrap /\ leak[cur[th]] = "thread"
      /\ cur[th] \notin free /\ refs[cur[th]] >= 1
  BY CurFacts, Zenon DEF StoreCompleted
<1>1. TypeOK'
  BY <1>a, <1>b, StoreFlag, WrapFields, Zenon DEF StoreCompleted, taskVars, TypeOK, InOp, Awaiting
<1>2. OpInv'
  BY <1>a, <1>b, Zenon DEF StoreCompleted, taskVars, OpInv
<1>3. RefsInv'
  BY <1>a, <1>b, Zenon DEF StoreCompleted, taskVars, RefsInv, Awaiting, B
<1>4. PoolInv'
  BY <1>a, <1>b DEF StoreCompleted, taskVars, PoolInv
<1>5. LeakInv'
  BY <1>a, <1>b DEF StoreCompleted, taskVars, LeakInv, LeakOf, ERROR_IO_PENDING
<1>6. KernelInv'
  BY <1>a, <1>b, Zenon DEF StoreCompleted, taskVars, KernelInv, Awaiting
<1>7. ThreadInv'
  BY <1>a, <1>b DEF StoreCompleted, taskVars, ThreadInv
<1>8. CompletedInv'
  BY <1>a, <1>b DEF StoreCompleted, taskVars, CompletedInv, TypeOK, OpInv, ThreadInv
<1>9. ResultInv'
  BY <1>a, <1>b DEF StoreCompleted, taskVars, ResultInv, ResultOf, Awaiting
<1>10. WakeInv'
  BY <1>a, <1>b DEF StoreCompleted, taskVars, WakeInv, TypeOK, NoLostWakeup
<1>11. TaskRefInv'
  BY <1>a, <1>b, Zenon DEF StoreCompleted, taskVars, TaskRefInv
<1>. QED  BY <1>1, <1>2, <1>3, <1>4, <1>5, <1>6, <1>7, <1>8, <1>9, <1>10, <1>11, Zenon DEF IInv

LEMMA WakeStep ==
    ASSUME IInv, NEW th \in Threads, Wake(th)
    PROVE  IInv'
<1>. USE ConstantsAssumption
<1>a. TypeOK /\ OpInv /\ RefsInv /\ PoolInv /\ LeakInv /\ KernelInv
      /\ ThreadInv /\ CompletedInv /\ ResultInv /\ WakeInv /\ TaskRefInv
  BY Zenon DEF IInv
<1>b. /\ cur[th] \in Wraps /\ cur[th] # NoWrap /\ leak[cur[th]] = "thread"
      /\ cur[th] \notin free /\ refs[cur[th]] >= 1
  BY CurFacts, Zenon DEF Wake
<1>1. TypeOK'
  BY <1>a, <1>b, StoreWaker, WrapFields, Zenon DEF Wake, TypeOK, InOp, Awaiting
<1>2. OpInv'
  BY <1>a, <1>b, Zenon DEF Wake, OpInv
<1>3. RefsInv'
  BY <1>a, <1>b, Zenon DEF Wake, RefsInv, Awaiting, B
<1>4. PoolInv'
  BY <1>a, <1>b DEF Wake, PoolInv
<1>5. LeakInv'
  BY <1>a, <1>b DEF Wake, LeakInv, LeakOf, ERROR_IO_PENDING
<1>6. KernelInv'
  BY <1>a, <1>b, Zenon DEF Wake, KernelInv, Awaiting
<1>7. ThreadInv'
  BY <1>a, <1>b DEF Wake, ThreadInv
<1>8. CompletedInv'
  BY <1>a, <1>b DEF Wake, CompletedInv
<1>9. ResultInv'
  BY <1>a, <1>b DEF Wake, ResultInv, ResultOf, Awaiting
<1>10. WakeInv'
  BY <1>a, <1>b, FreshFields, WrapFields DEF Wake, WakeInv, TypeOK, OpInv, LeakInv, LeakOf, CompletedInv, ThreadInv, NoLostWakeup
<1>11. TaskRefInv'
  BY <1>a, <1>b, Zenon DEF Wake, TaskRefInv
<1>. QED  BY <1>1, <1>2, <1>3, <1>4, <1>5, <1>6, <1>7, <1>8, <1>9, <1>10, <1>11, Zenon DEF IInv

-----------------------------------------------------------------------------
(* The end of an operation.                                                *)

LEMMA GiveBackStep ==
    ASSUME IInv, NEW t \in Tasks, GiveBack(t)
    PROVE  IInv'
<1>. USE ConstantsAssumption, FreshFields
<1>a. TypeOK /\ OpInv /\ RefsInv /\ PoolInv /\ LeakInv /\ KernelInv
      /\ ThreadInv /\ CompletedInv /\ ResultInv /\ WakeInv
  BY Zenon DEF IInv
<1>w. PICK w \in Wraps : w = op[t]
  BY OpFacts, Zenon DEF GiveBack
<1>b. /\ pc' = [pc EXCEPT ![t] = "idle"] /\ op' = [op EXCEPT ![t] = NoWrap]
      /\ result' = [result EXCEPT ![t] = NoResult]
      /\ outcome' = [outcome EXCEPT ![t] = NoResult]
      /\ UNCHANGED <<leak, packet, lender, ec, woken>>
      /\ UNCHANGED <<tpc, batch, cur, status>>
  BY Zenon DEF GiveBack, LeaveOp, Goto, threadVars
<1>c. /\ pc[t] = "giveback" /\ leak[w] \in {"none", "thread"} /\ w \notin free
      /\ refs[w] = 1 + B(leak[w] # "none")
      /\ \A u \in Tasks : u # t => op[u] # w
  <2>1. pc[t] = "giveback" /\ w \notin free /\ \A u \in Tasks : u # t => op[u] # w
    BY <1>w, OpFacts, Zenon DEF GiveBack
  <2>2. leak[w] \in {"none", "thread"}
    BY <1>a, <1>w, <2>1, Zenon DEF LeakInv, LeakOf
  <2>3. refs[w] = 1 + B(leak[w] # "none") + B("giveback" \in Awaiting)
    BY <1>a, <1>w, <2>1, Zenon DEF RefsInv
  <2>. QED  BY <2>1, <2>2, <2>3 DEF Awaiting, B
\* What happens to the wrap: pooled, freed, or left to the thread.
<1>d. \/ /\ leak[w] = "none" /\ wrap' = [wrap EXCEPT ![w] = Fresh]
         /\ free' = free \cup {w} /\ refs' = refs
      \/ /\ leak[w] = "none" /\ wrap' = [wrap EXCEPT ![w] = Fresh]
         /\ free' = free /\ refs' = [refs EXCEPT ![w] = 0]
      \/ /\ leak[w] = "thread" /\ wrap' = wrap
         /\ free' = free /\ refs' = [refs EXCEPT ![w] = 1]
  <2>1. CASE refs[op[t]] = 1 /\ Cardinality(free) < PoolSlots
    BY <2>1, <1>w, <1>c DEF GiveBack, B
  <2>2. CASE ~(refs[op[t]] = 1 /\ Cardinality(free) < PoolSlots)
    <3>1. /\ free' = free /\ refs' = [refs EXCEPT ![w] = refs[w] - 1]
          /\ wrap' = IF refs[w] = 1 THEN [wrap EXCEPT ![w] = Fresh] ELSE wrap
      BY <2>2, <1>w, Zenon DEF GiveBack, DropArcs
    <3>2. CASE leak[w] = "none"
      <4>1. refs[w] = 1
        BY <3>2, <1>c DEF B
      <4>. QED  BY <3>1, <3>2, <4>1
    <3>3. CASE leak[w] = "thread"
      <4>1. refs[w] = 2
        BY <3>3, <1>c DEF B
      <4>. QED  BY <3>1, <3>3, <4>1
    <3>. QED  BY <1>c, <3>2, <3>3, Zenon
  <2>. QED  BY <2>1, <2>2, Zenon
<1>e. /\ \A x \in Wraps : x # w => wrap'[x] = wrap[x] /\ refs'[x] = refs[x]
      /\ \A x \in Wraps : x # w => (x \in free' <=> x \in free)
      /\ leak[w] = "thread" => wrap'[w] = wrap[w]
      /\ leak[w] = "none" => wrap'[w] = Fresh
      /\ refs'[w] = B(w \in free') + B(leak[w] # "none")
      /\ w \in free' => leak[w] = "none"
  <2>1. CASE leak[w] = "none"
    BY <1>a, <1>c, <1>d, <2>1 DEF TypeOK, B
  <2>2. CASE leak[w] = "thread"
    BY <1>a, <1>c, <1>d, <2>2 DEF TypeOK, B
  <2>. QED  BY <1>c, <2>1, <2>2, Zenon
<1>f. /\ op'[t] = NoWrap /\ pc'[t] = "idle" /\ op[t] # NoWrap
      /\ \A u \in Tasks : u # t => op'[u] = op[u] /\ pc'[u] = pc[u]
      /\ \A u \in Tasks : u # t /\ op[u] # NoWrap =>
            /\ op[u] \in Wraps /\ op[u] # w
            /\ refs'[op[u]] = refs[op[u]] /\ wrap'[op[u]] = wrap[op[u]]
  <2>1. /\ op'[t] = NoWrap /\ pc'[t] = "idle" /\ op[t] # NoWrap
        /\ \A u \in Tasks : u # t => op'[u] = op[u] /\ pc'[u] = pc[u]
        /\ \A u \in Tasks : op[u] # NoWrap => op[u] \in Wraps
    BY <1>a, <1>b, <1>w, Zenon DEF TypeOK
  <2>. QED  BY <1>c, <1>e, <2>1, Zenon
<1>1. TypeOK'
  BY <1>a, <1>b, <1>d DEF TypeOK
<1>2. OpInv'
  BY <1>a, <1>b, Zenon DEF OpInv, TypeOK
<1>3. RefsInv'
  <2>1. ASSUME NEW u \in Tasks, op'[u] # NoWrap
        PROVE  refs'[op'[u]] = 1 + B(leak'[op'[u]] # "none") + B(pc'[u] \in Awaiting)
    <3>1. /\ op'[u] = op[u] /\ pc'[u] = pc[u] /\ op[u] # NoWrap
          /\ refs'[op[u]] = refs[op[u]] /\ leak' = leak
      BY <1>b, <1>f, <2>1, Zenon
    <3>2. refs[op[u]] = 1 + B(leak[op[u]] # "none") + B(pc[u] \in Awaiting)
      BY <1>a, <3>1, Zenon DEF RefsInv
    <3>. QED  BY <3>1, <3>2, Zenon
  <2>2. ASSUME NEW x \in Wraps, \A u \in Tasks : op'[u] # x
        PROVE  refs'[x] = B(x \in free') + B(leak'[x] # "none")
    <3>1. CASE x = w
      BY <1>b, <1>e, <3>1, Zenon
    <3>2. CASE x # w
      <4>1. \A u \in Tasks : op[u] # x
        BY <1>f, <1>w, <2>2, <3>2, Zenon
      <4>2. refs[x] = B(x \in free) + B(leak[x] # "none")
        BY <1>a, <4>1, Zenon DEF RefsInv
      <4>3. B(x \in free') = B(x \in free)
        BY <1>b, <1>e, <3>2, Zenon DEF B
      <4>. QED  BY <1>b, <1>e, <3>2, <4>2, <4>3, Zenon
    <3>. QED  BY <3>1, <3>2, Zenon
  <2>. QED  BY <2>1, <2>2, Zenon DEF RefsInv
<1>4. PoolInv'
  <2>1. ASSUME NEW x \in Wraps, x \in free' \/ refs'[x] = 0
        PROVE  wrap'[x] = Fresh
    <3>1. CASE x = w
      <4>1. leak[w] = "none"
        BY <1>c, <1>e, <2>1, <3>1 DEF B
      <4>. QED  BY <1>e, <3>1, <4>1, Zenon
    <3>2. CASE x # w
      BY <1>a, <1>e, <2>1, <3>2, Zenon DEF PoolInv
    <3>. QED  BY <3>1, <3>2, Zenon
  <2>2. ASSUME NEW x \in free'
        PROVE  leak'[x] = "none" /\ \A u \in Tasks : op'[u] # x
    BY <1>a, <1>b, <1>c, <1>d, <1>e, <1>w, <2>2 DEF PoolInv, TypeOK
  <2>. QED  BY <2>1, <2>2, Zenon DEF PoolInv
<1>5. LeakInv'
  BY <1>a, <1>b, <1>f, LeakSame, Zenon DEF LeakInv
<1>6. KernelInv'
  <2>. SUFFICES ASSUME NEW x \in Wraps, leak[x] = "kernel"
                PROVE  /\ lender[x] \in Tasks /\ op'[lender[x]] = x
                       /\ pc'[lender[x]] \in (Awaiting \ {"ready", "dropped"}) \cup {"returned"}
    BY <1>b, Zenon DEF KernelInv
  <2>1. /\ x # w /\ lender[x] \in Tasks /\ op[lender[x]] = x
        /\ pc[lender[x]] \in (Awaiting \ {"ready", "dropped"}) \cup {"returned"}
    BY <1>a, <1>c, Zenon DEF KernelInv
  <2>. QED  BY <1>f, <1>w, <2>1, Zenon
<1>7. ThreadInv'
  BY <1>a, <1>b DEF ThreadInv, TypeOK
<1>8. CompletedInv'
  <2>1. \A x \in Wraps : leak[x] # "none" => wrap'[x] = wrap[x]
    BY <1>c, <1>e, Zenon
  <2>2. /\ \A th \in Threads : cur[th] # NoWrap => wrap'[cur[th]] = wrap[cur[th]]
        /\ \A th \in Threads : \A x \in batch[th] : wrap'[x] = wrap[x]
    <3>1. /\ \A th \in Threads : cur[th] # NoWrap => cur[th] \in Wraps
          /\ \A th \in Threads : batch[th] \in SUBSET Wraps
      BY <1>a, Zenon DEF TypeOK
    <3>2. /\ \A th \in Threads : cur[th] # NoWrap => leak[cur[th]] # "none"
          /\ \A th \in Threads : \A x \in batch[th] : leak[x] # "none"
      BY <1>a, Zenon DEF ThreadInv
    <3>. QED  BY <2>1, <3>1, <3>2, Zenon
  <2>3. \A x \in Wraps : leak'[x] \in {"task", "kernel", "port"} => ~wrap'[x].completed
    BY <1>a, <1>b, <2>1, Zenon DEF CompletedInv
  <2>4. \A th \in Threads : \A x \in batch'[th] : ~wrap'[x].completed
    <3>1. \A th \in Threads : \A x \in batch[th] : ~wrap[x].completed
      BY <1>a, Zenon DEF CompletedInv
    <3>2. batch' = batch
      BY <1>b, Zenon
    <3>. QED  BY <2>2, <3>1, <3>2, Zenon
  <2>5. \A th \in Threads : cur'[th] # NoWrap =>
           (wrap'[cur'[th]].completed <=> tpc'[th] \in {"wake", "drop"})
    BY <1>a, <1>b, <2>2, Zenon DEF CompletedInv
  <2>. QED  BY <2>3, <2>4, <2>5, Zenon DEF CompletedInv
<1>9. ResultInv'
  <2>1. ResultOf(t)'
    BY <1>a, <1>b, ResultLeft, Zenon DEF TypeOK
  <2>2. ASSUME NEW u \in Tasks, u # t  PROVE ResultOf(u)'
    <3>1. /\ op'[u] = op[u] /\ pc'[u] = pc[u] /\ ec'[u] = ec[u] /\ outcome'[u] = outcome[u]
          /\ result'[u] = result[u] /\ UNCHANGED <<tpc, batch, cur, status>>
          /\ op[u] # NoWrap => /\ leak'[op[u]] = leak[op[u]] /\ wrap'[op[u]] = wrap[op[u]]
                               /\ packet'[op[u]] = packet[op[u]]
      <4>1. ec'[u] = ec[u] /\ outcome'[u] = outcome[u] /\ result'[u] = result[u]
            /\ leak' = leak /\ packet' = packet /\ UNCHANGED <<tpc, batch, cur, status>>
        BY <1>a, <1>b, <2>2, Zenon DEF TypeOK
      <4>. QED  BY <1>f, <2>2, <4>1, Zenon
    <3>. QED  BY <1>a, <3>1, ResultSame, Zenon DEF ResultInv, OpInv
  <2>. QED  BY <2>1, <2>2, Zenon DEF ResultInv
<1>10. WakeInv'
  <2>1. \A u \in Tasks : pc[u] \in {"recheck", "parked"} => op[u] # NoWrap
    BY <1>a, Zenon DEF OpInv
  <2>2. /\ pc'[t] \notin {"recheck", "parked"} /\ UNCHANGED <<woken, tpc, cur>>
        /\ \A u \in Tasks : u # t => pc'[u] = pc[u] /\ op'[u] = op[u]
        /\ \A u \in Tasks : u # t /\ pc[u] \in {"recheck", "parked"} => wrap'[op[u]] = wrap[op[u]]
    BY <1>b, <1>f, <2>1, Zenon
  <2>. QED  BY <1>a, <2>2, WakeSame, Zenon
<1>11. TaskRefInv'
  <2>. SUFFICES ASSUME NEW x \in Wraps, leak[x] = "task"
                PROVE  \E u \in Tasks : op'[u] = x
    BY <1>b, Zenon DEF TaskRefInv
  <2>1. PICK u \in Tasks : op[u] = x
    BY Zenon DEF IInv, TaskRefInv
  <2>2. u # t
    BY <1>c, <1>w, <2>1, Zenon
  <2>. QED  BY <1>f, <2>1, <2>2, Zenon
<1>. QED  BY <1>1, <1>2, <1>3, <1>4, <1>5, <1>6, <1>7, <1>8, <1>9, <1>10, <1>11, Zenon DEF IInv

LEMMA ReleaseStep ==
    ASSUME IInv, NEW t \in Tasks, Release(t)
    PROVE  IInv'
<1>. USE ConstantsAssumption, FreshFields
<1>a. TypeOK /\ OpInv /\ RefsInv /\ PoolInv /\ LeakInv /\ KernelInv
      /\ ThreadInv /\ CompletedInv /\ ResultInv /\ WakeInv
  BY Zenon DEF IInv
<1>w. PICK w \in Wraps : w = op[t]
  BY OpFacts, Zenon DEF Release
<1>b. /\ pc' = [pc EXCEPT ![t] = "idle"] /\ op' = [op EXCEPT ![t] = NoWrap]
      /\ result' = [result EXCEPT ![t] = NoResult]
      /\ outcome' = [outcome EXCEPT ![t] = NoResult]
      /\ UNCHANGED <<free, leak, packet, lender, ec, woken>>
      /\ UNCHANGED <<tpc, batch, cur, status>>
  BY Zenon DEF Release, LeaveOp, Goto, threadVars
<1>c. /\ pc[t] = "dropped" /\ leak[w] \in {"none", "thread"} /\ w \notin free
      /\ refs[w] = 2 + B(leak[w] # "none")
      /\ \A u \in Tasks : u # t => op[u] # w
  <2>1. pc[t] = "dropped" /\ w \notin free /\ \A u \in Tasks : u # t => op[u] # w
    BY <1>w, OpFacts, Zenon DEF Release
  <2>2. leak[w] \in {"none", "thread"}
    BY <1>a, <1>w, <2>1 DEF LeakInv, LeakOf, CompletedInv, TypeOK
  <2>3. refs[w] = 1 + B(leak[w] # "none") + B("dropped" \in Awaiting)
    BY <1>a, <1>w, <2>1, Zenon DEF RefsInv
  <2>. QED  BY <2>1, <2>2, <2>3 DEF Awaiting, B
<1>d. /\ refs' = [refs EXCEPT ![w] = B(leak[w] # "none")]
      /\ wrap' = IF leak[w] = "none" THEN [wrap EXCEPT ![w] = Fresh] ELSE wrap
  <2>1. /\ refs' = [refs EXCEPT ![w] = refs[w] - 2]
        /\ wrap' = IF refs[w] = 2 THEN [wrap EXCEPT ![w] = Fresh] ELSE wrap
    BY <1>w, Zenon DEF Release, DropArcs
  <2>. QED  BY <2>1, <1>c DEF B
<1>e. /\ \A x \in Wraps : x # w => wrap'[x] = wrap[x] /\ refs'[x] = refs[x]
      /\ leak[w] = "thread" => wrap'[w] = wrap[w]
      /\ leak[w] = "none" => wrap'[w] = Fresh
      /\ refs'[w] = B(w \in free) + B(leak[w] # "none")
  BY <1>a, <1>c, <1>d DEF TypeOK, B
<1>f. /\ op'[t] = NoWrap /\ pc'[t] = "idle" /\ op[t] # NoWrap
      /\ \A u \in Tasks : u # t => op'[u] = op[u] /\ pc'[u] = pc[u]
      /\ \A u \in Tasks : u # t /\ op[u] # NoWrap =>
            /\ op[u] \in Wraps /\ op[u] # w
            /\ refs'[op[u]] = refs[op[u]] /\ wrap'[op[u]] = wrap[op[u]]
  <2>1. /\ op'[t] = NoWrap /\ pc'[t] = "idle" /\ op[t] # NoWrap
        /\ \A u \in Tasks : u # t => op'[u] = op[u] /\ pc'[u] = pc[u]
        /\ \A u \in Tasks : op[u] # NoWrap => op[u] \in Wraps
    BY <1>a, <1>b, <1>w, Zenon DEF TypeOK
  <2>. QED  BY <1>c, <1>e, <2>1, Zenon
<1>1. TypeOK'
  BY <1>a, <1>b, <1>d, Zenon DEF TypeOK, B
<1>2. OpInv'
  BY <1>a, <1>b, Zenon DEF OpInv, TypeOK
<1>3. RefsInv'
  <2>1. ASSUME NEW u \in Tasks, op'[u] # NoWrap
        PROVE  refs'[op'[u]] = 1 + B(leak'[op'[u]] # "none") + B(pc'[u] \in Awaiting)
    <3>1. /\ op'[u] = op[u] /\ pc'[u] = pc[u] /\ op[u] # NoWrap
          /\ refs'[op[u]] = refs[op[u]] /\ leak' = leak
      BY <1>b, <1>f, <2>1, Zenon
    <3>2. refs[op[u]] = 1 + B(leak[op[u]] # "none") + B(pc[u] \in Awaiting)
      BY <1>a, <3>1, Zenon DEF RefsInv
    <3>. QED  BY <3>1, <3>2, Zenon
  <2>2. ASSUME NEW x \in Wraps, \A u \in Tasks : op'[u] # x
        PROVE  refs'[x] = B(x \in free') + B(leak'[x] # "none")
    <3>1. CASE x = w
      BY <1>b, <1>e, <3>1, Zenon
    <3>2. CASE x # w
      <4>1. \A u \in Tasks : op[u] # x
        BY <1>f, <1>w, <2>2, <3>2, Zenon
      <4>2. refs[x] = B(x \in free) + B(leak[x] # "none")
        BY <1>a, <4>1, Zenon DEF RefsInv
      <4>3. B(x \in free') = B(x \in free)
        BY <1>b, <1>e, <3>2, Zenon DEF B
      <4>. QED  BY <1>b, <1>e, <3>2, <4>2, <4>3, Zenon
    <3>. QED  BY <3>1, <3>2, Zenon
  <2>. QED  BY <2>1, <2>2, Zenon DEF RefsInv
<1>4. PoolInv'
  <2>1. ASSUME NEW x \in Wraps, x \in free' \/ refs'[x] = 0
        PROVE  wrap'[x] = Fresh
    <3>1. CASE x = w
      <4>1. leak[w] = "none"
        BY <1>c, <1>e, <2>1, <3>1, <1>b DEF B
      <4>. QED  BY <1>e, <3>1, <4>1, Zenon
    <3>2. CASE x # w
      BY <1>a, <1>b, <1>e, <2>1, <3>2, Zenon DEF PoolInv
    <3>. QED  BY <3>1, <3>2, Zenon
  <2>2. ASSUME NEW x \in free'
        PROVE  leak'[x] = "none" /\ \A u \in Tasks : op'[u] # x
    BY <1>a, <1>b, <1>c, <1>w, <2>2 DEF PoolInv, TypeOK
  <2>. QED  BY <2>1, <2>2, Zenon DEF PoolInv
<1>5. LeakInv'
  BY <1>a, <1>b, <1>f, LeakSame, Zenon DEF LeakInv
<1>6. KernelInv'
  <2>. SUFFICES ASSUME NEW x \in Wraps, leak[x] = "kernel"
                PROVE  /\ lender[x] \in Tasks /\ op'[lender[x]] = x
                       /\ pc'[lender[x]] \in (Awaiting \ {"ready", "dropped"}) \cup {"returned"}
    BY <1>b, Zenon DEF KernelInv
  <2>1. /\ x # w /\ lender[x] \in Tasks /\ op[lender[x]] = x
        /\ pc[lender[x]] \in (Awaiting \ {"ready", "dropped"}) \cup {"returned"}
    BY <1>a, <1>c, Zenon DEF KernelInv
  <2>. QED  BY <1>f, <1>w, <2>1, Zenon
<1>7. ThreadInv'
  BY <1>a, <1>b DEF ThreadInv, TypeOK
<1>8. CompletedInv'
  <2>1. \A x \in Wraps : leak[x] # "none" => wrap'[x] = wrap[x]
    BY <1>c, <1>e, Zenon
  <2>2. /\ \A th \in Threads : cur[th] # NoWrap => wrap'[cur[th]] = wrap[cur[th]]
        /\ \A th \in Threads : \A x \in batch[th] : wrap'[x] = wrap[x]
    <3>1. /\ \A th \in Threads : cur[th] # NoWrap => cur[th] \in Wraps
          /\ \A th \in Threads : batch[th] \in SUBSET Wraps
      BY <1>a, Zenon DEF TypeOK
    <3>2. /\ \A th \in Threads : cur[th] # NoWrap => leak[cur[th]] # "none"
          /\ \A th \in Threads : \A x \in batch[th] : leak[x] # "none"
      BY <1>a, Zenon DEF ThreadInv
    <3>. QED  BY <2>1, <3>1, <3>2, Zenon
  <2>3. \A x \in Wraps : leak'[x] \in {"task", "kernel", "port"} => ~wrap'[x].completed
    BY <1>a, <1>b, <2>1, Zenon DEF CompletedInv
  <2>4. \A th \in Threads : \A x \in batch'[th] : ~wrap'[x].completed
    <3>1. \A th \in Threads : \A x \in batch[th] : ~wrap[x].completed
      BY <1>a, Zenon DEF CompletedInv
    <3>2. batch' = batch
      BY <1>b, Zenon
    <3>. QED  BY <2>2, <3>1, <3>2, Zenon
  <2>5. \A th \in Threads : cur'[th] # NoWrap =>
           (wrap'[cur'[th]].completed <=> tpc'[th] \in {"wake", "drop"})
    BY <1>a, <1>b, <2>2, Zenon DEF CompletedInv
  <2>. QED  BY <2>3, <2>4, <2>5, Zenon DEF CompletedInv
<1>9. ResultInv'
  <2>1. ResultOf(t)'
    BY <1>a, <1>b, ResultLeft, Zenon DEF TypeOK
  <2>2. ASSUME NEW u \in Tasks, u # t  PROVE ResultOf(u)'
    <3>1. /\ op'[u] = op[u] /\ pc'[u] = pc[u] /\ ec'[u] = ec[u] /\ outcome'[u] = outcome[u]
          /\ result'[u] = result[u] /\ UNCHANGED <<tpc, batch, cur, status>>
          /\ op[u] # NoWrap => /\ leak'[op[u]] = leak[op[u]] /\ wrap'[op[u]] = wrap[op[u]]
                               /\ packet'[op[u]] = packet[op[u]]
      <4>1. ec'[u] = ec[u] /\ outcome'[u] = outcome[u] /\ result'[u] = result[u]
            /\ leak' = leak /\ packet' = packet /\ UNCHANGED <<tpc, batch, cur, status>>
        BY <1>a, <1>b, <2>2, Zenon DEF TypeOK
      <4>. QED  BY <1>f, <2>2, <4>1, Zenon
    <3>. QED  BY <1>a, <3>1, ResultSame, Zenon DEF ResultInv, OpInv
  <2>. QED  BY <2>1, <2>2, Zenon DEF ResultInv
<1>10. WakeInv'
  <2>1. \A u \in Tasks : pc[u] \in {"recheck", "parked"} => op[u] # NoWrap
    BY <1>a, Zenon DEF OpInv
  <2>2. /\ pc'[t] \notin {"recheck", "parked"} /\ UNCHANGED <<woken, tpc, cur>>
        /\ \A u \in Tasks : u # t => pc'[u] = pc[u] /\ op'[u] = op[u]
        /\ \A u \in Tasks : u # t /\ pc[u] \in {"recheck", "parked"} => wrap'[op[u]] = wrap[op[u]]
    BY <1>b, <1>f, <2>1, Zenon
  <2>. QED  BY <1>a, <2>2, WakeSame, Zenon
<1>11. TaskRefInv'
  <2>. SUFFICES ASSUME NEW x \in Wraps, leak[x] = "task"
                PROVE  \E u \in Tasks : op'[u] = x
    BY <1>b, Zenon DEF TaskRefInv
  <2>1. PICK u \in Tasks : op[u] = x
    BY Zenon DEF IInv, TaskRefInv
  <2>2. u # t
    BY <1>c, <1>w, <2>1, Zenon
  <2>. QED  BY <1>f, <2>1, <2>2, Zenon
<1>. QED  BY <1>1, <1>2, <1>3, <1>4, <1>5, <1>6, <1>7, <1>8, <1>9, <1>10, <1>11, Zenon DEF IInv

-----------------------------------------------------------------------------
(* The invariant holds.                                                    *)

LEMMA InitInv == Init => IInv
<1> SUFFICES ASSUME Init PROVE IInv
  OBVIOUS
<1>. USE ConstantsAssumption, FreshFields DEF Init
<1>1. TypeOK
  BY Zenon DEF TypeOK
<1>2. OpInv /\ RefsInv /\ PoolInv /\ LeakInv /\ KernelInv /\ TaskRefInv
  BY DEF OpInv, RefsInv, PoolInv, LeakInv, LeakOf, KernelInv, TaskRefInv, B
<1>3. ThreadInv /\ CompletedInv
  BY Zenon DEF ThreadInv, CompletedInv
<1>4. ResultInv /\ WakeInv
  BY Zenon DEF ResultInv, ResultOf, WakeInv, NoLostWakeup, Awaiting
<1>. QED  BY <1>1, <1>2, <1>3, <1>4, Zenon DEF IInv

LEMMA StutterInv == IInv /\ UNCHANGED vars => IInv'
<1> SUFFICES ASSUME IInv, UNCHANGED vars PROVE IInv'
  OBVIOUS
<1>. USE DEF IInv, vars, wrapVars, taskVars, threadVars
<1>1. TypeOK' /\ OpInv' /\ RefsInv'
  BY DEF TypeOK, OpInv, RefsInv
<1>2. PoolInv' /\ LeakInv' /\ KernelInv'
  BY DEF PoolInv, LeakInv, LeakOf, KernelInv
<1>3. ThreadInv' /\ CompletedInv'
  BY DEF ThreadInv, CompletedInv
<1>4. ResultInv'
  BY Zenon DEF ResultInv, ResultOf
<1>5. WakeInv' /\ TaskRefInv'
  BY DEF WakeInv, NoLostWakeup, TaskRefInv
<1>. QED  BY <1>1, <1>2, <1>3, <1>4, <1>5, Zenon

LEMMA NextInv == IInv /\ [Next]_vars => IInv'
<1> SUFFICES ASSUME IInv, [Next]_vars PROVE IInv'
  OBVIOUS
<1>1. ASSUME NEW t \in Tasks, TaskNext(t) PROVE IInv'
  <2>1. CASE OpNew(t)
    BY <2>1, OpNewStep, Zenon
  <2>2. ASSUME NEW n \in Lens, CallInline(t, n) PROVE IInv'
    BY <2>2, CallInlineStep, Zenon
  <2>3. CASE CallPending(t)
    BY <2>3, CallPendingStep, Zenon
  <2>4. ASSUME NEW e \in Errs, CallRefused(t, e) PROVE IInv'
    BY <2>4, CallRefusedStep, Zenon
  <2>5. CASE FinishInline(t) \/ FinishRefused(t) \/ FinishAwait(t)
    BY <2>5, FinishInlineStep, FinishRefusedStep, FinishAwaitStep, Zenon
  <2>6. CASE PollRegister(t) \/ ReadResult(t)
    BY <2>6, PollRegisterStep, ReadResultStep, Zenon
  <2>7. CASE GiveBack(t) \/ Release(t)
    BY <2>7, GiveBackStep, ReleaseStep, Zenon
  <2>8. CASE \/ PollCheck(t) \/ PollRecheck(t) \/ Resume(t) \/ PollAgain(t)
             \/ DropFuture(t) \/ CancelIoEx(t) \/ BlockUntilComplete(t)
    BY <2>8, MoveSteps, Zenon
  <2>. QED  BY <1>1, <2>1, <2>2, <2>3, <2>4, <2>5, <2>6, <2>7, <2>8, Zenon DEF TaskNext, TaskRuns
<1>2. ASSUME NEW w \in Wraps, KernelNext(w) PROVE IInv'
  BY <1>2, KernelCompleteStep, Zenon DEF KernelNext
<1>3. ASSUME NEW th \in Threads, ThreadNext(th) PROVE IInv'
  BY <1>3, DequeueStep, FromRawStep, StoreErrStep, StoreLenStep, StoreCompletedStep,
     WakeStep, DropRefStep, Zenon, Zenon DEF ThreadNext
<1>. QED  BY <1>1, <1>2, <1>3, StutterInv, Zenon DEF Next

\* The inductive invariant holds in every reachable state.
THEOREM Inductive == Spec => []IInv
BY InitInv, NextInv, PTL DEF Spec

\* Every variable keeps its type; in particular no strong count goes below
\* zero, so no reference is dropped twice.
THEOREM TypeCorrect == Spec => []TypeOK
<1>1. IInv => TypeOK
  BY Zenon DEF IInv
<1>. QED  BY <1>1, Inductive, PTL

\* Strong counts are exact: the kernel's reference is reclaimed exactly once.
THEOREM ReferencesExact == Spec => []RefsExact
BY CountsAreExact, Inductive, PTL

\* A wrap that can be taken is out of reach of kernel, port and threads.
THEOREM ReuseIsSafe == Spec => []NoReuseUnderneath
<1>1. IInv => NoReuseUnderneath
  <2> SUFFICES ASSUME IInv, NEW w \in Wraps, w \in free \/ refs[w] = 0
               PROVE  /\ leak[w] = "none"
                      /\ \A th \in Threads : w # cur[th] /\ w \notin batch[th]
                      /\ \A t \in Tasks : op[t] # w
    BY Zenon DEF NoReuseUnderneath
  <2>1. leak[w] = "none"
    BY LeakFacts
  <2>2. \A th \in Threads : w # cur[th] /\ w \notin batch[th]
    BY <2>1, ConstantsAssumption, Zenon DEF IInv, ThreadInv
  <2>3. ASSUME NEW t \in Tasks, op[t] = w PROVE FALSE
    <3>1. pc[t] # "idle"
      BY <2>3, ConstantsAssumption, Zenon DEF IInv, OpInv
    <3>. QED  BY <2>3, <3>1, OpFacts DEF B
  <2>. QED  BY <2>1, <2>2, <2>3, Zenon
<1>. QED  BY <1>1, Inductive, PTL

\* The kernel never has a buffer whose task has left the operation.
THEOREM BufferSafe == Spec => []BufferStaysLent
<1>1. IInv => BufferStaysLent
  BY Zenon DEF IInv, KernelInv, BufferStaysLent, InOp
<1>. QED  BY <1>1, Inductive, PTL

\* An await evaluates to what the kernel reported for that operation.
THEOREM ResultsCorrect == Spec => []ResultIsOutcome
<1>1. IInv => ResultIsOutcome
  BY Zenon DEF IInv, ResultInv, ResultOf, ResultIsOutcome
<1>. QED  BY <1>1, Inductive, PTL

\* No completion is missed by the task that waits for it.
THEOREM WakeupsArrive == Spec => []NoLostWakeup
<1>1. IInv => NoLostWakeup
  BY Zenon DEF IInv, WakeInv
<1>. QED  BY <1>1, Inductive, PTL

\* A submission is completed once.
THEOREM CompletesOnce == Spec => CompletedOnce
<1>1. IInv /\ [Next]_vars =>
        [\A th \in Threads : StoreCompleted(th) => ~wrap[cur[th]].completed]_vars
  BY CurFacts, Zenon DEF IInv, CompletedInv, StoreCompleted
<1>. QED  BY <1>1, Inductive, PTL DEF Spec, CompletedOnce

-----------------------------------------------------------------------------
(* Overlapped operations implement AsyncIo.                                *)

\* The abstract phases of all tasks.
Phases == [t \in Tasks |-> Phase(t)]

\* What the phase of a task depends on.
LEMMA PhaseSame ==
    ASSUME NEW u \in Tasks, pc'[u] = pc[u], op'[u] = op[u],
           pc[u] \notin {"idle", "giveback", "new"} => (leak'[op[u]] = "kernel" <=> leak[op[u]] = "kernel")
    PROVE  Phase(u)' = Phase(u)
BY Zenon DEF Phase

\* A step that moves the phase of one task, or of none.
LEMMA PhaseMoves ==
    ASSUME NEW t \in Tasks, NEW x, Phase(t)' = x,
           \A u \in Tasks : u # t => Phase(u)' = Phase(u)
    PROVE  Phases' = [Phases EXCEPT ![t] = x]
BY Zenon DEF Phases

LEMMA PhaseStays ==
    ASSUME \A u \in Tasks : Phase(u)' = Phase(u)
    PROVE  Phases' = Phases
BY Zenon DEF Phases

LEMMA OnesPhase == \A t \in Tasks : Phases[t] = Phase(t)
BY Zenon DEF Phases

\* The task whose step it is is the only one whose phase can change.
LEMMA OthersKeepPhase ==
    ASSUME IInv, NEW t \in Tasks, NEW w \in Wraps,
           \A u \in Tasks : u # t => pc'[u] = pc[u] /\ op'[u] = op[u] /\ op[u] # w,
           \A x \in Wraps : x # w => leak'[x] = leak[x]
    PROVE  \A u \in Tasks : u # t => Phase(u)' = Phase(u)
<1>. SUFFICES ASSUME NEW u \in Tasks, u # t PROVE Phase(u)' = Phase(u)
  OBVIOUS
<1>1. pc[u] # "idle" => op[u] \in Wraps
  BY OpFacts, Zenon
<1>. QED  BY <1>1, PhaseSame, Zenon

\* Op::new is the abstract submission.
LEMMA OpNewSubmits ==
    ASSUME IInv, NEW t \in Tasks, OpNew(t)
    PROVE  Abstract!Submit(t)
<1>1. PICK w \in Wraps : Take(w) /\ leak' = [leak EXCEPT ![w] = "task"] /\ op' = [op EXCEPT ![t] = w]
  BY Zenon DEF OpNew
<1>2. pc[t] = "idle" /\ pc' = [pc EXCEPT ![t] = "new"] /\ result' = result /\ outcome' = outcome
  BY Zenon DEF OpNew, Goto
<1>3. pc \in [Tasks -> {"idle"} \cup InOp] /\ op \in [Tasks -> Wraps \cup {NoWrap}]
      /\ leak \in [Wraps -> {"none", "task", "kernel", "port", "thread"}]
  BY Zenon DEF IInv, TypeOK
<1>4. \A u \in Tasks : op[u] # w
  <2>. SUFFICES ASSUME NEW u \in Tasks, op[u] = w PROVE FALSE
    BY Zenon
  <2>1. pc[u] # "idle"
    BY ConstantsAssumption, Zenon DEF IInv, OpInv
  <2>. QED  BY <1>1, <2>1, OpFacts DEF Take, B
<1>5. \A u \in Tasks : u # t => Phase(u)' = Phase(u)
  <2>1. \A u \in Tasks : u # t => pc'[u] = pc[u] /\ op'[u] = op[u]
    BY <1>1, <1>2, <1>3, Zenon
  <2>2. \A x \in Wraps : x # w => leak'[x] = leak[x]
    BY <1>1, <1>3, Zenon
  <2>. QED  BY <1>4, <2>1, <2>2, OthersKeepPhase, Zenon
<1>6. Phase(t) = "idle" /\ Phase(t)' = "lent"
  BY <1>2, <1>3, Zenon DEF Phase
<1>7. Phases' = [Phases EXCEPT ![t] = "lent"] /\ Phases[t] = "idle"
  BY <1>5, <1>6, PhaseMoves, OnesPhase, Zenon
<1>. QED  BY <1>2, <1>7, Zenon DEF Abstract!Submit, Phases

\* What the steps of a task inside its operation have in common.
LEMMA InOpStep ==
    ASSUME IInv, NEW t \in Tasks, pc[t] # "idle", NEW to, pc' = [pc EXCEPT ![t] = to],
           op' = op \/ op' = [op EXCEPT ![t] = NoWrap],
           leak' = leak \/ \E x : leak' = [leak EXCEPT ![op[t]] = x]
    PROVE  pc'[t] = to /\ \A u \in Tasks : u # t => Phase(u)' = Phase(u)
<1>1. pc \in [Tasks -> {"idle"} \cup InOp] /\ op \in [Tasks -> Wraps \cup {NoWrap}]
      /\ leak \in [Wraps -> {"none", "task", "kernel", "port", "thread"}]
  BY Zenon DEF IInv, TypeOK
<1>2. op[t] \in Wraps /\ \A u \in Tasks : u # t => op[u] # op[t]
  BY OpFacts, Zenon
<1>3. \A u \in Tasks : u # t => pc'[u] = pc[u] /\ op'[u] = op[u]
  BY <1>1, Zenon
<1>4. \A x \in Wraps : x # op[t] => leak'[x] = leak[x]
  BY <1>1, Zenon
<1>5. \A u \in Tasks : u # t => Phase(u)' = Phase(u)
  BY <1>2, <1>3, <1>4, OthersKeepPhase, Zenon
<1>. QED  BY <1>1, <1>5, Zenon

\* A call that returns without ERROR_IO_PENDING has been settled.
LEMMA CallSettles ==
    ASSUME IInv, NEW t \in Tasks,
           (\E n \in Lens : CallInline(t, n)) \/ (\E e \in Errs : CallRefused(t, e))
    PROVE  \E o \in Outcomes : Abstract!Settle(t, o)
<1>1. PICK o \in Outcomes :
        /\ outcome' = [outcome EXCEPT ![t] = o] /\ result' = result /\ op' = op
        /\ pc[t] = "new" /\ pc' = [pc EXCEPT ![t] = "returned"]
        /\ leak' = leak \/ leak' = [leak EXCEPT ![op[t]] = "port"]
  <2>1. ASSUME NEW n \in Lens, CallInline(t, n)
        PROVE  /\ outcome' = [outcome EXCEPT ![t] = Result(0, n)] /\ result' = result /\ op' = op
               /\ pc[t] = "new" /\ pc' = [pc EXCEPT ![t] = "returned"]
               /\ leak' = leak \/ leak' = [leak EXCEPT ![op[t]] = "port"]
    BY <2>1, Zenon DEF CallInline, Goto
  <2>2. ASSUME NEW e \in Errs, CallRefused(t, e)
        PROVE  /\ outcome' = [outcome EXCEPT ![t] = Result(e, 0)] /\ result' = result /\ op' = op
               /\ pc[t] = "new" /\ pc' = [pc EXCEPT ![t] = "returned"]
               /\ leak' = leak
    BY <2>2, Zenon DEF CallRefused, Goto, wrapVars
  <2>3. \A n \in Lens : Result(0, n) \in Outcomes
    BY ResultTyped, Zenon
  <2>4. \A e \in Errs : Result(e, 0) \in Outcomes
    BY ResultTyped, ConstantsAssumption, Zenon
  <2>. QED  BY <2>1, <2>2, <2>3, <2>4, Zenon
<1>2. pc'[t] = "returned" /\ \A u \in Tasks : u # t => Phase(u)' = Phase(u)
  <2>1. pc[t] # "idle"
    BY <1>1, Zenon
  <2>. QED  BY <1>1, <2>1, InOpStep, Zenon
<1>3. op[t] \in Wraps /\ leak[op[t]] = "task" /\ op'[t] = op[t]
      /\ leak \in [Wraps -> {"none", "task", "kernel", "port", "thread"}]
  BY <1>1, OpFacts, Zenon DEF IInv, LeakInv, LeakOf, TypeOK
<1>4. leak'[op[t]] # "kernel"
  BY <1>1, <1>3, Zenon
<1>5. Phase(t) = "lent" /\ Phase(t)' = "settled"
  BY <1>1, <1>2, <1>3, <1>4, Zenon DEF Phase
<1>6. Phases' = [Phases EXCEPT ![t] = "settled"] /\ Phases[t] = "lent"
  BY <1>2, <1>5, PhaseMoves, OnesPhase, Zenon
<1>. QED  BY <1>1, <1>6, Zenon DEF Abstract!Settle, Phases

\* So has an operation the kernel completes.
LEMMA KernelSettles ==
    ASSUME IInv, NEW w \in Wraps, KernelNext(w)
    PROVE  \E t \in Tasks : \E o \in Outcomes : Abstract!Settle(t, o)
<1>1. PICK e \in Errs \cup {0}, n \in Lens : KernelComplete(w, e, n)
  BY Zenon DEF KernelNext
<1>. DEFINE o == Result(e, n)
<1>2. PICK t \in Tasks : t = lender[w]
  BY <1>1, Zenon DEF IInv, KernelInv, KernelComplete
<1>3. /\ leak[w] = "kernel" /\ leak' = [leak EXCEPT ![w] = "port"]
      /\ outcome' = [outcome EXCEPT ![t] = o] /\ pc' = pc /\ op' = op /\ result' = result
  BY <1>1, <1>2, Zenon DEF KernelComplete, taskVars
<1>4. /\ op[t] = w /\ pc[t] \in (Awaiting \ {"ready", "dropped"}) \cup {"returned"}
      /\ leak \in [Wraps -> {"none", "task", "kernel", "port", "thread"}]
  BY <1>2, <1>3, Zenon DEF IInv, KernelInv, TypeOK
<1>5. pc[t] \notin {"idle", "giveback", "new"}
  BY <1>4, Zenon DEF Awaiting
<1>6. o \in Outcomes
  BY ResultTyped, Zenon
<1>. HIDE DEF o
<1>7. \A u \in Tasks : u # t => op[u] # w
  BY <1>4, <1>5, OpFacts, Zenon
<1>8. \A u \in Tasks : u # t => Phase(u)' = Phase(u)
  <2>1. \A x \in Wraps : x # w => leak'[x] = leak[x]
    BY <1>3, <1>4, Zenon
  <2>. QED  BY <1>3, <1>4, <1>7, <2>1, OthersKeepPhase
<1>9. leak'[w] = "port"
  BY <1>3, <1>4, Zenon
<1>10. Phase(t) = "lent" /\ Phase(t)' = "settled"
  BY <1>3, <1>4, <1>5, <1>9, Zenon DEF Phase
<1>11. Phases' = [Phases EXCEPT ![t] = "settled"] /\ Phases[t] = "lent"
  BY <1>4, <1>8, <1>10, PhaseMoves, OnesPhase, Zenon
<1>12. Abstract!Settle(t, o)
  BY <1>3, <1>11, Zenon DEF Abstract!Settle, Phases
<1>. QED  BY <1>4, <1>6, <1>12, Zenon

\* The await, or finish, evaluates to what the operation was settled with.
LEMMA ResultResolves ==
    ASSUME IInv, IInv', NEW t \in Tasks, FinishInline(t) \/ FinishRefused(t) \/ ReadResult(t)
    PROVE  Abstract!Resolve(t)
<1>1. /\ pc[t] \in {"returned", "ready"} /\ pc' = [pc EXCEPT ![t] = "giveback"] /\ op' = op
      /\ leak' = leak \/ leak' = [leak EXCEPT ![op[t]] = "none"]
      /\ outcome' = outcome /\ \E r : result' = [result EXCEPT ![t] = r]
  BY Zenon DEF FinishInline, FinishRefused, ReadResult, Reclaim, Goto
<1>2. pc[t] = "returned" => ec[t] # ERROR_IO_PENDING /\ (ec[t] = 0 => SkipOnSuccess)
  BY DEF FinishInline, FinishRefused, ReadResult, ERROR_IO_PENDING
<1>3. op[t] \in Wraps /\ leak[op[t]] # "kernel"
  <2>1. op[t] \in Wraps /\ op[t] # NoWrap /\ \A u \in Tasks : u # t => op[u] # op[t]
    BY <1>1, OpFacts, Zenon
  <2>2. CASE pc[t] = "returned"
    BY <1>2, <2>1, <2>2, Zenon DEF IInv, LeakInv, LeakOf
  <2>3. CASE pc[t] = "ready"
    BY <2>1, <2>3 DEF IInv, KernelInv
  <2>. QED  BY <1>1, <2>1, <2>2, <2>3, Zenon
<1>4. pc'[t] = "giveback" /\ \A u \in Tasks : u # t => Phase(u)' = Phase(u)
  <2>1. pc[t] # "idle"
    BY <1>1, Zenon
  <2>. QED  BY <1>1, <2>1, InOpStep, Zenon
<1>5. Phase(t) = "settled" /\ Phase(t)' = "resolved"
  BY <1>1, <1>3, <1>4, Zenon DEF Phase
<1>6. Phases' = [Phases EXCEPT ![t] = "resolved"] /\ Phases[t] = "settled"
  BY <1>4, <1>5, PhaseMoves, OnesPhase, Zenon
<1>7. result' = [result EXCEPT ![t] = outcome[t]]
  <2>1. result'[t] = outcome[t]
    BY <1>1, <1>4, Zenon DEF IInv, ResultInv, ResultOf
  <2>2. result \in [Tasks -> Outcomes \cup {NoResult}]
    BY Zenon DEF IInv, TypeOK
  <2>. QED  BY <1>1, <2>1, <2>2, Zenon
<1>. QED  BY <1>1, <1>6, <1>7, Zenon DEF Abstract!Resolve, Phases

\* The task leaves only when the kernel is done.
LEMMA LeaveLeaves ==
    ASSUME IInv, NEW t \in Tasks, GiveBack(t) \/ Release(t)
    PROVE  Abstract!Leave(t)
<1>1. /\ pc[t] \in {"giveback", "dropped"} /\ pc' = [pc EXCEPT ![t] = "idle"]
      /\ op' = [op EXCEPT ![t] = NoWrap] /\ leak' = leak
      /\ result' = [result EXCEPT ![t] = NoResult] /\ outcome' = [outcome EXCEPT ![t] = NoResult]
  BY Zenon DEF GiveBack, Release, LeaveOp, Goto
<1>2. pc'[t] = "idle" /\ \A u \in Tasks : u # t => Phase(u)' = Phase(u)
  <2>1. pc[t] # "idle"
    BY <1>1, Zenon
  <2>. QED  BY <1>1, <2>1, InOpStep, Zenon
<1>3. pc[t] = "dropped" => leak[op[t]] # "kernel"
  BY <1>1, OpFacts DEF IInv, KernelInv
<1>4. Phase(t) \in {"settled", "resolved"} /\ Phase(t)' = "idle"
  BY <1>1, <1>2, <1>3, Zenon DEF Phase
<1>5. Phases' = [Phases EXCEPT ![t] = "idle"] /\ Phases[t] \in {"settled", "resolved"}
  BY <1>2, <1>4, PhaseMoves, OnesPhase, Zenon
<1>. QED  BY <1>1, <1>5, Zenon DEF Abstract!Leave, Phases

\* Every other step of a task is invisible.
LEMMA WaitingStutters ==
    ASSUME IInv, NEW t \in Tasks,
           \/ CallPending(t) \/ FinishAwait(t) \/ PollRegister(t)
           \/ PollCheck(t) \/ PollRecheck(t) \/ Resume(t) \/ PollAgain(t)
           \/ DropFuture(t) \/ CancelIoEx(t) \/ BlockUntilComplete(t)
    PROVE  UNCHANGED Abstract!vars
<1>1. result' = result /\ outcome' = outcome /\ op' = op
  BY Zenon DEF CallPending, FinishAwait, PollRegister, PollCheck, PollRecheck, Resume, PollAgain,
     DropFuture, CancelIoEx, BlockUntilComplete
<1>2. pc[t] # "idle" /\ \E to \in Awaiting \cup {"returned"} : pc' = [pc EXCEPT ![t] = to]
  BY Zenon DEF CallPending, FinishAwait, PollRegister, PollCheck, PollRecheck, Resume, PollAgain,
     DropFuture, CancelIoEx, BlockUntilComplete, Goto, Awaiting
<1>3. /\ leak' = leak \/ leak' = [leak EXCEPT ![op[t]] = "kernel"]
      /\ pc[t] = "new" => leak' = [leak EXCEPT ![op[t]] = "kernel"]
      /\ pc[t] # "new" => leak' = leak /\ pc[t] # "giveback"
  BY Zenon DEF CallPending, FinishAwait, PollRegister, PollCheck, PollRecheck, Resume, PollAgain,
     DropFuture, CancelIoEx, BlockUntilComplete, wrapVars
<1>4. pc'[t] \in Awaiting \cup {"returned"} /\ \A u \in Tasks : u # t => Phase(u)' = Phase(u)
  BY <1>1, <1>2, <1>3, InOpStep, Zenon
<1>5. op[t] \in Wraps /\ op'[t] = op[t]
      /\ leak \in [Wraps -> {"none", "task", "kernel", "port", "thread"}]
  BY <1>1, <1>2, OpFacts, Zenon DEF IInv, TypeOK
<1>6. Phase(t)' = IF leak'[op[t]] = "kernel" THEN "lent" ELSE "settled"
  BY <1>4, <1>5, Zenon DEF Phase, Awaiting
<1>7. Phase(t)' = Phase(t)
  <2>1. CASE pc[t] = "new"
    <3>1. leak'[op[t]] = "kernel"
      BY <1>3, <1>5, <2>1, Zenon
    <3>. QED  BY <1>6, <2>1, <3>1, Zenon DEF Phase
  <2>2. CASE pc[t] # "new"
    BY <1>2, <1>3, <1>6, <2>2, Zenon DEF Phase
  <2>. QED  BY <2>1, <2>2, Zenon
<1>8. Phases' = Phases
  BY <1>4, <1>7, PhaseStays, Zenon
<1>. QED  BY <1>1, <1>8, Zenon DEF Abstract!vars, Phases

\* So is every step of a completion thread.
LEMMA ThreadStutters ==
    ASSUME IInv, NEW th \in Threads, ThreadNext(th)
    PROVE  UNCHANGED Abstract!vars
<1>1. pc' = pc /\ op' = op /\ result' = result /\ outcome' = outcome
  BY Zenon DEF ThreadNext, Dequeue, DequeueSet, FromRaw, StoreErr, StoreLen, StoreCompleted, Wake, DropRef,
     taskVars
<1>2. leak \in [Wraps -> {"none", "task", "kernel", "port", "thread"}]
  BY Zenon DEF IInv, TypeOK
<1>3. \A w \in Wraps : leak'[w] = "kernel" <=> leak[w] = "kernel"
  <2>1. ASSUME NEW S \in SUBSET Port, DequeueSet(th, S)
        PROVE  \A w \in Wraps : leak'[w] = "kernel" <=> leak[w] = "kernel"
    BY <1>2, <2>1, Zenon DEF DequeueSet, Port
  <2>2. CASE DropRef(th)
    <3>1. cur[th] \in Wraps /\ leak[cur[th]] = "thread" /\ leak' = [leak EXCEPT ![cur[th]] = "none"]
      BY <2>2, CurFacts, Zenon DEF DropRef
    <3>. QED  BY <1>2, <3>1, Zenon
  <2>3. CASE FromRaw(th) \/ StoreErr(th) \/ StoreLen(th) \/ StoreCompleted(th) \/ Wake(th)
    BY <2>3, Zenon DEF FromRaw, StoreErr, StoreLen, StoreCompleted, Wake, wrapVars
  <2>. QED  BY <2>1, <2>2, <2>3, Zenon DEF ThreadNext, Dequeue
<1>4. \A u \in Tasks : Phase(u)' = Phase(u)
  BY <1>1, <1>3, OpFacts, PhaseSame, Zenon
<1>5. Phases' = Phases
  BY <1>4, PhaseStays, Zenon
<1>. QED  BY <1>1, <1>5, Zenon DEF Abstract!vars, Phases

\* Every step is a step of AsyncIo or none of it.
LEMMA StepsRefine == IInv /\ IInv' /\ [Next]_vars => [Abstract!Next]_(Abstract!vars)
<1>. SUFFICES ASSUME IInv, IInv', [Next]_vars PROVE Abstract!Next \/ UNCHANGED Abstract!vars
  BY Zenon
<1>1. ASSUME NEW t \in Tasks, TaskNext(t) PROVE Abstract!Next \/ UNCHANGED Abstract!vars
  <2>1. CASE OpNew(t)
    BY <2>1, OpNewSubmits, Zenon DEF Abstract!Next
  <2>2. CASE (\E n \in Lens : CallInline(t, n)) \/ (\E e \in Errs : CallRefused(t, e))
    BY <2>2, CallSettles, Zenon DEF Abstract!Next
  <2>3. CASE FinishInline(t) \/ FinishRefused(t) \/ ReadResult(t)
    BY <2>3, ResultResolves, Zenon DEF Abstract!Next
  <2>4. CASE GiveBack(t) \/ Release(t)
    BY <2>4, LeaveLeaves, Zenon DEF Abstract!Next
  <2>5. CASE \/ CallPending(t) \/ FinishAwait(t) \/ PollRegister(t)
             \/ PollCheck(t) \/ PollRecheck(t) \/ Resume(t) \/ PollAgain(t)
             \/ DropFuture(t) \/ CancelIoEx(t) \/ BlockUntilComplete(t)
    BY <2>5, WaitingStutters, Zenon
  <2>. QED  BY <1>1, <2>1, <2>2, <2>3, <2>4, <2>5, Zenon DEF TaskNext, TaskRuns
<1>2. ASSUME NEW w \in Wraps, KernelNext(w) PROVE Abstract!Next
  BY <1>2, KernelSettles, Zenon DEF Abstract!Next
<1>3. ASSUME NEW th \in Threads, ThreadNext(th) PROVE UNCHANGED Abstract!vars
  BY <1>3, ThreadStutters, Zenon
<1>4. CASE UNCHANGED vars
  <2>1. pc' = pc /\ op' = op /\ leak' = leak /\ result' = result /\ outcome' = outcome
    BY <1>4, Zenon DEF vars, wrapVars, taskVars
  <2>2. Phases' = Phases
    BY <2>1, PhaseSame, PhaseStays, Zenon
  <2>. QED  BY <2>1, <2>2, Zenon DEF Abstract!vars, Phases
<1>. QED  BY <1>1, <1>2, <1>3, <1>4, Zenon DEF Next

\* For any number of tasks, threads and wraps, an awaited operation keeps the
\* promise of AsyncIo: one outcome, the buffer back only after it, and that
\* outcome or none as the answer.
THEOREM Refinement == Spec => ImplementsAsyncIo
<1>1. Init => Abstract!Init
  <2>. SUFFICES ASSUME Init PROVE Abstract!Init
    OBVIOUS
  <2>1. \A t \in Tasks : Phase(t) = "idle"
    BY Zenon DEF Init, Phase
  <2>. QED  BY <2>1, Zenon DEF Init, Abstract!Init
<1>. QED  BY <1>1, StepsRefine, Inductive, PTL DEF Spec, ImplementsAsyncIo, Abstract!Spec
=============================================================================
