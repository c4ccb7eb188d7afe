---------------------------- MODULE IoPortProofs ----------------------------
(***************************************************************************)
(* Theorems about the completion port, for any number of threads, any      *)
(* batch size and any set of packets.                                      *)
(*                                                                         *)
(* That nothing queued before `drop' is lost rests on the order of the     *)
(* queue: an early packet is ahead of every sentinel, so a thread that has *)
(* taken a sentinel has left no early packet on the port.                  *)
(***************************************************************************)
EXTENDS IoPort, SequenceTheorems, TLAPS

-----------------------------------------------------------------------------
(* What the queue's operations do to the set of its entries.               *)

\* Queueing adds one entry, behind all others.
LEMMA SetOfAppend ==
    ASSUME NEW S, NEW s \in Seq(S), NEW e \in S
    PROVE  Range(Append(s, e)) = Range(s) \cup {e}
BY AppendProperties DEF Range

\* Taking the head of a batch removes nothing but the head.
LEMMA SetOfTail ==
    ASSUME NEW S, NEW s \in Seq(S), s # <<>>
    PROVE  /\ Head(s) \in S /\ Tail(s) \in Seq(S)
           /\ Range(s) = {Head(s)} \cup Range(Tail(s))
<1>1. Head(s) \in S /\ Tail(s) \in Seq(S)
  BY HeadTailProperties
<1>2. Range(s) \subseteq {Head(s)} \cup Range(Tail(s))
    <2> SUFFICES ASSUME NEW i \in 1..Len(s), i # 1 PROVE s[i] \in Range(Tail(s))
        BY DEF Range
    <2>1. i - 1 \in DOMAIN Tail(s) /\ Tail(s)[i - 1] = s[i]
      BY HeadTailProperties
    <2> QED BY <2>1 DEF Range
<1>3. {Head(s)} \cup Range(Tail(s)) \subseteq Range(s)
  BY HeadTailProperties DEF Range
<1> QED BY <1>1, <1>2, <1>3

\* A function on 1..m and its two parts have the same values.
LEMMA SetOfParts ==
    ASSUME NEW m \in Nat, NEW n \in 1..m, NEW s, DOMAIN s = 1..m,
           NEW taken, DOMAIN taken = 1..n, \A i \in 1..n : taken[i] = s[i],
           NEW rest, DOMAIN rest = 1..(m - n), \A i \in 1..(m - n) : rest[i] = s[n + i]
    PROVE  Range(s) = Range(taken) \cup Range(rest)
<1>1. ASSUME NEW i \in 1..m PROVE s[i] \in Range(taken) \cup Range(rest)
  <2>1. CASE i <= n
    BY <2>1 DEF Range
  <2>2. CASE i > n
    <3>1. i - n \in 1..(m - n) /\ n + (i - n) = i
      BY <2>2
    <3>. QED  BY <3>1 DEF Range
  <2>. QED  BY <2>1, <2>2
<1>2. Range(taken) \cup Range(rest) \subseteq Range(s)
  BY DEF Range
<1>. QED  BY <1>1, <1>2 DEF Range

\* A dequeue splits the queue: every entry is in the batch or still queued, and
\* what is still queued was behind the batch.
LEMMA SetOfSplit ==
    ASSUME NEW S, NEW s \in Seq(S), NEW n \in 1..Len(s)
    PROVE  /\ SubSeq(s, 1, n) \in Seq(S) /\ SubSeq(s, n + 1, Len(s)) \in Seq(S)
           /\ Range(s) = Range(SubSeq(s, 1, n)) \cup Range(SubSeq(s, n + 1, Len(s)))
           /\ Len(SubSeq(s, n + 1, Len(s))) = Len(s) - n
           /\ \A i \in 1..Len(s) - n : SubSeq(s, n + 1, Len(s))[i] = s[n + i]
           /\ \A e \in Range(SubSeq(s, 1, n)) : \E i \in 1..n : e = s[i]
<1>. DEFINE taken == SubSeq(s, 1, n)
            rest == SubSeq(s, n + 1, Len(s))
<1>1. /\ taken \in Seq(S) /\ Len(taken) = n /\ DOMAIN taken = 1..n
      /\ \A i \in 1..n : taken[i] = s[i]
  BY SubSeqProperties, ElementOfSeq, LenProperties
<1>2. /\ rest \in Seq(S) /\ Len(rest) = Len(s) - n /\ DOMAIN rest = 1..Len(s) - n
      /\ \A i \in 1..Len(s) - n : rest[i] = s[n + i]
  BY SubSeqProperties, ElementOfSeq, LenProperties
<1>3. Len(s) \in Nat /\ DOMAIN s = 1..Len(s)
  BY LenProperties
<1>. HIDE DEF taken, rest
<1>4. Range(s) = Range(taken) \cup Range(rest)
  <2>1. /\ DOMAIN s = 1..Len(s) /\ DOMAIN taken = 1..n /\ DOMAIN rest = 1..(Len(s) - n)
        /\ \A i \in 1..n : taken[i] = s[i]
        /\ \A i \in 1..(Len(s) - n) : rest[i] = s[n + i]
        /\ Len(s) \in Nat /\ n \in 1..Len(s)
    BY <1>1, <1>2, <1>3
  <2>. HIDE <1>1
  <2>. QED  BY <2>1, SetOfParts
<1>5. \A e \in Range(taken) : \E i \in 1..n : e = s[i]
  BY <1>1 DEF Range
<1>. QED  BY <1>1, <1>2, <1>4, <1>5 DEF taken, rest

-----------------------------------------------------------------------------
(* The invariant.                                                          *)

\* The threads that exist are those that were spawned, and the joined ones have
\* exited.
OwnerInv ==
    /\ \A th \in Threads : tpc[th] = "unborn" <=> th > spawned
    /\ \A th \in 1..joined : tpc[th] = "exited"
    /\ owner = "closed" => joined = spawned

\* Before `drop' begins there are no sentinels.
QuietInv ==
    owner \notin {"post", "closed"} =>
        /\ early = {} /\ Sentinel \notin Range(port)
        /\ \A th \in Threads : ~stop[th] /\ Sentinel \notin Range(entries[th])

\* A thread leaves because of a sentinel, and only batches have entries.
ThreadInv ==
    \A th \in Threads :
        /\ tpc[th] = "exited" => stop[th]
        /\ tpc[th] # "batch" => entries[th] = <<>>

\* Packets are queued once a handle is associated, which takes all threads.
PacketInv ==
    /\ associated => spawned = NThreads
    /\ ~associated => unposted = Packets
    /\ early \cap unposted = {}

\* The order of the queue: early packets are ahead of the sentinels.
AheadInv ==
    \A i, j \in 1..Len(port) : port[i] = Sentinel /\ port[j] \in early => j < i

\* A thread that has taken a sentinel has left no early packet behind.
BehindInv ==
    \A th \in Threads :
        stop[th] \/ Sentinel \in Range(entries[th]) => early \cap Range(port) = {}

IInv ==
    /\ TypeOK /\ OwnerInv /\ QuietInv /\ ThreadInv /\ PacketInv
    /\ BatchFinished /\ AheadInv /\ BehindInv

LEMMA InitInv == Init => IInv
<1>. SUFFICES ASSUME Init PROVE IInv
  OBVIOUS
<1>1. Range(port) = {} /\ \A th \in Threads : Range(entries[th]) = {}
  <2>1. Range(<<>>) = {}
    BY DEF Range
  <2>. QED  BY <2>1 DEF Init
<1>2. TypeOK
  <2>1. <<>> \in Seq(Entries) /\ NThreads \in Nat
    BY ConstantsAssumption
  <2>2. associated \in BOOLEAN /\ stop \in [Threads -> BOOLEAN]
    BY Zenon DEF Init
  <2>3. /\ spawned \in 0..NThreads /\ tried \in 0..spawned /\ joined \in 0..spawned
    BY <2>1 DEF Init
  <2>. QED  BY <2>1, <2>2, <2>3 DEF Init, TypeOK
<1>3. OwnerInv /\ QuietInv /\ ThreadInv /\ PacketInv
  BY <1>1, ConstantsAssumption DEF Init, OwnerInv, QuietInv, ThreadInv, PacketInv, Threads
<1>4. BatchFinished /\ AheadInv /\ BehindInv
  BY <1>1 DEF Init, BatchFinished, AheadInv, BehindInv
<1>. QED  BY <1>2, <1>3, <1>4 DEF IInv

-----------------------------------------------------------------------------
(* The owner's steps.                                                      *)

\* Creating the port and closing it touch neither threads nor packets.
LEMMA CreateCloseStep ==
    ASSUME IInv, Create \/ Close
    PROVE  IInv'
<1>. USE DEF IInv, Create, Close, threadVars, packetVars
<1>1. TypeOK' /\ OwnerInv' /\ PacketInv'
  BY DEF TypeOK, OwnerInv, PacketInv
<1>2. QuietInv' /\ ThreadInv' /\ BatchFinished' /\ AheadInv' /\ BehindInv'
  BY DEF QuietInv, ThreadInv, BatchFinished, AheadInv, BehindInv
<1>. QED  BY <1>1, <1>2

LEMMA SpawnStep ==
    ASSUME IInv, Spawn
    PROVE  IInv'
<1>. USE DEF IInv, Spawn, packetVars
<1>1. spawned + 1 \in Threads /\ tpc[spawned + 1] = "unborn"
  BY ConstantsAssumption DEF TypeOK, OwnerInv, Threads
<1>2. TypeOK'
  BY <1>1, ConstantsAssumption DEF TypeOK
<1>3. OwnerInv'
  BY <1>1, ConstantsAssumption DEF TypeOK, OwnerInv, Threads
<1>4. ThreadInv' /\ BatchFinished'
  BY <1>1 DEF TypeOK, ThreadInv, BatchFinished
<1>5. QuietInv' /\ PacketInv' /\ AheadInv' /\ BehindInv'
  BY ConstantsAssumption DEF TypeOK, QuietInv, PacketInv, AheadInv, BehindInv
<1>. QED  BY <1>2, <1>3, <1>4, <1>5

\* The beginning of a drop: what has been queued is early, and there is no
\* sentinel yet for it to be behind.
LEMMA StartDropStep ==
    ASSUME IInv, owner \in {"spawn", "up"}, StartDrop,
           UNCHANGED <<spawned, tried, joined, associated, port, threadVars, unposted, delivered>>
    PROVE  IInv'
<1>. USE DEF IInv, StartDrop, threadVars
<1>1. TypeOK' /\ OwnerInv' /\ PacketInv' /\ QuietInv'
  BY DEF TypeOK, OwnerInv, PacketInv, QuietInv
<1>2. ThreadInv' /\ BatchFinished'
  BY DEF ThreadInv, BatchFinished
<1>3. AheadInv' /\ BehindInv'
  BY DEF TypeOK, QuietInv, AheadInv, BehindInv, Range
<1>. QED  BY <1>1, <1>2, <1>3

\* A handle is associated, by then all threads are there.
LEMMA AssociateStep ==
    ASSUME IInv, Associate
    PROVE  IInv'
<1>1. CASE StartDrop /\ UNCHANGED associated
  BY <1>1, StartDropStep DEF Associate
<1>2. CASE owner' = "up" /\ associated' = TRUE /\ UNCHANGED early
  <2>. USE <1>2 DEF IInv, Associate, threadVars
  <2>1. TypeOK' /\ OwnerInv' /\ PacketInv' /\ QuietInv'
    BY DEF TypeOK, OwnerInv, PacketInv, QuietInv
  <2>2. ThreadInv' /\ BatchFinished' /\ AheadInv' /\ BehindInv'
    BY DEF ThreadInv, BatchFinished, AheadInv, BehindInv
  <2>. QED  BY <2>1, <2>2
<1>. QED  BY <1>1, <1>2 DEF Associate

\* A sentinel goes behind everything that is queued.
LEMMA PostSentinelStep ==
    ASSUME IInv, PostSentinel
    PROVE  IInv'
<1>. USE DEF IInv, PostSentinel, threadVars, packetVars
<1>1. CASE port' = Append(port, Sentinel)
  <2>1. Range(port') = Range(port) \cup {Sentinel}
    BY <1>1, SetOfAppend DEF TypeOK, Entries
  <2>2. TypeOK' /\ OwnerInv' /\ PacketInv' /\ QuietInv'
    BY <1>1 DEF TypeOK, Entries, OwnerInv, PacketInv, QuietInv
  <2>3. ThreadInv' /\ BatchFinished'
    BY <2>1 DEF ThreadInv, BatchFinished
  <2>4. AheadInv'
    <3>1. \A i \in 1..Len(port) : port'[i] = port[i]
      BY <1>1, AppendProperties DEF TypeOK, Entries
    <3>2. Len(port') = Len(port) + 1 /\ Len(port) \in Nat /\ port'[Len(port) + 1] = Sentinel
      BY <1>1, AppendProperties DEF TypeOK, Entries
    <3>3. Sentinel \notin early'
      BY ConstantsAssumption DEF TypeOK
    <3>. QED  BY <3>1, <3>2, <3>3 DEF AheadInv
  <2>5. BehindInv'
    BY <2>1, ConstantsAssumption DEF TypeOK, BehindInv
  <2>. QED  BY <2>2, <2>3, <2>4, <2>5
<1>2. CASE UNCHANGED port
  <2>1. TypeOK' /\ OwnerInv' /\ PacketInv' /\ QuietInv'
    BY <1>2 DEF TypeOK, OwnerInv, PacketInv, QuietInv
  <2>2. ThreadInv' /\ BatchFinished' /\ AheadInv' /\ BehindInv'
    BY <1>2 DEF ThreadInv, BatchFinished, AheadInv, BehindInv
  <2>. QED  BY <2>1, <2>2
<1>. QED  BY <1>1, <1>2

LEMMA JoinStep ==
    ASSUME IInv, Join
    PROVE  IInv'
<1>. USE DEF IInv, Join, threadVars, packetVars
<1>1. TypeOK' /\ OwnerInv' /\ PacketInv' /\ QuietInv'
  BY ConstantsAssumption DEF TypeOK, OwnerInv, PacketInv, QuietInv
<1>2. ThreadInv' /\ BatchFinished' /\ AheadInv' /\ BehindInv'
  BY DEF ThreadInv, BatchFinished, AheadInv, BehindInv
<1>. QED  BY <1>1, <1>2

-----------------------------------------------------------------------------
(* The kernel and the threads.                                             *)

\* A packet that is queued during the drop is not an early one.
LEMMA KernelPostStep ==
    ASSUME IInv, NEW p \in Packets, KernelPost(p)
    PROVE  IInv'
<1>. USE DEF IInv, KernelPost, ownerVars, threadVars
<1>1. Range(port') = Range(port) \cup {p}
  <2>1. port \in Seq(Entries) /\ p \in Entries /\ port' = Append(port, p)
    BY DEF TypeOK, Entries
  <2>. QED  BY <2>1, SetOfAppend
<1>2. TypeOK' /\ OwnerInv' /\ PacketInv' /\ ThreadInv'
  BY DEF TypeOK, Entries, OwnerInv, PacketInv, ThreadInv
<1>3. QuietInv' /\ BatchFinished'
  BY <1>1, ConstantsAssumption DEF QuietInv, BatchFinished
<1>4. p \notin early' /\ p # Sentinel
  BY ConstantsAssumption DEF PacketInv
<1>5. AheadInv'
  <2>1. \A i \in 1..Len(port) : port'[i] = port[i]
    BY AppendProperties DEF TypeOK, Entries
  <2>2. Len(port') = Len(port) + 1 /\ Len(port) \in Nat /\ port'[Len(port) + 1] = p
    BY AppendProperties DEF TypeOK, Entries
  <2>. QED  BY <2>1, <2>2, <1>4 DEF AheadInv
<1>6. BehindInv'
  BY <1>1, <1>4 DEF BehindInv
<1>. QED  BY <1>2, <1>3, <1>5, <1>6

\* A dequeue takes the front of the queue: if a sentinel is taken, no early
\* packet is left.
LEMMA DequeueStep ==
    ASSUME IInv, NEW th \in Threads, Dequeue(th)
    PROVE  IInv'
<1>1. PICK n \in 1..Len(port) :
        /\ entries' = [entries EXCEPT ![th] = SubSeq(port, 1, n)]
        /\ port' = SubSeq(port, n + 1, Len(port))
  BY DEF Dequeue
<1>2. /\ TypeOK /\ port \in Seq(Entries) /\ stop' = stop
      /\ tpc[th] = "wait" /\ tpc' = [tpc EXCEPT ![th] = "batch"]
      /\ UNCHANGED ownerVars /\ UNCHANGED packetVars
  BY Zenon DEF IInv, TypeOK, Dequeue
<1>3. /\ entries'[th] \in Seq(Entries) /\ port' \in Seq(Entries)
      /\ Range(port) = Range(entries'[th]) \cup Range(port')
      /\ Len(port') = Len(port) - n
      /\ \A i \in 1..Len(port') : port'[i] = port[n + i]
      /\ \A e \in Range(entries'[th]) : \E i \in 1..n : e = port[i]
      /\ Len(port) \in Nat /\ Len(port') \in Nat
      /\ Range(port') = {port'[i] : i \in 1..Len(port')}
  <2>1. /\ port \in Seq(Entries) /\ n \in 1..Len(port)
        /\ entries'[th] = SubSeq(port, 1, n) /\ port' = SubSeq(port, n + 1, Len(port))
    BY <1>1, <1>2 DEF TypeOK
  <2>2. /\ entries'[th] \in Seq(Entries) /\ port' \in Seq(Entries)
        /\ Range(port) = Range(entries'[th]) \cup Range(port')
        /\ Len(port') = Len(port) - n
        /\ \A i \in 1..Len(port) - n : port'[i] = port[n + i]
        /\ \A e \in Range(entries'[th]) : \E i \in 1..n : e = port[i]
    BY <2>1, SetOfSplit
  <2>3. Len(port) \in Nat /\ Len(port') \in Nat /\ DOMAIN port' = 1..Len(port')
    BY <2>1, <2>2, LenProperties
  <2>. QED  BY <2>2, <2>3 DEF Range
<1>4. \A u \in Threads \ {th} : entries'[u] = entries[u] /\ tpc'[u] = tpc[u]
  BY <1>1, <1>2 DEF TypeOK
<1>5. tpc'[th] = "batch" /\ tpc[th] = "wait"
  BY <1>2 DEF TypeOK
<1>6. TypeOK'
  BY <1>1, <1>3, <1>2 DEF TypeOK, ownerVars, packetVars
<1>7. OwnerInv' /\ PacketInv'
  BY <1>4, <1>5, <1>2 DEF IInv, TypeOK, ownerVars, packetVars, OwnerInv, PacketInv, Threads
<1>8. QuietInv' /\ ThreadInv'
  BY <1>3, <1>4, <1>5, <1>2 DEF IInv, ownerVars, packetVars, QuietInv, ThreadInv
<1>9. BatchFinished'
  <2>. SUFFICES ASSUME NEW p \in Packets \ (unposted \cup delivered), p \notin Range(port')
                PROVE  \E u \in Threads : tpc'[u] = "batch" /\ p \in Range(entries'[u])
    BY <1>2 DEF BatchFinished, packetVars
  <2>1. CASE p \in Range(port)
    BY <2>1, <1>3, <1>5
  <2>2. CASE p \notin Range(port)
    BY <2>2, <1>4, <1>5 DEF IInv, BatchFinished
  <2>. QED  BY <2>1, <2>2
<1>10. AheadInv'
  <2>. SUFFICES ASSUME NEW i \in 1..Len(port'), NEW j \in 1..Len(port'),
                       port'[i] = Sentinel, port'[j] \in early
                PROVE  j < i
    BY <1>2 DEF AheadInv, packetVars
  <2>1. n + i \in 1..Len(port) /\ n + j \in 1..Len(port)
    BY <1>3
  <2>2. n + j < n + i
    BY <2>1, <1>3 DEF IInv, AheadInv
  <2>. QED  BY <2>2, <1>3
<1>11. BehindInv'
  <2>1. Sentinel \in Range(entries'[th]) => early \cap Range(port') = {}
    <3>. SUFFICES ASSUME NEW i \in 1..n, port[i] = Sentinel,
                         NEW j \in 1..Len(port'), port'[j] \in early
                  PROVE  FALSE
      BY <1>3
    <3>1. i \in 1..Len(port) /\ n + j \in 1..Len(port)
      BY <1>3
    <3>2. n + j < i
      BY <3>1, <1>3 DEF IInv, AheadInv
    <3>. QED  BY <3>2, <1>3
  <2>2. Range(port') \subseteq Range(port)
    BY <1>3
  <2>. QED  BY <2>1, <2>2, <1>4, <1>2 DEF IInv, BehindInv, packetVars
<1>. QED  BY <1>6, <1>7, <1>8, <1>9, <1>10, <1>11 DEF IInv

\* An entry is delivered or noted in `stop'.
LEMMA EntryStep ==
    ASSUME IInv, NEW th \in Threads, Entry(th)
    PROVE  IInv'
<1>. USE DEF IInv, Entry, ownerVars
<1>. DEFINE e == Head(entries[th])
<1>1. /\ e \in Entries /\ entries'[th] \in Seq(Entries)
      /\ Range(entries[th]) = {e} \cup Range(entries'[th])
  BY SetOfTail DEF TypeOK
<1>2. \A u \in Threads \ {th} : entries'[u] = entries[u] /\ stop'[u] = stop[u]
  BY DEF TypeOK
<1>3. /\ e = Sentinel => stop'[th] = TRUE /\ delivered' = delivered
      /\ e # Sentinel => stop'[th] = stop[th] /\ delivered' = delivered \cup {e}
  BY DEF TypeOK
<1>4. TypeOK'
  BY <1>1 DEF TypeOK, Entries
<1>. HIDE DEF e
<1>5. OwnerInv' /\ PacketInv' /\ AheadInv'
  BY DEF OwnerInv, PacketInv, AheadInv
<1>6. QuietInv'
  BY <1>1, <1>2, <1>3 DEF QuietInv, TypeOK
<1>7. ThreadInv'
  BY <1>2 DEF ThreadInv, TypeOK
<1>8. BatchFinished'
  <2>. SUFFICES ASSUME NEW p \in Packets \ (unposted \cup delivered'), p \notin Range(port)
                PROVE  \E u \in Threads : tpc[u] = "batch" /\ p \in Range(entries'[u])
    BY DEF BatchFinished
  <2>1. p # e /\ p \notin delivered
    BY <1>3, ConstantsAssumption
  <2>2. PICK u \in Threads : tpc[u] = "batch" /\ p \in Range(entries[u])
    BY <2>1 DEF BatchFinished
  <2>. QED  BY <2>1, <2>2, <1>1, <1>2
<1>9. BehindInv'
  BY <1>1, <1>2, <1>3 DEF BehindInv, TypeOK
<1>. QED  BY <1>4, <1>5, <1>6, <1>7, <1>8, <1>9

LEMMA EndBatchStep ==
    ASSUME IInv, NEW th \in Threads, EndBatch(th)
    PROVE  IInv'
<1>. USE DEF IInv, EndBatch, ownerVars, packetVars
<1>1. \A u \in Threads \ {th} : tpc'[u] = tpc[u]
  BY DEF TypeOK
<1>2. tpc'[th] = IF stop[th] THEN "exited" ELSE "wait"
  BY DEF TypeOK
<1>3. TypeOK' /\ QuietInv' /\ PacketInv' /\ AheadInv' /\ BehindInv'
  BY DEF TypeOK, QuietInv, PacketInv, AheadInv, BehindInv
<1>4. OwnerInv' /\ ThreadInv'
  BY <1>1, <1>2 DEF OwnerInv, ThreadInv, TypeOK, Threads
<1>5. BatchFinished'
  BY <1>1 DEF BatchFinished, Range
<1>. QED  BY <1>3, <1>4, <1>5

-----------------------------------------------------------------------------
(* The theorems.                                                           *)

LEMMA Inductive == IInv /\ [Next]_vars => IInv'
<1>. SUFFICES ASSUME IInv, [Next]_vars PROVE IInv'
  OBVIOUS
<1>1. CASE UNCHANGED vars
  BY <1>1, Zenon DEF vars, ownerVars, threadVars, packetVars, IInv, TypeOK, OwnerInv, QuietInv, ThreadInv,
     PacketInv, BatchFinished, AheadInv, BehindInv
<1>2. CASE OwnerRuns
  <2>1. SpawnFails => IInv'
    BY StartDropStep DEF SpawnFails
  <2>. QED  BY <1>2, <2>1, CreateCloseStep, SpawnStep, AssociateStep, PostSentinelStep, JoinStep
            DEF OwnerRuns
<1>3. CASE Drop
  BY <1>3, StartDropStep DEF Drop
<1>4. ASSUME NEW p \in Packets, KernelPost(p) PROVE IInv'
  BY <1>4, KernelPostStep
<1>5. ASSUME NEW th \in Threads, ThreadNext(th) PROVE IInv'
  BY <1>5, DequeueStep, EntryStep, EndBatchStep DEF ThreadNext
<1>. QED  BY <1>1, <1>2, <1>3, <1>4, <1>5 DEF Next

LEMMA PortInvariant == Spec => []IInv
BY InitInv, Inductive, PTL DEF Spec

\* The port outlives its threads: however many were spawned before `new' failed
\* or the port was dropped, and whichever sentinels could not be posted, the
\* handle is closed only after the last of them has left.
THEOREM PortIsClosedLast == Spec => []PortOutlivesThreads
<1>1. IInv => PortOutlivesThreads
  BY DEF IInv, TypeOK, OwnerInv, PortOutlivesThreads, Threads
<1>. QED  BY <1>1, PortInvariant, PTL

\* No completion is dropped on the floor: a packet that was queued and not
\* delivered is on the port or in the batch of a thread that will look at it.
THEOREM BatchesAreFinished == Spec => []BatchFinished
BY PortInvariant, PTL DEF IInv

\* Whatever was queued before the drop began has been delivered when the port
\* is closed.
THEOREM EarlyIsDelivered == Spec => []EarlyDelivered
<1>1. ASSUME IInv, owner = "closed", NEW p \in early PROVE p \in delivered
  <2>. USE <1>1 DEF IInv
  <2>1. associated /\ p \in Packets \ unposted
    BY DEF TypeOK, PacketInv
  <2>2. 1 \in Threads /\ tpc[1] = "exited"
    BY <2>1, ConstantsAssumption DEF TypeOK, OwnerInv, PacketInv, Threads
  <2>3. p \notin Range(port)
    BY <2>2 DEF ThreadInv, BehindInv
  <2>4. \A th \in Threads : tpc[th] # "batch"
    BY <2>1, ConstantsAssumption DEF TypeOK, OwnerInv, PacketInv, Threads
  <2>. QED  BY <2>1, <2>3, <2>4 DEF BatchFinished
<1>2. IInv => EarlyDelivered
  BY <1>1 DEF EarlyDelivered
<1>. QED  BY <1>2, PortInvariant, PTL
=============================================================================
