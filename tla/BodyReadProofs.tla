--------------------------- MODULE BodyReadProofs ---------------------------
(***************************************************************************)
(* Theorems about reading bodies, for any number of slots, bodies of any   *)
(* sizes and any pool.                                                     *)
(*                                                                         *)
(* IInv says where each slot is in its body and what its vector can hold,  *)
(* whatever the sizes are; and, when no length reaches 2^32 (Small), what  *)
(* has been read: the inline part and the bytes from some point on.  The   *)
(* room offered to the kernel is a u32, so room for exactly 4 GiB is       *)
(* offered as none, which ends the loop early: the theorems about what is  *)
(* returned need Small, the ones about bounds do not.                      *)
(***************************************************************************)
EXTENDS BodyRead, SequenceTheorems, TLAPS

-----------------------------------------------------------------------------
(* Numbers and sequences.                                                  *)

\* A length that is cut to its field is no larger, and the same if it fits.
LEMMA Cut ==
    ASSUME NEW m \in Nat \ {0}, NEW x \in Nat
    PROVE  x % m \in Nat /\ x % m <= x /\ (x < m => x % m = x)
OBVIOUS

LEMMA SeqOfFunction ==
    ASSUME NEW n \in Nat, NEW S, NEW f \in [1..n -> S]
    PROVE  f \in Seq(S) /\ Len(f) = n
BY SeqDef

Byte == Slots \X Nat \X Nat
Vector == [cap : Nat, data : Seq(Byte)]

\* What Bytes(s, from, to) is: as long as the range and in its order.
LEMMA BytesFacts ==
    ASSUME NEW s \in Slots, count[s] \in Nat, NEW from \in Nat \ {0}, NEW to \in Nat
    PROVE  /\ Bytes(s, from, to) \in Seq(Byte)
           /\ Len(Bytes(s, from, to)) = IF to < from THEN 0 ELSE to - from + 1
           /\ \A i \in 1..Len(Bytes(s, from, to)) : Bytes(s, from, to)[i] = <<s, count[s], from + i - 1>>
<1>. DEFINE n == IF to < from THEN 0 ELSE to - from + 1
            f == [i \in 1..n |-> <<s, count[s], from + i - 1>>]
<1>1. n \in Nat
  OBVIOUS
<1>2. f \in [1..n -> Byte]
  BY <1>1 DEF Byte
<1>3. f \in Seq(Byte) /\ Len(f) = n
  BY <1>1, <1>2, SeqOfFunction, Zenon
<1>4. Bytes(s, from, to) = f
  BY Zenon DEF Bytes
<1>. QED  BY <1>3, <1>4, Zenon

\* Adjacent ranges join.
LEMMA BytesConcat ==
    ASSUME NEW s \in Slots, count[s] \in Nat,
           NEW from \in Nat \ {0}, NEW mid \in Nat, NEW to \in Nat, from <= mid + 1, mid <= to
    PROVE  Bytes(s, from, mid) \o Bytes(s, mid + 1, to) = Bytes(s, from, to)
<1>. DEFINE a == Bytes(s, from, mid)
            b == Bytes(s, mid + 1, to)
            c == Bytes(s, from, to)
<1>1. /\ a \in Seq(Byte) /\ Len(a) = mid + 1 - from
      /\ \A i \in 1..Len(a) : a[i] = <<s, count[s], from + i - 1>>
  BY BytesFacts
<1>2. /\ b \in Seq(Byte) /\ Len(b) = to - mid
      /\ \A i \in 1..Len(b) : b[i] = <<s, count[s], mid + 1 + i - 1>>
  <2>1. mid + 1 \in Nat \ {0} /\ (IF to < mid + 1 THEN 0 ELSE to - (mid + 1) + 1) = to - mid
    OBVIOUS
  <2>. QED  BY <2>1, BytesFacts, Zenon
<1>3. /\ c \in Seq(Byte) /\ Len(c) = to + 1 - from
      /\ \A i \in 1..Len(c) : c[i] = <<s, count[s], from + i - 1>>
  <2>1. (IF to < from THEN 0 ELSE to - from + 1) = to + 1 - from
    OBVIOUS
  <2>. QED  BY <2>1, BytesFacts, Zenon
<1>. HIDE DEF a, b, c
<1>4. /\ a \o b \in Seq(Byte) /\ Len(a \o b) = Len(a) + Len(b)
      /\ \A i \in 1..Len(a) + Len(b) : (a \o b)[i] = IF i <= Len(a) THEN a[i] ELSE b[i - Len(a)]
  BY <1>1, <1>2, ConcatProperties, Zenon
<1>5. Len(a \o b) = Len(c)
  BY <1>1, <1>2, <1>3, <1>4
<1>6. ASSUME NEW i \in 1..Len(a \o b) PROVE (a \o b)[i] = c[i]
  <2>1. i \in 1..Len(c) /\ i \in 1..Len(a) + Len(b)
    BY <1>4, <1>5, Zenon
  <2>2. CASE i <= Len(a)
    <3>1. i \in 1..Len(a)
      BY <2>2, <1>1
    <3>. QED  BY <2>1, <2>2, <3>1, <1>1, <1>3, <1>4, Zenon
  <2>3. CASE ~(i <= Len(a))
    <3>1. i - Len(a) \in 1..Len(b) /\ mid + 1 + (i - Len(a)) - 1 = from + i - 1
      BY <2>1, <2>3, <1>1, <1>2
    <3>. QED  BY <2>1, <2>3, <3>1, <1>2, <1>3, <1>4, Zenon
  <2>. QED  BY <2>2, <2>3, Zenon
<1>7. a \o b = c
  BY <1>3, <1>4, <1>5, <1>6, SeqEqual, Zenon
<1>. QED  BY <1>7, Zenon DEF a, b, c

-----------------------------------------------------------------------------
(* Vectors and their pool.                                                 *)

Sound(v) == v \in Vector /\ Len(v.data) <= v.cap

LEMMA ReserveFacts ==
    ASSUME NEW v, Sound(v), NEW n \in Nat
    PROVE  /\ Sound(Reserve(v, n)) /\ Reserve(v, n).data = v.data
           /\ Reserve(v, n).cap >= Len(v.data) + n
           /\ Reserve(v, n).cap - Len(v.data) >= n
           /\ Reserve(v, n).cap \in {v.cap, 2 * v.cap, Len(v.data) + n}
           /\ Reserve(v, n).cap # v.cap => v.cap < Len(v.data) + n
BY DEF Sound, Vector, Reserve, Greatest

\* Room leaves the contents alone and always has room for a byte.
LEMMA RoomFacts ==
    ASSUME NEW v, Sound(v)
    PROVE  /\ Sound(Room(v)) /\ Room(v).data = v.data /\ Room(v).cap > Len(v.data)
           /\ v.cap - Len(v.data) < U32 /\ Len(v.data) < U32 => Room(v).cap - Len(v.data) < U32
<1>1. BODY_CHUNK_BYTES \in Nat /\ BODY_CHUNK_BYTES > 0 /\ BODY_CHUNK_BYTES < U32 /\ U32 \in Nat
  BY ConstantsAssumption
<1>2. CASE Len(v.data) = v.cap
  BY <1>1, <1>2, ReserveFacts DEF Room, Sound, Vector
<1>3. CASE Len(v.data) # v.cap
  BY <1>1, <1>3 DEF Room, Sound, Vector
<1>. QED  BY <1>2, <1>3, Zenon

\* The room offered is no more than there is, and all of it below 4 GiB.
LEMMA OfferedFacts ==
    ASSUME NEW v, Sound(v)
    PROVE  /\ Offered(v) \in Nat /\ Offered(v) <= v.cap - Len(v.data)
           /\ v.cap - Len(v.data) < U32 => Offered(v) = v.cap - Len(v.data)
<1>1. v.cap - Len(v.data) \in Nat
  BY DEF Sound, Vector
<1>. QED  BY <1>1, Cut, ConstantsAssumption, Zenon DEF Offered

\* Appending what was reserved for.
LEMMA AppendFacts ==
    ASSUME NEW v, Sound(v), NEW d \in Seq(Byte), Len(v.data) + Len(d) <= v.cap
    PROVE  /\ Sound([v EXCEPT !.data = @ \o d])
           /\ [v EXCEPT !.data = @ \o d].cap = v.cap
           /\ [v EXCEPT !.data = @ \o d].data = v.data \o d
           /\ Len(v.data \o d) = Len(v.data) + Len(d)
<1>1. v.data \o d \in Seq(Byte) /\ Len(v.data \o d) = Len(v.data) + Len(d)
  BY ConcatProperties DEF Sound, Vector
<1>. QED  BY <1>1, Zenon DEF Sound, Vector

\* take hands out an empty vector with at least half the room, never more than
\* it was asked for or had.
LEMMA TakenFacts ==
    ASSUME NEW v \in Vector, v.data = <<>>, NEW n \in Nat
    PROVE  /\ Sound(Taken(v, n)) /\ Taken(v, n).data = <<>>
           /\ 2 * Taken(v, n).cap >= n
           /\ Taken(v, n).cap <= v.cap \/ Taken(v, n).cap <= n
<1>1. Len(v.data) = 0
  OBVIOUS
<1>. QED  BY <1>1 DEF Sound, Vector, Taken, ReserveExact, Greatest

PoolOK ==
    /\ free \in Seq(Vector) /\ Len(free) <= PoolSlots
    /\ \A i \in 1..Len(free) : free[i].cap <= MaxRetained /\ free[i].data = <<>>

\* What comes back is cleared and below the limit.
LEMMA GiveBackFacts ==
    ASSUME PoolOK, NEW v \in Vector, free' = GiveBack(v)
    PROVE  PoolOK'
<1>1. CASE ~(v.cap <= MaxRetained /\ Len(free) < PoolSlots)
  BY <1>1, Zenon DEF GiveBack, PoolOK
<1>2. CASE v.cap <= MaxRetained /\ Len(free) < PoolSlots
  <2>. DEFINE e == [v EXCEPT !.data = <<>>]
  <2>1. e \in Vector /\ e.cap = v.cap /\ e.data = <<>>
    <3>1. <<>> \in Seq(Byte)
      OBVIOUS
    <3>. QED  BY <3>1, Zenon DEF Vector
  <2>. HIDE DEF e
  <2>2. free' = Append(free, e) /\ free \in Seq(Vector) /\ Len(free) \in Nat
    BY <1>2 DEF GiveBack, PoolOK, e
  <2>3. /\ free' \in Seq(Vector) /\ Len(free') = Len(free) + 1
        /\ \A i \in 1..Len(free) : free'[i] = free[i]
        /\ free'[Len(free) + 1] = e
    BY <2>1, <2>2, AppendProperties
  <2>4. Len(free') <= PoolSlots
    BY <1>2, <2>2, <2>3, ConstantsAssumption
  <2>5. ASSUME NEW i \in 1..Len(free') PROVE free'[i].cap <= MaxRetained /\ free'[i].data = <<>>
    <3>1. CASE i = Len(free) + 1
      BY <3>1, <2>1, <2>3, <1>2, Zenon
    <3>2. CASE i # Len(free) + 1
      <4>1. i \in 1..Len(free)
        BY <3>2, <2>2, <2>3
      <4>. QED  BY <4>1, <2>3, Zenon DEF PoolOK
    <3>. QED  BY <3>1, <3>2, Zenon
  <2>. QED  BY <2>3, <2>4, <2>5, Zenon DEF PoolOK
<1>. QED  BY <1>1, <1>2, Zenon

-----------------------------------------------------------------------------
(* The invariant.                                                          *)

Types ==
    /\ pc \in [Slots -> {"none", "handler", "inline", "taken", "loop", "owned"}]
    /\ count \in [Slots -> Nat] /\ body \in [Slots -> Bodies] /\ next \in [Slots -> Nat]
    /\ touched \in [Slots -> BOOLEAN] /\ wanted \in [Slots -> Nat]
    /\ vec \in [Slots -> Vector]

\* Where the slot is in its request's body, and the vector it reads into.
SlotOK(s) ==
    /\ Len(vec[s].data) <= vec[s].cap
    /\ pc[s] # "none" => next[s] \in body[s].inline + 1..body[s].total + 1
    /\ pc[s] = "taken" => vec[s].data = <<>> /\ 2 * vec[s].cap >= wanted[s]

\* No length reaches 2^32.
Small == MaxRetained < U32 /\ \A b \in Bodies : b.total < U32

\* The vector has the inline part and the bytes from k to where the kernel is.
ReadFrom(s, k) ==
    vec[s].data = Bytes(s, 1, body[s].inline) \o Bytes(s, k, next[s] - 1)

\* What has been read, and that the loop does not end before the body does.
WholeOK(s) ==
    /\ pc[s] = "taken" =>
           /\ vec[s].cap < U32 \/ vec[s].cap <= body[s].inline + BODY_CHUNK_BYTES
           /\ ~touched[s] => next[s] = body[s].inline + 1
    /\ pc[s] = "loop" => vec[s].cap - Len(vec[s].data) < U32
    /\ pc[s] \in {"loop", "owned"} =>
           \E k \in body[s].inline + 1..next[s] :
               ReadFrom(s, k) /\ (~touched[s] => k = body[s].inline + 1)
    /\ pc[s] = "owned" => next[s] = body[s].total + 1

IInv ==
    /\ Types /\ PoolOK
    /\ \A s \in Slots : SlotOK(s) /\ (Small => WholeOK(s))

LEMMA BodyFacts ==
    ASSUME NEW b \in Bodies
    PROVE  /\ b.inline \in Nat /\ b.total \in Nat /\ b.declared \in Nat /\ b.inline <= b.total
           /\ Small => b.total < U32 /\ b.inline < U32
           /\ Capacity(b) \in Nat
           /\ Capacity(b) < U32 \/ Capacity(b) <= b.inline + BODY_CHUNK_BYTES
<1>1. /\ b.inline \in Nat /\ b.total \in Nat /\ b.declared \in Nat /\ b.inline <= b.total
      /\ U32 \in Nat /\ MAX_BODY_RESERVE \in Nat /\ MAX_BODY_RESERVE < U32 /\ BODY_CHUNK_BYTES \in Nat
  BY ConstantsAssumption
<1>2. Small => b.total < U32 /\ b.inline < U32
  BY <1>1 DEF Small
<1>. QED  BY <1>1, <1>2 DEF Capacity, Least

\* A step of slot s that keeps its part keeps all of them.
Same(u) ==
    /\ pc'[u] = pc[u] /\ count'[u] = count[u] /\ body'[u] = body[u] /\ next'[u] = next[u]
    /\ touched'[u] = touched[u] /\ wanted'[u] = wanted[u] /\ vec'[u] = vec[u]

LEMMA SameSlot ==
    ASSUME NEW u \in Slots, Same(u), SlotOK(u), Small => WholeOK(u)
    PROVE  SlotOK(u)' /\ (Small => WholeOK(u)')
BY Zenon DEF Same, SlotOK, WholeOK, ReadFrom, Bytes

LEMMA OneSlot ==
    ASSUME IInv, NEW s \in Slots, \A u \in Slots \ {s} : Same(u),
           Types', PoolOK', SlotOK(s)', Small => WholeOK(s)'
    PROVE  IInv'
<1>1. ASSUME NEW u \in Slots PROVE SlotOK(u)' /\ (Small => WholeOK(u)')
  <2>1. CASE u = s
    BY <2>1, Zenon
  <2>2. CASE u # s
    BY <2>2, SameSlot, Zenon DEF IInv
  <2>. QED  BY <2>1, <2>2, Zenon
<1>. QED  BY <1>1, Zenon DEF IInv

LEMMA EmptyFacts == Empty \in Vector /\ Len(Empty.data) = 0 /\ Empty.cap = 0
<1>1. <<>> \in Seq(Byte)
  OBVIOUS
<1>. QED  BY <1>1, Zenon DEF Empty, Vector

LEMMA InitInv == Init => IInv
<1>. SUFFICES ASSUME Init PROVE IInv
  OBVIOUS
<1>1. (CHOOSE b \in Bodies : TRUE) \in Bodies
  BY ConstantsAssumption, Zenon
<1>2. Empty \in Vector /\ Len(Empty.data) = 0 /\ Empty.cap = 0
  BY EmptyFacts, Zenon
<1>3. touched \in [Slots -> BOOLEAN]
  BY Zenon DEF Init
<1>4. Types
  BY <1>1, <1>2, <1>3, Zenon DEF Init, Types
<1>5. PoolOK
  BY ConstantsAssumption DEF Init, PoolOK
<1>6. ASSUME NEW s \in Slots PROVE SlotOK(s) /\ WholeOK(s)
  BY <1>2 DEF Init, SlotOK, WholeOK
<1>. QED  BY <1>4, <1>5, <1>6, Zenon DEF IInv

-----------------------------------------------------------------------------
(* The steps.                                                              *)

\* The next request starts behind its inline part.
LEMMA ReceiveStep ==
    ASSUME IInv, NEW s \in Slots, NEW b \in Bodies, Receive(s, b)
    PROVE  IInv'
<1>1. Types /\ PoolOK /\ SlotOK(s)
  BY Zenon DEF IInv
<1>2. b.inline \in Nat /\ b.total \in Nat /\ b.inline <= b.total
  BY BodyFacts, Zenon
<1>3. touched' \in [Slots -> BOOLEAN]
  BY <1>1, Zenon DEF Types, Receive
<1>4. Types'
  BY <1>1, <1>2, <1>3 DEF Types, Receive, Goto
<1>5. \A u \in Slots \ {s} : Same(u)
  BY <1>1, Zenon DEF Types, Receive, Goto, Same
<1>6. PoolOK'
  BY <1>1, Zenon DEF PoolOK, Receive
<1>7. /\ pc'[s] = "handler" /\ body'[s] = b /\ next'[s] = b.inline + 1 /\ vec'[s] = vec[s]
  BY <1>1, Zenon DEF Types, Receive, Goto
<1>8. SlotOK(s)' /\ WholeOK(s)'
  BY <1>1, <1>2, <1>7 DEF SlotOK, WholeOK
<1>. QED  BY <1>4, <1>5, <1>6, <1>8, OneSlot, Zenon

\* A borrow of the receive buffer, and the end of the request.
LEMMA BorrowFinishStep ==
    ASSUME IInv, NEW s \in Slots, BodyInline(s) \/ Finish(s)
    PROVE  IInv'
<1>1. Types /\ PoolOK /\ SlotOK(s)
  BY Zenon DEF IInv
<1>2. /\ pc[s] = "handler" /\ \E to \in {"inline", "none"} : pc' = [pc EXCEPT ![s] = to]
      /\ UNCHANGED <<count, body, next, touched, wanted, vec, free>>
  BY Zenon DEF BodyInline, Finish, Goto
<1>3. Types' /\ PoolOK'
  BY <1>1, <1>2, Zenon DEF Types, PoolOK
<1>4. \A u \in Slots \ {s} : Same(u)
  BY <1>1, <1>2, Zenon DEF Types, Same
<1>5. SlotOK(s)' /\ WholeOK(s)'
  BY <1>1, <1>2, Zenon DEF Types, SlotOK, WholeOK
<1>. QED  BY <1>3, <1>4, <1>5, OneSlot, Zenon

\* A vector from the pool, or a new one, with at least half the room.
LEMMA TakeStep ==
    ASSUME IInv, NEW s \in Slots, BodyTake(s)
    PROVE  IInv'
<1>. DEFINE old == IF free = <<>> THEN Empty ELSE Head(free)
            n == Capacity(body[s])
<1>1. Types /\ PoolOK /\ SlotOK(s) /\ body[s] \in Bodies
  BY Zenon DEF IInv, Types
<1>2. /\ pc[s] = "handler" /\ pc' = [pc EXCEPT ![s] = "taken"]
      /\ wanted' = [wanted EXCEPT ![s] = n] /\ vec' = [vec EXCEPT ![s] = Taken(old, n)]
      /\ touched' = [touched EXCEPT ![s] = next[s] # body[s].inline + 1]
      /\ UNCHANGED <<count, body, next>>
  BY Zenon DEF BodyTake, Goto
<1>3. /\ old \in Vector /\ old.data = <<>>
      /\ old.cap = 0 \/ old.cap <= MaxRetained
  <2>1. CASE free = <<>>
    <3>1. <<>> \in Seq(Byte)
      OBVIOUS
    <3>. QED  BY <2>1, <3>1, Zenon DEF Empty, Vector
  <2>2. CASE free # <<>>
    <3>1. Head(free) = free[1] /\ 1 \in 1..Len(free) /\ free[1] \in Vector
      BY <2>2, <1>1 DEF PoolOK
    <3>. QED  BY <2>2, <3>1, <1>1, Zenon DEF PoolOK
  <2>. QED  BY <2>1, <2>2, Zenon
<1>4. PoolOK'
  <2>1. CASE free = <<>>
    BY <2>1, <1>1, Zenon DEF PoolOK, BodyTake
  <2>2. CASE free # <<>>
    <3>1. /\ free' = Tail(free) /\ free \in Seq(Vector) /\ Len(free) \in Nat
          /\ Tail(free) \in Seq(Vector) /\ Len(Tail(free)) = Len(free) - 1
          /\ \A i \in 1..Len(Tail(free)) : Tail(free)[i] = free[i + 1]
      BY <2>2, <1>1, HeadTailProperties DEF PoolOK, BodyTake
    <3>2. \A i \in 1..Len(Tail(free)) : i + 1 \in 1..Len(free)
      BY <3>1
    <3>3. Len(free') <= PoolSlots
      BY <3>1, <1>1, ConstantsAssumption DEF PoolOK
    <3>. QED  BY <3>1, <3>2, <3>3, <1>1, Zenon DEF PoolOK
  <2>. QED  BY <2>1, <2>2, Zenon
<1>5. /\ n \in Nat
      /\ n < U32 \/ n <= body[s].inline + BODY_CHUNK_BYTES
      /\ body[s].inline \in Nat /\ body[s].total \in Nat
  BY <1>1, BodyFacts, Zenon
<1>. HIDE DEF old, n
<1>6. /\ Sound(Taken(old, n)) /\ Taken(old, n).data = <<>> /\ 2 * Taken(old, n).cap >= n
      /\ Taken(old, n).cap <= old.cap \/ Taken(old, n).cap <= n
  BY <1>3, <1>5, TakenFacts, Zenon
<1>7. touched' \in [Slots -> BOOLEAN]
  BY <1>1, <1>2, Zenon DEF Types
<1>8. Types'
  BY <1>1, <1>2, <1>5, <1>6, <1>7, Zenon DEF Types, Sound
<1>9. \A u \in Slots \ {s} : Same(u)
  BY <1>1, <1>2, Zenon DEF Types, Same
<1>10. /\ pc'[s] = "taken" /\ wanted'[s] = n /\ vec'[s] = Taken(old, n)
       /\ next'[s] = next[s] /\ body'[s] = body[s]
  BY <1>1, <1>2, Zenon DEF Types
<1>11. ~touched'[s] => next[s] = body[s].inline + 1
  BY <1>1, <1>2, Zenon DEF Types
<1>12. SlotOK(s)'
  BY <1>1, <1>2, <1>6, <1>10, Zenon DEF SlotOK, Sound
<1>13. ASSUME Small PROVE WholeOK(s)'
  <2>1. MaxRetained < U32 /\ MaxRetained \in Nat /\ U32 \in Nat /\ U32 > 0 /\ BODY_CHUNK_BYTES \in Nat
    BY <1>13, ConstantsAssumption DEF Small
  <2>2. /\ Taken(old, n).cap \in Nat /\ old.cap \in Nat
    BY <1>3, <1>6, Zenon DEF Sound, Vector
  <2>3. vec'[s].cap < U32 \/ vec'[s].cap <= body[s].inline + BODY_CHUNK_BYTES
    BY <2>1, <2>2, <1>3, <1>5, <1>6, <1>10
  <2>. QED  BY <2>3, <1>10, <1>11, Zenon DEF WholeOK
<1>. QED  BY <1>4, <1>8, <1>9, <1>12, <1>13, OneSlot, Zenon

\* The inline part is copied in; the vector grows if it was handed out too small.
LEMMA ExtendStep ==
    ASSUME IInv, NEW s \in Slots, BodyExtend(s)
    PROVE  IInv'
<1>. DEFINE b == body[s]
            d == Bytes(s, 1, b.inline)
            v == Reserve(vec[s], Len(d))
            w == [v EXCEPT !.data = @ \o d]
<1>1. Types /\ PoolOK /\ SlotOK(s) /\ b \in Bodies /\ vec[s] \in Vector /\ count[s] \in Nat /\ next[s] \in Nat
  BY Zenon DEF IInv, Types
<1>2. /\ pc[s] = "taken" /\ pc' = [pc EXCEPT ![s] = "loop"] /\ vec' = [vec EXCEPT ![s] = w]
      /\ UNCHANGED <<count, body, next, touched, wanted, free>>
  BY Zenon DEF BodyExtend, Goto, Extend
<1>3. b.inline \in Nat /\ b.total \in Nat /\ (Small => b.inline < U32)
  BY <1>1, BodyFacts, Zenon
<1>4. d \in Seq(Byte) /\ Len(d) = b.inline
  <2>1. (IF b.inline < 1 THEN 0 ELSE b.inline - 1 + 1) = b.inline
    BY <1>3
  <2>2. 1 \in Nat \ {0}
    OBVIOUS
  <2>3. /\ Bytes(s, 1, b.inline) \in Seq(Byte)
        /\ Len(Bytes(s, 1, b.inline)) = IF b.inline < 1 THEN 0 ELSE b.inline - 1 + 1
    <3>1. count[s] \in Nat
      BY <1>1, Zenon
    <3>2. b.inline \in Nat
      BY <1>3, Zenon
    <3>. HIDE DEF b
    <3>. QED  BY <2>2, <3>1, <3>2, BytesFacts, Zenon
  <2>. QED  BY <2>1, <2>3
<1>5. Sound(vec[s]) /\ vec[s].data = <<>> /\ Len(vec[s].data) = 0 /\ vec[s].cap \in Nat
  BY <1>1, <1>2, Zenon DEF Sound, SlotOK, Vector
<1>. HIDE DEF d
<1>6. /\ Sound(v) /\ v.data = <<>> /\ v.cap >= b.inline
      /\ v.cap \in {vec[s].cap, 2 * vec[s].cap, b.inline}
      /\ v.cap # vec[s].cap => vec[s].cap < b.inline
  <2>1. Len(d) \in Nat
    BY <1>3, <1>4, Zenon
  <2>2. /\ Sound(v) /\ v.data = vec[s].data
        /\ v.cap >= Len(vec[s].data) + Len(d)
        /\ v.cap \in {vec[s].cap, 2 * vec[s].cap, Len(vec[s].data) + Len(d)}
        /\ v.cap # vec[s].cap => vec[s].cap < Len(vec[s].data) + Len(d)
    BY <2>1, <1>5, ReserveFacts, Zenon
  <2>3. Len(vec[s].data) + Len(d) = b.inline
    BY <1>3, <1>4, <1>5
  <2>. HIDE DEF v
  <2>. QED  BY <2>2, <2>3, <1>5, Zenon
<1>. HIDE DEF v
<1>7. Sound(w) /\ w.cap = v.cap /\ w.data = d /\ Len(w.data) = b.inline
  <2>1. Len(v.data) + Len(d) <= v.cap
    BY <1>3, <1>4, <1>6 DEF Sound, Vector
  <2>2. Sound(w) /\ w.cap = v.cap /\ w.data = v.data \o d
    BY <2>1, <1>4, <1>6, AppendFacts, Zenon
  <2>3. <<>> \o d = d
    BY <1>4, ConcatEmptySeq, Zenon
  <2>. QED  BY <2>2, <2>3, <1>4, <1>6, Zenon
<1>. HIDE DEF w
<1>8. Types' /\ PoolOK'
  BY <1>1, <1>2, <1>7, Zenon DEF Types, PoolOK, Sound
<1>9. \A u \in Slots \ {s} : Same(u)
  BY <1>1, <1>2, Zenon DEF Types, Same
<1>10. /\ pc'[s] = "loop" /\ vec'[s] = w /\ next'[s] = next[s] /\ body'[s] = b
       /\ count'[s] = count[s] /\ touched'[s] = touched[s]
  BY <1>1, <1>2, Zenon DEF Types
<1>11. next[s] \in b.inline + 1..b.total + 1
  BY <1>1, <1>2, Zenon DEF SlotOK
<1>12. SlotOK(s)'
  BY <1>7, <1>10, <1>11, Zenon DEF SlotOK, Sound
<1>13. ASSUME Small PROVE WholeOK(s)'
  <2>1. /\ vec[s].cap < U32 \/ vec[s].cap <= b.inline + BODY_CHUNK_BYTES
        /\ ~touched[s] => next[s] = b.inline + 1
    BY <1>13, <1>2, Zenon DEF IInv, WholeOK
  <2>2. b.inline < U32 /\ BODY_CHUNK_BYTES \in Nat /\ BODY_CHUNK_BYTES < U32 /\ U32 \in Nat
    BY <1>13, <1>3, ConstantsAssumption
  <2>3. w.cap - Len(w.data) < U32
    <3>1. w.cap = v.cap /\ Len(w.data) = b.inline
      BY <1>7, Zenon
    <3>2. /\ v.cap \in {vec[s].cap, 2 * vec[s].cap, b.inline}
          /\ v.cap # vec[s].cap => vec[s].cap < b.inline
      BY <1>6, Zenon
    <3>3. v.cap - b.inline < U32
      <4>. DEFINE c == vec[s].cap
                  i == b.inline
                  n == v.cap
      <4>1. /\ n \in {c, 2 * c, i} /\ (n # c => c < i) /\ c \in Nat /\ i \in Nat /\ i < U32
            /\ (c < U32 \/ c <= i + BODY_CHUNK_BYTES)
        BY <2>1, <2>2, <3>2, <1>3, <1>5, Zenon
      <4>. HIDE DEF c, i, n
      <4>2. n - i < U32
        BY <2>2, <4>1
      <4>. QED  BY <4>2, Zenon DEF i, n
    <3>. QED  BY <3>1, <3>3, Zenon
  <2>4. ReadFrom(s, next[s])'
    <3>1. Bytes(s, next[s], next[s] - 1) = <<>>
      <4>1. next[s] \in Nat \ {0} /\ next[s] - 1 \in Nat /\ next[s] - 1 < next[s]
        BY <1>3, <1>11
      <4>. QED  BY <4>1, <1>1, BytesFacts, EmptySeq, Zenon
    <3>2. d \o <<>> = d
      BY <1>4, ConcatEmptySeq, Zenon
    <3>3. w.data = Bytes(s, 1, b.inline) \o Bytes(s, next[s], next[s] - 1)
      BY <3>1, <3>2, <1>7, Zenon DEF d
    <3>. QED  BY <3>3, <1>2, <1>10, Zenon DEF ReadFrom, Bytes
  <2>. HIDE DEF b
  <2>5. next[s] \in b.inline + 1..next[s]
    BY <1>3, <1>11
  <2>. QED  BY <2>1, <2>3, <2>4, <2>5, <1>10, Zenon DEF WholeOK
<1>. QED  BY <1>8, <1>9, <1>12, <1>13, OneSlot, Zenon

\* What a turn of the loop finds: room for at least a byte, of which the kernel
\* is told no more than there is; and, below 4 GiB, of all of it.
LEMMA TurnFacts ==
    ASSUME IInv, NEW s \in Slots, pc[s] = "loop"
    PROVE  /\ Sound(Room(vec[s])) /\ Room(vec[s]).data = vec[s].data
           /\ Left(s) \in Nat /\ Left(s) = body[s].total + 1 - next[s]
           /\ Offered(Room(vec[s])) \in Nat
           /\ Offered(Room(vec[s])) <= Room(vec[s]).cap - Len(vec[s].data)
           /\ Small => /\ Offered(Room(vec[s])) > 0
                       /\ Room(vec[s]).cap - Len(vec[s].data) < U32
<1>1. /\ Types /\ SlotOK(s) /\ body[s] \in Bodies /\ vec[s] \in Vector /\ count[s] \in Nat
      /\ next[s] \in body[s].inline + 1..body[s].total + 1
  BY Zenon DEF IInv, Types, SlotOK
<1>2. body[s].inline \in Nat /\ body[s].total \in Nat
  BY <1>1, BodyFacts, Zenon
<1>3. Left(s) \in Nat /\ Left(s) = body[s].total + 1 - next[s]
  BY <1>1, <1>2 DEF Left
<1>4. Sound(vec[s]) /\ Len(vec[s].data) \in Nat
  BY <1>1 DEF Sound, SlotOK, Vector
<1>5. /\ Sound(Room(vec[s])) /\ Room(vec[s]).data = vec[s].data /\ Room(vec[s]).cap > Len(vec[s].data)
      /\ vec[s].cap - Len(vec[s].data) < U32 /\ Len(vec[s].data) < U32
             => Room(vec[s]).cap - Len(vec[s].data) < U32
  BY <1>4, RoomFacts, Zenon
<1>6. /\ Offered(Room(vec[s])) \in Nat
      /\ Offered(Room(vec[s])) <= Room(vec[s]).cap - Len(vec[s].data)
      /\ Room(vec[s]).cap - Len(vec[s].data) < U32
             => Offered(Room(vec[s])) = Room(vec[s]).cap - Len(vec[s].data)
  BY <1>5, OfferedFacts, Zenon
<1>7. ASSUME Small PROVE Room(vec[s]).cap - Len(vec[s].data) < U32
  <2>1. vec[s].cap - Len(vec[s].data) < U32
    BY <1>7, Zenon DEF IInv, WholeOK
  <2>2. PICK k \in body[s].inline + 1..next[s] : ReadFrom(s, k)
    BY <1>7, Zenon DEF IInv, WholeOK
  <2>3. Len(vec[s].data) = body[s].inline + next[s] - k
    <3>1. /\ k \in Nat \ {0} /\ next[s] - 1 \in Nat
          /\ (IF next[s] - 1 < k THEN 0 ELSE next[s] - 1 - k + 1) = next[s] - k
          /\ (IF body[s].inline < 1 THEN 0 ELSE body[s].inline - 1 + 1) = body[s].inline
      BY <1>1, <1>2, <2>2
    <3>2. /\ Bytes(s, 1, body[s].inline) \in Seq(Byte) /\ Len(Bytes(s, 1, body[s].inline)) = body[s].inline
          /\ Bytes(s, k, next[s] - 1) \in Seq(Byte) /\ Len(Bytes(s, k, next[s] - 1)) = next[s] - k
      <4>1. 1 \in Nat \ {0}
        OBVIOUS
      <4>2. Bytes(s, 1, body[s].inline) \in Seq(Byte) /\ Len(Bytes(s, 1, body[s].inline)) = body[s].inline
        BY <4>1, <3>1, <1>1, <1>2, BytesFacts, Zenon
      <4>3. Bytes(s, k, next[s] - 1) \in Seq(Byte) /\ Len(Bytes(s, k, next[s] - 1)) = next[s] - k
        BY <3>1, <1>1, BytesFacts, Zenon
      <4>. QED  BY <4>2, <4>3, Zenon
    <3>3. Len(vec[s].data) = Len(Bytes(s, 1, body[s].inline)) + Len(Bytes(s, k, next[s] - 1))
      BY <3>2, <2>2, ConcatProperties DEF ReadFrom
    <3>. QED  BY <3>2, <3>3, <1>1, <1>2, Zenon
  <2>4. body[s].total < U32 /\ U32 \in Nat
    BY <1>7, <1>1, BodyFacts, ConstantsAssumption, Zenon
  <2>5. Len(vec[s].data) < U32
    <3>1. /\ body[s].inline \in Nat /\ body[s].total \in Nat
          /\ next[s] \in Nat /\ next[s] <= body[s].total + 1
      BY <1>1, <1>2
    <3>2. k \in Nat /\ k >= body[s].inline + 1
      BY <2>2, <3>1
    <3>3. body[s].inline + next[s] - k < U32
      BY <2>4, <3>1, <3>2
    <3>. QED  BY <2>3, <3>3, Zenon
  <2>. QED  BY <2>1, <2>5, <1>5, Zenon
<1>. QED  BY <1>3, <1>4, <1>5, <1>6, <1>7 DEF Sound, Vector

\* A read fills the room it was told of, or reads to the end.
LEMMA ReadSomeStep ==
    ASSUME IInv, NEW s \in Slots, ReadSome(s)
    PROVE  IInv'
<1>. DEFINE v == Room(vec[s])
            n == Least(Offered(v), Left(s))
            last == next[s] + n - 1
            d == Bytes(s, next[s], last)
            w == [v EXCEPT !.data = @ \o d]
<1>1. /\ Types /\ PoolOK /\ SlotOK(s) /\ body[s] \in Bodies /\ vec[s] \in Vector
      /\ count[s] \in Nat /\ next[s] \in Nat
  BY Zenon DEF IInv, Types
<1>2. /\ pc[s] = "loop" /\ pc' = [pc EXCEPT ![s] = "loop"] /\ n > 0
      /\ vec' = [vec EXCEPT ![s] = w] /\ next' = [next EXCEPT ![s] = @ + n]
      /\ UNCHANGED <<count, body, touched, wanted, free>>
  BY Zenon DEF ReadSome, Goto
<1>3. /\ Sound(v) /\ v.data = vec[s].data
      /\ Left(s) \in Nat /\ Left(s) = body[s].total + 1 - next[s]
      /\ Offered(v) \in Nat /\ Offered(v) <= v.cap - Len(vec[s].data)
      /\ Small => v.cap - Len(vec[s].data) < U32
  BY <1>2, TurnFacts, Zenon
<1>4. /\ body[s].inline \in Nat /\ body[s].total \in Nat
      /\ next[s] \in body[s].inline + 1..body[s].total + 1
  BY <1>1, <1>2, BodyFacts, Zenon DEF SlotOK
<1>. HIDE DEF v
<1>5. n \in Nat /\ n > 0 /\ n <= Left(s) /\ n <= v.cap - Len(vec[s].data)
  BY <1>2, <1>3 DEF Least, Sound, Vector
<1>. HIDE DEF n
<1>6. /\ next[s] \in Nat \ {0} /\ last \in Nat /\ last = next[s] + n - 1 /\ last >= next[s]
      /\ (IF last < next[s] THEN 0 ELSE last - next[s] + 1) = n
      /\ next[s] + n \in body[s].inline + 1..body[s].total + 1
  <2>1. next[s] \in Nat \ {0} /\ next[s] + n \in body[s].inline + 1..body[s].total + 1
    <3>1. n \in Nat /\ n <= body[s].total + 1 - next[s]
      BY <1>3, <1>5, Zenon
    <3>. QED  BY <3>1, <1>4
  <2>2. last \in Nat /\ last = next[s] + n - 1 /\ last >= next[s]
    BY <2>1, <1>5
  <2>3. ~(last < next[s]) /\ last - next[s] + 1 = n
    BY <2>1, <2>2, <1>5
  <2>. HIDE DEF last
  <2>. QED  BY <2>1, <2>2, <2>3, Zenon
<1>. HIDE DEF last
<1>7. d \in Seq(Byte) /\ Len(d) = n
  BY <1>6, <1>1, BytesFacts, Zenon
<1>. HIDE DEF d
<1>8. Sound(w) /\ w.cap = v.cap /\ w.data = vec[s].data \o d /\ Len(w.data) = Len(vec[s].data) + n
  <2>1. Len(v.data) + Len(d) <= v.cap
    BY <1>1, <1>3, <1>5, <1>7 DEF Sound, Vector
  <2>2. /\ Sound(w) /\ w.cap = v.cap /\ w.data = v.data \o d
        /\ Len(v.data \o d) = Len(v.data) + Len(d)
    BY <2>1, <1>3, <1>7, AppendFacts, ZenonT(30)
  <2>. HIDE DEF w
  <2>. QED  BY <2>2, <1>3, <1>7, Zenon
<1>. HIDE DEF w
<1>9. Types' /\ PoolOK'
  <2>1. next' \in [Slots -> Nat] /\ vec' \in [Slots -> Vector] /\ touched' \in [Slots -> BOOLEAN]
    BY <1>1, <1>2, <1>5, <1>8 DEF Types, Sound
  <2>. QED  BY <2>1, <1>1, <1>2, Zenon DEF Types, PoolOK
<1>10. \A u \in Slots \ {s} : Same(u)
  BY <1>1, <1>2, Zenon DEF Types, Same
<1>11. /\ pc'[s] = "loop" /\ vec'[s] = w /\ next'[s] = next[s] + n /\ body'[s] = body[s]
       /\ count'[s] = count[s] /\ touched'[s] = touched[s]
  BY <1>1, <1>2, Zenon DEF Types
<1>12. SlotOK(s)'
  BY <1>6, <1>8, <1>11, Zenon DEF SlotOK, Sound
<1>13. ASSUME Small PROVE WholeOK(s)'
  <2>1. PICK k \in body[s].inline + 1..next[s] :
            ReadFrom(s, k) /\ (~touched[s] => k = body[s].inline + 1)
    BY <1>13, <1>2, Zenon DEF IInv, WholeOK
  <2>. DEFINE mid == next[s] - 1
              inl == Bytes(s, 1, body[s].inline)
              old == Bytes(s, k, mid)
  <2>2. /\ k \in Nat \ {0} /\ mid \in Nat /\ k <= mid + 1 /\ mid <= last /\ mid + 1 = next[s]
        /\ next'[s] - 1 = last
    <3>1. k \in Nat \ {0} /\ k <= next[s] /\ next[s] \in Nat \ {0}
      BY <2>1, <1>6, <1>4
    <3>2. mid \in Nat /\ k <= mid + 1 /\ mid + 1 = next[s]
      BY <3>1
    <3>3. mid <= last
      BY <3>2, <1>6, <1>5
    <3>4. next'[s] = next[s] + n
      BY <1>11, Zenon
    <3>5. next'[s] - 1 = last
      BY <3>4, <1>6
    <3>. HIDE DEF mid
    <3>. QED  BY <3>1, <3>2, <3>3, <3>5, Zenon
  <2>3. vec[s].data = inl \o old
    BY <2>1, Zenon DEF ReadFrom
  <2>. HIDE DEF mid
  <2>4. old \o d = Bytes(s, k, last)
    <3>1. d = Bytes(s, mid + 1, last)
      BY <2>2, Zenon DEF d
    <3>. QED  BY <3>1, <2>2, <1>6, <1>1, BytesConcat
  <2>5. inl \in Seq(Byte) /\ old \in Seq(Byte)
    <3>1. 1 \in Nat \ {0}
      OBVIOUS
    <3>2. inl \in Seq(Byte)
      BY <3>1, <1>1, <1>4, BytesFacts, Zenon
    <3>3. old \in Seq(Byte)
      BY <2>2, <1>1, BytesFacts, Zenon
    <3>. QED  BY <3>2, <3>3, Zenon
  <2>6. w.data = inl \o Bytes(s, k, last)
    <3>. HIDE DEF inl, old
    <3>1. (inl \o old) \o d = inl \o (old \o d)
      BY <2>5, <1>7, ConcatAssociative
    <3>. QED  BY <3>1, <2>3, <2>4, <1>8, Zenon
  <2>7. ReadFrom(s, k)'
    BY <2>2, <2>6, <1>11, Zenon DEF ReadFrom, Bytes
  <2>8. w.cap - Len(w.data) < U32
    <3>1. /\ v.cap - Len(vec[s].data) < U32 /\ v.cap \in Nat /\ Len(vec[s].data) \in Nat /\ U32 \in Nat
      <4>1. v.cap - Len(vec[s].data) < U32
        BY <1>13, <1>1, <1>3, Zenon
      <4>2. v \in Vector /\ vec[s] \in Vector
        BY <1>1, <1>3, Zenon DEF Sound
      <4>3. v.cap \in Nat /\ Len(vec[s].data) \in Nat
        BY <4>2 DEF Vector
      <4>4. U32 \in Nat
        BY ConstantsAssumption, Zenon
      <4>. QED  BY <4>1, <4>3, <4>4, Zenon
    <3>. QED  BY <3>1, <1>5, <1>8
  <2>9. k \in body'[s].inline + 1..next'[s]
    BY <2>1, <1>4, <1>5, <1>11
  <2>. QED  BY <2>1, <2>8, <2>9, <2>7, <1>11, Zenon DEF WholeOK
<1>. QED  BY <1>9, <1>10, <1>12, <1>13, OneSlot, Zenon

\* Below 4 GiB the loop ends where the body does.
LEMMA ReadEndStep ==
    ASSUME IInv, NEW s \in Slots, ReadEnd(s)
    PROVE  IInv'
<1>. DEFINE v == Room(vec[s])
<1>1. Types /\ PoolOK /\ SlotOK(s) /\ body[s] \in Bodies
  BY Zenon DEF IInv, Types
<1>2. /\ pc[s] = "loop" /\ pc' = [pc EXCEPT ![s] = "owned"] /\ (Left(s) = 0 \/ Offered(v) = 0)
      /\ vec' = [vec EXCEPT ![s] = v]
      /\ UNCHANGED <<count, body, next, touched, wanted, free>>
  BY Zenon DEF ReadEnd, Goto
<1>3. /\ Sound(v) /\ v.data = vec[s].data
      /\ Left(s) \in Nat /\ Left(s) = body[s].total + 1 - next[s]
      /\ Small => Offered(v) > 0
  BY <1>2, TurnFacts, Zenon
<1>4. body[s].total \in Nat /\ next[s] \in body[s].inline + 1..body[s].total + 1 /\ next[s] \in Nat
  BY <1>1, <1>2, BodyFacts, Zenon DEF SlotOK, Types
<1>5. Small => next[s] = body[s].total + 1
  BY <1>2, <1>3, <1>4
<1>. HIDE DEF v
<1>6. Types' /\ PoolOK'
  BY <1>1, <1>2, <1>3, Zenon DEF Types, PoolOK, Sound
<1>7. \A u \in Slots \ {s} : Same(u)
  BY <1>1, <1>2, Zenon DEF Types, Same
<1>8. /\ pc'[s] = "owned" /\ vec'[s] = v /\ next'[s] = next[s] /\ body'[s] = body[s]
      /\ count'[s] = count[s] /\ touched'[s] = touched[s]
  BY <1>1, <1>2, Zenon DEF Types
<1>9. SlotOK(s)'
  BY <1>3, <1>4, <1>8, Zenon DEF SlotOK, Sound
<1>10. ASSUME Small PROVE WholeOK(s)'
  <2>1. PICK k \in body[s].inline + 1..next[s] :
            ReadFrom(s, k) /\ (~touched[s] => k = body[s].inline + 1)
    BY <1>10, <1>2, Zenon DEF IInv, WholeOK
  <2>2. ReadFrom(s, k)'
    BY <2>1, <1>2, <1>3, <1>8, Zenon DEF ReadFrom, Bytes
  <2>. QED  BY <2>1, <2>2, <1>5, <1>8, <1>10, Zenon DEF WholeOK
<1>. QED  BY <1>6, <1>7, <1>9, <1>10, OneSlot, Zenon

\* The vector goes back, and what the kernel handed over with it is lost.
LEMMA ReadLostStep ==
    ASSUME IInv, NEW s \in Slots, ReadLost(s)
    PROVE  IInv'
<1>. DEFINE v == Room(vec[s])
<1>1. Types /\ PoolOK /\ SlotOK(s) /\ body[s] \in Bodies
  BY Zenon DEF IInv, Types
<1>2. PICK n \in {0, Least(Offered(v), Left(s))} :
      /\ pc[s] = "loop" /\ pc' = [pc EXCEPT ![s] = "handler"]
      /\ next' = [next EXCEPT ![s] = @ + n] /\ free' = GiveBack(v)
      /\ vec' = [vec EXCEPT ![s] = Empty] /\ wanted' = [wanted EXCEPT ![s] = 0]
      /\ UNCHANGED <<count, body, touched>>
  BY Zenon DEF ReadLost, Goto
<1>3. /\ Sound(v) /\ Left(s) \in Nat /\ Left(s) = body[s].total + 1 - next[s] /\ Offered(v) \in Nat
  BY <1>2, TurnFacts, Zenon
<1>4. /\ body[s].total \in Nat /\ body[s].inline \in Nat
      /\ next[s] \in body[s].inline + 1..body[s].total + 1 /\ next[s] \in Nat
  BY <1>1, <1>2, BodyFacts, Zenon DEF SlotOK, Types
<1>5. n \in Nat /\ n <= Left(s)
  BY <1>3 DEF Least
<1>. HIDE DEF v
<1>6. PoolOK'
  BY <1>1, <1>2, <1>3, GiveBackFacts, Zenon DEF Sound
<1>7. Empty \in Vector /\ Len(Empty.data) = 0 /\ Empty.cap = 0
  BY EmptyFacts, Zenon
<1>8. Types'
  <2>1. next' \in [Slots -> Nat] /\ vec' \in [Slots -> Vector] /\ wanted' \in [Slots -> Nat]
    BY <1>1, <1>2, <1>5, <1>7 DEF Types
  <2>. QED  BY <2>1, <1>1, <1>2, Zenon DEF Types
<1>9. \A u \in Slots \ {s} : Same(u)
  BY <1>1, <1>2, Zenon DEF Types, Same
<1>10. pc'[s] = "handler" /\ vec'[s] = Empty /\ next'[s] = next[s] + n /\ body'[s] = body[s]
  BY <1>1, <1>2, Zenon DEF Types
<1>11. SlotOK(s)' /\ WholeOK(s)'
  <2>1. next[s] + n \in body[s].inline + 1..body[s].total + 1
    BY <1>3, <1>4, <1>5
  <2>. QED  BY <2>1, <1>7, <1>10 DEF SlotOK, WholeOK
<1>. QED  BY <1>6, <1>8, <1>9, <1>11, OneSlot, Zenon

\* The body is dropped; an owned one gives its vector back.
LEMMA DropBodyStep ==
    ASSUME IInv, NEW s \in Slots, DropBody(s)
    PROVE  IInv'
<1>1. Types /\ PoolOK /\ SlotOK(s) /\ vec[s] \in Vector
  BY Zenon DEF IInv, Types
<1>2. /\ pc[s] \in {"inline", "owned"} /\ pc' = [pc EXCEPT ![s] = "handler"]
      /\ free' = GiveBack(vec[s]) \/ free' = free
      /\ vec' = [vec EXCEPT ![s] = Empty] /\ wanted' = [wanted EXCEPT ![s] = 0]
      /\ UNCHANGED <<count, body, next, touched>>
  BY Zenon DEF DropBody, Goto
<1>3. PoolOK'
  <2>1. CASE free' = GiveBack(vec[s])
    BY <2>1, <1>1, GiveBackFacts, Zenon
  <2>2. CASE free' = free
    BY <2>2, <1>1, Zenon DEF PoolOK
  <2>. QED  BY <2>1, <2>2, <1>2, Zenon
<1>4. Empty \in Vector /\ Len(Empty.data) = 0 /\ Empty.cap = 0
  BY EmptyFacts, Zenon
<1>5. Types'
  BY <1>1, <1>2, <1>4, Zenon DEF Types
<1>6. \A u \in Slots \ {s} : Same(u)
  BY <1>1, <1>2, Zenon DEF Types, Same
<1>7. pc'[s] = "handler" /\ vec'[s] = Empty /\ next'[s] = next[s] /\ body'[s] = body[s]
  BY <1>1, <1>2, Zenon DEF Types
<1>8. SlotOK(s)' /\ WholeOK(s)'
  BY <1>1, <1>2, <1>4, <1>7 DEF SlotOK, WholeOK
<1>. QED  BY <1>3, <1>5, <1>6, <1>8, OneSlot, Zenon

\* read_body_chunk moves on by what fits its buffer and is left.
LEMMA ReadBodyChunkStep ==
    ASSUME IInv, NEW s \in Slots, NEW n \in ChunkSizes, ReadBodyChunk(s, n)
    PROVE  IInv'
<1>. DEFINE m == Least(n % U32, Left(s))
<1>1. Types /\ PoolOK /\ SlotOK(s) /\ body[s] \in Bodies
  BY Zenon DEF IInv, Types
<1>2. /\ pc[s] = "handler" /\ pc' = [pc EXCEPT ![s] = "handler"] /\ next' = [next EXCEPT ![s] = @ + m]
      /\ UNCHANGED <<count, body, touched, wanted, vec, free>>
  BY Zenon DEF ReadBodyChunk, Goto
<1>3. /\ body[s].total \in Nat /\ body[s].inline \in Nat
      /\ next[s] \in body[s].inline + 1..body[s].total + 1 /\ next[s] \in Nat
  BY <1>1, <1>2, BodyFacts, Zenon DEF SlotOK, Types
<1>4. Left(s) \in Nat /\ Left(s) = body[s].total + 1 - next[s]
  BY <1>3 DEF Left
<1>5. n % U32 \in Nat
  <2>1. n \in Nat /\ U32 \in Nat \ {0}
    BY ConstantsAssumption, Zenon
  <2>. QED  BY <2>1, Cut, Zenon
<1>6. m \in Nat /\ m <= Left(s)
  BY <1>4, <1>5 DEF Least
<1>. HIDE DEF m
<1>7. Types' /\ PoolOK'
  <2>1. next' \in [Slots -> Nat]
    BY <1>1, <1>2, <1>6 DEF Types
  <2>. QED  BY <2>1, <1>1, <1>2, Zenon DEF Types, PoolOK
<1>8. \A u \in Slots \ {s} : Same(u)
  BY <1>1, <1>2, Zenon DEF Types, Same
<1>9. pc'[s] = "handler" /\ vec'[s] = vec[s] /\ next'[s] = next[s] + m /\ body'[s] = body[s]
  BY <1>1, <1>2, Zenon DEF Types
<1>10. SlotOK(s)' /\ WholeOK(s)'
  <2>1. next[s] + m \in body[s].inline + 1..body[s].total + 1
    BY <1>3, <1>4, <1>6
  <2>. QED  BY <2>1, <1>1, <1>2, <1>9, Zenon DEF SlotOK, WholeOK
<1>. QED  BY <1>7, <1>8, <1>10, OneSlot, Zenon

LEMMA Inductive == IInv /\ [Next]_vars => IInv'
<1>. SUFFICES ASSUME IInv, [Next]_vars PROVE IInv'
  OBVIOUS
<1>1. CASE UNCHANGED vars
  <2>1. Types' /\ PoolOK'
    BY <1>1, Zenon DEF vars, IInv, Types, PoolOK
  <2>2. ASSUME NEW s \in Slots PROVE SlotOK(s)' /\ (Small => WholeOK(s)')
    <3>1. Same(s)
      BY <1>1, Zenon DEF vars, Same
    <3>. QED  BY <3>1, SameSlot, Zenon DEF IInv
  <2>. QED  BY <2>1, <2>2, Zenon DEF IInv
<1>2. ASSUME NEW s \in Slots, NEW b \in Bodies, Receive(s, b) PROVE IInv'
  BY <1>2, ReceiveStep, Zenon
<1>3. ASSUME NEW s \in Slots, NEW n \in ChunkSizes, ReadBodyChunk(s, n) PROVE IInv'
  BY <1>3, ReadBodyChunkStep, Zenon
<1>4. ASSUME NEW s \in Slots,
             \/ BodyInline(s) \/ BodyTake(s) \/ BodyExtend(s)
             \/ ReadSome(s) \/ ReadEnd(s) \/ ReadLost(s) \/ DropBody(s) \/ Finish(s)
      PROVE  IInv'
  BY <1>4, BorrowFinishStep, TakeStep, ExtendStep, ReadSomeStep, ReadEndStep, ReadLostStep, DropBodyStep, Zenon
<1>. QED  BY <1>1, <1>2, <1>3, <1>4, Zenon DEF Next

-----------------------------------------------------------------------------
(* The theorems.                                                           *)

\* Whatever the sizes of bodies, chunks and vectors, the kernel never writes
\* past a vector, and the pool keeps its limits and only empty vectors.
THEOREM ReadsStayInTheirVectors == Spec => []VectorsInBounds
<1>1. IInv => VectorsInBounds
  BY Zenon DEF IInv, PoolOK, SlotOK, VectorsInBounds
<1>. QED  BY <1>1, InitInv, Inductive, PTL DEF Spec

\* BodyPool::take hands out at least half of what it was asked for.
THEOREM TakeGivesHalf == Spec => []HalfTheRoom
<1>1. IInv => HalfTheRoom
  BY Zenon DEF IInv, SlotOK, HalfTheRoom
<1>. QED  BY <1>1, InitInv, Inductive, PTL DEF Spec

\* While bodies and pooled vectors are below 4 GiB, the first reading call of
\* a request returns every byte of its body, once and in order.
THEOREM TheFirstCallReadsItAll ==
    ASSUME Small
    PROVE  Spec => []FreshBodyIsWhole
<1>1. ASSUME IInv PROVE FreshBodyIsWhole
  <2>. SUFFICES ASSUME NEW s \in Slots, pc[s] = "owned", ~touched[s] PROVE Whole(s)
    BY Zenon DEF FreshBodyIsWhole
  <2>1. ReadFrom(s, body[s].inline + 1) /\ next[s] = body[s].total + 1
    BY <1>1, Zenon DEF IInv, WholeOK
  <2>2. body[s].inline \in Nat /\ body[s].total \in Nat /\ body[s].inline <= body[s].total /\ count[s] \in Nat
    BY <1>1, BodyFacts, Zenon DEF IInv, Types
  <2>3. 1 \in Nat \ {0} /\ 1 <= body[s].inline + 1 /\ next[s] - 1 = body[s].total
    BY <2>1, <2>2
  <2>4. Bytes(s, 1, body[s].inline) \o Bytes(s, body[s].inline + 1, body[s].total) = Bytes(s, 1, body[s].total)
    BY <2>2, <2>3, BytesConcat
  <2>. QED  BY <2>1, <2>3, <2>4, Zenon DEF ReadFrom, Whole
<1>2. IInv => FreshBodyIsWhole
  BY <1>1, Zenon
<1>. QED  BY <1>2, InitInv, Inductive, PTL DEF Spec

\* Under the same condition, and whatever calls and failed reads came before,
\* what body returns is the inline part and the rest from some point on.
THEOREM TheRestIsInOrder ==
    ASSUME Small
    PROVE  Spec => []OwnBytesInOrder
<1>1. ASSUME IInv PROVE OwnBytesInOrder
  <2>. SUFFICES ASSUME NEW s \in Slots, pc[s] = "owned"
                PROVE  \E k \in body[s].inline + 1..body[s].total + 1 :
                           vec[s].data = Bytes(s, 1, body[s].inline) \o Bytes(s, k, body[s].total)
    BY Zenon DEF OwnBytesInOrder
  <2>1. next[s] = body[s].total + 1 /\ \E k \in body[s].inline + 1..next[s] : ReadFrom(s, k)
    BY <1>1, Zenon DEF IInv, WholeOK
  <2>2. body[s].total \in Nat
    BY <1>1, BodyFacts, Zenon DEF IInv, Types
  <2>3. next[s] - 1 = body[s].total
    BY <2>1, <2>2
  <2>. QED  BY <2>1, <2>3, Zenon DEF ReadFrom
<1>2. IInv => OwnBytesInOrder
  BY <1>1, Zenon
<1>. QED  BY <1>2, InitInv, Inductive, PTL DEF Spec
=============================================================================
