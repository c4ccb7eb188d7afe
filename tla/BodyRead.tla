------------------------------ MODULE BodyRead ------------------------------
(***************************************************************************)
(* Reading a request body: Request::body and read_body_chunk of            *)
(* src/crates/httpsys/src/request.rs, RequestQueue::read_entity_body of    *)
(* queue.rs and the BodyPool of buffer.rs.                                 *)
(*                                                                         *)
(* Slots work on one request each and share the pool.  A body is the       *)
(* sequence of its bytes, each named by the request it belongs to and its  *)
(* position, so that a lost, repeated or foreign byte shows.  Sizes are    *)
(* in abstract units; vectors grow the way `Vec' grows.                    *)
(***************************************************************************)
EXTENDS Integers, Sequences

CONSTANTS Slots,
          Bodies,             \* the requests: inline part, total, Content-Length
          MAX_BODY_RESERVE,
          BODY_CHUNK_BYTES,
          PoolSlots,          \* capacity of the free list
          MaxRetained,        \* max_pooled_body_bytes
          ChunkSizes,         \* buffers handlers pass to read_body_chunk
          U32,                \* how many values a u32 has
          MaxRequests,        \* bound: requests per slot
          MaxCalls            \* bound: reading calls per request

NoLength == 0                 \* no usable Content-Length

ASSUME ConstantsAssumption ==
    /\ Bodies \subseteq [inline : Nat, total : Nat, declared : Nat] /\ Bodies # {}
    /\ \A b \in Bodies : b.inline <= b.total
    /\ U32 \in Nat \ {0}
    /\ MAX_BODY_RESERVE \in 0..U32 - 1 /\ BODY_CHUNK_BYTES \in 1..U32 - 1
    /\ PoolSlots \in Nat \ {0} /\ MaxRetained \in Nat /\ ChunkSizes \subseteq Nat
    /\ MaxRequests \in Nat /\ MaxCalls \in Nat

VARIABLES
    pc,        \* where each slot's handler is
    count,     \* requests the slot has had
    body,      \* the request's body
    next,      \* position of the first byte still in the kernel
    calls,     \* reading calls made for the request
    touched,   \* history: bytes were taken before the current call of `body'
    wanted,    \* capacity the current call asked the pool for
    vec,       \* the vector it got
    free       \* BodyPool.free

vars == <<pc, count, body, next, calls, touched, wanted, vec, free>>

Least(a, b) == IF a < b THEN a ELSE b
Greatest(a, b) == IF a > b THEN a ELSE b

Empty == [cap |-> 0, data |-> <<>>]

\* Bytes from..to of the slot's request.
Bytes(s, from, to) == [i \in 1..(IF to < from THEN 0 ELSE to - from + 1) |->
                          <<s, count[s], from + i - 1>>]

Init ==
    /\ pc = [s \in Slots |-> "none"]
    /\ count = [s \in Slots |-> 0]
    /\ body = [s \in Slots |-> CHOOSE b \in Bodies : TRUE]
    /\ next = [s \in Slots |-> 1]
    /\ calls = [s \in Slots |-> 0]
    /\ touched = [s \in Slots |-> FALSE]
    /\ wanted = [s \in Slots |-> 0]
    /\ vec = [s \in Slots |-> Empty]
    /\ free = <<>>

Goto(s, from, to) == pc[s] = from /\ pc' = [pc EXCEPT ![s] = to]

-----------------------------------------------------------------------------
(* Vectors and their pool.                                                 *)

\* Vec::reserve grows to twice the capacity, or to what is asked if more.
Reserve(v, n) ==
    IF v.cap - Len(v.data) >= n THEN v
    ELSE [v EXCEPT !.cap = Greatest(2 * v.cap, Len(v.data) + n)]

\* Vec::reserve_exact.
ReserveExact(v, n) ==
    IF v.cap - Len(v.data) >= n THEN v ELSE [v EXCEPT !.cap = Len(v.data) + n]

Extend(v, data) == [Reserve(v, Len(data)) EXCEPT !.data = @ \o data]

\* Mutant: the vector goes back with its contents.
GiveBackDirty(v) ==
    IF v.cap <= MaxRetained /\ Len(free) < PoolSlots THEN Append(free, v) ELSE free

\* PooledVec::drop: cleared and kept, unless it is too large or the pool full.
GiveBack(v) ==
    IF v.cap <= MaxRetained /\ Len(free) < PoolSlots
    THEN Append(free, [v EXCEPT !.data = <<>>]) ELSE free

\* Mutant: a recycled vector is taken as it is.
TakenAsIs(v, capacity) == IF v.cap = 0 THEN ReserveExact(v, capacity) ELSE v

\* BodyPool::take: reserve_exact counts from the length, which is 0.
Taken(v, capacity) == ReserveExact(v, Greatest(capacity - v.cap, 0))

-----------------------------------------------------------------------------
\* The slot receives a request; its inline part is in the receive buffer.
Receive(s, b) ==
    /\ Goto(s, "none", "handler") /\ count[s] < MaxRequests
    /\ count' = [count EXCEPT ![s] = @ + 1]
    /\ body' = [body EXCEPT ![s] = b]
    /\ next' = [next EXCEPT ![s] = b.inline + 1]
    /\ calls' = [calls EXCEPT ![s] = 0]
    /\ touched' = [touched EXCEPT ![s] = FALSE]
    /\ UNCHANGED <<wanted, vec, free>>

\* HTTP_REQUEST_FLAG_MORE_ENTITY_BODY_EXISTS, as it was when the request came.
HasMoreBody(s) == body[s].inline < body[s].total

Call(s) ==
    /\ calls[s] < MaxCalls
    /\ calls' = [calls EXCEPT ![s] = @ + 1]

\* Request::body of a request that came complete: a borrow of the buffer.
BodyInline(s) ==
    /\ Goto(s, "handler", "inline") /\ Call(s) /\ ~HasMoreBody(s)
    /\ UNCHANGED <<count, body, next, touched, wanted, vec, free>>

\* The capacity Request::body asks the pool for.
Capacity(b) ==
    LET declared == Least(b.declared, MAX_BODY_RESERVE) IN
    IF declared > b.inline THEN declared ELSE b.inline + BODY_CHUNK_BYTES

\* Otherwise it takes a vector from the pool, or a new one.
BodyTake(s) ==
    /\ Goto(s, "handler", "taken") /\ Call(s) /\ HasMoreBody(s)
    /\ touched' = [touched EXCEPT ![s] = next[s] # body[s].inline + 1]
    /\ wanted' = [wanted EXCEPT ![s] = Capacity(body[s])]
    /\ vec' = [vec EXCEPT ![s] =
                 Taken(IF free = <<>> THEN Empty ELSE Head(free), Capacity(body[s]))]
    /\ free' = IF free = <<>> THEN free ELSE Tail(free)
    /\ UNCHANGED <<count, body, next>>

\* body.extend_from_slice(inline).
BodyExtend(s) ==
    /\ Goto(s, "taken", "loop")
    /\ vec' = [vec EXCEPT ![s] = Extend(@, Bytes(s, 1, body[s].inline))]
    /\ UNCHANGED <<count, body, next, calls, touched, wanted, free>>

\* The vector the loop reads into, with room for at least one byte.
\* Mutant: it is not grown when it is full.
RoomNever(v) == v

Room(v) == IF Len(v.data) = v.cap THEN Reserve(v, BODY_CHUNK_BYTES) ELSE v

\* The room the kernel is told of: dst.len() as u32.
Offered(v) == (v.cap - Len(v.data)) % U32

Left(s) == body[s].total - next[s] + 1

\* Mutant: the kernel is told of one byte more than there is room for.
ReadSomeTooMuch(s) ==
    /\ Goto(s, "loop", "loop")
    /\ LET v == Room(vec[s])
           n == Least(Offered(v) + 1, Left(s)) IN
        /\ n > 0
        /\ vec' = [vec EXCEPT ![s] =
                     [v EXCEPT !.data = @ \o Bytes(s, next[s], next[s] + n - 1)]]
        /\ next' = [next EXCEPT ![s] = @ + n]
    /\ UNCHANGED <<count, body, calls, touched, wanted, free>>

\* One turn of read_remaining_body_into that reads something: FILL_BUFFER fills
\* the spare capacity or reads to the end.
ReadSome(s) ==
    /\ Goto(s, "loop", "loop")
    /\ LET v == Room(vec[s])
           n == Least(Offered(v), Left(s)) IN
        /\ n > 0
        /\ vec' = [vec EXCEPT ![s] =
                     [v EXCEPT !.data = @ \o Bytes(s, next[s], next[s] + n - 1)]]
        /\ next' = [next EXCEPT ![s] = @ + n]
    /\ UNCHANGED <<count, body, calls, touched, wanted, free>>

\* Mutant: the end of the body is not an end of the loop.
ReadEndNoEof(s) ==
    /\ Goto(s, "loop", "owned")
    /\ LET v == Room(vec[s]) IN
        /\ v.cap = Len(v.data)
        /\ vec' = [vec EXCEPT ![s] = v]
    /\ UNCHANGED <<count, body, next, calls, touched, wanted, free>>

\* ERROR_HANDLE_EOF, or no room to read into: the body is what has been read.
ReadEnd(s) ==
    /\ Goto(s, "loop", "owned")
    /\ LET v == Room(vec[s]) IN
        /\ Left(s) = 0 \/ Offered(v) = 0
        /\ vec' = [vec EXCEPT ![s] = v]
    /\ UNCHANGED <<count, body, next, calls, touched, wanted, free>>

\* A read fails, or the future is dropped while one is pending: the vector
\* goes back, and what the kernel handed over until then is lost.
ReadLost(s) ==
    /\ Goto(s, "loop", "handler")
    /\ LET v == Room(vec[s]) IN
        /\ \E n \in {0, Least(Offered(v), Left(s))} :
               next' = [next EXCEPT ![s] = @ + n]
        /\ free' = GiveBack(v)
    /\ vec' = [vec EXCEPT ![s] = Empty]
    /\ wanted' = [wanted EXCEPT ![s] = 0]
    /\ UNCHANGED <<count, body, calls, touched>>

\* The handler drops the Body.
DropBody(s) ==
    /\ pc[s] \in {"inline", "owned"} /\ Goto(s, pc[s], "handler")
    /\ free' = IF pc[s] = "owned" THEN GiveBack(vec[s]) ELSE free
    /\ vec' = [vec EXCEPT ![s] = Empty]
    /\ wanted' = [wanted EXCEPT ![s] = 0]
    /\ UNCHANGED <<count, body, next, calls, touched>>

\* Request::read_body_chunk into a buffer of n bytes; 0 and EOF read nothing.
ReadBodyChunk(s, n) ==
    /\ Goto(s, "handler", "handler") /\ Call(s)
    /\ next' = [next EXCEPT ![s] = @ + Least(n % U32, Left(s))]
    /\ UNCHANGED <<count, body, touched, wanted, vec, free>>

\* The handler is done; the Request is dropped.
Finish(s) ==
    /\ Goto(s, "handler", "none")
    /\ UNCHANGED <<count, body, next, calls, touched, wanted, vec, free>>

Next ==
    \E s \in Slots :
        \/ \E b \in Bodies : Receive(s, b)
        \/ BodyInline(s) \/ BodyTake(s) \/ BodyExtend(s)
        \/ ReadSome(s) \/ ReadEnd(s) \/ ReadLost(s)
        \/ \E n \in ChunkSizes : ReadBodyChunk(s, n)
        \/ DropBody(s) \/ Finish(s)

Spec == Init /\ [][Next]_vars
FairSpec == Spec /\ \A s \in Slots : WF_vars(BodyExtend(s) \/ ReadSome(s) \/ ReadEnd(s))

-----------------------------------------------------------------------------
(* Properties.                                                             *)

Whole(s) == vec[s].data = Bytes(s, 1, body[s].total)

\* The first reading call of a request returns its body: every byte once, in
\* order, and none that a pooled vector had from another request.
FreshBodyIsWhole ==
    \A s \in Slots : pc[s] = "owned" /\ ~touched[s] => Whole(s)

\* Whatever calls came before, what `body' returns are bytes of this request
\* in their order: the inline part and the rest from some point on.
OwnBytesInOrder ==
    \A s \in Slots :
        pc[s] = "owned" =>
            \E k \in body[s].inline + 1..body[s].total + 1 :
                vec[s].data = Bytes(s, 1, body[s].inline) \o Bytes(s, k, body[s].total)

\* The kernel never writes past a vector, whatever way it grew, and the pool
\* holds no more vectors than it has room for, none above the retained size,
\* however far a body made its vector grow, and all empty.
VectorsInBounds ==
    /\ \A s \in Slots : Len(vec[s].data) <= vec[s].cap
    /\ Len(free) <= PoolSlots
    /\ \A i \in 1..Len(free) : free[i].cap <= MaxRetained /\ free[i].data = <<>>

\* The loop ends: every turn reads something or is the last one.
ReadingEnds == \A s \in Slots : pc[s] = "loop" ~> pc[s] # "loop"

\* BodyPool::take hands out at least half of the room that was asked for: a
\* recycled vector is only grown when it has less than that, since
\* reserve_exact counts from the length.
HalfTheRoom == \A s \in Slots : pc[s] = "taken" => 2 * vec[s].cap >= wanted[s]
=============================================================================
