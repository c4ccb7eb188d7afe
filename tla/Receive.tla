------------------------------- MODULE Receive ------------------------------
(***************************************************************************)
(* How a request slot receives a request and answers it: the receive path  *)
(* of src/crates/httpsys/src/queue.rs with the receive buffers of          *)
(* buffer.rs, driven by slot_loop of server.rs.                            *)
(*                                                                         *)
(* A slot asks http.sys to copy the body in with the headers; when that    *)
(* does not fit it asks again, by id, for the headers alone, and resizes   *)
(* its buffer for the next request.  A buffer is what the code reads back  *)
(* from it: its length in words and the request its header block           *)
(* describes.  Sizes are in bytes.  Stopping the slots is the subject of   *)
(* Server.                                                                 *)
(***************************************************************************)
EXTENDS Integers, FiniteSets

CONSTANTS Slots, Requests,
          Shapes,         \* the requests clients send
          InitBytes,      \* request_buffer_bytes
          MaxBytes,       \* max_request_buffer_bytes
          HEADER_SLACK,
          MinWords,       \* `min_words': an HTTP_REQUEST_V2, in words, and one more
          U32,            \* 2^32
          MaxKept,        \* requests of a slot that outlive their handler
          NoReq           \* request id 0

NoLength == -1            \* no Content-Length header: no body, or chunked
Garbled == -2             \* a Content-Length that does not parse
ShapeType == [hdr : Nat \ {0}, body : Nat, declared : Nat \cup {NoLength, Garbled}]

NoShape == [hdr |-> 0, body |-> 0, declared |-> NoLength]

ASSUME ConstantsAssumption ==
    /\ NoReq \notin Requests
    /\ Shapes \subseteq ShapeType /\ Shapes # {}
    /\ InitBytes \in Nat /\ MaxBytes \in Nat /\ HEADER_SLACK \in Nat
    /\ MinWords \in Nat \ {0} /\ U32 \in Nat \ {0} /\ MaxKept \in Nat

VARIABLES
    state,     \* where http.sys has each request
    shape,     \* its shape once it has arrived
    spc,       \* where each slot is in `slot_loop' and `receive'
    copyBody,  \* ReceiveMode.copy_body of the slot
    buf,       \* its buffer
    free,      \* BufferPool.free of the slot: at most one buffer
    kept,      \* buffers of requests the handler has kept
    id,        \* local `request_id'
    needed,    \* local `needed'
    hand,      \* history: the request http.sys gave the slot last
    learnt     \* history: the shape of the slot's last failed copy attempt, while
               \* the slot has one buffer and has received that shape only

kernelVars == <<state, shape>>
slotVars == <<spc, copyBody, buf, free, kept, id, needed, hand, learnt>>
vars == <<kernelVars, slotVars>>

\* BufferPool::new: the ceiling is never below the initial size.
Ceiling == IF MaxBytes > InitBytes THEN MaxBytes ELSE InitBytes

\* RequestBuffer::new: whole words, and room for the header block.
Word == 8
Words(bytes) ==
    LET words == (bytes + Word - 1) \div Word
    IN  IF words > MinWords THEN words ELSE MinWords

\* The words are zero: request id and URL context read 0.
NewBuffer(bytes) == [words |-> Words(bytes), req |-> NoReq]

\* RequestBuffer::capacity, cast to u32.
Capacity(b) == (b.words * Word) % U32

Init ==
    /\ state = [r \in Requests |-> "new"]
    /\ shape = [r \in Requests |-> CHOOSE sh \in Shapes : TRUE]
    /\ spc = [s \in Slots |-> "top"]
    /\ copyBody = [s \in Slots |-> TRUE]
    /\ buf = [s \in Slots |-> NewBuffer(InitBytes)]
    /\ free = [s \in Slots |-> {}]
    /\ kept = [s \in Slots |-> {}]
    /\ id = [s \in Slots |-> NoReq]
    /\ needed = [s \in Slots |-> 0]
    /\ hand = [s \in Slots |-> NoReq]
    /\ learnt = [s \in Slots |-> NoShape]

Goto(s, to) == spc' = [spc EXCEPT ![s] = to]

\* ERROR_MORE_DATA, with the size that would do.  receive_once notes it when
\* the call returns the error; when the completion port does, it does not.
Report(s, size) == needed' \in {[needed EXCEPT ![s] = size], needed}

-----------------------------------------------------------------------------
(* Clients.                                                                *)

\* A request is complete in the kernel and waits for a receive.
Arrive(r, sh) ==
    /\ state[r] = "new"
    /\ state' = [state EXCEPT ![r] = "queued"]
    /\ shape' = [shape EXCEPT ![r] = sh]
    /\ UNCHANGED slotVars

\* The client disconnects before it is answered; its request id is void.
Disconnect(r) ==
    /\ state[r] \in {"queued", "held", "taken"}
    /\ state' = [state EXCEPT ![r] = "gone"]
    /\ UNCHANGED <<shape, slotVars>>

-----------------------------------------------------------------------------
(* The slot's buffer.                                                      *)

\* PooledBuffer::drop: back to the pool unless the pool is full.
Return(s) ==
    free' = [free EXCEPT ![s] = IF @ = {} THEN {buf[s]} ELSE @]

\* Mutant: `needed' lives as long as the slot.
TakeKeepsNeeded(s) ==
    /\ spc[s] = "top"
    /\ \/ \E b \in free[s] : /\ buf' = [buf EXCEPT ![s] = [b EXCEPT !.req = NoReq]]
                             /\ free' = [free EXCEPT ![s] = {}]
       \/ /\ free[s] = {}
          /\ buf' = [buf EXCEPT ![s] = NewBuffer(InitBytes)]
          /\ UNCHANGED free
    /\ id' = [id EXCEPT ![s] = NoReq]
    /\ hand' = [hand EXCEPT ![s] = NoReq]
    /\ Goto(s, IF copyBody[s] THEN "copy" ELSE "plain")
    /\ UNCHANGED <<kernelVars, copyBody, kept, needed, learnt>>

\* BufferPool::take, then the first receive_once: `prepare' clears the header
\* block and the receive is posted.
Take(s) ==
    /\ spc[s] = "top"
    /\ \/ \E b \in free[s] : /\ buf' = [buf EXCEPT ![s] = [b EXCEPT !.req = NoReq]]
                             /\ free' = [free EXCEPT ![s] = {}]
       \/ /\ free[s] = {}
          /\ buf' = [buf EXCEPT ![s] = NewBuffer(InitBytes)]
          /\ UNCHANGED free
    /\ id' = [id EXCEPT ![s] = NoReq]
    /\ needed' = [needed EXCEPT ![s] = 0]
    /\ hand' = [hand EXCEPT ![s] = NoReq]
    /\ Goto(s, IF copyBody[s] THEN "copy" ELSE "plain")
    /\ UNCHANGED <<kernelVars, copyBody, kept, learnt>>

\* PooledBuffer::fit_body_inline: can the body of such a request share the
\* buffer with its headers, after growing the buffer if it has to?
Needed(sh) == sh.declared + HEADER_SLACK

\* Mutant: the ceiling is not looked at.
FitIgnoresMax(sh) == sh.declared # Garbled

Fits(sh) ==
    \/ sh.declared = NoLength
    \/ sh.declared # Garbled /\ Needed(sh) <= Ceiling

\* Mutant: the buffer is not grown.
GrownNever(b, sh) == b

\* Mutant: the buffer is replaced when it is large enough, too.
GrownAlways(b, sh) ==
    IF sh.declared >= 0 /\ Fits(sh) THEN NewBuffer(Needed(sh)) ELSE b

\* RequestBuffer::grow_to replaces the allocation and discards its contents.
Grown(b, sh) ==
    IF sh.declared >= 0 /\ Fits(sh) /\ Needed(sh) > Capacity(b)
    THEN NewBuffer(Needed(sh)) ELSE b

-----------------------------------------------------------------------------
(* RequestQueue::receive.                                                  *)

\* History: the slot receives r.
Recall(s, r) == learnt' = [learnt EXCEPT ![s] = IF @ = shape[r] THEN @ ELSE NoShape]

\* The copy attempt succeeds: the request is in the buffer, with its body or
\* with the part of it that fits.
CopyOk(s, r) ==
    /\ spc[s] = "copy" /\ state[r] = "queued"
    /\ shape[r].hdr <= Capacity(buf[s])
    /\ state' = [state EXCEPT ![r] = "taken"]
    /\ buf' = [buf EXCEPT ![s].req = r]
    /\ hand' = [hand EXCEPT ![s] = r]
    /\ Recall(s, r)
    /\ Goto(s, "received")
    /\ UNCHANGED <<shape, copyBody, free, kept, id, needed>>

\* Mutant: the id is not carried over to the second receive.
CopyMoreDataForgets(s, r) ==
    /\ spc[s] = "copy" /\ state[r] = "queued"
    /\ shape[r].hdr + shape[r].body > Capacity(buf[s])
    /\ state' = [state EXCEPT ![r] = "held"]
    /\ copyBody' = [copyBody EXCEPT ![s] = FALSE]
    /\ hand' = [hand EXCEPT ![s] = r]
    /\ learnt' = [learnt EXCEPT ![s] = IF free[s] = {} /\ kept[s] = {} THEN shape[r] ELSE NoShape]
    /\ Report(s, shape[r].hdr + shape[r].body)
    /\ Goto(s, "plain")
    /\ UNCHANGED <<shape, buf, free, kept, id>>

\* It does not fit: ERROR_MORE_DATA, with the request id in the header block.
\* http.sys keeps the request for whoever asks for that id.  The slot clears
\* the header block again and posts the second receive.
CopyMoreData(s, r) ==
    /\ spc[s] = "copy" /\ state[r] = "queued"
    /\ shape[r].hdr + shape[r].body > Capacity(buf[s])
    /\ state' = [state EXCEPT ![r] = "held"]
    /\ copyBody' = [copyBody EXCEPT ![s] = FALSE]
    /\ id' = [id EXCEPT ![s] = r]
    /\ hand' = [hand EXCEPT ![s] = r]
    /\ learnt' = [learnt EXCEPT ![s] = IF free[s] = {} /\ kept[s] = {} THEN shape[r] ELSE NoShape]
    /\ Report(s, shape[r].hdr + shape[r].body)
    /\ Goto(s, "plain")
    /\ UNCHANGED <<shape, buf, free, kept>>

\* The request a headers-only receive is about: the one asked for, or any.
Asked(s, r) == IF id[s] = NoReq THEN state[r] = "queued" ELSE r = id[s] /\ state[r] = "held"

PlainOk(s, r) ==
    /\ spc[s] = "plain" /\ Asked(s, r)
    /\ shape[r].hdr <= Capacity(buf[s])
    /\ state' = [state EXCEPT ![r] = "taken"]
    /\ copyBody' = [copyBody EXCEPT ![s] = Fits(shape[r])]
    /\ buf' = [buf EXCEPT ![s] = Grown([@ EXCEPT !.req = r], shape[r])]
    /\ hand' = [hand EXCEPT ![s] = r]
    /\ Recall(s, r)
    /\ Goto(s, "received")
    /\ UNCHANGED <<shape, free, kept, id, needed>>

\* Not even the headers fit: Error::HeadersTooLarge.
PlainMoreData(s, r) ==
    /\ spc[s] = "plain" /\ Asked(s, r)
    /\ shape[r].hdr > Capacity(buf[s])
    /\ state' = [state EXCEPT ![r] = "held"]
    /\ buf' = [buf EXCEPT ![s].req = r]
    /\ hand' = [hand EXCEPT ![s] = r]
    /\ Report(s, shape[r].hdr)
    /\ Recall(s, r)
    /\ Goto(s, "too_large")
    /\ UNCHANGED <<shape, copyBody, free, kept, id>>

\* The receive fails in another way; a receive by id only when the id is void.
\* The loop drops the buffer and starts over.
ReceiveFails(s) ==
    /\ spc[s] \in {"copy", "plain"}
    /\ id[s] # NoReq => state[id[s]] = "gone"
    /\ Return(s)
    /\ Goto(s, "top")
    /\ UNCHANGED <<kernelVars, copyBody, buf, kept, id, needed, hand, learnt>>

-----------------------------------------------------------------------------
(* slot_loop and reply.                                                    *)

\* send_response answers a request http.sys still has, and fails otherwise.
Answered(r) ==
    IF r \in Requests /\ state[r] \in {"held", "taken"}
    THEN [state EXCEPT ![r] = "answered"] ELSE state

\* Mutant: a request that is too large is not answered.
ReplyNothing(s) ==
    /\ spc[s] = "too_large"
    /\ Return(s)
    /\ Goto(s, "top")
    /\ UNCHANGED <<kernelVars, copyBody, buf, kept, id, needed, hand, learnt>>

\* `reply' with 431, then `continue' drops the buffer.
ReplyTooLarge(s) ==
    /\ spc[s] = "too_large"
    /\ state' = Answered(buf[s].req)
    /\ Return(s)
    /\ Goto(s, "top")
    /\ UNCHANGED <<shape, copyBody, buf, kept, id, needed, hand, learnt>>

\* The id and the URL context are read from the buffer.  A header block that
\* is zero has no route: the Request is dropped and the response is 404.
Route(s) ==
    /\ spc[s] = "received"
    /\ id' = [id EXCEPT ![s] = buf[s].req]
    /\ IF buf[s].req # NoReq
       THEN Goto(s, "handler") /\ UNCHANGED free
       ELSE Goto(s, "not_found") /\ Return(s)
    /\ UNCHANGED <<kernelVars, copyBody, buf, kept, needed, hand, learnt>>

\* The handler has dropped the Request, or has left it with a task that goes on.
LetGo(s) ==
    \/ Return(s) /\ UNCHANGED <<kept, learnt>>
    \/ /\ Cardinality(kept[s]) < MaxKept
       /\ kept' = [kept EXCEPT ![s] = @ \cup {buf[s]}]
       /\ learnt' = [learnt EXCEPT ![s] = NoShape]
       /\ UNCHANGED free

\* The handler returns its response.
HandlerReturns(s) ==
    /\ spc[s] = "handler"
    /\ LetGo(s)
    /\ Goto(s, "send")
    /\ UNCHANGED <<kernelVars, copyBody, buf, id, needed, hand>>

\* The handler panics: the slot's task unwinds and is over, its request is not
\* answered.
HandlerPanics(s) ==
    /\ spc[s] = "handler"
    /\ LetGo(s)
    /\ Goto(s, "panicked")
    /\ UNCHANGED <<kernelVars, copyBody, buf, id, needed, hand>>

\* A kept Request is dropped at last.
DropKept(s) ==
    /\ \E b \in kept[s] :
        /\ kept' = [kept EXCEPT ![s] = @ \ {b}]
        /\ free' = [free EXCEPT ![s] = IF @ = {} THEN {b} ELSE @]
    /\ UNCHANGED <<kernelVars, spc, copyBody, buf, id, needed, hand, learnt>>

SendResponse(s) ==
    /\ spc[s] \in {"send", "not_found"}
    /\ state' = Answered(id[s])
    /\ Goto(s, "top")
    /\ UNCHANGED <<shape, copyBody, buf, free, kept, id, needed, hand, learnt>>

-----------------------------------------------------------------------------
SlotRuns(s) ==
    \/ Take(s)
    \/ \E r \in Requests :
        CopyOk(s, r) \/ CopyMoreData(s, r) \/ PlainOk(s, r) \/ PlainMoreData(s, r)
    \/ ReceiveFails(s) \/ ReplyTooLarge(s)
    \/ Route(s) \/ HandlerReturns(s) \/ HandlerPanics(s) \/ SendResponse(s)

Next ==
    \/ \E r \in Requests : Disconnect(r) \/ \E sh \in Shapes : Arrive(r, sh)
    \/ \E s \in Slots : SlotRuns(s) \/ DropKept(s)

Spec == Init /\ [][Next]_vars

\* Slots run, handlers return or panic, and http.sys completes a receive it can.
FairSpec == Spec /\ \A s \in Slots : WF_vars(SlotRuns(s))

-----------------------------------------------------------------------------
(* Properties.                                                             *)

BufferType == [words : Nat, req : Requests \cup {NoReq}]

TypeOK ==
    /\ state \in [Requests -> {"new", "queued", "held", "taken", "answered", "gone"}]
    /\ shape \in [Requests -> Shapes]
    /\ spc \in [Slots -> {"top", "copy", "plain", "too_large", "received",
                          "handler", "send", "not_found", "panicked"}]
    /\ copyBody \in [Slots -> BOOLEAN]
    /\ buf \in [Slots -> BufferType]
    /\ free \in [Slots -> SUBSET BufferType]
    /\ kept \in [Slots -> SUBSET BufferType]
    /\ id \in [Slots -> Requests \cup {NoReq}]
    /\ needed \in [Slots -> Nat]
    /\ hand \in [Slots -> Requests \cup {NoReq}]
    /\ learnt \in [Slots -> Shapes \cup {NoShape}]

\* The body of such a request has a length that an initial buffer has no room
\* for beside the headers and a buffer within the ceiling has: a headers-only
\* receive of it into an initial buffer ends with that buffer replaced.
Grows(sh) ==
    /\ sh.declared >= 0
    /\ Words(InitBytes) * Word < sh.declared + HEADER_SLACK
    /\ sh.declared + HEADER_SLACK <= Ceiling

\* The response goes to the request the slot received: what slot_loop reads
\* from the buffer is what the kernel wrote there.  The one exception is a
\* request that made fit_body_inline replace the buffer: slot_loop reads the id
\* 0 and no route, so that response goes to nobody, never to another request.
AnswersItsRequest ==
    \A s \in Slots :
        /\ spc[s] = "too_large" => buf[s].req = hand[s]
        /\ spc[s] \in {"handler", "send"} => id[s] = hand[s]
        /\ spc[s] = "not_found" => id[s] = NoReq /\ Grows(shape[hand[s]])

\* The slot is receiving the request again by its id, rejecting, handling or
\* answering it, or its handler has panicked over it.
Holds(s, r) ==
    /\ hand[s] = r
    /\ \/ spc[s] = "plain" /\ id[s] = r
       \/ spc[s] \in {"too_large", "received"} /\ buf[s].req = r
       \/ spc[s] \in {"handler", "send", "panicked"} /\ id[s] = r

\* A request that a receive has removed from the queue is always some slot's
\* business, or it ended that slot: no second receive on any slot picks up
\* another one instead, and no slot goes on to its next request before it has
\* answered this one.  The exception is a request that made the buffer grow.
NoRequestAbandoned ==
    \A r \in Requests :
        state[r] \in {"held", "taken"} => Grows(shape[r]) \/ \E s \in Slots : Holds(s, r)

\* What Error::HeadersTooLarge says is needed is enough for the headers it is
\* about, or 0 when no call of this receive has said: `needed' is never left
\* over from another request, and what the copy attempt asked for includes the
\* headers.
NeededSuffices ==
    \A s \in Slots :
        spc[s] = "too_large" => needed[s] = 0 \/ needed[s] >= shape[hand[s]].hdr

\* A slot's buffer never grows past max_request_buffer_bytes rounded up to a
\* whole word, whatever lengths clients declare; only the room that the header
\* block needs may be more, and that room is always there for `prepare'.
BuffersBounded ==
    \A s \in Slots : \A b \in {buf[s]} \cup free[s] \cup kept[s] :
        /\ MinWords <= b.words
        /\ b.words * Word < Ceiling + Word \/ b.words = MinWords

\* Requests whose body length is declared and whose headers keep to the slack.
Declared(sh) == sh.declared = sh.body /\ sh.hdr <= HEADER_SLACK

\* A slot that copied in vain does not do so again for such requests: whenever
\* it asks for a copy, its buffer has room for another one of the shape that
\* the last failure taught it.
SettlesAfterOneMistake ==
    \A s \in Slots :
        spc[s] = "copy" /\ Declared(learnt[s])
            => learnt[s].hdr + learnt[s].body <= Capacity(buf[s])

\* The code for a request without a route is only reached when a URL is
\* removed; this crate never removes one.
NotFoundUnreachable == \A s \in Slots : spc[s] # "not_found"

\* Every request that left the queue is answered, unless its client has gone,
\* its handler has panicked, or it made the buffer grow.
TakenIsAnswered ==
    \A r \in Requests :
        state[r] \in {"held", "taken"} /\ ~Grows(shape[r])
            ~> \/ state[r] \in {"answered", "gone"}
               \/ \E s \in Slots : spc[s] = "panicked" /\ hand[s] = r
=============================================================================
