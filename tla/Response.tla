------------------------------ MODULE Response ------------------------------
(***************************************************************************)
(* Building a response and lending it to http.sys:                         *)
(* src/crates/httpsys/src/response.rs and RequestQueue::send_response of   *)
(* queue.rs.                                                               *)
(*                                                                         *)
(* A handler builds the Response.  The send makes the kernel's view of it, *)
(* a structure that points into itself and into the Response, and lends it *)
(* to the kernel for one operation of AsyncIo; the task may be aborted     *)
(* meanwhile.  A text or body is its length.  Lengths are cut to the width *)
(* of their field.                                                         *)
(***************************************************************************)
EXTENDS Naturals, Sequences

CONSTANTS U16, U32,      \* how many values a u16 and a u32 have
          Reasons,       \* lengths of the reason phrases
          Texts,         \* lengths of names and values of headers
          Bodies,        \* lengths of bodies
          MaxHeaders     \* bound: calls of with_header

ASSUME ConstantsAssumption ==
    /\ U16 \in Nat \ {0} /\ U32 \in Nat \ {0} /\ MaxHeaders \in Nat
    /\ Reasons \subseteq 1..U16 - 1 /\ Texts \subseteq Nat /\ Bodies \subseteq Nat

Null == "null"

VARIABLES
    pc,       \* where the slot is with its response
    resp,     \* the Response
    raw,      \* the RawResponse: its address, fields and links
    alive,    \* both are still allocated
    wire,     \* what http.sys has read through the pointers it was given
    phase, outcome, answer      \* the operation, as in AsyncIo

Io == INSTANCE AsyncIo WITH Tasks <- {"send"}, Outcomes <- {"sent", "failed"}, NoResult <- "none"

ioVars == <<phase, outcome, answer>>
vars == <<pc, resp, raw, alive, wire, ioVars>>

\* A response as Response::new makes it; 0 is an absent content type, or an
\* empty one, and no caching.
New(reason) == [reason |-> reason, ctype |-> 0, headers |-> <<>>, body |-> 0, cache |-> 0]

\* Nothing sent yet.
NoWire == New(0)

\* A default HTTP_RESPONSE_V2 and empty arrays.
Blank == [at |-> Null, reason |-> 0, ctype |-> 0, unknown |-> <<>>, chunk |-> 0,
          chunks |-> Null, count |-> 0, heads |-> Null]

Init ==
    /\ pc = "build" /\ \E n \in Reasons : resp = New(n)
    /\ raw = Blank /\ alive = TRUE /\ wire = NoWire
    /\ Io!Init

Goto(from, to) == pc = from /\ pc' = to

-----------------------------------------------------------------------------
(* The handler's part.                                                     *)

Builder(r) ==
    /\ pc = "build" /\ resp' = r
    /\ UNCHANGED <<pc, raw, alive, wire, ioVars>>

WithBody(n) == Builder([resp EXCEPT !.body = n])
WithContentType(n) == Builder([resp EXCEPT !.ctype = n])
WithHeader(n, v) ==
    Len(resp.headers) < MaxHeaders /\ Builder([resp EXCEPT !.headers = Append(@, <<n, v>>)])
CacheInKernel == Builder([resp EXCEPT !.cache = 1])

-----------------------------------------------------------------------------
(* send_response.                                                          *)

\* The kernel's view, as it is when to_raw returns it.
View ==
    [Blank EXCEPT !.at = "callee", !.reason = resp.reason % U16, !.ctype = resp.ctype % U16,
        !.unknown = [i \in 1..Len(resp.headers) |->
                        <<resp.headers[i][1] % U16, resp.headers[i][2] % U16>>],
        !.chunk = resp.body % U32]

\* to_raw, and its result moves into the local of the future.
ToRaw ==
    /\ Goto("build", "raw")
    /\ raw' = [View EXCEPT !.at = "frame"]
    /\ UNCHANGED <<resp, alive, wire, ioVars>>

\* Mutant: headers are linked when there is a body.
AsPtrElse ==
    /\ Goto("raw", "call")
    /\ raw' = [raw EXCEPT !.chunks = IF raw.chunk > 0 THEN raw.at ELSE @,
                          !.count = IF raw.chunk > 0 THEN Len(raw.unknown) % U16 ELSE @,
                          !.heads = IF raw.chunk > 0 THEN "heap" ELSE @]
    /\ UNCHANGED <<resp, alive, wire, ioVars>>

\* RawResponse::as_ptr.  The chunk is a field of the structure itself, the
\* array of headers is on the heap.
AsPtr ==
    /\ Goto("raw", "call")
    /\ raw' = [raw EXCEPT !.chunks = IF raw.chunk > 0 THEN raw.at ELSE @,
                          !.count = IF raw.unknown # <<>> THEN Len(raw.unknown) % U16 ELSE @,
                          !.heads = IF raw.unknown # <<>> THEN "heap" ELSE @]
    /\ UNCHANGED <<resp, alive, wire, ioVars>>

\* Mutant: the structure is moved into the operation after it was linked.
CallMoves ==
    /\ Goto("call", "await") /\ Io!Submit("send")
    /\ raw' = [raw EXCEPT !.at = "op"]
    /\ UNCHANGED <<resp, alive, wire>>

\* HttpSendHttpResponse: the structure is the kernel's from here.
Call ==
    /\ Goto("call", "await") /\ Io!Submit("send")
    /\ UNCHANGED <<resp, raw, alive, wire>>

\* The kernel follows the pointers, at any time until it settles the send.
KernelReads ==
    /\ phase["send"] = "lent"
    /\ wire' = [reason |-> raw.reason, ctype |-> raw.ctype,
                headers |-> IF raw.heads = Null THEN <<>> ELSE SubSeq(raw.unknown, 1, raw.count),
                body |-> IF raw.chunks = Null THEN 0 ELSE raw.chunk,
                cache |-> resp.cache]
    /\ UNCHANGED <<pc, resp, raw, alive, ioVars>>

\* The send ends; a successful one has read everything.
KernelSettles(o) ==
    /\ Io!Settle("send", o)
    /\ o = "sent" => wire # NoWire
    /\ UNCHANGED <<pc, resp, raw, alive, wire>>

Resolved ==
    /\ Goto("await", "done") /\ Io!Resolve("send")
    /\ UNCHANGED <<resp, raw, alive, wire>>

\* The slot is aborted in its await: the operation is cancelled and its end is
\* waited for.
Abort ==
    /\ Goto("await", "cancel")
    /\ UNCHANGED <<resp, raw, alive, wire, ioVars>>

\* The operation lets go; RawResponse and Response are dropped.
Release ==
    /\ pc \in {"done", "cancel"} /\ Io!Leave("send")
    /\ pc' = "dropped" /\ alive' = FALSE
    /\ UNCHANGED <<resp, raw, wire>>

\* The next request's handler.
Again(n) ==
    /\ Goto("dropped", "build")
    /\ resp' = New(n) /\ raw' = Blank /\ alive' = TRUE /\ wire' = NoWire
    /\ UNCHANGED ioVars

Next ==
    \/ \E n \in Bodies : WithBody(n)
    \/ \E n \in Texts : WithContentType(n) \/ \E v \in Texts : WithHeader(n, v)
    \/ CacheInKernel
    \/ ToRaw \/ AsPtr \/ Call \/ KernelReads \/ Resolved \/ Abort \/ Release
    \/ \E o \in {"sent", "failed"} : KernelSettles(o)
    \/ \E n \in Reasons : Again(n)

Spec == Init /\ [][Next]_vars

-----------------------------------------------------------------------------
(* Properties.                                                             *)

\* While the kernel can read it, what it was given is allocated and where the
\* links say: the structure has not moved since it was linked, and no length
\* or count reaches past the text, body or array behind its pointer.
KernelReadsLiveMemory ==
    phase["send"] = "lent" =>
        /\ alive
        /\ raw.chunks # Null => raw.chunks = raw.at /\ raw.chunk <= resp.body
        /\ raw.heads # Null => raw.count <= Len(resp.headers)
        /\ raw.reason <= resp.reason /\ raw.ctype <= resp.ctype
        /\ \A i \in 1..raw.count : \A j \in 1..2 : raw.unknown[i][j] <= resp.headers[i][j]

\* Everything fits the fields of HTTP_RESPONSE_V2.
Fits(r) ==
    /\ r.body < U32 /\ r.ctype < U16 /\ Len(r.headers) < U16
    /\ \A i \in 1..Len(r.headers) : \A j \in 1..2 : r.headers[i][j] < U16

\* A send that succeeds has sent the response that was built, complete with
\* its headers and body, whichever of them are absent or empty, provided that
\* no length overflows its field.  (A body of exactly 2^32 bytes is sent as
\* none.)
SentIsBuilt == outcome["send"] = "sent" /\ Fits(resp) => wire = resp
=============================================================================
