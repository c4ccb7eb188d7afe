---------------------------- MODULE ReceiveProofs ---------------------------
(***************************************************************************)
(* The receive path for any number of slots and requests, any shapes and   *)
(* any buffer sizes.                                                       *)
(***************************************************************************)
EXTENDS Receive, TLAPS

\* Allocations are within what the ceiling rounds up to.
BufInv ==
    \A s \in Slots : \A b \in {buf[s]} \cup free[s] \cup kept[s] :
        MinWords <= b.words /\ b.words <= Words(Ceiling)

\* What is needed was said about the request that the slot has in hand.
Enough(s) == needed[s] = 0 \/ (hand[s] # NoReq /\ needed[s] >= shape[hand[s]].hdr)

\* How the slot's locals and its buffer go with the request it was given.
HandInv ==
    \A s \in Slots :
        /\ hand[s] # NoReq => state[hand[s]] # "new"
        /\ spc[s] = "copy" => id[s] = NoReq /\ hand[s] = NoReq /\ needed[s] = 0
        /\ spc[s] = "plain" => id[s] = hand[s] /\ Enough(s)
        /\ spc[s] = "too_large" => buf[s].req = hand[s] /\ hand[s] # NoReq /\ Enough(s)
        /\ spc[s] = "received" => buf[s].req \in {hand[s], NoReq} /\ hand[s] # NoReq
        /\ spc[s] \in {"handler", "send", "panicked"} => id[s] = hand[s] /\ hand[s] # NoReq
        /\ spc[s] = "not_found" => id[s] = NoReq /\ hand[s] # NoReq

RInv == TypeOK /\ BufInv /\ HandInv

\* "Buffers are kilobytes, so the cast can never truncate in practice."
SmallBuffers == Words(Ceiling) * Word < U32

\* Buffers start at their initial size and only grow.
NotSmaller ==
    \A s \in Slots : \A b \in {buf[s]} \cup free[s] \cup kept[s] : Words(InitBytes) <= b.words

\* The header block survives fit_body_inline, but for requests that make an
\* initial buffer grow.
NoWipe ==
    \A s \in Slots :
        /\ spc[s] = "received" => buf[s].req = hand[s] \/ Grows(shape[hand[s]])
        /\ spc[s] = "not_found" => Grows(shape[hand[s]])

WInv == RInv /\ NotSmaller /\ NoWipe /\ NoRequestAbandoned

-----------------------------------------------------------------------------
(* The buffers.                                                            *)

LEMMA CeilingFacts ==
    Ceiling \in Nat /\ InitBytes \in Nat /\ InitBytes <= Ceiling
BY ConstantsAssumption DEF Ceiling

\* RequestBuffer::new rounds up, by less than a word, and keeps the order.
LEMMA WordsFacts ==
    ASSUME NEW n \in Nat
    PROVE  /\ Words(n) \in Nat /\ n <= Words(n) * Word /\ MinWords <= Words(n)
           /\ Words(n) * Word < n + Word \/ Words(n) = MinWords
BY ConstantsAssumption DEF Words, Word

LEMMA WordsMonotone ==
    ASSUME NEW m \in Nat, NEW n \in Nat, m <= n
    PROVE  Words(m) <= Words(n)
BY ConstantsAssumption DEF Words, Word

LEMMA NewBufferTyped ==
    ASSUME NEW n \in Nat
    PROVE  /\ NewBuffer(n) \in BufferType
           /\ NewBuffer(n).words = Words(n) /\ NewBuffer(n).req = NoReq
BY WordsFacts, Zenon DEF NewBuffer, BufferType

\* fit_body_inline keeps a buffer as it is or replaces it by an empty one that
\* is within the ceiling.
LEMMA GrownFacts ==
    ASSUME NEW b \in BufferType, NEW sh \in Shapes,
           MinWords <= b.words, b.words <= Words(Ceiling)
    PROVE  /\ Grown(b, sh) \in BufferType
           /\ MinWords <= Grown(b, sh).words /\ Grown(b, sh).words <= Words(Ceiling)
           /\ Grown(b, sh).req \in {b.req, NoReq}
<1>1. sh.declared \in Int /\ HEADER_SLACK \in Nat
  BY ConstantsAssumption DEF ShapeType, NoLength, Garbled
<1>2. CASE sh.declared >= 0 /\ Fits(sh) /\ Needed(sh) > Capacity(b)
  <2>1. Needed(sh) \in Nat /\ Needed(sh) <= Ceiling
    BY <1>1, <1>2 DEF Needed, Fits, NoLength
  <2>2. Grown(b, sh) = NewBuffer(Needed(sh))
    BY <1>2, Zenon DEF Grown
  <2>. QED  BY <2>1, <2>2, NewBufferTyped, CeilingFacts, WordsFacts, WordsMonotone, Zenon
<1>3. CASE ~(sh.declared >= 0 /\ Fits(sh) /\ Needed(sh) > Capacity(b))
  BY <1>3, Zenon DEF Grown
<1>. QED  BY <1>2, <1>3, Zenon

\* A buffer as the slots have them.
Good(b) == b \in BufferType /\ MinWords <= b.words /\ b.words <= Words(Ceiling)

\* With small buffers the cast to u32 changes nothing.
LEMMA CapacityExact ==
    ASSUME SmallBuffers, NEW b, Good(b)
    PROVE  Capacity(b) = b.words * Word
<1>1. b.words \in Nat /\ Words(Ceiling) \in Nat /\ b.words <= Words(Ceiling)
  BY CeilingFacts, WordsFacts, Zenon DEF Good, BufferType
<1>2. b.words * 8 \in Nat /\ b.words * 8 < U32 /\ U32 \in Nat \ {0}
  BY <1>1, ConstantsAssumption DEF SmallBuffers, Word
<1>. QED  BY <1>2 DEF Capacity, Word

\* Such a buffer is replaced by a larger one, and only for a request that makes
\* an initial buffer grow.
LEMMA GrownSmall ==
    ASSUME SmallBuffers, NEW b, Good(b), Words(InitBytes) <= b.words, NEW sh \in Shapes
    PROVE  /\ b.words <= Grown(b, sh).words
           /\ Grown(b, sh) # b => Grows(sh)
<1>1. sh.declared \in Int /\ HEADER_SLACK \in Nat
  BY ConstantsAssumption DEF ShapeType, NoLength, Garbled
<1>2. CASE sh.declared >= 0 /\ Fits(sh) /\ Needed(sh) > Capacity(b)
  <2>1. Needed(sh) \in Nat /\ Needed(sh) <= Ceiling /\ Needed(sh) = sh.declared + HEADER_SLACK
    BY <1>1, <1>2 DEF Needed, Fits, NoLength
  <2>2. Grown(b, sh).words = Words(Needed(sh))
    BY <1>2, <2>1, NewBufferTyped, Zenon DEF Grown
  <2>3. b.words \in Nat /\ Words(InitBytes) \in Nat /\ Words(Needed(sh)) \in Nat
    BY <2>1, CeilingFacts, WordsFacts, Zenon DEF Good, BufferType
  <2>4. b.words * 8 < Needed(sh) /\ Needed(sh) <= Words(Needed(sh)) * 8
    BY <1>2, <2>1, <2>3, CapacityExact, WordsFacts DEF Word
  <2>5. b.words <= Words(Needed(sh)) /\ Words(InitBytes) * 8 < Needed(sh)
    BY <2>1, <2>3, <2>4
  <2>. QED  BY <1>2, <2>1, <2>2, <2>5 DEF Grows, Word
<1>3. CASE ~(sh.declared >= 0 /\ Fits(sh) /\ Needed(sh) > Capacity(b))
  <2>1. Grown(b, sh) = b /\ b.words \in Nat
    BY <1>3, Zenon DEF Grown, Good, BufferType
  <2>. QED  BY <2>1
<1>. QED  BY <1>2, <1>3, Zenon

LEMMA GoodBuffers ==
    RInv => \A s \in Slots : Good(buf[s]) /\ \A b \in free[s] \cup kept[s] : Good(b)
BY Zenon DEF RInv, TypeOK, BufInv, Good

\* A request of this buffer is put into it by the kernel.
LEMMA GoodFilled ==
    ASSUME NEW b, Good(b), NEW r \in Requests \cup {NoReq}
    PROVE  /\ Good([b EXCEPT !.req = r]) /\ [b EXCEPT !.req = r].req = r
           /\ [b EXCEPT !.req = r].words = b.words
BY Zenon DEF Good, BufferType

LEMMA ReceiveInit == Init => WInv
<1>. SUFFICES ASSUME Init PROVE WInv
  OBVIOUS
<1>1. \A r \in Requests : shape[r] \in Shapes
  BY ConstantsAssumption, Zenon DEF Init
<1>2. TypeOK
  BY <1>1, ConstantsAssumption, NewBufferTyped DEF Init, TypeOK
<1>3. BufInv /\ NotSmaller
  <2>1. Words(InitBytes) \in Nat /\ MinWords <= Words(InitBytes) /\ Words(InitBytes) <= Words(Ceiling)
    BY CeilingFacts, WordsFacts, WordsMonotone, Zenon
  <2>2. \A s \in Slots : \A b \in {buf[s]} \cup free[s] \cup kept[s] : b.words = Words(InitBytes)
    BY CeilingFacts, NewBufferTyped, Zenon DEF Init
  <2>. QED  BY <2>1, <2>2 DEF BufInv, NotSmaller
<1>4. HandInv /\ NoWipe /\ NoRequestAbandoned
  BY Zenon DEF Init, HandInv, NoWipe, NoRequestAbandoned
<1>. QED  BY <1>2, <1>3, <1>4, Zenon DEF WInv, RInv

-----------------------------------------------------------------------------
(* Every step keeps RInv.                                                  *)

LEMMA GoodStep ==
    ASSUME \A s \in Slots : Good(buf'[s]) /\ \A b \in free'[s] \cup kept'[s] : Good(b)
    PROVE  BufInv'
BY Zenon DEF Good, BufInv

LEMMA ClientStep ==
    ASSUME RInv, NEW r \in Requests, Disconnect(r) \/ \E sh \in Shapes : Arrive(r, sh)
    PROVE  RInv'
<1>1. TypeOK'
  BY DEF RInv, TypeOK, Disconnect, Arrive, slotVars
<1>2. BufInv'
  BY Zenon DEF RInv, BufInv, Disconnect, Arrive, slotVars
<1>3. /\ UNCHANGED slotVars
      /\ \A q \in Requests : state[q] # "new" => state'[q] # "new" /\ shape'[q] = shape[q]
  BY Zenon DEF RInv, TypeOK, Disconnect, Arrive
<1>4. \A s \in Slots : hand[s] \in Requests \cup {NoReq}
  BY Zenon DEF RInv, TypeOK
<1>5. HandInv'
  BY <1>3, <1>4, Zenon DEF RInv, HandInv, Enough, slotVars
<1>. QED  BY <1>1, <1>2, <1>5, Zenon DEF RInv

LEMMA TakeStep ==
    ASSUME RInv, NEW s \in Slots, Take(s)
    PROVE  RInv'
<1>1. PICK n : Good(n) /\ buf' = [buf EXCEPT ![s] = n]
  <2>1. \A b \in free[s] : Good([b EXCEPT !.req = NoReq])
    BY GoodBuffers, GoodFilled, Zenon
  <2>2. Good(NewBuffer(InitBytes))
    BY CeilingFacts, NewBufferTyped, WordsFacts, WordsMonotone, Zenon DEF Good
  <2>. QED  BY <2>1, <2>2, Zenon DEF Take
<1>3. kept' = kept /\ free' \in {free, [free EXCEPT ![s] = {}]}
  BY Zenon DEF Take
<1>4. TypeOK'
  BY <1>1, <1>3, Zenon DEF RInv, TypeOK, Take, Goto, Good, kernelVars
<1>5. BufInv'
  BY <1>1, <1>3, GoodBuffers, GoodStep, Zenon DEF RInv, TypeOK
<1>6. HandInv'
  BY DEF RInv, TypeOK, HandInv, Enough, Take, Goto, kernelVars
<1>. QED  BY <1>4, <1>5, <1>6, Zenon DEF RInv

\* The history is a shape or nothing.
LEMMA RecallTyped ==
    ASSUME TypeOK, NEW s \in Slots, NEW r \in Requests, Recall(s, r)
    PROVE  learnt' \in [Slots -> Shapes \cup {NoShape}]
BY Zenon DEF TypeOK, Recall

\* The kernel gives the slot a request, or says that there is no room for it.
LEMMA CopyStep ==
    ASSUME RInv, NEW s \in Slots, NEW r \in Requests, CopyOk(s, r) \/ CopyMoreData(s, r)
    PROVE  RInv'
<1>1. buf' \in {buf, [buf EXCEPT ![s] = [buf[s] EXCEPT !.req = r]]} /\ free' = free /\ kept' = kept
  BY Zenon DEF CopyOk, CopyMoreData
<1>2. Good([buf[s] EXCEPT !.req = r])
  BY GoodBuffers, GoodFilled, Zenon
<1>3. shape[r] \in ShapeType
  BY ConstantsAssumption, Zenon DEF RInv, TypeOK
<1>4. shape[r].hdr + shape[r].body \in Nat /\ shape[r].hdr + shape[r].body >= shape[r].hdr
  BY <1>3 DEF ShapeType
<1>5. TypeOK'
  <2>1. CASE CopyOk(s, r)
    BY <1>2, <2>1, RecallTyped, Zenon DEF RInv, TypeOK, CopyOk, Goto, Good
  <2>2. CASE CopyMoreData(s, r)
    BY <1>4, <2>2, ConstantsAssumption DEF RInv, TypeOK, CopyMoreData, Report, Goto
  <2>. QED  BY <2>1, <2>2, Zenon
<1>6. BufInv'
  BY <1>1, <1>2, GoodBuffers, GoodStep, Zenon DEF RInv, TypeOK
<1>7. HandInv'
  <2>1. CASE CopyOk(s, r)
    BY <2>1, GoodFilled, GoodBuffers, ConstantsAssumption DEF RInv, TypeOK, BufferType, HandInv, Enough, CopyOk, Goto
  <2>2. CASE CopyMoreData(s, r)
    BY <1>4, <2>2, ConstantsAssumption DEF RInv, TypeOK, HandInv, Enough, CopyMoreData, Report, Goto
  <2>. QED  BY <2>1, <2>2, Zenon
<1>. QED  BY <1>5, <1>6, <1>7, Zenon DEF RInv

LEMMA PlainOkStep ==
    ASSUME RInv, NEW s \in Slots, NEW r \in Requests, PlainOk(s, r)
    PROVE  RInv'
<1>1. PICK b : b = Grown([buf[s] EXCEPT !.req = r], shape[r])
  BY Zenon
<1>2. Good([buf[s] EXCEPT !.req = r]) /\ [buf[s] EXCEPT !.req = r].req = r
  BY GoodBuffers, GoodFilled, Zenon
<1>3. shape[r] \in Shapes
  BY Zenon DEF RInv, TypeOK
<1>4. Good(b) /\ b.req \in {r, NoReq}
  BY <1>1, <1>2, <1>3, GrownFacts, Zenon DEF Good
<1>5. buf' = [buf EXCEPT ![s] = b] /\ free' = free /\ kept' = kept
  BY <1>1, Zenon DEF PlainOk
<1>6. Fits(shape[r]) \in BOOLEAN
  BY Zenon DEF Fits
<1>7. TypeOK'
  BY <1>4, <1>5, <1>6, RecallTyped DEF RInv, TypeOK, PlainOk, Goto, Good
<1>8. BufInv'
  BY <1>4, <1>5, GoodBuffers, GoodStep, Zenon DEF RInv, TypeOK
<1>9. HandInv'
  BY <1>4, <1>5, ConstantsAssumption DEF RInv, TypeOK, HandInv, Enough, PlainOk, Goto
<1>. QED  BY <1>7, <1>8, <1>9, Zenon DEF RInv

LEMMA PlainMoreDataStep ==
    ASSUME RInv, NEW s \in Slots, NEW r \in Requests, PlainMoreData(s, r)
    PROVE  RInv'
<1>1. PICK b : b = [buf[s] EXCEPT !.req = r]
  BY Zenon
<1>2. Good(b) /\ b.req = r
  BY <1>1, GoodBuffers, GoodFilled, Zenon
<1>3. buf' = [buf EXCEPT ![s] = b] /\ free' = free /\ kept' = kept
  BY <1>1, Zenon DEF PlainMoreData
<1>4. shape[r] \in ShapeType /\ shape[r].hdr \in Nat
  BY ConstantsAssumption DEF RInv, TypeOK, ShapeType
<1>5. TypeOK'
  BY <1>2, <1>3, <1>4, RecallTyped DEF RInv, TypeOK, PlainMoreData, Report, Goto, Good
<1>6. BufInv'
  BY <1>2, <1>3, GoodBuffers, GoodStep, Zenon DEF RInv, TypeOK
<1>7. HandInv'
  BY <1>2, <1>3, <1>4, ConstantsAssumption
  DEF RInv, TypeOK, HandInv, Enough, PlainMoreData, Asked, Report, Goto
<1>. QED  BY <1>5, <1>6, <1>7, Zenon DEF RInv

\* The steps of slot_loop, which leave the buffer alone or pass it on.
LEMMA LoopStep ==
    ASSUME RInv, NEW s \in Slots,
           \/ ReceiveFails(s) \/ ReplyTooLarge(s) \/ Route(s) \/ HandlerReturns(s)
           \/ HandlerPanics(s) \/ SendResponse(s) \/ DropKept(s)
    PROVE  RInv'
<1>. USE DEF ReceiveFails, ReplyTooLarge, Route, HandlerReturns, HandlerPanics, LetGo, SendResponse, DropKept
<1>1. /\ buf' = buf /\ UNCHANGED <<shape, copyBody, needed, hand>>
      /\ learnt' \in {learnt, [learnt EXCEPT ![s] = NoShape]}
  BY Zenon DEF kernelVars
<1>2. \E F, K \in SUBSET (free[s] \cup kept[s] \cup {buf[s]}) :
         free' = [free EXCEPT ![s] = F] /\ kept' = [kept EXCEPT ![s] = K]
  BY DEF Return, RInv, TypeOK
<1>3. BufInv'
  BY <1>1, <1>2, GoodBuffers, GoodStep DEF RInv, TypeOK
<1>4. \A r \in Requests : state'[r] \in {state[r], "answered"}
  BY Zenon DEF Answered, kernelVars, RInv, TypeOK
<1>5. state' \in [Requests -> {"new", "queued", "held", "taken", "answered", "gone"}]
  BY DEF Answered, kernelVars, RInv, TypeOK
<1>6. /\ free' \in [Slots -> SUBSET BufferType] /\ kept' \in [Slots -> SUBSET BufferType]
  BY <1>2 DEF RInv, TypeOK
<1>7. /\ spc' \in [Slots -> {"top", "copy", "plain", "too_large", "received", "handler", "send", "not_found", "panicked"}]
      /\ id' \in [Slots -> Requests \cup {NoReq}]
  BY ZenonT(30) DEF RInv, TypeOK, Goto, BufferType
<1>8. TypeOK'
  BY <1>1, <1>5, <1>6, <1>7, Zenon DEF RInv, TypeOK
<1>9. HandInv'
  BY <1>1, <1>4 DEF RInv, TypeOK, HandInv, Enough, Goto
<1>. QED  BY <1>3, <1>8, <1>9, Zenon DEF RInv

LEMMA ReceiveStep == RInv /\ [Next]_vars => RInv'
<1>1. ASSUME RInv, Next  PROVE RInv'
  BY <1>1, ClientStep, TakeStep, CopyStep, PlainOkStep, PlainMoreDataStep, LoopStep, Zenon DEF Next, SlotRuns
<1>2. ASSUME RInv, UNCHANGED vars  PROVE RInv'
  BY <1>2, Zenon DEF vars, kernelVars, slotVars, RInv, TypeOK, BufInv, HandInv, Enough
<1>. QED  BY <1>1, <1>2, Zenon

-----------------------------------------------------------------------------
(* No request gets lost between two receives.                              *)

\* Buffers get no smaller.
LEMMA KeepsSize ==
    ASSUME SmallBuffers, RInv, NotSmaller, Next
    PROVE  NotSmaller'
<1>. DEFINE Large(b) == Words(InitBytes) <= b.words
<1>. DEFINE Larger == \A s \in Slots : Large(buf'[s]) /\ \A b \in free'[s] \cup kept'[s] : Large(b)
<1>1. \A s \in Slots : Large(buf[s]) /\ \A b \in free[s] \cup kept[s] : Large(b)
  BY Zenon DEF NotSmaller
<1>2. SUFFICES Larger
  BY Zenon DEF NotSmaller
<1>3. ASSUME NEW b, Good(b), Large(b), NEW r \in Requests \cup {NoReq}
      PROVE  Large([b EXCEPT !.req = r])
  BY <1>3, GoodFilled, Zenon
<1>4. CASE \E r \in Requests : Disconnect(r) \/ \E sh \in Shapes : Arrive(r, sh)
  BY <1>1, <1>4, Zenon DEF Disconnect, Arrive, slotVars
<1>5. ASSUME NEW s \in Slots, Take(s)  PROVE Larger
  <2>1. Large(NewBuffer(InitBytes))
    BY CeilingFacts, NewBufferTyped, WordsFacts
  <2>2. \A b \in free[s] : Large([b EXCEPT !.req = NoReq])
    BY <1>1, <1>3, GoodBuffers, Zenon
  <2>3. \E n : Large(n) /\ buf' = [buf EXCEPT ![s] = n]
    BY <1>5, <2>1, <2>2, Zenon DEF Take
  <2>4. kept' = kept /\ free' \in {free, [free EXCEPT ![s] = {}]}
    BY <1>5, Zenon DEF Take
  <2>. QED  BY <1>1, <2>3, <2>4, Zenon DEF RInv, TypeOK
<1>6. ASSUME NEW s \in Slots, NEW r \in Requests,
             CopyOk(s, r) \/ CopyMoreData(s, r) \/ PlainOk(s, r) \/ PlainMoreData(s, r)
      PROVE  Larger
  <2>1. PICK b : b = [buf[s] EXCEPT !.req = r]
    BY Zenon
  <2>2. Good(b) /\ Large(b) /\ Large(buf[s])
    BY <1>1, <1>3, <2>1, GoodBuffers, GoodFilled, Zenon
  <2>3. Large(Grown(b, shape[r]))
    <3>1. Good(Grown(b, shape[r])) /\ b.words <= Grown(b, shape[r]).words
      BY <2>2, GrownFacts, GrownSmall, Zenon DEF RInv, TypeOK, Good
    <3>2. Words(InitBytes) \in Nat /\ b.words \in Nat /\ Grown(b, shape[r]).words \in Nat
      BY <2>2, <3>1, CeilingFacts, WordsFacts, Zenon DEF Good, BufferType
    <3>. QED  BY <2>2, <3>1, <3>2
  <2>4. /\ kept' = kept /\ free' = free
        /\ buf' \in {buf, [buf EXCEPT ![s] = b], [buf EXCEPT ![s] = Grown(b, shape[r])]}
    BY <1>6, <2>1, Zenon DEF CopyOk, CopyMoreData, PlainOk, PlainMoreData
  <2>. QED  BY <1>1, <2>2, <2>3, <2>4, Zenon DEF RInv, TypeOK
<1>7. ASSUME NEW s \in Slots,
             \/ ReceiveFails(s) \/ ReplyTooLarge(s) \/ Route(s) \/ HandlerReturns(s)
             \/ HandlerPanics(s) \/ SendResponse(s) \/ DropKept(s)
      PROVE  Larger
  <2>1. buf' = buf
    BY <1>7, Zenon DEF ReceiveFails, ReplyTooLarge, Route, HandlerReturns, HandlerPanics, SendResponse, DropKept
  <2>2. \E F, K \in SUBSET (free[s] \cup kept[s] \cup {buf[s]}) :
           free' = [free EXCEPT ![s] = F] /\ kept' = [kept EXCEPT ![s] = K]
    BY <1>7 DEF ReceiveFails, ReplyTooLarge, Route, HandlerReturns, HandlerPanics, LetGo, SendResponse,
                DropKept, Return, RInv, TypeOK
  <2>. QED  BY <1>1, <2>1, <2>2 DEF RInv, TypeOK
<1>. QED  BY <1>4, <1>5, <1>6, <1>7, Zenon DEF Next, SlotRuns

\* The slot that is given a request keeps it or lets it go because the buffer
\* was replaced, and abandons no other.
LEMMA HandedOver ==
    ASSUME NoRequestAbandoned, NEW s \in Slots, NEW r \in Requests,
           NoReq \notin Requests, hand[s] \in {r, NoReq}, shape' = shape,
           \A q \in Requests : q # r => state'[q] = state[q],
           \A t \in Slots : t # s =>
               spc'[t] = spc[t] /\ id'[t] = id[t] /\ hand'[t] = hand[t] /\ buf'[t] = buf[t],
           hand'[s] = r,
           \/ spc'[s] = "plain" /\ id'[s] = r
           \/ spc'[s] \in {"too_large", "received"} /\ buf'[s].req = r
           \/ Grows(shape[r])
    PROVE  NoRequestAbandoned'
<1>. SUFFICES ASSUME NEW q \in Requests, state'[q] \in {"held", "taken"}
              PROVE  Grows(shape'[q]) \/ \E t \in Slots : Holds(t, q)'
  BY Zenon DEF NoRequestAbandoned
<1>1. Holds(s, r)' \/ Grows(shape'[r])
  BY Zenon DEF Holds
<1>2. CASE q = r
  BY <1>1, <1>2, Zenon
<1>3. CASE q # r
  <2>1. Grows(shape'[q]) \/ \E t \in Slots : Holds(t, q)
    BY <1>3, Zenon DEF NoRequestAbandoned
  <2>2. ASSUME NEW t \in Slots, Holds(t, q)  PROVE Holds(t, q)'
    <3>1. t # s
      BY <1>3, <2>2, Zenon DEF Holds
    <3>. QED  BY <2>2, <3>1, Zenon DEF Holds
  <2>. QED  BY <2>1, <2>2, Zenon
<1>. QED  BY <1>2, <1>3, Zenon

\* A slot that has let its request go leaves nothing behind that http.sys
\* still holds for it.
LEMMA WholeStep ==
    ASSUME SmallBuffers, WInv, Next
    PROVE  NoWipe' /\ NoRequestAbandoned'
<1>. USE DEF WInv, RInv
<1>1. ASSUME NEW r \in Requests, Disconnect(r) \/ \E sh \in Shapes : Arrive(r, sh)
      PROVE  NoWipe' /\ NoRequestAbandoned'
  <2>1. /\ UNCHANGED slotVars
        /\ \A q \in Requests : state'[q] \in {"held", "taken"} => state[q] \in {"held", "taken"}
        /\ \A q \in Requests : state[q] # "new" => shape'[q] = shape[q]
    BY <1>1, Zenon DEF TypeOK, Disconnect, Arrive
  <2>2. ASSUME NEW s \in Slots, spc[s] \in {"received", "not_found"}
        PROVE  shape'[hand[s]] = shape[hand[s]]
    <3>1. hand[s] \in Requests \cup {NoReq}
      BY Zenon DEF TypeOK
    <3>2. hand[s] # NoReq /\ state[hand[s]] # "new"
      BY <2>2, Zenon DEF HandInv
    <3>. QED  BY <2>1, <3>1, <3>2, Zenon
  <2>3. NoWipe'
    BY <2>1, <2>2, Zenon DEF NoWipe, slotVars
  <2>4. ASSUME NEW q \in Requests, state'[q] \in {"held", "taken"}
        PROVE  Grows(shape'[q]) \/ \E s \in Slots : Holds(s, q)'
    <3>1. state[q] \in {"held", "taken"} /\ shape'[q] = shape[q]
      BY <2>1, <2>4, Zenon
    <3>. QED  BY <2>1, <3>1, Zenon DEF NoRequestAbandoned, Holds, slotVars
  <2>. QED  BY <2>3, <2>4, Zenon DEF NoRequestAbandoned
<1>2. ASSUME NEW s \in Slots, Take(s)  PROVE NoWipe' /\ NoRequestAbandoned'
  BY <1>2 DEF TypeOK, NoWipe, NoRequestAbandoned, Holds, Take, Goto, kernelVars
<1>3. ASSUME NEW s \in Slots, NEW r \in Requests, CopyOk(s, r)  PROVE NoWipe' /\ NoRequestAbandoned'
  <2>1. /\ spc' = [spc EXCEPT ![s] = "received"] /\ hand' = [hand EXCEPT ![s] = r] /\ id' = id
        /\ state' = [state EXCEPT ![r] = "taken"] /\ hand[s] = NoReq /\ shape' = shape
        /\ buf' = [buf EXCEPT ![s] = [buf[s] EXCEPT !.req = r]]
    BY <1>3, Zenon DEF CopyOk, Goto, HandInv
  <2>2. buf'[s].req = r
    BY <2>1, Zenon DEF TypeOK, BufferType
  <2>3. NoRequestAbandoned'
    BY <2>1, <2>2, HandedOver, ConstantsAssumption, Zenon DEF TypeOK
  <2>. QED  BY <2>1, <2>2, <2>3, Zenon DEF TypeOK, NoWipe
<1>4. ASSUME NEW s \in Slots, NEW r \in Requests, CopyMoreData(s, r)  PROVE NoWipe' /\ NoRequestAbandoned'
  <2>1. /\ spc' = [spc EXCEPT ![s] = "plain"] /\ hand' = [hand EXCEPT ![s] = r] /\ buf' = buf
        /\ id' = [id EXCEPT ![s] = r] /\ shape' = shape
        /\ state' = [state EXCEPT ![r] = "held"] /\ hand[s] = NoReq
    BY <1>4, Zenon DEF CopyMoreData, Goto, HandInv
  <2>2. NoRequestAbandoned'
    BY <2>1, HandedOver, ConstantsAssumption DEF TypeOK
  <2>. QED  BY <2>1, <2>2, Zenon DEF TypeOK, NoWipe
<1>5. ASSUME NEW s \in Slots, NEW r \in Requests, PlainOk(s, r)  PROVE NoWipe' /\ NoRequestAbandoned'
  <2>1. PICK b : b = [buf[s] EXCEPT !.req = r]
    BY Zenon
  <2>2. Good(b) /\ b.req = r /\ Words(InitBytes) <= b.words
    <3>1. Good(buf[s])
      BY GoodBuffers, Zenon
    <3>2. Words(InitBytes) <= buf[s].words
      BY Zenon DEF NotSmaller
    <3>. QED  BY <2>1, <3>1, <3>2, GoodFilled, Zenon
  <2>3. Grown(b, shape[r]).req = r \/ Grows(shape[r])
    BY <2>2, GrownSmall, Zenon DEF TypeOK
  <2>4. /\ spc' = [spc EXCEPT ![s] = "received"] /\ hand' = [hand EXCEPT ![s] = r] /\ id' = id
        /\ state' = [state EXCEPT ![r] = "taken"] /\ hand[s] \in {r, NoReq} /\ shape' = shape
        /\ buf' = [buf EXCEPT ![s] = Grown(b, shape[r])]
    BY <1>5, <2>1, Zenon DEF PlainOk, Asked, Goto, HandInv
  <2>5. buf'[s].req = r \/ Grows(shape[r])
    BY <2>3, <2>4, Zenon DEF TypeOK
  <2>6. NoRequestAbandoned'
    BY <2>4, <2>5, HandedOver, ConstantsAssumption, Zenon DEF TypeOK
  <2>. QED  BY <2>4, <2>5, <2>6, Zenon DEF TypeOK, NoWipe
<1>6. ASSUME NEW s \in Slots, NEW r \in Requests, PlainMoreData(s, r)  PROVE NoWipe' /\ NoRequestAbandoned'
  <2>1. /\ spc' = [spc EXCEPT ![s] = "too_large"] /\ hand' = [hand EXCEPT ![s] = r] /\ id' = id
        /\ state' = [state EXCEPT ![r] = "held"] /\ hand[s] \in {r, NoReq} /\ shape' = shape
        /\ buf' = [buf EXCEPT ![s] = [buf[s] EXCEPT !.req = r]]
    BY <1>6, Zenon DEF PlainMoreData, Asked, Goto, HandInv
  <2>2. buf'[s].req = r
    BY <2>1 DEF TypeOK, BufferType
  <2>3. NoRequestAbandoned'
    BY <2>1, <2>2, HandedOver, ConstantsAssumption, Zenon DEF TypeOK
  <2>. QED  BY <2>1, <2>2, <2>3, Zenon DEF TypeOK, NoWipe
<1>7. ASSUME NEW s \in Slots, ReceiveFails(s)  PROVE NoWipe' /\ NoRequestAbandoned'
  BY <1>7, ConstantsAssumption DEF TypeOK, HandInv, NoWipe, NoRequestAbandoned, Holds, ReceiveFails, Goto, kernelVars
<1>8. ASSUME NEW s \in Slots, ReplyTooLarge(s)  PROVE NoWipe' /\ NoRequestAbandoned'
  BY <1>8, ConstantsAssumption DEF TypeOK, HandInv, NoWipe, NoRequestAbandoned, Holds, ReplyTooLarge, Answered, Goto
<1>9. ASSUME NEW s \in Slots, Route(s)  PROVE NoWipe' /\ NoRequestAbandoned'
  BY <1>9, ConstantsAssumption DEF TypeOK, HandInv, NoWipe, NoRequestAbandoned, Holds, Route, Goto, kernelVars
<1>10. ASSUME NEW s \in Slots, HandlerReturns(s) \/ HandlerPanics(s) \/ DropKept(s)
       PROVE  NoWipe' /\ NoRequestAbandoned'
  BY <1>10 DEF TypeOK, HandInv, NoWipe, NoRequestAbandoned, Holds, HandlerReturns, HandlerPanics, DropKept, Goto, kernelVars
<1>11. ASSUME NEW s \in Slots, SendResponse(s)  PROVE NoWipe' /\ NoRequestAbandoned'
  BY <1>11, ConstantsAssumption DEF TypeOK, HandInv, NoWipe, NoRequestAbandoned, Holds, SendResponse, Answered, Goto
<1>. QED  BY <1>1, <1>2, <1>3, <1>4, <1>5, <1>6, <1>7, <1>8, <1>9, <1>10, <1>11, Zenon DEF Next, SlotRuns

-----------------------------------------------------------------------------
(* The theorems.                                                           *)

LEMMA ReceiveInvariant == Spec => []RInv
<1>1. Init => RInv
  BY ReceiveInit, Zenon DEF WInv
<1>. QED  BY <1>1, ReceiveStep, PTL DEF Spec

LEMMA WholeInvariant ==
    ASSUME SmallBuffers
    PROVE  Spec => []WInv
<1>1. WInv /\ [Next]_vars => WInv'
  <2>1. ASSUME WInv, Next  PROVE WInv'
    BY <2>1, ReceiveStep, KeepsSize, WholeStep, Zenon DEF WInv
  <2>2. ASSUME WInv, UNCHANGED vars  PROVE WInv'
    BY <2>2, ReceiveStep, Zenon DEF WInv, NotSmaller, NoWipe, NoRequestAbandoned, Holds, vars, kernelVars, slotVars
  <2>. QED  BY <2>1, <2>2, Zenon
<1>. QED  BY <1>1, ReceiveInit, PTL DEF Spec

\* For any shapes and sizes, the cast to u32 included: whatever lengths clients
\* declare, a slot's buffers stay within the ceiling rounded up to a word, or
\* are as small as a buffer can be.
THEOREM BuffersAreBounded == Spec => []BuffersBounded
<1>1. ASSUME RInv, NEW s \in Slots, NEW b \in {buf[s]} \cup free[s] \cup kept[s]
      PROVE  MinWords <= b.words /\ (b.words * Word < Ceiling + Word \/ b.words = MinWords)
  <2>1. /\ b.words \in Nat /\ MinWords <= b.words /\ b.words <= Words(Ceiling)
        /\ MinWords \in Nat /\ Ceiling \in Nat /\ Words(Ceiling) \in Nat
    BY <1>1, GoodBuffers, CeilingFacts, WordsFacts, ConstantsAssumption DEF Good, BufferType
  <2>2. Words(Ceiling) * Word < Ceiling + Word \/ Words(Ceiling) = MinWords
    BY <2>1, WordsFacts, Zenon
  <2>. QED  BY <2>1, <2>2 DEF Word
<1>2. RInv => BuffersBounded
  BY <1>1, Zenon DEF BuffersBounded
<1>. QED  BY <1>2, ReceiveInvariant, PTL

\* For any shapes and sizes: the size that HeadersTooLarge reports is 0 or
\* enough for the headers of the very request it is about.
THEOREM ReportedSizeSuffices == Spec => []NeededSuffices
<1>1. RInv => NeededSuffices
  BY Zenon DEF RInv, HandInv, Enough, NeededSuffices
<1>. QED  BY <1>1, ReceiveInvariant, PTL

\* For any number of slots and requests of any shapes and any configured sizes
\* below 4 GiB, growing buffers and panicking handlers included: a request that
\* has left the queue is in the hands of a slot or ended it, unless it made its
\* slot's buffer grow.
THEOREM NothingIsAbandoned ==
    ASSUME SmallBuffers
    PROVE  Spec => []NoRequestAbandoned
<1>1. WInv => NoRequestAbandoned
  BY Zenon DEF WInv
<1>. QED  BY <1>1, WholeInvariant, PTL

\* Under the same condition a response goes to the request the slot was given,
\* or, when that request made the buffer grow, to none.
THEOREM AnswersGoRight ==
    ASSUME SmallBuffers
    PROVE  Spec => []AnswersItsRequest
<1>1. WInv => AnswersItsRequest
  BY Zenon DEF WInv, RInv, HandInv, NoWipe, AnswersItsRequest
<1>. QED  BY <1>1, WholeInvariant, PTL

-----------------------------------------------------------------------------
(* A slot learns from a failed copy attempt.                               *)

\* There is room for all of such a request in the buffer.
Room(sh, b) == sh.hdr + sh.body <= Capacity(b)

\* A slot that has learnt something has one buffer, in use or in its pool, and
\* asks for a copy only when it has room for what it learnt.
Learnt(s) ==
    /\ spc[s] = "copy" => copyBody[s]
    /\ learnt[s] # NoShape =>
         /\ kept[s] = {}
         /\ spc[s] \in {"copy", "plain", "too_large", "received", "handler"} => free[s] = {}
         /\ spc[s] \in {"top", "send", "not_found", "panicked"} => free[s] = {buf[s]}
         /\ copyBody[s] /\ Declared(learnt[s]) => Room(learnt[s], buf[s])

LInv == \A s \in Slots : Learnt(s)

\* A step of one slot leaves the others and what they learnt alone.
LEMMA OthersStayLearnt ==
    ASSUME RInv, LInv, NEW s \in Slots, SlotRuns(s) \/ DropKept(s), NEW t \in Slots, t # s
    PROVE  Learnt(t)'
<1>1. /\ kept'[t] = kept[t] /\ free'[t] = free[t] /\ buf'[t] = buf[t] /\ spc'[t] = spc[t]
      /\ copyBody'[t] = copyBody[t] /\ learnt'[t] = learnt[t]
  <2>. DEFINE Same == /\ kept'[t] = kept[t] /\ free'[t] = free[t] /\ buf'[t] = buf[t]
                      /\ spc'[t] = spc[t] /\ copyBody'[t] = copyBody[t] /\ learnt'[t] = learnt[t]
  <2>1. ASSUME NEW r \in Requests, CopyOk(s, r) \/ CopyMoreData(s, r)  PROVE Same
    BY <2>1 DEF CopyOk, CopyMoreData, Recall, Goto, RInv, TypeOK
  <2>2. ASSUME NEW r \in Requests, PlainOk(s, r) \/ PlainMoreData(s, r)  PROVE Same
    BY <2>2 DEF PlainOk, PlainMoreData, Recall, Goto, RInv, TypeOK
  <2>3. CASE Take(s)
    BY <2>3, Zenon DEF Take, Goto, RInv, TypeOK
  <2>4. CASE ReceiveFails(s) \/ ReplyTooLarge(s) \/ Route(s)
    BY <2>4 DEF ReceiveFails, ReplyTooLarge, Route, Return, Goto, RInv, TypeOK
  <2>5. CASE HandlerReturns(s) \/ HandlerPanics(s)
    BY <2>5 DEF HandlerReturns, HandlerPanics, LetGo, Return, Goto, RInv, TypeOK
  <2>6. CASE SendResponse(s) \/ DropKept(s)
    BY <2>6, Zenon DEF SendResponse, DropKept, Goto, RInv, TypeOK
  <2>. QED  BY <2>1, <2>2, <2>3, <2>4, <2>5, <2>6, Zenon DEF SlotRuns
<1>. QED  BY <1>1, Zenon DEF LInv, Learnt, Room, Declared, Capacity

\* fit_body_inline makes room when it says so.
LEMMA FitMakesRoom ==
    ASSUME SmallBuffers, NEW b, Good(b), NEW sh \in Shapes, Fits(sh), Declared(sh)
    PROVE  Room(sh, Grown(b, sh))
<1>1. /\ sh.hdr \in Nat /\ sh.body \in Nat /\ sh.declared = sh.body /\ sh.hdr <= HEADER_SLACK
      /\ HEADER_SLACK \in Nat
  BY ConstantsAssumption DEF Declared, ShapeType
<1>2. /\ Needed(sh) \in Nat /\ sh.hdr + sh.body <= Needed(sh) /\ sh.declared >= 0
      /\ Needed(sh) <= Ceiling
  BY <1>1 DEF Needed, Fits, NoLength
<1>3. Capacity(b) \in Nat
  BY CapacityExact DEF Good, BufferType, Word
<1>4. Needed(sh) <= Capacity(Grown(b, sh))
  <2>1. CASE Needed(sh) > Capacity(b)
    <3>1. Grown(b, sh) = NewBuffer(Needed(sh)) /\ Grown(b, sh).words = Words(Needed(sh))
      BY <1>2, <2>1, NewBufferTyped, Zenon DEF Grown
    <3>2. Good(Grown(b, sh))
      BY GrownFacts, Zenon DEF Good
    <3>. QED  BY <1>2, <3>1, <3>2, CapacityExact, WordsFacts, Zenon
  <2>2. CASE ~(Needed(sh) > Capacity(b))
    BY <1>2, <1>3, <2>2 DEF Grown
  <2>. QED  BY <2>1, <2>2, Zenon
<1>5. Capacity(Grown(b, sh)) \in Nat
  <2>1. Good(Grown(b, sh))
    BY GrownFacts, Zenon DEF Good
  <2>. QED  BY <2>1, CapacityExact DEF Good, BufferType, Word
<1>. QED  BY <1>1, <1>2, <1>4, <1>5 DEF Room

LEMMA SlotLearns ==
    ASSUME SmallBuffers, RInv, LInv, NEW s \in Slots, SlotRuns(s) \/ DropKept(s)
    PROVE  Learnt(s)'
<1>1. Learnt(s)
  BY Zenon DEF LInv
<1>2. CASE Take(s)
  <2>1. /\ spc'[s] = IF copyBody[s] THEN "copy" ELSE "plain"
        /\ kept'[s] = kept[s] /\ free'[s] = {} /\ copyBody'[s] = copyBody[s] /\ learnt'[s] = learnt[s]
    BY <1>2, Zenon DEF Take, Goto, RInv, TypeOK
  <2>2. ASSUME learnt[s] # NoShape  PROVE Capacity(buf'[s]) = Capacity(buf[s])
    <3>1. free[s] = {buf[s]}
      BY <1>1, <1>2, <2>2, Zenon DEF Take, Learnt
    <3>2. buf' = [buf EXCEPT ![s] = [buf[s] EXCEPT !.req = NoReq]]
      BY <1>2, <3>1, Zenon DEF Take
    <3>3. buf'[s].words = buf[s].words
      BY <3>2, Zenon DEF RInv, TypeOK, BufferType
    <3>. QED  BY <3>3, Zenon DEF Capacity
  <2>. QED  BY <1>1, <2>1, <2>2, Zenon DEF Learnt, Room, Declared
<1>3. ASSUME NEW r \in Requests, CopyOk(s, r) \/ PlainMoreData(s, r)  PROVE Learnt(s)'
  <2>1. /\ spc[s] \in {"copy", "plain"} /\ spc'[s] \in {"received", "too_large"}
        /\ buf'[s].words = buf[s].words
        /\ kept'[s] = kept[s] /\ free'[s] = free[s] /\ copyBody'[s] = copyBody[s]
        /\ learnt'[s] \in {learnt[s], NoShape}
    BY <1>3 DEF CopyOk, PlainMoreData, Recall, Goto, RInv, TypeOK, BufferType
  <2>. QED  BY <1>1, <2>1, Zenon DEF Learnt, Room, Declared, Capacity
<1>4. ASSUME NEW r \in Requests, CopyMoreData(s, r)  PROVE Learnt(s)'
  <2>1. /\ spc'[s] = "plain" /\ copyBody'[s] = FALSE
        /\ kept'[s] = kept[s] /\ free'[s] = free[s]
        /\ learnt'[s] # NoShape => free[s] = {} /\ kept[s] = {}
    BY <1>4, Zenon DEF CopyMoreData, Goto, RInv, TypeOK
  <2>. QED  BY <2>1, Zenon DEF Learnt
<1>5. ASSUME NEW r \in Requests, PlainOk(s, r)  PROVE Learnt(s)'
  <2>1. /\ spc[s] = "plain" /\ spc'[s] = "received"
        /\ kept'[s] = kept[s] /\ free'[s] = free[s]
        /\ learnt'[s] # NoShape => learnt'[s] = shape[r] /\ learnt[s] = shape[r]
    BY <1>5, Zenon DEF PlainOk, Recall, Goto, RInv, TypeOK
  <2>2. PICK b : b = [buf[s] EXCEPT !.req = r]
    BY Zenon
  <2>3. buf'[s] = Grown(b, shape[r]) /\ copyBody'[s] = Fits(shape[r]) /\ shape[r] \in Shapes
    BY <1>5, <2>2, Zenon DEF PlainOk, RInv, TypeOK
  <2>4. copyBody'[s] /\ Declared(shape[r]) => Room(shape[r], buf'[s])
    BY <2>2, <2>3, GoodBuffers, GoodFilled, FitMakesRoom, Zenon
  <2>. QED  BY <1>1, <2>1, <2>4, Zenon DEF Learnt, Room, Declared
<1>6. CASE ReceiveFails(s) \/ ReplyTooLarge(s) \/ Route(s) \/ SendResponse(s)
  <2>1. /\ buf' = buf /\ copyBody' = copyBody /\ learnt' = learnt /\ kept' = kept
    BY <1>6, Zenon DEF ReceiveFails, ReplyTooLarge, Route, SendResponse
  <2>2. CASE SendResponse(s)
    BY <1>1, <2>1, <2>2, Zenon DEF SendResponse, Goto, Learnt, Room, RInv, TypeOK
  <2>3. CASE ReceiveFails(s) \/ ReplyTooLarge(s)
    BY <1>1, <2>1, <2>3 DEF ReceiveFails, ReplyTooLarge, Return, Goto, Learnt, Room, RInv, TypeOK
  <2>4. CASE Route(s)
    BY <1>1, <2>1, <2>4 DEF Route, Return, Goto, Learnt, Room, RInv, TypeOK
  <2>. QED  BY <1>6, <2>2, <2>3, <2>4, Zenon
<1>7. CASE HandlerReturns(s) \/ HandlerPanics(s)
  <2>1. /\ buf' = buf /\ copyBody' = copyBody
        /\ spc[s] = "handler" /\ spc'[s] \in {"send", "panicked"}
    BY <1>7, Zenon DEF HandlerReturns, HandlerPanics, Goto, RInv, TypeOK
  <2>2. LetGo(s)
    BY <1>7, Zenon DEF HandlerReturns, HandlerPanics
  <2>3. \/ learnt'[s] = NoShape
        \/ /\ kept' = kept /\ learnt' = learnt
           /\ free[s] = {} => free'[s] = {buf[s]}
    BY <2>2, Zenon DEF LetGo, Return, RInv, TypeOK
  <2>. QED  BY <1>1, <2>1, <2>3, Zenon DEF Learnt, Room
<1>8. CASE DropKept(s)
  <2>1. kept[s] # {} /\ learnt' = learnt /\ spc' = spc /\ copyBody' = copyBody
    BY <1>8, Zenon DEF DropKept
  <2>. QED  BY <1>1, <2>1, Zenon DEF Learnt
<1>. QED  BY <1>2, <1>3, <1>4, <1>5, <1>6, <1>7, <1>8, Zenon DEF SlotRuns

LEMMA LearntInvariant ==
    ASSUME SmallBuffers
    PROVE  Spec => [](RInv /\ LInv)
<1>1. Init => RInv /\ LInv
  BY ReceiveInit, Zenon DEF WInv, Init, LInv, Learnt
<1>2. RInv /\ LInv /\ [Next]_vars => RInv' /\ LInv'
  <2>1. ASSUME RInv, LInv, UNCHANGED slotVars  PROVE LInv'
    BY <2>1, Zenon DEF LInv, Learnt, Room, slotVars
  <2>2. ASSUME RInv, LInv, NEW s \in Slots, SlotRuns(s) \/ DropKept(s)  PROVE LInv'
    BY <2>2, SlotLearns, OthersStayLearnt, Zenon DEF LInv
  <2>3. ASSUME RInv, LInv, NEW r \in Requests, Disconnect(r) \/ \E sh \in Shapes : Arrive(r, sh)
        PROVE  LInv'
    BY <2>1, <2>3, Zenon DEF Disconnect, Arrive
  <2>. QED  BY <2>1, <2>2, <2>3, ReceiveStep, Zenon DEF Next, vars
<1>. QED  BY <1>1, <1>2, PTL DEF Spec

\* For any number of slots and requests, any shapes, whatever the mix, and any
\* configured sizes below 4 GiB: a slot that copied in vain does not do so
\* again for requests like that one (their body declared, their headers within
\* HEADER_SLACK) as long as it sees no other and keeps its one buffer.
\* fit_body_inline leaves a buffer with room, which comes back through the
\* pool, or turns copying off.
THEOREM OneMistakeIsEnough ==
    ASSUME SmallBuffers
    PROVE  Spec => []SettlesAfterOneMistake
<1>1. LInv => SettlesAfterOneMistake
  <2>1. ~Declared(NoShape)
    BY DEF Declared, NoShape, NoLength
  <2>. QED  BY <2>1, Zenon DEF LInv, Learnt, Room, SettlesAfterOneMistake
<1>. QED  BY <1>1, LearntInvariant, PTL
=============================================================================
