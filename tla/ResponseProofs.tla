--------------------------- MODULE ResponseProofs ---------------------------
(***************************************************************************)
(* Theorems about lending a response to the kernel, for any number of      *)
(* headers and texts and bodies of any length.                             *)
(*                                                                         *)
(* RInv is inductive.  It says what the RawResponse is at each point of    *)
(* the send, as a function of the Response, which nobody changes from      *)
(* to_raw until both are dropped.                                          *)
(***************************************************************************)
EXTENDS Response, SequenceTheorems, TLAPS

\* A length that is cut to its field is no larger, and the same if it fits.
LEMMA Cut ==
    ASSUME NEW m \in Nat \ {0}, NEW x \in Nat
    PROVE  x % m \in Nat /\ x % m <= x /\ (x < m => x % m = x)
OBVIOUS

LEMMA SeqOfFunction ==
    ASSUME NEW n \in Nat, NEW S, NEW f \in [1..n -> S]
    PROVE  f \in Seq(S) /\ Len(f) = n
BY SeqDef

-----------------------------------------------------------------------------
(* The invariant.                                                          *)

Responses == [reason : 1..U16 - 1, ctype : Nat, headers : Seq(Nat \X Nat), body : Nat, cache : {0, 1}]

\* The headers as to_raw lists them.
Unknown == [i \in 1..Len(resp.headers) |-> <<resp.headers[i][1] % U16, resp.headers[i][2] % U16>>]

\* The RawResponse before and after as_ptr.
Unlinked ==
    [at |-> "frame", reason |-> resp.reason % U16, ctype |-> resp.ctype % U16, unknown |-> Unknown,
     chunk |-> resp.body % U32, chunks |-> Null, count |-> 0, heads |-> Null]
Linked ==
    [at |-> "frame", reason |-> resp.reason % U16, ctype |-> resp.ctype % U16, unknown |-> Unknown,
     chunk |-> resp.body % U32,
     chunks |-> IF resp.body % U32 > 0 THEN "frame" ELSE Null,
     count |-> IF Unknown # <<>> THEN Len(Unknown) % U16 ELSE 0,
     heads |-> IF Unknown # <<>> THEN "heap" ELSE Null]

\* What the kernel reads through it.
Read ==
    [reason |-> resp.reason % U16, ctype |-> resp.ctype % U16,
     headers |-> IF Unknown # <<>> THEN SubSeq(Unknown, 1, Len(Unknown) % U16) ELSE <<>>,
     body |-> IF resp.body % U32 > 0 THEN resp.body % U32 ELSE 0,
     cache |-> resp.cache]

Types ==
    /\ pc \in {"build", "raw", "call", "await", "done", "cancel", "dropped"}
    /\ resp \in Responses
    /\ phase \in [{"send"} -> {"idle", "lent", "settled", "resolved"}]
    /\ outcome \in [{"send"} -> {"none", "sent", "failed"}]
    /\ answer \in [{"send"} -> {"none", "sent", "failed"}]

\* The operation and the two structures it needs, at each point of the send.
SendInv ==
    /\ pc \in {"build", "raw", "call", "dropped"} => phase["send"] = "idle"
    /\ pc \in {"await", "cancel"} => phase["send"] \in {"lent", "settled"}
    /\ pc = "done" => phase["send"] = "resolved"
    /\ pc # "dropped" => alive = TRUE
    /\ pc = "build" => raw = Blank
    /\ pc = "raw" => raw = Unlinked
    /\ pc \in {"call", "await", "cancel", "done"} => raw = Linked

\* What has been read.
WireInv ==
    /\ pc \in {"build", "raw", "call"} => wire = NoWire
    /\ pc \in {"await", "cancel", "done"} => wire \in {NoWire, Read}
    /\ phase["send"] \in {"idle", "lent"} => outcome["send"] = "none"
    /\ outcome["send"] = "sent" => wire # NoWire

RInv == Types /\ SendInv /\ WireInv

LEMMA InitInv == Init => RInv
<1>. SUFFICES ASSUME Init PROVE RInv
  OBVIOUS
<1>1. PICK n \in Reasons : resp = New(n)
  BY DEF Init
<1>2. resp \in Responses
  <2>1. <<>> \in Seq(Nat \X Nat)
    OBVIOUS
  <2>. QED  BY <1>1, <2>1, ConstantsAssumption DEF New, Responses
<1>. QED  BY <1>2 DEF Init, Io!Init, RInv, Types, SendInv, WireInv

-----------------------------------------------------------------------------
(* The steps.                                                              *)

\* The builder's methods keep a Response one.
LEMMA BuilderStep ==
    ASSUME RInv, NEW r \in Responses, Builder(r)
    PROVE  RInv'
BY DEF RInv, Types, SendInv, WireInv, Builder, ioVars

LEMMA BuildSteps ==
    ASSUME RInv,
           \/ \E n \in Bodies : WithBody(n)
           \/ \E n \in Texts : WithContentType(n)
           \/ \E n, v \in Texts : WithHeader(n, v)
           \/ CacheInKernel
    PROVE  RInv'
<1>1. resp \in Responses /\ Bodies \subseteq Nat /\ Texts \subseteq Nat
  BY ConstantsAssumption DEF RInv, Types
<1>2. ASSUME NEW n \in Bodies, WithBody(n) PROVE RInv'
  <2>1. [resp EXCEPT !.body = n] \in Responses
    BY <1>1 DEF Responses
  <2>. QED  BY <1>2, <2>1, BuilderStep DEF WithBody
<1>3. ASSUME NEW n \in Texts, WithContentType(n) PROVE RInv'
  <2>1. [resp EXCEPT !.ctype = n] \in Responses
    BY <1>1 DEF Responses
  <2>. QED  BY <1>3, <2>1, BuilderStep DEF WithContentType
<1>4. ASSUME NEW n \in Texts, NEW v \in Texts, WithHeader(n, v) PROVE RInv'
  <2>1. Append(resp.headers, <<n, v>>) \in Seq(Nat \X Nat)
    BY <1>1, AppendProperties DEF Responses
  <2>2. [resp EXCEPT !.headers = Append(@, <<n, v>>)] \in Responses
    BY <1>1, <2>1 DEF Responses
  <2>. QED  BY <1>4, <2>2, BuilderStep DEF WithHeader
<1>5. ASSUME CacheInKernel PROVE RInv'
  <2>1. [resp EXCEPT !.cache = 1] \in Responses
    BY <1>1 DEF Responses
  <2>. QED  BY <1>5, <2>1, BuilderStep DEF CacheInKernel
<1>. QED  BY <1>2, <1>3, <1>4, <1>5

\* The view is made, and linked where it lies.
LEMMA ViewSteps ==
    ASSUME RInv, ToRaw \/ AsPtr
    PROVE  RInv'
<1>1. ASSUME ToRaw PROVE RInv'
  <2>1. raw' = Unlinked
    BY <1>1 DEF ToRaw, View, Blank, Unlinked, Unknown
  <2>. QED  BY <1>1, <2>1 DEF RInv, Types, SendInv, WireInv, ToRaw, Goto, ioVars, Unlinked, Unknown
<1>2. ASSUME AsPtr PROVE RInv'
  <2>1. raw = Unlinked /\ pc = "raw" /\ pc' = "call" /\ UNCHANGED <<resp, alive, wire, ioVars>>
    BY <1>2 DEF AsPtr, Goto, RInv, SendInv
  <2>2. raw' = Linked
    BY <1>2, <2>1 DEF AsPtr, Unlinked, Linked
  <2>3. Linked' = Linked
    BY <2>1 DEF Linked, Unknown
  <2>. QED  BY <2>1, <2>2, <2>3 DEF RInv, Types, SendInv, WireInv, ioVars
<1>. QED  BY <1>1, <1>2

\* The kernel's reads give what the view says.
LEMMA KernelReadsStep ==
    ASSUME RInv, KernelReads
    PROVE  RInv'
<1>1. raw = Linked /\ pc \in {"await", "cancel"} /\ outcome["send"] = "none"
  BY DEF RInv, Types, SendInv, WireInv, KernelReads
<1>2. wire' = Read
  BY <1>1 DEF KernelReads, Linked, Read, Null
<1>3. UNCHANGED <<pc, resp, raw, alive, ioVars>>
  BY DEF KernelReads
<1>4. Read' = Read /\ Linked' = Linked
  BY <1>3 DEF Read, Linked, Unknown
<1>. QED  BY <1>1, <1>2, <1>3, <1>4 DEF RInv, Types, SendInv, WireInv, ioVars

\* The operation's steps leave both structures alone.
LEMMA OperationSteps ==
    ASSUME RInv, Call \/ Resolved \/ Abort \/ \E o \in {"sent", "failed"} : KernelSettles(o)
    PROVE  RInv'
<1>1. UNCHANGED <<resp, raw, alive, wire>>
  BY DEF Call, Resolved, Abort, KernelSettles
<1>2. Read' = Read /\ Linked' = Linked /\ Unlinked' = Unlinked
  BY <1>1 DEF Read, Linked, Unlinked, Unknown
<1>. USE DEF RInv, Types, SendInv, WireInv, Goto
<1>3. CASE Call
  BY <1>1, <1>2, <1>3 DEF Call, Io!Submit
<1>4. CASE Resolved
  BY <1>1, <1>2, <1>4 DEF Resolved, Io!Resolve
<1>5. CASE Abort
  BY <1>1, <1>2, <1>5 DEF Abort, ioVars
<1>6. ASSUME NEW o \in {"sent", "failed"}, KernelSettles(o) PROVE RInv'
  BY <1>1, <1>2, <1>6 DEF KernelSettles, Io!Settle
<1>. QED  BY <1>3, <1>4, <1>5, <1>6

\* Both are dropped once the operation has let go, and made anew.
LEMMA DropSteps ==
    ASSUME RInv, Release \/ \E n \in Reasons : Again(n)
    PROVE  RInv'
<1>1. CASE Release
  BY <1>1 DEF RInv, Types, SendInv, WireInv, Release, Io!Leave
<1>2. ASSUME NEW n \in Reasons, Again(n) PROVE RInv'
  <2>1. New(n) \in Responses
    <3>1. <<>> \in Seq(Nat \X Nat)
      OBVIOUS
    <3>. QED  BY <3>1, ConstantsAssumption DEF New, Responses
  <2>. QED  BY <1>2, <2>1 DEF RInv, Types, SendInv, WireInv, Again, Goto, ioVars
<1>. QED  BY <1>1, <1>2

LEMMA Inductive == RInv /\ [Next]_vars => RInv'
<1>. SUFFICES ASSUME RInv, [Next]_vars PROVE RInv'
  OBVIOUS
<1>1. CASE UNCHANGED vars
  <2>1. Read' = Read /\ Linked' = Linked /\ Unlinked' = Unlinked
    BY <1>1 DEF vars, Read, Linked, Unlinked, Unknown
  <2>. QED  BY <1>1, <2>1 DEF vars, ioVars, RInv, Types, SendInv, WireInv
<1>2. CASE Next
  BY <1>2, BuildSteps, ViewSteps, KernelReadsStep, OperationSteps, DropSteps DEF Next
<1>. QED  BY <1>1, <1>2

-----------------------------------------------------------------------------
(* The theorems.                                                           *)

LEMMA UnknownFacts ==
    ASSUME Types
    PROVE  /\ Unknown \in Seq(Nat \X Nat) /\ Len(Unknown) = Len(resp.headers)
           /\ \A i \in 1..Len(resp.headers) : \A j \in 1..2 :
                  /\ Unknown[i][j] <= resp.headers[i][j]
                  /\ resp.headers[i][j] < U16 => Unknown[i][j] = resp.headers[i][j]
<1>. DEFINE h == resp.headers
<1>1. h \in Seq(Nat \X Nat) /\ U16 \in Nat \ {0} /\ Len(h) \in Nat
  BY ConstantsAssumption DEF Types, Responses
<1>2. ASSUME NEW i \in 1..Len(h) PROVE h[i] \in Nat \X Nat
  BY <1>1, <1>2, ElementOfSeq
<1>3. ASSUME NEW i \in 1..Len(h)
      PROVE  /\ Unknown[i] = <<h[i][1] % U16, h[i][2] % U16>>
             /\ h[i][1] \in Nat /\ h[i][2] \in Nat
             /\ h[i][1] % U16 \in Nat /\ h[i][2] % U16 \in Nat
  BY <1>1, <1>2, Cut DEF Unknown
<1>4. Unknown \in [1..Len(h) -> Nat \X Nat]
  <2>. DEFINE f(i) == <<h[i][1] % U16, h[i][2] % U16>>
  <2>1. ASSUME NEW i \in 1..Len(h) PROVE f(i) \in Nat \X Nat
    BY <1>3
  <2>2. Unknown = [i \in 1..Len(h) |-> f(i)]
    BY DEF Unknown
  <2>. HIDE DEF f
  <2>. QED  BY <2>1, <2>2
<1>5. Unknown \in Seq(Nat \X Nat) /\ Len(Unknown) = Len(h)
  BY <1>1, <1>4, SeqOfFunction
<1>6. ASSUME NEW i \in 1..Len(h), NEW j \in 1..2
      PROVE  Unknown[i][j] <= h[i][j] /\ (h[i][j] < U16 => Unknown[i][j] = h[i][j])
  <2>1. Unknown[i][j] = h[i][j] % U16 /\ h[i][j] \in Nat
    <3>1. j = 1 \/ j = 2
      OBVIOUS
    <3>. QED  BY <3>1, <1>3
  <2>. QED  BY <2>1, <1>1, Cut
<1>. QED  BY <1>5, <1>6

\* Until the send is settled, however and whenever its slot was aborted, both
\* structures are allocated, the view is where its links say, and no length
\* in it reaches past what it describes: also for bodies, texts and header
\* lists too long for their fields.
THEOREM TheKernelReadsLiveMemory == Spec => []KernelReadsLiveMemory
<1>1. ASSUME RInv PROVE KernelReadsLiveMemory
  <2>. SUFFICES ASSUME phase["send"] = "lent"
                PROVE  /\ alive
                       /\ raw.chunks # Null => raw.chunks = raw.at /\ raw.chunk <= resp.body
                       /\ raw.heads # Null => raw.count <= Len(resp.headers)
                       /\ raw.reason <= resp.reason /\ raw.ctype <= resp.ctype
                       /\ \A i \in 1..raw.count : \A j \in 1..2 : raw.unknown[i][j] <= resp.headers[i][j]
    BY DEF KernelReadsLiveMemory
  <2>1. Types /\ alive = TRUE /\ raw = Linked
    BY <1>1 DEF RInv, Types, SendInv
  <2>2. /\ resp.body \in Nat /\ resp.reason \in Nat /\ resp.ctype \in Nat
        /\ U16 \in Nat \ {0} /\ U32 \in Nat \ {0}
    BY <2>1, ConstantsAssumption DEF Types, Responses
  <2>3. /\ resp.body % U32 <= resp.body /\ resp.reason % U16 <= resp.reason
        /\ resp.ctype % U16 <= resp.ctype
    BY <2>2, Cut
  <2>4. /\ Len(Unknown) = Len(resp.headers) /\ Len(resp.headers) \in Nat
        /\ \A i \in 1..Len(resp.headers) : \A j \in 1..2 : Unknown[i][j] <= resp.headers[i][j]
    BY <2>1, UnknownFacts DEF Types, Responses
  <2>5. raw.count \in Nat /\ raw.count <= Len(resp.headers)
    <3>1. Len(Unknown) % U16 \in Nat /\ Len(Unknown) % U16 <= Len(resp.headers)
      BY <2>2, <2>4, Cut
    <3>. QED  BY <3>1, <2>1, <2>4 DEF Linked
  <2>6. /\ raw.reason = resp.reason % U16 /\ raw.ctype = resp.ctype % U16 /\ raw.unknown = Unknown
        /\ raw.chunk = resp.body % U32 /\ raw.at = "frame"
        /\ raw.chunks # Null => raw.chunks = "frame"
    BY <2>1 DEF Linked
  <2>7. \A i \in 1..raw.count : \A j \in 1..2 : raw.unknown[i][j] <= resp.headers[i][j]
    BY <2>4, <2>5, <2>6
  <2>. QED  BY <2>1, <2>3, <2>5, <2>6, <2>7
<1>2. RInv => KernelReadsLiveMemory
  BY <1>1
<1>. QED  BY <1>2, InitInv, Inductive, PTL DEF Spec

\* A successful send has sent what was built, when every length fits its field.
THEOREM ASentResponseIsTheOneBuilt == Spec => []SentIsBuilt
<1>1. ASSUME RInv PROVE SentIsBuilt
  <2>. SUFFICES ASSUME outcome["send"] = "sent", Fits(resp) PROVE wire = resp
    BY DEF SentIsBuilt
  <2>1. Types /\ wire = Read
    BY <1>1 DEF RInv, Types, SendInv, WireInv
  <2>2. /\ resp \in Responses /\ resp.body \in Nat /\ resp.reason \in Nat /\ resp.ctype \in Nat
        /\ resp.reason < U16 /\ resp.ctype < U16 /\ resp.body < U32
        /\ U16 \in Nat \ {0} /\ U32 \in Nat \ {0}
    BY <2>1, ConstantsAssumption DEF Types, Responses, Fits
  <2>3. resp.body % U32 = resp.body /\ resp.reason % U16 = resp.reason /\ resp.ctype % U16 = resp.ctype
    BY <2>2, Cut
  <2>4. Unknown = resp.headers
    <3>1. /\ Unknown \in Seq(Nat \X Nat) /\ Len(Unknown) = Len(resp.headers)
          /\ resp.headers \in Seq(Nat \X Nat)
          /\ \A i \in 1..Len(resp.headers) : \A j \in 1..2 : Unknown[i][j] = resp.headers[i][j]
      BY <2>1, <2>2, UnknownFacts DEF Fits, Responses
    <3>2. ASSUME NEW i \in 1..Len(Unknown) PROVE Unknown[i] = resp.headers[i]
      <4>1. Unknown[i] \in Nat \X Nat /\ resp.headers[i] \in Nat \X Nat
        BY <3>1, ElementOfSeq
      <4>2. Unknown[i][1] = resp.headers[i][1] /\ Unknown[i][2] = resp.headers[i][2]
        BY <3>1
      <4>. QED  BY <4>1, <4>2
    <3>. QED  BY <3>1, <3>2, SeqEqual
  <2>5. (IF Unknown # <<>> THEN SubSeq(Unknown, 1, Len(Unknown) % U16) ELSE <<>>) = resp.headers
    <3>1. /\ resp.headers \in Seq(Nat \X Nat) /\ Len(resp.headers) \in Nat
          /\ Len(resp.headers) % U16 = Len(resp.headers)
      BY <2>2, Cut DEF Fits, Responses
    <3>2. SubSeq(resp.headers, 1, Len(resp.headers)) = resp.headers
      BY <3>1, SubSeqFull
    <3>. QED  BY <2>4, <3>1, <3>2
  <2>6. resp = [reason |-> resp.reason, ctype |-> resp.ctype, headers |-> resp.headers,
                body |-> resp.body, cache |-> resp.cache]
    BY <2>2 DEF Responses
  <2>7. (IF resp.body % U32 > 0 THEN resp.body % U32 ELSE 0) = resp.body
    BY <2>2, <2>3
  <2>. QED  BY <2>1, <2>3, <2>5, <2>6, <2>7 DEF Read
<1>2. RInv => SentIsBuilt
  BY <1>1
<1>. QED  BY <1>2, InitInv, Inductive, PTL DEF Spec
=============================================================================
