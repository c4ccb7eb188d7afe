-------------------------- MODULE LifecycleProofs ---------------------------
(***************************************************************************)
(* The server and its handles, for any number of slots, requests, routes   *)
(* and kept requests: Server's own invariant and theorems, which hold of   *)
(* the composition because it implements Server, and the invariant that    *)
(* ties the handles that are open and the counts of the two shared ones to *)
(* the place in construction or teardown and to the slots that are alive.  *)
(***************************************************************************)
EXTENDS Lifecycle, Sequences, FiniteSetTheorems, TLAPS

-----------------------------------------------------------------------------
(* Server.                                                                 *)

SlotPlaces == {"unborn", "check", "post", "receive", "handler", "send", "done", "panicked"}

SlotTypes == spc \in [Slots -> SlotPlaces] /\ after \in [Slots -> Nat]

\* Why a slot starts at most one request after `stop': once it has, a check
\* of the flag lies before its next receive.
NoSecond ==
    \A s \in Slots :
        \/ after[s] = 0
        \/ after[s] = 1 /\ stop /\ spc[s] \notin {"post", "receive"}

SInv == SlotTypes /\ HandlesOutliveSlots /\ NoSecond

LEMMA ServerInit == Init => SInv
BY DEF Init, SInv, SlotTypes, SlotPlaces, HandlesOutliveSlots, NoSecond, Ended

\* The steps of the application, the clients and the server thread leave the
\* slots where they are.
LEMMA ThreadStep ==
    ASSUME SInv,
           \/ Shutdown \/ CallJoin \/ DropServer \/ JoinReturns \/ Arrive
           \/ RuntimeFails \/ Subscribe \/ Recv \/ StoreStop \/ ShutdownQueue
           \/ Drained \/ TimeOut \/ Reap \/ DropHandles
    PROVE  SInv'
<1>1. spc' = spc /\ after' = after /\ (stop => stop')
  BY DEF Shutdown, CallJoin, DropServer, JoinReturns, Arrive, RuntimeFails, Subscribe, Recv,
         StoreStop, ShutdownQueue, Drained, TimeOut, Reap, DropHandles, slotVars, serveVars
<1>2. \/ wpc' = wpc
      \/ wpc' \notin {"drop", "exited"}
      \/ \A s \in Slots : Ended(s) \/ spc[s] = "unborn"
  BY Zenon DEF Shutdown, CallJoin, DropServer, JoinReturns, Arrive, RuntimeFails, Subscribe, Recv,
         StoreStop, ShutdownQueue, Drained, TimeOut, Reap, DropHandles, ServeStep,
         serveVars, SInv, HandlesOutliveSlots
<1>3. SlotTypes'
  BY <1>1, Zenon DEF SInv, SlotTypes
<1>4. HandlesOutliveSlots'
  BY <1>1, <1>2, Zenon DEF SInv, HandlesOutliveSlots, Ended
<1>5. NoSecond'
  BY <1>1, Zenon DEF SInv, NoSecond
<1>. QED  BY <1>3, <1>4, <1>5, Zenon DEF SInv

\* What a slot's step changes: its own place, never one it has ended in, and
\* its history when a request comes.
LEMMA SlotFacts ==
    ASSUME SInv, NEW s \in Slots,
           \/ SpawnSlot(s) \/ SlotRuns(s) \/ Received(s) \/ ReceiveFails(s)
           \/ HandlerReturns(s) \/ HandlerPanics(s)
    PROVE  /\ wpc' = wpc /\ (stop' <=> stop)
           /\ \E to \in SlotPlaces :
                 /\ spc' = [spc EXCEPT ![s] = to]
                 /\ to \in {"post", "receive"} => after[s] = 0
                 /\ \/ after' = after
                    \/ /\ after[s] = 0 /\ to = "handler"
                       /\ after' = [after EXCEPT ![s] = IF stop THEN @ + 1 ELSE @]
           /\ ~Ended(s) /\ (spc[s] = "unborn" => wpc = "spawn")
<1>0. after[s] = 0 \/ (stop /\ spc[s] \notin {"post", "receive"})
  BY Zenon DEF SInv, NoSecond
<1>1. CASE SpawnSlot(s)
  BY <1>0, <1>1, Zenon DEF SpawnSlot, Step, Ended, SlotPlaces, serveVars
<1>2. CASE Check(s)
  BY <1>0, <1>2, Zenon DEF Check, Step, Ended, SlotPlaces, serveVars
<1>3. CASE Post(s) \/ ReceiveAborted(s) \/ SendDone(s)
  BY <1>0, <1>3 DEF Post, ReceiveAborted, SendDone, Step, Ended, SlotPlaces, serveVars
<1>4. CASE Cancel(s)
  BY <1>0, <1>4, Zenon DEF Cancel, Step, Ended, SlotPlaces, serveVars
<1>5. CASE Received(s)
  BY <1>0, <1>5, Zenon DEF Received, Step, Ended, SlotPlaces, serveVars
<1>6. CASE ReceiveFails(s) \/ HandlerReturns(s) \/ HandlerPanics(s)
  BY <1>0, <1>6 DEF ReceiveFails, HandlerReturns, HandlerPanics, Step, Ended, SlotPlaces, serveVars
<1>. QED  BY <1>1, <1>2, <1>3, <1>4, <1>5, <1>6, Zenon DEF SlotRuns

LEMMA SlotStep ==
    ASSUME SInv, NEW s \in Slots,
           \/ SpawnSlot(s) \/ SlotRuns(s) \/ Received(s) \/ ReceiveFails(s)
           \/ HandlerReturns(s) \/ HandlerPanics(s)
    PROVE  SInv'
<1>0. PICK to \in SlotPlaces :
         /\ spc' = [spc EXCEPT ![s] = to]
         /\ to \in {"post", "receive"} => after[s] = 0
         /\ \/ after' = after
            \/ /\ after[s] = 0 /\ to = "handler"
               /\ after' = [after EXCEPT ![s] = IF stop THEN @ + 1 ELSE @]
  BY SlotFacts, Zenon
<1>1. /\ wpc' = wpc /\ (stop' <=> stop)
      /\ ~Ended(s) /\ (spc[s] = "unborn" => wpc = "spawn")
  BY SlotFacts, Zenon
<1>2. SlotTypes'
  BY <1>0 DEF SInv, SlotTypes
<1>3. HandlesOutliveSlots'
  BY <1>0, <1>1, Zenon DEF SInv, SlotTypes, HandlesOutliveSlots, Ended
<1>4. NoSecond'
  BY <1>0, <1>1 DEF SInv, SlotTypes, NoSecond
<1>. QED  BY <1>2, <1>3, <1>4, Zenon DEF SInv

\* Every step of the server preserves the invariant.
LEMMA ServerStep == SInv /\ [Next]_vars => SInv'
<1>1. ASSUME SInv, Next  PROVE SInv'
  BY <1>1, ThreadStep, SlotStep, Zenon DEF Next, ServeNext
<1>2. ASSUME SInv, UNCHANGED vars  PROVE SInv'
  BY <1>2, Zenon DEF vars, serveVars, slotVars, SInv, SlotTypes, HandlesOutliveSlots, NoSecond, Ended
<1>. QED  BY <1>1, <1>2, Zenon

LEMMA ServerInvariant == Spec => []SInv
BY ServerInit, ServerStep, PTL DEF Spec

\* For any number of slots: the handles go only when every slot has ended.
THEOREM HandlesAreSafe == Spec => []HandlesOutliveSlots
<1>1. SInv => HandlesOutliveSlots
  BY Zenon DEF SInv
<1>. QED  BY <1>1, ServerInvariant, PTL

\* For any number of slots and requests: a slot starts at most one request
\* after the flag has been raised.
THEOREM StopIsPrompt == Spec => []OneMoreAtMost
<1>1. ASSUME SInv, NEW s \in Slots  PROVE after[s] <= 1
  <2>1. after[s] \in {0, 1}
    BY <1>1, Zenon DEF SInv, NoSecond
  <2>. QED  BY <2>1
<1>2. SInv => OneMoreAtMost
  BY <1>1, Zenon DEF OneMoreAtMost
<1>. QED  BY <1>2, ServerInvariant, PTL

-----------------------------------------------------------------------------
(* The handles.                                                            *)

Live == {s \in Slots : spc[s] # "unborn" /\ ~Ended(s)}

\* What is left to drop after a failure or at the end of the server thread.
L0 == <<>>
L1 == <<"init">>
L2 == <<"session", "init">>
L3 == <<"group", "session", "init">>
L4 == <<"queue", "group", "session", "init">>

\* What is left to drop of a builder that was not run.
M4 == <<"init", "session", "group", "queue">>
M3 == <<"session", "group", "queue">>
M2 == <<"group", "queue">>
M1 == <<"queue">>

Complete == {"associate", "bind", "length", "builder", "serving"}
Building == {"init", "session", "group", "queue", "port"} \cup Complete
Phases == Building \cup {"failed", "unused", "dropped"}

\* Construction and service.
BuildInv ==
    /\ phase = "init" => open = {} /\ sessionRefs = 0
    /\ phase = "session" => open = {"init"} /\ sessionRefs = 0
    /\ phase = "group" => open = {"init", "session"} /\ sessionRefs = 1
    /\ phase = "queue" => open = {"init", "session", "group"}
    /\ phase = "port" => open = {"init", "session", "group", "queue"}
    /\ phase \in Complete => open = H!Objects
    /\ phase \in {"queue", "port"} \cup Complete => sessionRefs = 2
    /\ phase \in {"init", "session", "group", "queue", "port", "associate"} => queueRefs = 0
    /\ phase \in {"bind", "length", "builder"} => queueRefs = 1
    /\ phase \in Building => todo = L0 /\ failedAt = "none"

\* Every live slot and every kept request holds a reference to the queue, and
\* so do the owner and `serve'.
CountInv == phase = "serving" => queueRefs = 2 + kept + Cardinality(Live)

\* After a failure and after `serve'.
DownInv ==
    phase \in {"failed", "dropped"} =>
        /\ todo \in {L0, L1, L2, L3, L4}
        /\ open \subseteq H!Objects
        /\ "init" \in open <=> todo # L0
        /\ "session" \in open <=> todo \in {L2, L3, L4}
        /\ "group" \in open <=> todo \in {L3, L4}
        /\ sessionRefs = IF todo \in {L3, L4} THEN 2 ELSE IF todo = L2 THEN 1 ELSE 0
        /\ queueRefs = IF todo = L4 THEN kept + 1 ELSE kept
        /\ "queue" \in open <=> queueRefs > 0 \/ failedAt = "port"
        /\ "port" \in open <=> queueRefs > 0
        /\ phase = "dropped" => failedAt = "none"
        /\ todo = L4 => failedAt # "port"

\* A builder that was not run.
UnusedInv ==
    phase = "unused" =>
        /\ todo \in {L0, M1, M2, M3, M4} /\ failedAt = "none"
        /\ open \subseteq H!Objects
        /\ "session" \in open <=> todo \in {M2, M3, M4}
        /\ "group" \in open <=> todo \in {M2, M3, M4}
        /\ sessionRefs = IF todo \in {M3, M4} THEN 2 ELSE IF todo = M2 THEN 1 ELSE 0
        /\ queueRefs = IF todo = L0 THEN 0 ELSE 1
        /\ "queue" \in open <=> todo # L0
        /\ "port" \in open <=> todo # L0
        /\ "init" \in open => todo = M4

\* The server thread and the phase of the handles go together.
PhaseInv ==
    /\ phase \in Phases /\ kept \in Nat
    /\ phase \notin {"serving", "dropped"} => kept = 0 /\ \A s \in Slots : spc[s] = "unborn"
    /\ phase \in Building => wpc \notin {"drop", "exited"}
    /\ phase = "dropped" => wpc \in {"drop", "exited"}
    /\ wpc = "exited" => phase = "dropped" /\ todo = L0
    /\ app = "joined" => wpc = "exited"
    /\ urls \subseteq routes

HInv == BuildInv /\ CountInv /\ DownInv /\ UnusedInv /\ PhaseInv

LInv == SInv /\ HInv

-----------------------------------------------------------------------------
\* The composition adds to Server's steps and takes none away.
LEMMA LifeStepsServer == [LifeNext]_lifeVars => [Next]_vars
<1>1. ASSUME UseServer \/ Joined \/ Client \/ SpawnSlots \/ Serve \/ ServeReturns \/ Exit
      PROVE  Next
  BY <1>1, Zenon DEF UseServer, Joined, Client, SpawnSlots, Serve, ServeReturns, Exit, Next, ServeNext
<1>2. ASSUME NEW s \in Slots, Slot(s) \/ HandlerDone(s)
      PROVE  Next
  BY <1>2, Zenon DEF Slot, HandlerDone, Next
<1>3. Build \/ DropKept \/ Teardown \/ UNCHANGED lifeVars => UNCHANGED vars
  BY Zenon DEF Build, DropKept, Teardown, lifeVars
<1>. QED  BY <1>1, <1>2, <1>3, Zenon DEF LifeNext, ThreadRuns

\* Whatever the handles add, the server of Lifecycle is the one of Server, so
\* what is proved of Server holds of the composition.
THEOREM LifeImplementsServer == LifeSafety => Spec
<1>1. LifeInit => Init
  BY Zenon DEF LifeInit
<1>. QED  BY <1>1, LifeStepsServer, PTL DEF LifeSafety, Spec

-----------------------------------------------------------------------------
LEMMA Tails ==
    /\ Head(L4) = "queue" /\ Tail(L4) = L3
    /\ Head(L3) = "group" /\ Tail(L3) = L2
    /\ Head(L2) = "session" /\ Tail(L2) = L1
    /\ Head(L1) = "init" /\ Tail(L1) = L0
    /\ Head(M4) = "init" /\ Tail(M4) = M3
    /\ Head(M3) = "session" /\ Tail(M3) = M2
    /\ Head(M2) = "group" /\ Tail(M2) = M1
    /\ Head(M1) = "queue" /\ Tail(M1) = L0
BY DEF L0, L1, L2, L3, L4, M1, M2, M3, M4

LEMMA Distinct ==
    /\ L0 \notin {L1, L2, L3, L4} /\ L1 \notin {L2, L3, L4} /\ L2 \notin {L3, L4} /\ L3 # L4
    /\ L0 \notin {M1, M2, M3, M4} /\ M1 \notin {M2, M3, M4} /\ M2 \notin {M3, M4} /\ M3 # M4
BY Zenon DEF L0, L1, L2, L3, L4, M1, M2, M3, M4

LEMMA LifeStart == LifeInit => LInv
<1>. SUFFICES ASSUME LifeInit PROVE LInv
  OBVIOUS
<1>1. SInv
  BY ServerInit, Zenon DEF LifeInit
<1>2. BuildInv /\ CountInv /\ DownInv /\ UnusedInv /\ PhaseInv
  BY Zenon DEF LifeInit, Init, H!Init, BuildInv, CountInv, DownInv, UnusedInv, PhaseInv, Complete, Building,
         Phases, L0
<1>. QED  BY <1>1, <1>2, Zenon DEF LInv, HInv

LEMMA LiveFinite == IsFiniteSet(Live) /\ Cardinality(Live) \in Nat
<1>1. Live \subseteq Slots
  BY Zenon DEF Live
<1>. QED  BY <1>1, ConstantsAssumption, FS_Subset, FS_CardinalityType, Zenon

\* A construction that has failed leaves the handles it has opened, and in
\* `todo' those of them that have an owner.
LEMMA FailStep ==
    ASSUME PhaseInv', phase' = "failed", kept' = 0,
           \/ todo' = L0 /\ open' = {} /\ sessionRefs' = 0 /\ queueRefs' = 0
              /\ failedAt' # "port"
           \/ todo' = L1 /\ open' = {"init"} /\ sessionRefs' = 0 /\ queueRefs' = 0
              /\ failedAt' # "port"
           \/ todo' = L2 /\ open' = {"init", "session"} /\ sessionRefs' = 1 /\ queueRefs' = 0
              /\ failedAt' # "port"
           \/ todo' = L3 /\ open' = {"init", "session", "group"} /\ sessionRefs' = 2 /\ queueRefs' = 0
              /\ failedAt' # "port"
           \/ todo' = L3 /\ open' = {"init", "session", "group", "queue"} /\ sessionRefs' = 2 /\ queueRefs' = 0
              /\ failedAt' = "port"
           \/ todo' = L4 /\ open' = H!Objects /\ sessionRefs' = 2 /\ queueRefs' = 1
              /\ failedAt' # "port"
    PROVE  HInv'
<1>1. BuildInv' /\ CountInv' /\ UnusedInv'
  BY Zenon DEF BuildInv, CountInv, UnusedInv, Building, Complete
<1>2. DownInv'
  BY Distinct DEF DownInv, H!Objects
<1>. QED  BY <1>1, <1>2, Zenon DEF HInv

\* The steps of the construction, while there is no server thread.
LEMMA BuildStep ==
    ASSUME HInv, Build
    PROVE  HInv'
<1>. USE DEF HInv
<1>u. UNCHANGED vars /\ phase \in Building /\ phase # "serving"
  BY Zenon DEF Build, H!HttpInitialize, H!CreateSession, H!CreateUrlGroup, H!CreateQueue, H!CreatePort,
         H!Associate, H!Configure, H!Route, H!DropBuilder, H!Run, H!RunPanics, H!Open, H!Fail, Building, Complete
<1>a. /\ kept = 0 /\ Live = {} /\ todo = L0 /\ failedAt = "none"
      /\ \A s \in Slots : spc[s] = "unborn"
      /\ wpc \notin {"drop", "exited"} /\ app # "joined" /\ urls \subseteq routes
  BY <1>u, Zenon DEF PhaseInv, BuildInv, Live, Building, Complete
<1>b. spc' = spc /\ wpc' = wpc /\ app' = app /\ Live' = Live /\ Cardinality(Live) = 0
  BY <1>u, <1>a, FS_EmptySet, Zenon DEF vars, appVars, serveVars, slotVars, Live, Ended
<1>p. kept' = kept
  BY Zenon DEF Build, H!HttpInitialize, H!CreateSession, H!CreateUrlGroup, H!CreateQueue, H!CreatePort,
         H!Associate, H!Configure, H!Route, H!DropBuilder, H!Run, H!RunPanics, H!Open, H!Fail
<1>q. urls' \subseteq routes' /\ phase' \in Phases \ {"dropped"}
  BY <1>a, Zenon DEF Build, H!HttpInitialize, H!CreateSession, H!CreateUrlGroup, H!CreateQueue, H!CreatePort,
         H!Associate, H!Configure, H!Route, H!DropBuilder, H!Run, H!RunPanics, H!Open, H!Fail, H!routeVars,
         Phases, Building, Complete
<1>1. PhaseInv'
  BY <1>a, <1>b, <1>p, <1>q, Zenon DEF PhaseInv
<1>2. CASE H!HttpInitialize
  <2>1. CASE phase' # "failed"
    BY <1>1, <1>2, <2>1, <1>a, <1>p, Zenon DEF H!HttpInitialize, H!Open, H!Fail, BuildInv, CountInv, DownInv, UnusedInv,
       Building, Complete, H!Objects
  <2>2. CASE phase' = "failed"
    <3>1. /\ todo' = L0 /\ failedAt' # "port"
          /\ open' = {} /\ sessionRefs' = 0 /\ queueRefs' = 0
      BY <1>2, <2>2, Zenon DEF H!HttpInitialize, H!Open, H!Fail, L0, BuildInv, Complete, H!Objects
    <3>. QED  BY <1>1, <1>a, <1>p, <2>2, <3>1, FailStep, Zenon
  <2>. QED  BY <2>1, <2>2, Zenon
<1>3. CASE H!CreateSession
  <2>1. CASE phase' # "failed"
    BY <1>1, <1>3, <2>1, <1>a, <1>p, Zenon DEF H!CreateSession, H!Open, H!Fail, BuildInv, CountInv, DownInv, UnusedInv,
       Building, Complete, H!Objects
  <2>2. CASE phase' = "failed"
    <3>1. /\ todo' = L1 /\ failedAt' # "port"
          /\ open' = {"init"} /\ sessionRefs' = 0 /\ queueRefs' = 0
      BY <1>3, <2>2, Zenon DEF H!CreateSession, H!Open, H!Fail, L1, BuildInv, Complete, H!Objects
    <3>. QED  BY <1>1, <1>a, <1>p, <2>2, <3>1, FailStep, Zenon
  <2>. QED  BY <2>1, <2>2, Zenon
<1>4. CASE H!CreateUrlGroup
  <2>1. CASE phase' # "failed"
    BY <1>1, <1>4, <2>1, <1>a, <1>p, Zenon DEF H!CreateUrlGroup, H!Open, H!Fail, BuildInv, CountInv, DownInv, UnusedInv,
       Building, Complete, H!Objects
  <2>2. CASE phase' = "failed"
    <3>1. /\ todo' = L2 /\ failedAt' # "port"
          /\ open' = {"init", "session"} /\ sessionRefs' = 1 /\ queueRefs' = 0
      BY <1>4, <2>2, Zenon DEF H!CreateUrlGroup, H!Open, H!Fail, L2, BuildInv, Complete, H!Objects
    <3>. QED  BY <1>1, <1>a, <1>p, <2>2, <3>1, FailStep, Zenon
  <2>. QED  BY <2>1, <2>2, Zenon
<1>5. CASE H!CreateQueue
  <2>1. CASE phase' # "failed"
    BY <1>1, <1>5, <2>1, <1>a, <1>p, Zenon DEF H!CreateQueue, H!Open, H!Fail, BuildInv, CountInv, DownInv, UnusedInv,
       Building, Complete, H!Objects
  <2>2. CASE phase' = "failed"
    <3>1. /\ todo' = L3 /\ failedAt' # "port"
          /\ open' = {"init", "session", "group"} /\ sessionRefs' = 2 /\ queueRefs' = 0
      BY <1>5, <2>2, Zenon DEF H!CreateQueue, H!Open, H!Fail, L3, BuildInv, Complete, H!Objects
    <3>. QED  BY <1>1, <1>a, <1>p, <2>2, <3>1, FailStep, Zenon
  <2>. QED  BY <2>1, <2>2, Zenon
<1>6. CASE H!CreatePort
  <2>1. CASE phase' # "failed"
    BY <1>1, <1>6, <2>1, <1>a, <1>p, Zenon DEF H!CreatePort, H!Open, H!Fail, BuildInv, CountInv, DownInv, UnusedInv,
       Building, Complete, H!Objects
  <2>2. CASE phase' = "failed"
    <3>1. /\ todo' = L3 /\ failedAt' = "port"
          /\ open' = {"init", "session", "group", "queue"} /\ sessionRefs' = 2 /\ queueRefs' = 0
      BY <1>6, <2>2, Zenon DEF H!CreatePort, H!Open, H!Fail, L3, BuildInv, Complete, H!Objects
    <3>. QED  BY <1>1, <1>a, <1>p, <2>2, <3>1, FailStep, Zenon
  <2>. QED  BY <2>1, <2>2, Zenon
<1>7. CASE H!Associate
  <2>1. CASE phase' # "failed"
    BY <1>1, <1>7, <2>1, <1>a, <1>p DEF H!Associate, H!Fail, BuildInv, CountInv, DownInv, UnusedInv,
       Building, Complete, H!Objects
  <2>2. CASE phase' = "failed"
    <3>1. /\ todo' = L3 /\ failedAt' # "port"
          /\ open' = {"init", "session", "group"} /\ sessionRefs' = 2 /\ queueRefs' = 0
      BY <1>7, <2>2, Zenon DEF H!Associate, H!Fail, L3, BuildInv, Complete, H!Objects
    <3>. QED  BY <1>1, <1>a, <1>p, <2>2, <3>1, FailStep, Zenon
  <2>. QED  BY <2>1, <2>2, Zenon
<1>8. CASE H!Configure
  <2>1. CASE phase' # "failed"
    BY <1>1, <1>8, <2>1, <1>a, <1>p, Zenon DEF H!Configure, H!Fail, BuildInv, CountInv, DownInv, UnusedInv,
       Building, Complete, H!Objects
  <2>2. CASE phase' = "failed"
    <3>1. /\ todo' = L4 /\ failedAt' # "port"
          /\ open' = H!Objects /\ sessionRefs' = 2 /\ queueRefs' = 1
      BY <1>8, <2>2, Zenon DEF H!Configure, H!Fail, L4, BuildInv, Complete, H!Objects
    <3>. QED  BY <1>1, <1>a, <1>p, <2>2, <3>1, FailStep, Zenon
  <2>. QED  BY <2>1, <2>2, Zenon
<1>9. CASE H!Route
  BY <1>1, <1>9, <1>a, <1>p, Zenon DEF H!Route, BuildInv, CountInv, DownInv, UnusedInv, Building, Complete
<1>10. CASE H!DropBuilder
  BY <1>1, <1>10, <1>a, <1>p, Tails, Zenon DEF H!DropBuilder, BuildInv, CountInv, DownInv, UnusedInv,
     Building, Complete, L0, M4, H!Objects
<1>11. CASE H!Run
  BY <1>1, <1>11, <1>a, <1>b, <1>p DEF H!Run, BuildInv, CountInv, DownInv, UnusedInv, Building, Complete
<1>12. CASE H!RunPanics
  <2>1. CASE phase' # "failed"
    BY <1>1, <1>12, <2>1, <1>a, <1>p, Zenon DEF H!RunPanics, H!Fail, BuildInv, CountInv, DownInv, UnusedInv,
       Building, Complete, H!Objects
  <2>2. CASE phase' = "failed"
    <3>1. /\ todo' = L4 /\ failedAt' # "port"
          /\ open' = H!Objects /\ sessionRefs' = 2 /\ queueRefs' = 1
      BY <1>12, <2>2, Zenon DEF H!RunPanics, H!Fail, L4, BuildInv, Complete, H!Objects
    <3>. QED  BY <1>1, <1>a, <1>p, <2>2, <3>1, FailStep, Zenon
  <2>. QED  BY <2>1, <2>2, Zenon
<1>. QED  BY <1>2, <1>3, <1>4, <1>5, <1>6, <1>7, <1>8, <1>9, <1>10, <1>11, <1>12, Zenon DEF Build

-----------------------------------------------------------------------------
(* Service and teardown.                                                   *)

\* The steps of the application, the clients and the server thread that leave
\* the handles alone.
LEMMA ServerOnlyStep ==
    ASSUME HInv, UseServer \/ Joined \/ Client \/ Serve \/ Exit
    PROVE  HInv'
<1>1. UNCHANGED handleVars /\ spc' = spc
  BY Zenon DEF UseServer, Joined, Client, Serve, Exit, Shutdown, CallJoin, DropServer, JoinReturns, Arrive,
         Subscribe, Recv, StoreStop, ShutdownQueue, TimeOut, DropHandles, slotVars
<1>2. /\ phase \notin {"serving", "dropped"} => FALSE
      /\ phase = "serving" => wpc' \notin {"drop", "exited"}
      /\ phase = "dropped" => wpc' \in {"drop", "exited"}
      /\ wpc' = "exited" => phase = "dropped" /\ todo = <<>>
      /\ app' = "joined" => wpc' = "exited"
  BY Zenon DEF UseServer, Joined, Client, Serve, Exit, Shutdown, CallJoin, DropServer, JoinReturns, Arrive,
         Subscribe, Recv, StoreStop, ShutdownQueue, TimeOut, DropHandles, ServeStep, serveVars, appVars,
         Started, HInv, PhaseInv, Building, Complete, L0
<1>3. PhaseInv'
  BY <1>1, <1>2, Zenon DEF handleVars, HInv, PhaseInv, Building, Complete, L0
<1>4. Live' = Live
  BY <1>1, Zenon DEF Live, Ended
<1>5. BuildInv' /\ CountInv' /\ DownInv' /\ UnusedInv'
  BY <1>1, <1>4 DEF handleVars, HInv, BuildInv, CountInv, DownInv, UnusedInv
<1>. QED  BY <1>3, <1>5, Zenon DEF HInv

\* A slot that is spawned takes a reference to the queue.
LEMMA SpawnStep ==
    ASSUME SInv, HInv, SpawnSlots
    PROVE  HInv'
<1>1. PICK s \in Slots : SpawnSlot(s)
  BY Zenon DEF SpawnSlots
<1>2. /\ phase = "serving" /\ queueRefs' = queueRefs + 1
      /\ UNCHANGED <<phase, open, sessionRefs, kept, failedAt, todo, nextId, urls, routes>>
      /\ app' = app /\ wpc' = wpc
      /\ spc[s] = "unborn" /\ spc' = [spc EXCEPT ![s] = "check"]
  BY <1>1, Zenon DEF SpawnSlots, SpawnSlot, Step, appVars, serveVars
<1>3. s \notin Live /\ Live' = Live \cup {s}
  BY <1>2, Zenon DEF Live, Ended, SInv, SlotTypes
<1>4. Cardinality(Live') = Cardinality(Live) + 1
  BY <1>3, LiveFinite, FS_AddElement, Zenon
<1>5. PhaseInv'
  BY <1>2, Zenon DEF HInv, PhaseInv, Building, Complete
<1>6. CountInv'
  BY <1>2, <1>4, LiveFinite DEF HInv, PhaseInv, CountInv
<1>7. BuildInv' /\ DownInv' /\ UnusedInv'
  BY <1>2, Zenon DEF HInv, BuildInv, DownInv, UnusedInv
<1>. QED  BY <1>5, <1>6, <1>7, Zenon DEF HInv

\* `serve' returns when no slot is alive: what is left of the references is the
\* owner's and the kept requests'.
LEMMA ReturnStep ==
    ASSUME SInv, SInv', HInv, ServeReturns
    PROVE  HInv'
<1>1. /\ phase = "serving" /\ phase' = "dropped" /\ todo' = L4 /\ queueRefs' = queueRefs - 1
      /\ UNCHANGED <<open, sessionRefs, kept, failedAt, urls, routes>>
      /\ app' = app /\ wpc' = "drop" /\ spc' = spc
  BY Zenon DEF ServeReturns, H!ServeReturns, H!routeVars, Drained, Reap, RuntimeFails, ServeStep, appVars, slotVars, L4
<1>2. Live = {}
  BY <1>1, Zenon DEF SInv, HandlesOutliveSlots, Live, Ended
<1>3. queueRefs' = kept + 1 /\ kept \in Nat
  BY <1>1, <1>2, FS_EmptySet DEF HInv, CountInv, PhaseInv
<1>4. open = H!Objects /\ sessionRefs = 2 /\ failedAt = "none"
  BY <1>1, Zenon DEF HInv, BuildInv, Building, Complete
<1>5. DownInv'
  BY <1>1, <1>3, <1>4, Distinct DEF DownInv, H!Objects
<1>6. PhaseInv'
  BY <1>1, Zenon DEF HInv, PhaseInv, Phases, Building, Complete
<1>7. BuildInv' /\ CountInv' /\ UnusedInv'
  BY <1>1, Zenon DEF BuildInv, CountInv, UnusedInv, Building, Complete
<1>. QED  BY <1>5, <1>6, <1>7, Zenon DEF HInv

\* A kept request is dropped, during service or after it.
LEMMA DropKeptStep ==
    ASSUME SInv, HInv, DropKept
    PROVE  HInv'
<1>1. /\ kept > 0 /\ kept' = kept - 1 /\ queueRefs' = queueRefs - 1
      /\ open' = IF queueRefs = 1 THEN open \ {"queue", "port"} ELSE open
      /\ UNCHANGED <<phase, sessionRefs, failedAt, todo, urls, routes>>
      /\ app' = app /\ wpc' = wpc /\ spc' = spc
  BY Zenon DEF DropKept, H!DropKept, H!ReleaseQueue, H!routeVars, vars, appVars, serveVars, slotVars
<1>2. kept \in Nat /\ phase \in {"serving", "dropped"} /\ kept' \in Nat
  BY <1>1 DEF HInv, PhaseInv
<1>3. PhaseInv'
  BY <1>1, <1>2, Zenon DEF HInv, PhaseInv
<1>4. Live' = Live
  BY <1>1, Zenon DEF Live, Ended
<1>5. CASE phase = "serving"
  <2>1. queueRefs = 2 + kept + Cardinality(Live)
    BY <1>5, Zenon DEF HInv, CountInv
  <2>2. open' = open /\ queueRefs' = 2 + kept' + Cardinality(Live)
    BY <1>1, <1>2, <2>1, LiveFinite
  <2>. QED  BY <1>1, <1>3, <1>4, <1>5, <2>2, Zenon DEF HInv, BuildInv, CountInv, DownInv, UnusedInv, Building, Complete
<1>6. CASE phase = "dropped"
  <2>1. DownInv'
    BY <1>1, <1>2, <1>6, Distinct DEF HInv, DownInv, H!Objects
  <2>. QED  BY <1>1, <1>3, <1>6, <2>1, Zenon DEF HInv, BuildInv, CountInv, UnusedInv, Building, Complete
<1>. QED  BY <1>2, <1>5, <1>6, Zenon

\* A slot works, ends and keeps requests while the server serves; when it ends
\* the owner's and serve's references keep the queue open.
LEMMA SlotsStep ==
    ASSUME SInv, HInv, NEW s \in Slots, Slot(s) \/ HandlerDone(s)
    PROVE  HInv'
<1>a. SlotRuns(s) \/ Received(s) \/ ReceiveFails(s) \/ HandlerPanics(s) \/ HandlerReturns(s)
  BY Zenon DEF Slot, HandlerDone
<1>0. PICK to \in SlotPlaces : spc' = [spc EXCEPT ![s] = to]
  BY <1>a, SlotFacts, Zenon
<1>1. app' = app /\ wpc' = wpc /\ ~Ended(s)
  BY <1>a, SlotFacts, Zenon DEF SlotRuns, Check, Post, ReceiveAborted, SendDone, Cancel,
     Received, ReceiveFails, HandlerReturns, HandlerPanics, appVars
<1>2. spc[s] # "unborn" /\ to # "unborn"
  BY <1>a, <1>0, Zenon DEF SlotRuns, Check, Post, ReceiveAborted, SendDone, Cancel,
     Received, ReceiveFails, HandlerReturns, HandlerPanics, Step, SInv, SlotTypes
<1>3. s \in Live
  BY <1>1, <1>2, Zenon DEF Live
<1>4. phase = "serving"
  BY <1>1, <1>2, Zenon DEF HInv, PhaseInv, SInv, HandlesOutliveSlots
<1>5. queueRefs = 2 + kept + Cardinality(Live) /\ kept \in Nat
  BY <1>4, Zenon DEF HInv, CountInv, PhaseInv
<1>6. CASE HandlerDone(s) /\ H!Keep
  <2>1. /\ kept' = kept + 1 /\ queueRefs' = queueRefs + 1
        /\ UNCHANGED <<phase, open, sessionRefs, failedAt, todo, urls, routes>>
    BY <1>6, Zenon DEF H!Keep, H!routeVars
  <2>2. spc' = [spc EXCEPT ![s] = "send"]
    BY <1>6, Zenon DEF HandlerDone, HandlerReturns, Step
  <2>3. Live' = Live
    BY <1>3, <2>2, Zenon DEF Live, Ended, SInv, SlotTypes
  <2>4. PhaseInv'
    BY <1>1, <1>4, <1>5, <2>1 DEF HInv, PhaseInv
  <2>5. BuildInv' /\ DownInv' /\ UnusedInv'
    BY <1>4, <2>1, Zenon DEF HInv, BuildInv, DownInv, UnusedInv
  <2>6. CountInv'
    BY <1>5, <2>1, <2>3, LiveFinite DEF CountInv
  <2>. QED  BY <2>4, <2>5, <2>6, Zenon DEF HInv
<1>7. CASE UNCHANGED handleVars /\ to \notin {"done", "panicked"}
  <2>1. Live' = Live
    BY <1>0, <1>2, <1>3, <1>7, Zenon DEF Live, Ended, SInv, SlotTypes
  <2>2. PhaseInv' /\ CountInv'
    BY <1>1, <1>4, <1>7, <2>1, Zenon DEF HInv, PhaseInv, CountInv, handleVars
  <2>3. BuildInv' /\ DownInv' /\ UnusedInv'
    BY <1>7 DEF HInv, BuildInv, DownInv, UnusedInv, handleVars
  <2>. QED  BY <2>2, <2>3, Zenon DEF HInv
<1>8. CASE /\ to \in {"done", "panicked"} /\ H!ReleaseQueue
           /\ UNCHANGED <<phase, sessionRefs, kept, failedAt, todo, nextId, urls, routes>>
  <2>1. Live' = Live \ {s}
    BY <1>0, <1>8, Zenon DEF Live, Ended, SInv, SlotTypes
  <2>2. Cardinality(Live') = Cardinality(Live) - 1 /\ Cardinality(Live') \in Nat
    BY <1>3, <2>1, LiveFinite, FS_RemoveElement, FS_CardinalityType, Zenon
  <2>3. open' = open /\ queueRefs' = queueRefs - 1
    BY <1>5, <1>8, <2>2, LiveFinite DEF H!ReleaseQueue
  <2>4. PhaseInv'
    BY <1>0, <1>1, <1>4, <1>8, Zenon DEF HInv, PhaseInv
  <2>6. CountInv'
    BY <1>5, <1>8, <2>2, <2>3, LiveFinite DEF CountInv
  <2>5. BuildInv' /\ DownInv' /\ UnusedInv'
    BY <1>4, <1>8, <2>3, Zenon DEF HInv, BuildInv, DownInv, UnusedInv, Building, Complete
  <2>. QED  BY <2>4, <2>5, <2>6, Zenon DEF HInv
<1>9. HandlerDone(s) => to = "send"
  BY <1>0, Zenon DEF HandlerDone, HandlerReturns, Step, SInv, SlotTypes
<1>10. spc'[s] = to
  BY <1>0, Zenon DEF SInv, SlotTypes
<1>. QED  BY <1>1, <1>6, <1>7, <1>8, <1>9, <1>10, Zenon DEF Slot, HandlerDone

\* The owner drops its next handle.
LEMMA TeardownStep ==
    ASSUME HInv, Teardown
    PROVE  HInv'
<1>1. /\ todo # L0 /\ todo' = Tail(todo)
      /\ UNCHANGED <<phase, kept, failedAt, urls, routes>>
      /\ app' = app /\ wpc' = wpc /\ spc' = spc
  BY Zenon DEF Teardown, H!DropNext, H!routeVars, vars, appVars, serveVars, slotVars, L0
<1>2. /\ Head(todo) = "queue" =>
            /\ queueRefs' = queueRefs - 1 /\ sessionRefs' = sessionRefs
            /\ open' = IF queueRefs = 1 THEN open \ {"queue", "port"} ELSE open
      /\ Head(todo) = "group" =>
            /\ sessionRefs' = sessionRefs - 1 /\ queueRefs' = queueRefs
            /\ open' = (open \ {"group"}) \ (IF sessionRefs = 1 THEN {"session"} ELSE {})
      /\ Head(todo) = "session" =>
            /\ sessionRefs' = sessionRefs - 1 /\ queueRefs' = queueRefs
            /\ open' = open \ (IF sessionRefs = 1 THEN {"session"} ELSE {})
      /\ Head(todo) = "init" =>
            open' = open \ {"init"} /\ sessionRefs' = sessionRefs /\ queueRefs' = queueRefs
  BY Zenon DEF Teardown, H!DropNext, H!ReleaseQueue, H!ReleaseSession
<1>3. phase \in {"failed", "dropped", "unused"} /\ kept \in Nat
  BY <1>1, Zenon DEF HInv, BuildInv, PhaseInv, Phases
<1>4. PhaseInv'
  BY <1>1, <1>3, Zenon DEF HInv, PhaseInv
<1>5. BuildInv' /\ CountInv'
  BY <1>1, <1>3, Zenon DEF BuildInv, CountInv, Building, Complete
<1>6. CASE phase \in {"failed", "dropped"}
  <2>0. DownInv /\ UnusedInv'
    BY <1>1, <1>6, Zenon DEF HInv, UnusedInv
  <2>1. ASSUME todo = L4  PROVE DownInv'
    <3>1. /\ todo' = L3
          /\ queueRefs' = queueRefs - 1 /\ sessionRefs' = sessionRefs
          /\ open' = IF queueRefs = 1 THEN open \ {"queue", "port"} ELSE open
      BY <1>1, <1>2, <2>1, Tails, Zenon
    <3>2. /\ failedAt # "port"
          /\ sessionRefs = 2 /\ queueRefs = kept + 1 /\ open \subseteq H!Objects
          /\ "init" \in open /\ "session" \in open /\ "group" \in open
          /\ ("queue" \in open <=> queueRefs > 0 \/ failedAt = "port") /\ ("port" \in open <=> queueRefs > 0)
      BY <1>6, <2>0, <2>1, Distinct, Zenon DEF DownInv
    <3>3. /\ sessionRefs' = 2 /\ queueRefs' = kept /\ open' \subseteq H!Objects
          /\ "init" \in open' /\ "session" \in open' /\ "group" \in open'
          /\ ("queue" \in open' <=> queueRefs' > 0 \/ failedAt = "port") /\ ("port" \in open' <=> queueRefs' > 0)
      <4>1. CASE kept = 0
        BY <3>1, <3>2, <4>1 DEF H!Objects
      <4>2. CASE kept # 0
        <5>1. queueRefs # 1 /\ queueRefs > 0 /\ kept > 0 /\ queueRefs' = kept
          BY <1>3, <3>1, <3>2, <4>2
        <5>. QED  BY <3>1, <3>2, <5>1, Zenon
      <4>. QED  BY <4>1, <4>2, Zenon
    <3>. QED  BY <1>1, <1>6, <2>0, <3>1, <3>3, Distinct, Zenon DEF DownInv
  <2>2. ASSUME todo = L3  PROVE DownInv'
    <3>1. /\ todo' = L2
          /\ sessionRefs' = sessionRefs - 1 /\ queueRefs' = queueRefs
          /\ open' = (open \ {"group"}) \ (IF sessionRefs = 1 THEN {"session"} ELSE {})
      BY <1>1, <1>2, <2>2, Tails, Zenon
    <3>2. /\ sessionRefs = 2 /\ queueRefs = kept /\ open \subseteq H!Objects
          /\ "init" \in open /\ "session" \in open /\ "group" \in open
          /\ ("queue" \in open <=> queueRefs > 0 \/ failedAt = "port") /\ ("port" \in open <=> queueRefs > 0)
      BY <1>6, <2>0, <2>2, Distinct, Zenon DEF DownInv
    <3>3. /\ sessionRefs' = 1 /\ queueRefs' = kept /\ open' \subseteq H!Objects
          /\ "init" \in open' /\ "session" \in open' /\ "group" \notin open'
          /\ ("queue" \in open' <=> queueRefs' > 0 \/ failedAt = "port") /\ ("port" \in open' <=> queueRefs' > 0)
      BY <1>3, <3>1, <3>2 DEF H!Objects
    <3>. QED  BY <1>1, <1>6, <2>0, <3>1, <3>3, Distinct, Zenon DEF DownInv
  <2>3. ASSUME todo = L2  PROVE DownInv'
    <3>1. /\ todo' = L1
          /\ sessionRefs' = sessionRefs - 1 /\ queueRefs' = queueRefs
          /\ open' = open \ (IF sessionRefs = 1 THEN {"session"} ELSE {})
      BY <1>1, <1>2, <2>3, Tails, Zenon
    <3>2. /\ sessionRefs = 1 /\ queueRefs = kept /\ open \subseteq H!Objects
          /\ "init" \in open /\ "session" \in open /\ "group" \notin open
          /\ ("queue" \in open <=> queueRefs > 0 \/ failedAt = "port") /\ ("port" \in open <=> queueRefs > 0)
      BY <1>6, <2>0, <2>3, Distinct, Zenon DEF DownInv
    <3>3. /\ sessionRefs' = 0 /\ queueRefs' = kept /\ open' \subseteq H!Objects
          /\ "init" \in open' /\ "session" \notin open' /\ "group" \notin open'
          /\ ("queue" \in open' <=> queueRefs' > 0 \/ failedAt = "port") /\ ("port" \in open' <=> queueRefs' > 0)
      BY <1>3, <3>1, <3>2 DEF H!Objects
    <3>. QED  BY <1>1, <1>6, <2>0, <3>1, <3>3, Distinct, Zenon DEF DownInv
  <2>4. ASSUME todo = L1  PROVE DownInv'
    <3>1. /\ todo' = L0
          /\ open' = open \ {"init"} /\ sessionRefs' = sessionRefs /\ queueRefs' = queueRefs
      BY <1>1, <1>2, <2>4, Tails, Zenon
    <3>2. /\ sessionRefs = 0 /\ queueRefs = kept /\ open \subseteq H!Objects
          /\ "init" \in open /\ "session" \notin open /\ "group" \notin open
          /\ ("queue" \in open <=> queueRefs > 0 \/ failedAt = "port") /\ ("port" \in open <=> queueRefs > 0)
      BY <1>6, <2>0, <2>4, Distinct, Zenon DEF DownInv
    <3>3. /\ sessionRefs' = 0 /\ queueRefs' = kept /\ open' \subseteq H!Objects
          /\ "init" \notin open' /\ "session" \notin open' /\ "group" \notin open'
          /\ ("queue" \in open' <=> queueRefs' > 0 \/ failedAt = "port") /\ ("port" \in open' <=> queueRefs' > 0)
      BY <1>3, <3>1, <3>2, Zenon DEF H!Objects
    <3>. QED  BY <1>1, <1>6, <2>0, <3>1, <3>3, Distinct, Zenon DEF DownInv
  <2>5. DownInv'
    BY <1>1, <1>6, <2>0, <2>1, <2>2, <2>3, <2>4, Zenon DEF DownInv
  <2>. QED  BY <1>4, <1>5, <2>0, <2>5, Zenon DEF HInv
<1>7. CASE phase = "unused"
  <2>0. UnusedInv /\ DownInv'
    BY <1>1, <1>7, Zenon DEF HInv, DownInv
  <2>1. ASSUME todo = M4  PROVE UnusedInv'
    <3>1. /\ todo' = M3
          /\ open' = open \ {"init"} /\ sessionRefs' = sessionRefs /\ queueRefs' = queueRefs
      BY <1>1, <1>2, <2>1, Tails, Zenon
    <3>2. /\ sessionRefs = 2 /\ queueRefs = 1 /\ open \subseteq H!Objects
          /\ "session" \in open /\ "group" \in open
          /\ "queue" \in open /\ "port" \in open
      BY <1>7, <2>0, <2>1, Distinct, Zenon DEF UnusedInv
    <3>3. /\ sessionRefs' = 2 /\ queueRefs' = 1 /\ open' \subseteq H!Objects
          /\ "init" \notin open' /\ "session" \in open' /\ "group" \in open'
          /\ "queue" \in open' /\ "port" \in open'
      BY <1>3, <3>1, <3>2, Zenon DEF H!Objects
    <3>. QED  BY <1>1, <1>7, <2>0, <3>1, <3>3, Distinct, Zenon DEF UnusedInv
  <2>2. ASSUME todo = M3  PROVE UnusedInv'
    <3>1. /\ todo' = M2
          /\ sessionRefs' = sessionRefs - 1 /\ queueRefs' = queueRefs
          /\ open' = open \ (IF sessionRefs = 1 THEN {"session"} ELSE {})
      BY <1>1, <1>2, <2>2, Tails, Zenon
    <3>2. /\ sessionRefs = 2 /\ queueRefs = 1 /\ open \subseteq H!Objects
          /\ "init" \notin open /\ "session" \in open /\ "group" \in open
          /\ "queue" \in open /\ "port" \in open
      BY <1>7, <2>0, <2>2, Distinct, Zenon DEF UnusedInv
    <3>3. /\ sessionRefs' = 1 /\ queueRefs' = 1 /\ open' \subseteq H!Objects
          /\ "init" \notin open' /\ "session" \in open' /\ "group" \in open'
          /\ "queue" \in open' /\ "port" \in open'
      BY <1>3, <3>1, <3>2 DEF H!Objects
    <3>. QED  BY <1>1, <1>7, <2>0, <3>1, <3>3, Distinct, Zenon DEF UnusedInv
  <2>3. ASSUME todo = M2  PROVE UnusedInv'
    <3>1. /\ todo' = M1
          /\ sessionRefs' = sessionRefs - 1 /\ queueRefs' = queueRefs
          /\ open' = (open \ {"group"}) \ (IF sessionRefs = 1 THEN {"session"} ELSE {})
      BY <1>1, <1>2, <2>3, Tails, Zenon
    <3>2. /\ sessionRefs = 1 /\ queueRefs = 1 /\ open \subseteq H!Objects
          /\ "init" \notin open /\ "session" \in open /\ "group" \in open
          /\ "queue" \in open /\ "port" \in open
      BY <1>7, <2>0, <2>3, Distinct, Zenon DEF UnusedInv
    <3>3. /\ sessionRefs' = 0 /\ queueRefs' = 1 /\ open' \subseteq H!Objects
          /\ "init" \notin open' /\ "session" \notin open' /\ "group" \notin open'
          /\ "queue" \in open' /\ "port" \in open'
      BY <1>3, <3>1, <3>2 DEF H!Objects
    <3>. QED  BY <1>1, <1>7, <2>0, <3>1, <3>3, Distinct, Zenon DEF UnusedInv
  <2>4. ASSUME todo = M1  PROVE UnusedInv'
    <3>1. /\ todo' = L0
          /\ queueRefs' = queueRefs - 1 /\ sessionRefs' = sessionRefs
          /\ open' = IF queueRefs = 1 THEN open \ {"queue", "port"} ELSE open
      BY <1>1, <1>2, <2>4, Tails, Zenon
    <3>2. /\ sessionRefs = 0 /\ queueRefs = 1 /\ open \subseteq H!Objects
          /\ "init" \notin open /\ "session" \notin open /\ "group" \notin open
          /\ "queue" \in open /\ "port" \in open
      BY <1>7, <2>0, <2>4, Distinct, Zenon DEF UnusedInv
    <3>3. /\ sessionRefs' = 0 /\ queueRefs' = 0 /\ open' \subseteq H!Objects
          /\ "init" \notin open' /\ "session" \notin open' /\ "group" \notin open'
          /\ "queue" \notin open' /\ "port" \notin open'
      BY <1>3, <3>1, <3>2 DEF H!Objects
    <3>. QED  BY <1>1, <1>7, <2>0, <3>1, <3>3, Distinct, Zenon DEF UnusedInv
  <2>5. UnusedInv'
    BY <1>1, <1>7, <2>0, <2>1, <2>2, <2>3, <2>4, Zenon DEF UnusedInv
  <2>. QED  BY <1>4, <1>5, <2>0, <2>5, Zenon DEF HInv
<1>. QED  BY <1>3, <1>6, <1>7, Zenon

-----------------------------------------------------------------------------
LEMMA LifeStep == LInv /\ [LifeNext]_lifeVars => LInv'
<1>. SUFFICES ASSUME LInv, [LifeNext]_lifeVars PROVE LInv'
  OBVIOUS
<1>1. SInv /\ HInv
  BY Zenon DEF LInv
<1>2. SInv'
  BY <1>1, LifeStepsServer, ServerStep, Zenon
<1>3. ASSUME UNCHANGED lifeVars  PROVE HInv'
  <2>1. UNCHANGED handleVars /\ app' = app /\ wpc' = wpc /\ spc' = spc
    BY <1>3, Zenon DEF lifeVars, vars, appVars, serveVars, slotVars
  <2>2. Live' = Live
    BY <2>1, Zenon DEF Live, Ended
  <2>3. BuildInv' /\ CountInv'
    BY <1>1, <2>1, <2>2, Zenon DEF handleVars, HInv, BuildInv, CountInv
  <2>4. DownInv' /\ UnusedInv' /\ PhaseInv'
    BY <1>1, <2>1 DEF handleVars, HInv, DownInv, UnusedInv, PhaseInv
  <2>. QED  BY <2>3, <2>4, Zenon DEF HInv
<1>4. ASSUME LifeNext  PROVE HInv'
  BY <1>1, <1>2, <1>4, BuildStep, ServerOnlyStep, SpawnStep, ReturnStep, DropKeptStep, SlotsStep,
     TeardownStep, Zenon DEF LifeNext, ThreadRuns
<1>5. HInv'
  BY <1>3, <1>4, Zenon
<1>. QED  BY <1>2, <1>5, Zenon DEF LInv

LEMMA LifeInvariant == LifeSafety => []LInv
BY LifeStart, LifeStep, PTL DEF LifeSafety

\* For any number of slots, routes and kept requests: a slot that is alive has
\* every handle open, and a handler for every URL that is registered.
THEOREM SlotsAreInside == LifeSafety => []SlotsInsideHandles
<1>1. ASSUME LInv, NEW s \in Slots, spc[s] # "unborn", ~Ended(s)
      PROVE  H!Objects \subseteq open /\ urls \subseteq routes
  <2>1. phase = "serving"
    BY <1>1, Zenon DEF LInv, HInv, SInv, PhaseInv, HandlesOutliveSlots
  <2>. QED  BY <1>1, <2>1, Zenon DEF LInv, HInv, BuildInv, PhaseInv, Complete
<1>2. LInv => SlotsInsideHandles
  BY <1>1, Zenon DEF SlotsInsideHandles
<1>. QED  BY <1>2, LifeInvariant, PTL

\* For any number of slots and kept requests: children are closed before their
\* parents, with the exceptions that the property names.
THEOREM ChildrenGoFirst == LifeSafety => []TeardownOrder
<1>1. ASSUME LInv, phase \in Building  PROVE H!TeardownOrder
  BY <1>1, Zenon DEF LInv, HInv, BuildInv, H!TeardownOrder, Building, Complete, H!Objects
<1>2. ASSUME LInv, phase \in {"failed", "dropped"}  PROVE H!TeardownOrder
  <2>1. DownInv /\ (phase = "failed" => kept = 0) /\ kept \in Nat
    BY <1>2, Zenon DEF LInv, HInv, PhaseInv
  <2>2. "init" \notin open => queueRefs = kept
    BY <1>2, <2>1, Distinct, Zenon DEF DownInv
  <2>. QED  BY <1>2, <2>1, <2>2, Distinct, Zenon DEF DownInv, H!TeardownOrder
<1>3. ASSUME LInv, phase = "unused"  PROVE H!TeardownOrder
  BY <1>3, Zenon DEF LInv, HInv, UnusedInv, H!TeardownOrder
<1>4. LInv => phase \in Building \cup {"failed", "dropped", "unused"}
  BY Zenon DEF LInv, HInv, PhaseInv, Phases
<1>5. LInv => TeardownOrder
  BY <1>1, <1>2, <1>3, <1>4, Zenon DEF TeardownOrder
<1>. QED  BY <1>5, LifeInvariant, PTL

\* For any number of slots and kept requests: when everything has been dropped
\* nothing is open, but the queue that a failed IoPort::new leaves behind.
THEOREM AllIsClosed == LifeSafety => []NothingLeaked
<1>1. ASSUME LInv, phase \in {"failed", "dropped"}, todo = L0, kept = 0
      PROVE  open = IF failedAt = "port" THEN {"queue"} ELSE {}
  BY <1>1, Distinct DEF LInv, HInv, DownInv, H!Objects
<1>2. ASSUME LInv, phase = "unused", todo = L0  PROVE open = {} /\ failedAt = "none"
  BY <1>2, Distinct, Zenon DEF LInv, HInv, UnusedInv, H!Objects
<1>3. LInv => NothingLeaked
  BY <1>1, <1>2, Zenon DEF NothingLeaked, H!NothingLeaked, L0
<1>. QED  BY <1>3, LifeInvariant, PTL

\* For any number of slots and kept requests: after `join' nothing is open but
\* the queue and the port of requests that are still kept.
THEOREM JoinIsClosed == LifeSafety => []JoinMeansClosed
<1>1. ASSUME LInv, app = "joined"
      PROVE  open \subseteq (IF kept > 0 THEN {"queue", "port"} ELSE {})
  <2>1. phase = "dropped" /\ todo = L0 /\ kept \in Nat
    BY <1>1, Zenon DEF LInv, HInv, PhaseInv
  <2>. QED  BY <1>1, <2>1, Distinct, Zenon DEF LInv, HInv, DownInv, H!Objects
<1>2. LInv => JoinMeansClosed
  BY <1>1, Zenon DEF JoinMeansClosed
<1>. QED  BY <1>2, LifeInvariant, PTL
=============================================================================
