----------------------------- MODULE Lifecycle ------------------------------
(***************************************************************************)
(* A server from its construction to the last handle: the server thread    *)
(* and slots of Server.tla working with the handles of Handles.tla         *)
(* (src/crates/httpsys/src/server.rs).                                     *)
(*                                                                         *)
(* Only a builder that was run has a server thread.  Each slot holds a     *)
(* reference to the queue and lets it go when its task ends, whichever     *)
(* way.  The handles are dropped one by one after `serve' has returned, or *)
(* its thread has failed, and the thread exits after the last.             *)
(***************************************************************************)
EXTENDS Server

CONSTANTS MaxKept, MaxRoutes     \* as in Handles

ASSUME HandlesAssumption == MaxKept \in Nat /\ MaxRoutes \in Nat

VARIABLES
    phase, open, sessionRefs, queueRefs, kept, failedAt, todo,  \* as in Handles
    nextId, urls, routes

H == INSTANCE Handles

handleVars == <<phase, open, sessionRefs, queueRefs, kept, failedAt, todo, nextId, urls, routes>>
lifeVars == <<vars, handleVars>>

LifeInit == Init /\ H!Init

Started == phase \in {"serving", "dropped"}

-----------------------------------------------------------------------------
(* The application's thread.                                               *)

Build ==
    /\ \/ H!HttpInitialize \/ H!CreateSession \/ H!CreateUrlGroup \/ H!CreateQueue
       \/ H!CreatePort \/ H!Associate \/ H!Configure
       \/ H!Route \/ H!DropBuilder \/ H!Run \/ H!RunPanics
    /\ UNCHANGED vars

UseServer ==
    /\ Started
    /\ Shutdown \/ CallJoin \/ DropServer
    /\ UNCHANGED handleVars

Joined ==
    /\ Started /\ JoinReturns
    /\ UNCHANGED handleVars

\* A task drops a Request it has kept.
DropKept == H!DropKept /\ UNCHANGED vars

-----------------------------------------------------------------------------
(* The server thread.                                                      *)

SpawnSlots ==
    /\ phase = "serving"
    /\ \E s \in Slots : SpawnSlot(s)
    /\ queueRefs' = queueRefs + 1
    /\ UNCHANGED <<phase, open, sessionRefs, kept, failedAt, todo, nextId, urls, routes>>

Serve ==
    /\ phase = "serving"
    /\ Subscribe \/ Recv \/ StoreStop \/ ShutdownQueue \/ TimeOut
    /\ UNCHANGED handleVars

\* `serve' returns, or is never called; its reference to the queue goes.
ServeReturns ==
    /\ Drained \/ Reap \/ RuntimeFails
    /\ H!ServeReturns

\* Mutant: the thread exits while its handles are still being dropped.
ExitEarly ==
    /\ phase = "dropped" /\ DropHandles
    /\ UNCHANGED handleVars

\* drop(handles) has got to the end.
Exit ==
    /\ phase = "dropped" /\ todo = <<>> /\ DropHandles
    /\ UNCHANGED handleVars

\* The owner of the handles, here the server thread, drops the next of them.
Teardown == H!DropNext /\ UNCHANGED vars

ThreadRuns == SpawnSlots \/ Serve \/ ServeReturns \/ Teardown \/ Exit

-----------------------------------------------------------------------------
(* The slots.                                                              *)

\* A task that ends drops its reference to the queue.
Slot(s) ==
    /\ SlotRuns(s) \/ Received(s) \/ ReceiveFails(s) \/ HandlerPanics(s)
    /\ IF ~Ended(s) /\ spc'[s] \in {"done", "panicked"}
       THEN H!ReleaseQueue
            /\ UNCHANGED <<phase, sessionRefs, kept, failedAt, todo, nextId, urls, routes>>
       ELSE UNCHANGED handleVars

\* The handler has dropped its Request or left it with a task.
HandlerDone(s) == HandlerReturns(s) /\ (H!Keep \/ UNCHANGED handleVars)

\* http.sys queues requests for the URLs that are registered.
Client == phase = "serving" /\ urls # {} /\ Arrive /\ UNCHANGED handleVars

LifeNext ==
    \/ Build \/ UseServer \/ Joined \/ DropKept \/ ThreadRuns \/ Client
    \/ \E s \in Slots : Slot(s) \/ HandlerDone(s)

LifeSafety == LifeInit /\ [][LifeNext]_lifeVars

\* As in Server: threads and slots run and the timer fires.  Handlers, clients
\* and the application do as they please.  Closing the port is assumed to
\* return; IoPort!DropReturns is about when it does not.
LifeSpec ==
    /\ LifeSafety
    /\ WF_lifeVars(ThreadRuns) /\ WF_lifeVars(Joined)
    /\ \A s \in Slots : WF_lifeVars(SlotRuns(s) /\ Slot(s))

-----------------------------------------------------------------------------
(* Properties.                                                             *)

\* A slot never works on a closed handle: from its spawn to its end, by
\* whatever way, every handle down to HttpInitialize is open, although the
\* slot owns a reference to the queue only; and every URL that http.sys may
\* match for it has a handler, although routes that failed have used up ids.
SlotsInsideHandles ==
    \A s \in Slots :
        spc[s] # "unborn" /\ ~Ended(s) => H!Objects \subseteq open /\ urls \subseteq routes

\* Handles' promise about the order of closing holds with slots at work, whose
\* references to the queue go in any order.
TeardownOrder == H!TeardownOrder

\* Its promise that everything is closed in the end holds as well, however the
\* slots have ended: finished, aborted or by a panic.
NothingLeaked == H!NothingLeaked

\* `join' returns to an application that can start the next server: nothing is
\* registered or open any more but what a kept Request still holds.
JoinMeansClosed ==
    app = "joined" => open \subseteq (IF kept > 0 THEN {"queue", "port"} ELSE {})
=============================================================================
