------------------------------- MODULE Server -------------------------------
(***************************************************************************)
(* Running and stopping a server: src/crates/httpsys/src/server.rs.        *)
(*                                                                         *)
(* The application holds a `Server'.  The server thread spawns one task    *)
(* per slot, subscribes to the shutdown channel and waits; when told to    *)
(* stop it raises `stop', shuts the request queue down, waits for the      *)
(* slots up to a timeout, aborts those that are left and drops the         *)
(* handles.  What a slot does with a request is the subject of Receive.    *)
(***************************************************************************)
EXTENDS Integers, FiniteSets

CONSTANTS Slots,         \* request slots: config.concurrency of them
          MaxRequests,   \* bound: requests that clients send
          MayPanic       \* handlers may panic

ASSUME ConstantsAssumption ==
    IsFiniteSet(Slots) /\ MaxRequests \in Nat /\ MayPanic \in BOOLEAN

VARIABLES
    app,        \* what the application does with the Server
    asked,      \* history: `shutdown' has been called
    message,    \* a shutdown message waits for the subscriber
    wpc,        \* where the server thread is in `serve'
    stop,       \* the AtomicBool shared with the slots
    queueShut,  \* HttpShutdownRequestQueue has succeeded
    aborted,    \* abort_all was called
    spc,        \* where each slot is in `slot_loop'
    late,       \* its receive was posted to a queue that was shut down
    after,      \* history: requests it received after `stop' was raised
    sent        \* requests clients have sent and nobody has received

appVars == <<app, asked>>
serveVars == <<message, wpc, stop, queueShut, aborted>>
slotVars == <<spc, late, after>>
vars == <<appVars, serveVars, slotVars, sent>>

Init ==
    /\ app = "running" /\ asked = FALSE
    /\ message = FALSE /\ wpc = "spawn"
    /\ stop = FALSE /\ queueShut = FALSE /\ aborted = FALSE
    /\ spc = [s \in Slots |-> "unborn"]
    /\ late = [s \in Slots |-> FALSE]
    /\ after = [s \in Slots |-> 0]
    /\ sent = 0

Ended(s) == spc[s] \in {"done", "panicked"}
Step(s, from, to) == spc[s] = from /\ spc' = [spc EXCEPT ![s] = to]

-----------------------------------------------------------------------------
(* The application.                                                        *)

\* Sending on the channel reaches the receivers there are; without one the
\* message is gone.  A second message replaces the first.
Send ==
    /\ asked' = TRUE
    /\ message' = (message \/ wpc = "recv")

\* Server::shutdown.
Shutdown ==
    /\ app = "running"
    /\ Send
    /\ UNCHANGED <<app, wpc, stop, queueShut, aborted, slotVars, sent>>

\* Server::join, and Server::drop, which sends first.
CallJoin ==
    /\ app = "running" /\ app' = "joining"
    /\ UNCHANGED <<asked, serveVars, slotVars, sent>>

DropServer ==
    /\ app = "running" /\ app' = "joining"
    /\ Send
    /\ UNCHANGED <<wpc, stop, queueShut, aborted, slotVars, sent>>

JoinReturns ==
    /\ app = "joining" /\ wpc = "exited" /\ app' = "joined"
    /\ UNCHANGED <<asked, serveVars, slotVars, sent>>

-----------------------------------------------------------------------------
(* The server thread: `serve', and the drop of the handles after it.       *)

ServeStep(from, to) ==
    wpc = from /\ wpc' = to /\ UNCHANGED appVars

\* The runtime cannot be built: the thread panics before it gets to `serve',
\* and unwinding drops what it owns.
RuntimeFails ==
    /\ ServeStep("spawn", "drop") /\ \A s \in Slots : spc[s] = "unborn"
    /\ UNCHANGED <<message, stop, queueShut, aborted, slotVars, sent>>

SpawnSlot(s) ==
    /\ wpc = "spawn"
    /\ Step(s, "unborn", "check")
    /\ UNCHANGED <<appVars, serveVars, late, after, sent>>

Subscribe ==
    /\ ServeStep("spawn", "recv") /\ \A s \in Slots : spc[s] # "unborn"
    /\ UNCHANGED <<message, stop, queueShut, aborted, slotVars, sent>>

Recv ==
    /\ ServeStep("recv", "stop") /\ message
    /\ UNCHANGED <<message, stop, queueShut, aborted, slotVars, sent>>

StoreStop ==
    /\ ServeStep("stop", "shut")
    /\ stop' = TRUE
    /\ UNCHANGED <<message, queueShut, aborted, slotVars, sent>>

\* RequestQueue::shutdown; a failure is logged.
ShutdownQueue ==
    /\ ServeStep("shut", "drain")
    /\ queueShut' \in BOOLEAN
    /\ UNCHANGED <<message, stop, aborted, slotVars, sent>>

\* The drain future has joined every slot, a panicked one included.
Drained ==
    /\ ServeStep("drain", "drop") /\ \A s \in Slots : Ended(s)
    /\ UNCHANGED <<message, stop, queueShut, aborted, slotVars, sent>>

\* Mutant: the time-out is reported and nothing is aborted.
TimeOutOnly ==
    /\ ServeStep("drain", "reap") /\ \E s \in Slots : ~Ended(s)
    /\ UNCHANGED <<message, stop, queueShut, aborted, slotVars, sent>>

\* shutdown_timeout has passed: abort_all.
TimeOut ==
    /\ ServeStep("drain", "reap") /\ \E s \in Slots : ~Ended(s)
    /\ aborted' = TRUE
    /\ UNCHANGED <<message, stop, queueShut, slotVars, sent>>

\* Mutant: the aborted slots are not waited for.
ReapNothing ==
    /\ ServeStep("reap", "drop")
    /\ UNCHANGED <<message, stop, queueShut, aborted, slotVars, sent>>

\* The second join_next loop.
Reap ==
    /\ ServeStep("reap", "drop") /\ \A s \in Slots : Ended(s)
    /\ UNCHANGED <<message, stop, queueShut, aborted, slotVars, sent>>

\* drop(handles), and the thread ends.
DropHandles ==
    /\ ServeStep("drop", "exited")
    /\ UNCHANGED <<message, stop, queueShut, aborted, slotVars, sent>>

-----------------------------------------------------------------------------
(* A slot.                                                                 *)

\* Mutant: the loop does not look at the flag.
CheckNothing(s) ==
    /\ Step(s, "check", "post")
    /\ UNCHANGED <<appVars, serveVars, late, after, sent>>

\* The loop condition: a relaxed load, and what it read may be out of date by
\* the time the receive is posted.
Check(s) ==
    /\ Step(s, "check", IF stop THEN "done" ELSE "post")
    /\ UNCHANGED <<appVars, serveVars, late, after, sent>>

\* The receive is posted.  On a queue that was shut down it may fail at once
\* or stay pending.
Post(s) ==
    /\ Step(s, "post", "receive")
    /\ late' \in {late, [late EXCEPT ![s] = queueShut]}
    /\ UNCHANGED <<appVars, serveVars, after, sent>>

\* The receive completes with a request, which finds its handler.
Received(s) ==
    /\ Step(s, "receive", "handler")
    /\ ~queueShut /\ sent > 0
    /\ sent' = sent - 1
    /\ after' = [after EXCEPT ![s] = IF stop THEN @ + 1 ELSE @]
    /\ UNCHANGED <<appVars, serveVars, late>>

\* Any error but the terminal ones: log and go on.
ReceiveFails(s) ==
    /\ Step(s, "receive", "check")
    /\ ~late[s]
    /\ UNCHANGED <<appVars, serveVars, late, after, sent>>

\* ERROR_OPERATION_ABORTED is terminal.
ReceiveAborted(s) ==
    /\ Step(s, "receive", "done")
    /\ queueShut /\ ~late[s]
    /\ UNCHANGED <<appVars, serveVars, late, after, sent>>

HandlerReturns(s) ==
    /\ Step(s, "handler", "send")
    /\ UNCHANGED <<appVars, serveVars, late, after, sent>>

\* The panic unwinds through the slot's task.
HandlerPanics(s) ==
    /\ MayPanic
    /\ Step(s, "handler", "panicked")
    /\ UNCHANGED <<appVars, serveVars, late, after, sent>>

\* send_response ended, well or not.
SendDone(s) ==
    /\ Step(s, "send", "check")
    /\ UNCHANGED <<appVars, serveVars, late, after, sent>>

\* An aborted task is dropped at the await it is in; dropping the operation
\* there cancels it and waits for it.
Cancel(s) ==
    /\ aborted
    /\ \E from \in {"receive", "handler", "send"} : Step(s, from, "done")
    /\ late' = [late EXCEPT ![s] = FALSE]
    /\ UNCHANGED <<appVars, serveVars, after, sent>>

\* A client sends a request.
Arrive ==
    /\ sent < MaxRequests
    /\ sent' = sent + 1
    /\ UNCHANGED <<appVars, serveVars, slotVars>>

-----------------------------------------------------------------------------
ServeNext ==
    \/ RuntimeFails \/ \E s \in Slots : SpawnSlot(s)
    \/ Subscribe \/ Recv \/ StoreStop \/ ShutdownQueue
    \/ Drained \/ TimeOut \/ Reap \/ DropHandles

\* The steps a slot takes by itself.
SlotRuns(s) ==
    Check(s) \/ Post(s) \/ ReceiveAborted(s) \/ SendDone(s) \/ Cancel(s)

Next ==
    \/ Shutdown \/ CallJoin \/ DropServer \/ JoinReturns
    \/ ServeNext
    \/ \E s \in Slots :
        SlotRuns(s) \/ Received(s) \/ ReceiveFails(s) \/ HandlerReturns(s) \/ HandlerPanics(s)
    \/ Arrive

Spec == Init /\ [][Next]_vars

\* The server thread and the slots run and the timer fires.  Handlers may take
\* for ever, clients may send nothing, nobody has to stop the server.
FairSpec ==
    /\ Spec
    /\ WF_vars(ServeNext) /\ WF_vars(JoinReturns)
    /\ \A s \in Slots : WF_vars(SlotRuns(s))

-----------------------------------------------------------------------------
(* Properties.                                                             *)

TypeOK ==
    /\ app \in {"running", "joining", "joined"} /\ asked \in BOOLEAN
    /\ message \in BOOLEAN /\ stop \in BOOLEAN /\ queueShut \in BOOLEAN /\ aborted \in BOOLEAN
    /\ wpc \in {"spawn", "recv", "stop", "shut", "drain", "reap", "drop", "exited"}
    /\ spc \in [Slots -> {"unborn", "check", "post", "receive", "handler", "send",
                          "done", "panicked"}]
    /\ late \in [Slots -> BOOLEAN]
    /\ after \in [Slots -> Nat]
    /\ sent \in 0..MaxRequests

\* The handles are dropped when no slot is left that could use them: by then
\* every slot has ended by itself, has panicked or was aborted and joined, or
\* was never spawned.
HandlesOutliveSlots ==
    wpc \in {"drop", "exited"} => \A s \in Slots : Ended(s) \/ spc[s] = "unborn"

\* Once `stop' is raised a slot starts at most one more request, although it
\* reads the flag without synchronisation and long before its receive ends.
OneMoreAtMost == \A s \in Slots : after[s] <= 1

\* A shutdown message that was received stops the server, whatever the slots
\* are doing: a handler that never returns, a queue that refuses to shut
\* down, a receive posted too late.
ShutdownCompletes == (wpc = "recv" /\ message) ~> wpc = "exited"

\* Asking the server to stop stops it.
AskingStops == asked ~> wpc = "exited"
=============================================================================
