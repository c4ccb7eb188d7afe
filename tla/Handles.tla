------------------------------- MODULE Handles ------------------------------
(***************************************************************************)
(* Who owns the http.sys handles, and in what order they go: the builder   *)
(* and OwnedHandles of src/crates/httpsys/src/server.rs, the guards of     *)
(* init.rs and RequestQueue of queue.rs.                                   *)
(*                                                                         *)
(* Construction takes one fallible step after the other.  A failure, the   *)
(* drop of a builder that was never run, and the end of the server thread  *)
(* each drop the handles they own, in the order Rust drops them.  The      *)
(* session and the queue are shared through `Arc' and go with the last     *)
(* reference.                                                              *)
(***************************************************************************)
EXTENDS Naturals, Sequences

CONSTANTS MaxKept,         \* requests that may outlive the server thread
          MaxRoutes        \* bound: calls of `route'

VARIABLES
    phase,        \* construction, builder, server or teardown
    open,         \* kernel objects that are open
    sessionRefs,  \* Arc<ServerSession>: the owner's and the group's
    queueRefs,    \* Arc<RequestQueue>: the owner's, serve's, kept requests'
    kept,         \* requests that a task of the application holds
    failedAt,     \* history: the step of the construction that failed
    todo,         \* handles the owner is dropping, in order
    nextId,       \* ServerBuilder.next_id
    urls,         \* contexts registered with the URL group
    routes        \* keys of ServerBuilder.routes

routeVars == <<nextId, urls, routes>>
vars == <<phase, open, sessionRefs, queueRefs, kept, failedAt, todo, routeVars>>

Init ==
    /\ phase = "init" /\ open = {}
    /\ sessionRefs = 0 /\ queueRefs = 0 /\ kept = 0
    /\ failedAt = "none" /\ todo = <<>>
    /\ nextId = 1 /\ urls = {} /\ routes = {}

-----------------------------------------------------------------------------
(* ServerBuilder::with_config.                                             *)

\* The step succeeds and opens `object'.
Open(at, next, object) ==
    /\ phase = at /\ phase' = next
    /\ open' = open \cup {object}
    /\ UNCHANGED <<kept, failedAt, todo, routeVars>>

\* The step fails: the locals made so far are dropped, the newest first.
Fail(at, locals) ==
    /\ phase = at /\ phase' = "failed"
    /\ todo' = locals /\ failedAt' = at
    /\ UNCHANGED <<sessionRefs, queueRefs, kept, routeVars>>

HttpInitialize ==
    \/ Open("init", "session", "init") /\ UNCHANGED <<sessionRefs, queueRefs>>
    \/ Fail("init", <<>>) /\ UNCHANGED open

CreateSession ==
    \/ Open("session", "group", "session") /\ sessionRefs' = 1 /\ UNCHANGED queueRefs
    \/ Fail("session", <<"init">>) /\ UNCHANGED open

CreateUrlGroup ==
    \/ Open("group", "queue", "group") /\ sessionRefs' = 2 /\ UNCHANGED queueRefs
    \/ Fail("group", <<"session", "init">>) /\ UNCHANGED open

CreateQueue ==
    \/ Open("queue", "port", "queue") /\ UNCHANGED <<sessionRefs, queueRefs>>
    \/ Fail("queue", <<"group", "session", "init">>) /\ UNCHANGED open

\* IoPort::new.  When it fails RequestQueue::new returns the error with the
\* queue's handle still in a local that has no destructor.
CreatePort ==
    \/ Open("port", "associate", "port") /\ UNCHANGED <<sessionRefs, queueRefs>>
    \/ Fail("port", <<"group", "session", "init">>) /\ UNCHANGED open

\* Mutant: the queue is not closed when the association fails.
AssociateLeaks ==
    \/ /\ phase = "associate" /\ phase' = "bind" /\ queueRefs' = 1
       /\ UNCHANGED <<open, sessionRefs, kept, failedAt, todo, routeVars>>
    \/ /\ Fail("associate", <<"group", "session", "init">>)
       /\ open' = open \ {"port"}

\* IoPort::associate.  When it fails the queue is closed and the port dropped.
Associate ==
    \/ /\ phase = "associate" /\ phase' = "bind" /\ queueRefs' = 1
       /\ UNCHANGED <<open, sessionRefs, kept, failedAt, todo, routeVars>>
    \/ /\ Fail("associate", <<"group", "session", "init">>)
       /\ open' = open \ {"queue", "port"}

\* bind_url_group and set_queue_length.
Configure ==
    \/ /\ phase \in {"bind", "length"}
       /\ phase' = IF phase = "bind" THEN "length" ELSE "builder"
       /\ UNCHANGED <<open, sessionRefs, queueRefs, kept, failedAt, todo, routeVars>>
    \/ /\ \E at \in {"bind", "length"} : Fail(at, <<"queue", "group", "session", "init">>)
       /\ UNCHANGED open

-----------------------------------------------------------------------------
(* The builder and the server.                                             *)

\* Mutant: the handler is stored under the next id, read after counting it up.
RouteBehind ==
    /\ phase = "builder" /\ nextId <= MaxRoutes
    /\ nextId' = nextId + 1
    /\ \/ urls' = urls \cup {nextId} /\ routes' = routes \cup {nextId'}
       \/ UNCHANGED <<urls, routes>>
    /\ UNCHANGED <<phase, open, sessionRefs, queueRefs, kept, failedAt, todo>>

\* ServerBuilder::route: the id is used up even when add_url fails.
Route ==
    /\ phase = "builder" /\ nextId <= MaxRoutes
    /\ nextId' = nextId + 1
    /\ \/ urls' = urls \cup {nextId} /\ routes' = routes \cup {nextId}
       \/ UNCHANGED <<urls, routes>>
    /\ UNCHANGED <<phase, open, sessionRefs, queueRefs, kept, failedAt, todo>>

\* A builder's fields are dropped in the order they are declared.
DropBuilder ==
    /\ phase = "builder"
    /\ phase' = "unused"
    /\ todo' = <<"init", "session", "group", "queue">>
    /\ UNCHANGED <<open, sessionRefs, queueRefs, kept, failedAt, routeVars>>

\* ServerBuilder::run: the handles move to the server thread, and `serve' gets
\* a reference to the queue of its own.
Run ==
    /\ phase = "builder" /\ phase' = "serving"
    /\ queueRefs' = queueRefs + 1
    /\ UNCHANGED <<open, sessionRefs, kept, failedAt, todo, routeVars>>

\* The server thread cannot be spawned: `run' panics, and the closure that
\* never ran is dropped with the handles it has taken over.
RunPanics ==
    /\ Fail("builder", <<"queue", "group", "session", "init">>)
    /\ UNCHANGED open

\* A handler leaves its Request with a task that goes on.
Keep ==
    /\ phase = "serving" /\ kept < MaxKept
    /\ kept' = kept + 1 /\ queueRefs' = queueRefs + 1
    /\ UNCHANGED <<phase, open, sessionRefs, failedAt, todo, routeVars>>

\* `serve' returns and its reference goes; then drop(handles).
ServeReturns ==
    /\ phase = "serving" /\ phase' = "dropped"
    /\ queueRefs' = queueRefs - 1
    /\ todo' = <<"queue", "group", "session", "init">>
    /\ UNCHANGED <<open, sessionRefs, kept, failedAt, routeVars>>

-----------------------------------------------------------------------------
(* Teardown.                                                               *)

\* The last reference to the queue: RequestQueue::drop closes the queue, then
\* the field _io is dropped and the port closed.
ReleaseQueue ==
    /\ queueRefs' = queueRefs - 1
    /\ open' = IF queueRefs = 1 THEN open \ {"queue", "port"} ELSE open

\* Mutant: the session is closed with the owner's reference.
ReleaseSessionNow(group) ==
    /\ sessionRefs' = sessionRefs - 1
    /\ open' = (open \ group) \ {"session"}

ReleaseSession(group) ==
    /\ sessionRefs' = sessionRefs - 1
    /\ open' = (open \ group) \ (IF sessionRefs = 1 THEN {"session"} ELSE {})

\* The owner drops the next handle.  A group closes itself and then lets its
\* session go.
DropNext ==
    /\ todo # <<>>
    /\ todo' = Tail(todo)
    /\ CASE Head(todo) = "queue" -> ReleaseQueue /\ UNCHANGED sessionRefs
         [] Head(todo) = "group" -> ReleaseSession({"group"}) /\ UNCHANGED queueRefs
         [] Head(todo) = "session" -> ReleaseSession({}) /\ UNCHANGED queueRefs
         [] Head(todo) = "init" -> open' = open \ {"init"} /\ UNCHANGED <<sessionRefs, queueRefs>>
    /\ UNCHANGED <<phase, kept, failedAt, routeVars>>

\* A task of the application drops a Request it has kept.
DropKept ==
    /\ kept > 0 /\ kept' = kept - 1
    /\ ReleaseQueue
    /\ UNCHANGED <<phase, sessionRefs, failedAt, todo, routeVars>>

-----------------------------------------------------------------------------
Next ==
    \/ HttpInitialize \/ CreateSession \/ CreateUrlGroup \/ CreateQueue
    \/ CreatePort \/ Associate \/ Configure
    \/ Route \/ DropBuilder \/ Run \/ RunPanics \/ Keep \/ ServeReturns
    \/ DropNext \/ DropKept

Spec == Init /\ [][Next]_vars

-----------------------------------------------------------------------------
(* Properties.                                                             *)

Objects == {"init", "session", "group", "queue", "port"}

\* Children go before their parents: the group before its session, the queue
\* before the port whose threads reclaim what closing it cancels, and all of
\* them before HttpTerminate.  Field order keeps that for a failed construction
\* and for a server, shared ownership for the session and the port.  Three
\* exceptions to HttpTerminate being last: a Request that was kept holds the
\* queue longer, a failed IoPort::new leaves the queue behind, and a builder
\* that is dropped unused terminates first, its HttpInitializer being the first
\* of its fields.  (The port is the I/O manager's.)
TeardownOrder ==
    /\ "group" \in open => "session" \in open
    /\ phase \in {"builder", "serving", "unused", "dropped"} =>
           ("queue" \in open => "port" \in open)
    /\ phase # "unused" /\ "init" \notin open =>
           /\ open \cap {"session", "group"} = {}
           /\ "queue" \in open => kept > 0 \/ failedAt = "port"

\* When everything has been dropped nothing is left open, whichever step of
\* the construction failed; except that a failed IoPort::new leaves the queue.
NothingLeaked ==
    phase \in {"failed", "unused", "dropped"} /\ todo = <<>> /\ kept = 0 =>
        open = (IF failedAt = "port" THEN {"queue"} ELSE {})
=============================================================================
