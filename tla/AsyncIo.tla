------------------------------ MODULE AsyncIo ------------------------------
(***************************************************************************)
(* What an awaited overlapped operation promises the task that submits it, *)
(* with no completion port, reference count or waker in sight.             *)
(*                                                                         *)
(* A task lends its buffer to the kernel.  The kernel settles the          *)
(* operation with one outcome and stops using the buffer.  Only then does  *)
(* the task get control back: either with exactly that outcome, or with    *)
(* nothing because the future was dropped.  `Overlapped' implements this.  *)
(***************************************************************************)
CONSTANTS Tasks,      \* the tasks that await operations
          Outcomes,   \* the results an operation can have
          NoResult    \* no result yet

VARIABLES phase,      \* where each task's operation stands
          outcome,    \* what the kernel settled the task's operation with
          answer      \* the result the task's await evaluates to

vars == <<phase, outcome, answer>>

Init ==
    /\ phase = [t \in Tasks |-> "idle"]
    /\ outcome = [t \in Tasks |-> NoResult]
    /\ answer = [t \in Tasks |-> NoResult]

\* The task lends its buffer: `Op::new' and the `Http*' call.
Submit(t) ==
    /\ phase[t] = "idle"
    /\ phase' = [phase EXCEPT ![t] = "lent"]
    /\ UNCHANGED <<outcome, answer>>

\* The kernel is done with the buffer, and o is what it reports.
Settle(t, o) ==
    /\ phase[t] = "lent"
    /\ phase' = [phase EXCEPT ![t] = "settled"]
    /\ outcome' = [outcome EXCEPT ![t] = o]
    /\ UNCHANGED answer

\* The await evaluates to the outcome.
Resolve(t) ==
    /\ phase[t] = "settled"
    /\ phase' = [phase EXCEPT ![t] = "resolved"]
    /\ answer' = [answer EXCEPT ![t] = outcome[t]]
    /\ UNCHANGED outcome

\* The task owns its buffer again, having seen the answer or, when its future
\* was dropped, without one.  In neither case is the kernel still at it.
Leave(t) ==
    /\ phase[t] \in {"settled", "resolved"}
    /\ phase' = [phase EXCEPT ![t] = "idle"]
    /\ outcome' = [outcome EXCEPT ![t] = NoResult]
    /\ answer' = [answer EXCEPT ![t] = NoResult]

Next ==
    \E t \in Tasks :
        \/ Submit(t)
        \/ \E o \in Outcomes : Settle(t, o)
        \/ Resolve(t)
        \/ Leave(t)

Spec == Init /\ [][Next]_vars
=============================================================================
