----------------------------- MODULE PoolPromise -----------------------------
(***************************************************************************)
(* What a ThreadPool promises its owner: every accepted task starts in the *)
(* order it was added and runs once, unless it is cleared while it waits;  *)
(* await() and join() return, and not before the pool is idle.             *)
(***************************************************************************)
EXTENDS PoolTasks

CONSTANTS Tasks

VARIABLES
    call    \* the call the owner is in: "none", "await" or "join"

promiseVars == <<waiting, running, open, call>>

Init ==
    /\ NoTasks(TRUE)
    /\ call = "none"

\* The owner adds a task, or a task does.
Accept == (\E task \in Tasks : AddTasks(<<task>>)) /\ UNCHANGED call

Start == (\E task \in Tasks : StartTask(task)) /\ UNCHANGED call

Finish(task) == FinishTask(task) /\ UNCHANGED call

Await ==
    /\ call = "none"
    /\ call' = "await"
    /\ UNCHANGED poolVars

Join ==
    /\ call = "none"
    /\ ClosePool
    /\ call' = "join"

Return ==
    /\ call # "none"
    /\ Idle
    /\ call' = "none"
    /\ UNCHANGED poolVars

Clear == call = "none" /\ DropWaiting /\ UNCHANGED call

Reopen ==
    /\ call = "none"
    /\ ~open
    /\ open' = TRUE
    /\ UNCHANGED <<waiting, running, call>>

Next == Accept \/ Start \/ (\E task \in Tasks : Finish(task)) \/ Await
        \/ Join \/ Return \/ Clear \/ Reopen

Spec == /\ Init
        /\ [][Next]_promiseVars
        /\ WF_promiseVars(Start)
        /\ \A task \in Tasks : WF_promiseVars(Finish(task))
        /\ WF_promiseVars(Return)
==============================================================================
