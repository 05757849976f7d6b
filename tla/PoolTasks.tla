------------------------------ MODULE PoolTasks ------------------------------
(***************************************************************************)
(* What the users of a pdal/util/ThreadPool see of it: tasks wait in a     *)
(* queue, a thread takes the oldest one and runs it, and nobody can add to *)
(* a pool that was joined.  ThreadPool, the pool in detail, implements     *)
(* PoolPromise, which is made of these steps; the modules of the readers   *)
(* and writers that queue work are written over them.                      *)
(***************************************************************************)
EXTENDS Integers, Sequences, FiniteSets, SequencesExt

CONSTANTS
    PoolThreads     \* how many tasks run at a time

ASSUME PoolTasksAssumption == PoolThreads \in Nat \ {0}

VARIABLES
    waiting,        \* the tasks in the queue, oldest first
    running,        \* the tasks the threads have taken
    open            \* add() accepts tasks

poolVars == <<waiting, running, open>>

NoTasks(isOpen) == waiting = <<>> /\ running = {} /\ open = isOpen

Idle == waiting = <<>> /\ running = {}

\* To add to a pool that was joined would throw, and in a task end the program.
AddTasks(tasks) ==
    /\ open
    /\ waiting' = waiting \o tasks
    /\ UNCHANGED <<running, open>>

StartTask(task) ==
    /\ waiting # <<>> /\ task = Head(waiting)
    /\ Cardinality(running) < PoolThreads
    /\ waiting' = Tail(waiting)
    /\ running' = running \cup {task}
    /\ UNCHANGED open

FinishTask(task) ==
    /\ task \in running
    /\ running' = running \ {task}
    /\ UNCHANGED <<waiting, open>>

ClosePool ==
    /\ open
    /\ open' = FALSE
    /\ UNCHANGED <<waiting, running>>

DropWaiting ==
    /\ waiting' = <<>>
    /\ UNCHANGED <<running, open>>
==============================================================================
