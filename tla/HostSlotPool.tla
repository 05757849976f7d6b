---------------------------- MODULE HostSlotPool ----------------------------
(***************************************************************************)
(* The fixed-slot worker pool of pdal/private/HostSlotPool.hpp and the way *)
(* its users share the rows of a batch among the slots: one thread calls   *)
(* run() again and again and finally destroys the pool; every slot is one  *)
(* thread that performs the task once for each run.                        *)
(*                                                                         *)
(* A step is a critical section of m_mutex, a notification made outside    *)
(* it, or one row of a slot's range.  A thread that waits on a condition   *)
(* variable is "asleep"; a notification (or a spurious wake-up) makes it   *)
(* test its condition again.                                               *)
(***************************************************************************)
EXTENDS Integers, FiniteSets

CONSTANTS
    SlotCount,  \* m_slots
    RowCount,   \* the rows of every batch
    MaxRuns     \* bounds the calls of run()

ASSUME SlotsAssumption ==
    /\ SlotCount \in Nat \ {0}
    /\ RowCount \in Nat
    /\ MaxRuns \in Nat

Slots == 0 .. SlotCount - 1
Rows  == 0 .. RowCount - 1

\* No task, or no error.
None == 0 - 1

VARIABLES
    caller,         \* where the calling thread is
    m_generation, m_pending, m_stop,
    m_task,         \* the run whose task is published, or None
    m_errors,       \* the row whose exception each slot caught, or None
    pc,             \* where each slot's thread is
    seen,           \* the generation each slot has taken
    task,           \* the run whose task a slot copied, or None
    row,            \* the next row of the slot's range
    \* history
    failing,        \* the rows that throw in this run
    processed,      \* how often each row was begun in this run
    raised          \* what the last run rethrew, or None

workers == <<pc, seen, task, row>>
vars == <<caller, m_generation, m_pending, m_stop, m_task, m_errors,
          workers, failing, processed, raised>>

TypeOK ==
    /\ caller \in {"outside", "notifying", "waiting", "asleep", "returning",
                   "stopping", "joining", "gone"}
    /\ m_generation \in 0 .. MaxRuns + 1
    /\ m_pending \in 0 .. SlotCount
    /\ m_stop \in BOOLEAN
    /\ m_task \in {None} \cup 1 .. MaxRuns
    /\ m_errors \in [Slots -> {None} \cup Rows]
    /\ pc \in [Slots -> {"waking", "asleep", "running", "finishing", "exited"}]
    /\ seen \in [Slots -> 0 .. MaxRuns + 1]
    /\ task \in [Slots -> {None} \cup 1 .. MaxRuns]
    /\ row \in [Slots -> 0 .. RowCount]
    /\ failing \in SUBSET Rows
    /\ processed \in [Rows -> Nat]
    /\ raised \in {None} \cup Rows

\* The constructor: the threads are started and have not looked yet.
Init ==
    /\ caller = "outside"
    /\ m_generation = 0
    /\ m_pending = 0
    /\ m_stop = FALSE
    /\ m_task = None
    /\ m_errors = [s \in Slots |-> None]
    /\ pc = [s \in Slots |-> "waking"]
    /\ seen = [s \in Slots |-> 0]
    /\ task = [s \in Slots |-> None]
    /\ row = [s \in Slots |-> 0]
    /\ failing = {}
    /\ processed = [r \in Rows |-> 0]
    /\ raised = None

-----------------------------------------------------------------------------
\* slotRange: contiguous, ascending by slot; the first slots take one more.
SmallerOf(a, b) == IF a <= b THEN a ELSE b
RowsPerSlot == RowCount \div SlotCount
Remainder   == RowCount % SlotCount

\* Fault: the larger slots are not allowed for in the begin of later ones.
EvenBegin(slot) == slot * RowsPerSlot

SlotBegin(slot) == slot * RowsPerSlot + SmallerOf(slot, Remainder)
SlotEnd(slot) ==
    SlotBegin(slot) + RowsPerSlot + (IF slot < Remainder THEN 1 ELSE 0)

-----------------------------------------------------------------------------
(***************************************************************************)
(* run(), on the calling thread.                                           *)
(***************************************************************************)
\* Fault: the errors of the last run are kept.
KeptErrors == m_errors

ClearedErrors == [s \in Slots |-> None]

Run ==
    /\ caller = "outside"
    /\ m_generation < MaxRuns
    /\ m_task' = m_generation + 1
    /\ m_pending' = SlotCount
    /\ m_errors' = ClearedErrors
    /\ m_generation' = m_generation + 1
    /\ caller' = "notifying"
    /\ failing' \in SUBSET Rows
    /\ processed' = [r \in Rows |-> 0]
    /\ UNCHANGED <<m_stop, workers, raised>>

Woken == [s \in Slots |-> IF pc[s] = "asleep" THEN "waking" ELSE pc[s]]

\* m_wake.notify_all, after the lock is released.
Notify ==
    /\ caller \in {"notifying", "stopping"}
    /\ pc' = Woken
    /\ caller' = IF caller = "notifying" THEN "waiting" ELSE "joining"
    /\ UNCHANGED <<m_generation, m_pending, m_stop, m_task, m_errors, seen,
                   task, row, failing, processed, raised>>

\* Fault: the caller returns when the first slot has finished.
FirstDone == m_pending < SlotCount

AllDone == m_pending = 0

\* The condition of m_done.
WaitDone ==
    /\ caller = "waiting"
    /\ IF AllDone
       THEN m_task' = None /\ caller' = "returning"
       ELSE m_task' = m_task /\ caller' = "asleep"
    /\ UNCHANGED <<m_generation, m_pending, m_stop, m_errors, workers,
                   failing, processed, raised>>

\* The lowest slot's exception is rethrown; run() has returned.
Rethrow ==
    /\ caller = "returning"
    /\ raised' = IF \A s \in Slots : m_errors[s] = None
                 THEN None
                 ELSE m_errors[CHOOSE s \in Slots :
                        /\ m_errors[s] # None
                        /\ \A u \in Slots : u < s => m_errors[u] = None]
    /\ caller' = "outside"
    /\ UNCHANGED <<m_generation, m_pending, m_stop, m_task, m_errors, workers,
                   failing, processed>>

-----------------------------------------------------------------------------
\* ~HostSlotPool
Destroy ==
    /\ caller = "outside"
    /\ m_stop' = TRUE
    /\ m_generation' = m_generation + 1
    /\ caller' = "stopping"
    /\ UNCHANGED <<m_pending, m_task, m_errors, workers, failing, processed,
                   raised>>

Join ==
    /\ caller = "joining"
    /\ \A s \in Slots : pc[s] = "exited"
    /\ caller' = "gone"
    /\ UNCHANGED <<m_generation, m_pending, m_stop, m_task, m_errors, workers,
                   failing, processed, raised>>

-----------------------------------------------------------------------------
(***************************************************************************)
(* loop(), on the thread of a slot.                                        *)
(***************************************************************************)
\* Fault: a slot waits for a task instead of a new generation.
TaskThere(s) == m_task # None \/ m_stop

NewGeneration(s) == m_generation # seen[s]

\* The condition of m_wake: take the generation, or wait.
Wake(s) ==
    /\ pc[s] = "waking"
    /\ IF ~NewGeneration(s)
       THEN pc' = [pc EXCEPT ![s] = "asleep"] /\ UNCHANGED <<seen, task, row>>
       ELSE /\ seen' = [seen EXCEPT ![s] = m_generation]
            /\ IF m_stop
               THEN pc' = [pc EXCEPT ![s] = "exited"] /\ UNCHANGED <<task, row>>
               ELSE /\ task' = [task EXCEPT ![s] = m_task]
                    /\ row' = [row EXCEPT ![s] = SlotBegin(s)]
                    /\ pc' = [pc EXCEPT ![s] = IF m_task = None
                                               THEN "finishing"
                                               ELSE "running"]
    /\ UNCHANGED <<caller, m_generation, m_pending, m_stop, m_task, m_errors,
                   failing, processed, raised>>

\* One row of the task; an exception ends the slot's share of it.
Step(s) ==
    /\ pc[s] = "running"
    /\ row[s] < SlotEnd(s)
    /\ processed' = [processed EXCEPT ![row[s]] = @ + 1]
    /\ IF row[s] \in failing
       THEN /\ m_errors' = [m_errors EXCEPT ![s] = row[s]]
            /\ pc' = [pc EXCEPT ![s] = "finishing"]
            /\ UNCHANGED row
       ELSE /\ row' = [row EXCEPT ![s] = @ + 1]
            /\ UNCHANGED <<m_errors, pc>>
    /\ UNCHANGED <<caller, m_generation, m_pending, m_stop, m_task, seen, task,
                   failing, raised>>

TaskReturns(s) ==
    /\ pc[s] = "running"
    /\ row[s] >= SlotEnd(s)
    /\ pc' = [pc EXCEPT ![s] = "finishing"]
    /\ UNCHANGED <<caller, m_generation, m_pending, m_stop, m_task, m_errors,
                   seen, task, row, failing, processed, raised>>

\* Fault: the notification is lost.
NobodyWoken == caller

CallerWoken == IF m_pending = 1 /\ caller = "asleep" THEN "waiting" ELSE caller

\* --m_pending, and m_done.notify_all under the lock when it reaches 0.
Finish(s) ==
    /\ pc[s] = "finishing"
    /\ m_pending' = m_pending - 1
    /\ caller' = CallerWoken
    /\ pc' = [pc EXCEPT ![s] = "waking"]
    /\ task' = [task EXCEPT ![s] = None]
    /\ UNCHANGED <<m_generation, m_stop, m_task, m_errors, seen, row, failing,
                   processed, raised>>

\* Condition variables may wake without a notification.
Spurious ==
    /\ \/ \E s \in Slots : /\ pc[s] = "asleep"
                           /\ pc' = [pc EXCEPT ![s] = "waking"]
                           /\ UNCHANGED caller
       \/ /\ caller = "asleep"
          /\ caller' = "waiting"
          /\ UNCHANGED pc
    /\ UNCHANGED <<m_generation, m_pending, m_stop, m_task, m_errors, seen,
                   task, row, failing, processed, raised>>

-----------------------------------------------------------------------------
CallerStep == Run \/ Notify \/ WaitDone \/ Rethrow \/ Destroy \/ Join
SlotStep(s) == Wake(s) \/ Step(s) \/ TaskReturns(s) \/ Finish(s)
Gone == caller = "gone" /\ UNCHANGED vars

Next == CallerStep \/ (\E s \in Slots : SlotStep(s)) \/ Spurious \/ Gone

\* Every thread that can go on does; nothing obliges the caller to call, and
\* nothing obliges a sleeper to wake by itself.
Fairness ==
    /\ WF_vars(Notify \/ WaitDone \/ Rethrow \/ Join)
    /\ \A s \in Slots : WF_vars(SlotStep(s))

Spec == Init /\ [][Next]_vars /\ Fairness

-----------------------------------------------------------------------------
\* The slots that have still to finish the current run.
Unfinished ==
    {s \in Slots : m_generation # seen[s] \/ pc[s] \in {"running", "finishing"}}

\* NoDanglingTask: the task refers to a callable of run()'s caller, and
\* m_errors is written without the lock; a slot is inside its task only during
\* the very run() that published it, never when the caller reads the errors or
\* has left run().
NoDanglingTask ==
    \A s \in Slots :
        pc[s] = "running" =>
            /\ caller \in {"notifying", "waiting", "asleep"}
            /\ task[s] = m_generation

\* FirstFailureSurfaces: run() rethrows the exception of the first failing row
\* in the original order, although the slots meet their rows in any order, and
\* nothing when no row fails.
FirstFailureSurfaces ==
    [][Rethrow =>
         \/ failing = {} /\ raised' = None
         \/ /\ raised' \in failing
            /\ \A r \in failing : raised' <= r]_vars

\* RowsOnce: when run() returns, every row before the first failing one was
\* processed exactly once, and no row more than once.
RowsOnce ==
    caller = "returning" =>
        \A r \in Rows :
            /\ processed[r] <= 1
            /\ (\A f \in failing : r <= f) => processed[r] = 1

\* CallsReturn: no lost wake-up leaves run() or the destructor waiting for ever.
CallsReturn ==
    /\ caller = "notifying" ~> caller = "outside"
    /\ caller = "stopping" ~> caller = "gone"
=============================================================================
