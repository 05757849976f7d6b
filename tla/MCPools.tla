------------------------------- MODULE MCPools -------------------------------
(***************************************************************************)
(* The two pools of threads, one at a time: a behaviour is that of the     *)
(* pool chosen in its first state, while the other rests.                  *)
(***************************************************************************)
EXTENDS HostSlotPool, Sequences

CONSTANTS NumThreads, QueueBound, TaskCount, MaxJoins   \* see ThreadPool

VARIABLES
    pool,
    \* ThreadPool
    m_queueSize, tasksAdd, m_tasks, m_outstanding, m_running, owner, adding,
    threadPc, job, added, dropped, finished, joins

Threads == INSTANCE ThreadPool WITH pc <- threadPc

ASSUME ThreadsAssumption == Threads!PoolAssumption

threadVars == <<m_queueSize, tasksAdd, m_tasks, m_outstanding, m_running,
                owner, adding, threadPc, job, added, dropped, finished, joins>>
poolsVars == <<pool, vars, threadVars>>

PoolsInit ==
    /\ pool \in {"slots", "threads"}
    /\ Init
    /\ Threads!Init
    /\ pool = "slots" => m_queueSize < 0 /\ ~tasksAdd

OfSlots == pool = "slots" /\ UNCHANGED <<pool, threadVars>>
OfThreads == pool = "threads" /\ UNCHANGED <<pool, vars>>

PoolsNext ==
    \/ OfSlots /\ Run
    \/ OfSlots /\ Notify
    \/ OfSlots /\ WaitDone
    \/ OfSlots /\ Rethrow
    \/ OfSlots /\ Destroy
    \/ OfSlots /\ Join
    \/ \E s \in Slots : OfSlots /\ Wake(s)
    \/ \E s \in Slots : OfSlots /\ Step(s)
    \/ \E s \in Slots : OfSlots /\ TaskReturns(s)
    \/ \E s \in Slots : OfSlots /\ Finish(s)
    \/ OfSlots /\ Spurious
    \/ OfSlots /\ Gone
    \/ OfThreads /\ Threads!Add
    \/ OfThreads /\ Threads!Await
    \/ OfThreads /\ Threads!Join
    \/ OfThreads /\ Threads!Notify
    \/ OfThreads /\ Threads!Joined
    \/ OfThreads /\ Threads!ClearTasks
    \/ OfThreads /\ Threads!Go
    \/ OfThreads /\ Threads!Destroyed
    \/ \E w \in Threads!Workers : OfThreads /\ Threads!Take(w)
    \/ \E w \in Threads!Workers : OfThreads /\ Threads!NotifyOwner(w)
    \/ \E w \in Threads!Workers : OfThreads /\ Threads!TaskAdds(w)
    \/ \E w \in Threads!Workers : OfThreads /\ Threads!TaskNotifies(w)
    \/ \E w \in Threads!Workers : OfThreads /\ Threads!TaskEnds(w)
    \/ \E w \in Threads!Workers : OfThreads /\ Threads!CountOut(w)
    \/ OfThreads /\ Threads!Spurious
    \/ OfThreads /\ Threads!Terminated

\* The fairness of each pool.
PoolsFairness ==
    /\ WF_poolsVars(\/ OfSlots /\ (Notify \/ WaitDone \/ Rethrow \/ Join)
                    \/ OfThreads /\ Threads!CallInProgress /\ Threads!OwnerStep)
    /\ \A i \in 0 .. SlotCount - 1 :
          WF_poolsVars(\/ OfSlots /\ SlotStep(i)
                       \/ /\ i + 1 \in Threads!Workers
                          /\ OfThreads /\ Threads!WorkerStep(i + 1))

PoolsSpec == PoolsInit /\ [][PoolsNext]_poolsVars /\ PoolsFairness

-----------------------------------------------------------------------------
\* The state of both pools has its type.
PoolsTypeOK == TypeOK /\ Threads!TypeOK

\* QueueBounded: see ThreadPool.
QueueBounded == Threads!QueueBounded

\* KeepsPromise: ThreadPool implements PoolPromise; see ThreadPool.
KeepsPromise == Threads!KeepsPromise

\* PoolsReturn: no lost wake-up leaves a call of either pool waiting for ever.
Calling ==
    \/ pool = "slots" /\ caller # "gone" /\ caller # "outside"
    \/ pool = "threads" /\ owner # "destroyed" /\ owner # "outside"
Returned ==
    \/ pool = "slots" /\ caller \in {"outside", "gone"}
    \/ pool = "threads" /\ owner = "outside"
PoolsReturn == Calling ~> Returned
==============================================================================
