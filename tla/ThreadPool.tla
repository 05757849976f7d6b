----------------------------- MODULE ThreadPool -----------------------------
(***************************************************************************)
(* pdal/util/ThreadPool: a bounded task queue, the threads that serve it,  *)
(* and one owner that adds tasks, awaits them and joins the threads.       *)
(*                                                                         *)
(* The LAZ compressor bounds the queue.  The readers leave it unbounded,   *)
(* and there a task may itself add tasks (for a catalog, a hierarchy page  *)
(* or a node page); the owner of such tasks awaits them before it joins.   *)
(*                                                                         *)
(* A step is one critical section of m_mutex or one notification made      *)
(* outside it.  Whoever waits on a condition variable is "asleep" until a  *)
(* notification, or a spurious wake-up, makes it test its condition again. *)
(***************************************************************************)
EXTENDS Integers, Sequences, FiniteSets, SequencesExt

CONSTANTS
    NumThreads,     \* m_numThreads
    QueueBound,     \* the queue size of a bounded pool
    TaskCount,      \* bounds the tasks that are ever added
    MaxJoins        \* bounds the joins

PoolAssumption ==
    /\ NumThreads \in Nat \ {0}
    /\ QueueBound \in Nat \ {0}
    /\ TaskCount \in Nat
    /\ MaxJoins \in Nat

Workers == 1 .. NumThreads

VARIABLES
    m_queueSize,    \* -1: no bound
    tasksAdd,       \* whether the tasks themselves add tasks
    m_tasks,        \* tasks are numbered in the order they are added
    m_outstanding,
    m_running,
    owner,          \* where the owner is
    adding,         \* the operation the owner's notification belongs to
    pc,             \* where each thread is
    job,            \* the task each thread took last, 0 before the first
    \* history
    added,          \* how many tasks were accepted
    dropped,        \* the tasks that clearTasks removed
    finished,       \* how often each task ran to its end
    joins           \* how many joins have begun

ownerVars == <<owner, adding, joins>>
usage == <<m_queueSize, tasksAdd>>
vars == <<usage, m_tasks, m_outstanding, m_running, ownerVars, pc, job,
          added, dropped, finished>>

Ids == 1 .. TaskCount

TypeOK ==
    /\ m_queueSize \in {-1, QueueBound}
    /\ tasksAdd \in BOOLEAN
    /\ m_tasks \in BoundedSeq(Ids, TaskCount)
    /\ m_outstanding \in 0 .. NumThreads
    /\ m_running \in BOOLEAN
    /\ owner \in {"outside", "addWaiting", "addAsleep", "notifying",
                  "awaiting", "awaitAsleep", "joining", "destroyed"}
    /\ adding \in BOOLEAN
    /\ pc \in [Workers -> {"waking", "asleep", "taken", "running", "notifying",
                           "returned", "ended", "exited"}]
    /\ job \in [Workers -> 0 .. TaskCount]
    /\ added \in 0 .. TaskCount
    /\ dropped \subseteq Ids
    /\ finished \in [Ids -> Nat]
    /\ joins \in 0 .. MaxJoins

\* The constructor has called go().
Init ==
    /\ m_queueSize \in {-1, QueueBound}
    /\ tasksAdd \in {FALSE, m_queueSize < 0}
    /\ m_tasks = <<>>
    /\ m_outstanding = 0
    /\ m_running = TRUE
    /\ owner = "outside"
    /\ adding = FALSE
    /\ pc = [w \in Workers |-> "waking"]
    /\ job = [w \in Workers |-> 0]
    /\ added = 0
    /\ dropped = {}
    /\ finished = [t \in Ids |-> 0]
    /\ joins = 0

-----------------------------------------------------------------------------
\* Fault: the size is compared before the new task is counted.
RoomForTwo == m_queueSize < 0 \/ Len(m_tasks) <= m_queueSize

HasRoom == m_queueSize < 0 \/ Len(m_tasks) < m_queueSize

Emplace ==
    /\ added < TaskCount
    /\ m_tasks' = Append(m_tasks, added + 1)
    /\ added' = added + 1

\* notify_all on m_consumeCv and on m_produceCv.
ThreadsWoken == [w \in Workers |-> IF pc[w] = "asleep" THEN "waking" ELSE pc[w]]
OwnerWoken == CASE owner = "addAsleep"   -> "addWaiting"
                [] owner = "awaitAsleep" -> "awaiting"
                [] OTHER                 -> owner

-----------------------------------------------------------------------------
(***************************************************************************)
(* The owner.                                                              *)
(***************************************************************************)
Add ==
    /\ \/ owner = "outside" /\ m_running /\ added < TaskCount
       \/ owner = "addWaiting"
    /\ IF HasRoom
       THEN Emplace /\ owner' = "notifying"
       ELSE owner' = "addAsleep" /\ UNCHANGED <<m_tasks, added>>
    /\ adding' = TRUE
    /\ UNCHANGED <<usage, m_outstanding, m_running, pc, job, dropped,
                   finished, joins>>

\* Fault: running tasks are forgotten.
QueueEmpty == m_tasks = <<>>

Idle == m_outstanding = 0 /\ m_tasks = <<>>

Await ==
    /\ \/ owner = "outside"
       \/ owner = "awaiting"
    /\ owner' = IF Idle THEN "outside" ELSE "awaitAsleep"
    /\ UNCHANGED <<usage, m_tasks, m_outstanding, m_running, adding, pc,
                   job, added, dropped, finished, joins>>

\* join(), also as the first half of stop(), cycle() and resize() and as the
\* destructor.
Join ==
    /\ owner = "outside"
    /\ m_running
    /\ joins < MaxJoins
    /\ tasksAdd => Idle
    /\ m_running' = FALSE
    /\ joins' = joins + 1
    /\ adding' = FALSE
    /\ owner' = "notifying"
    /\ UNCHANGED <<usage, m_tasks, m_outstanding, pc, job, added,
                   dropped, finished>>

\* m_consumeCv.notify_all at the end of add() and in join().
Notify ==
    /\ owner = "notifying"
    /\ pc' = ThreadsWoken
    /\ owner' = IF adding THEN "outside" ELSE "joining"
    /\ UNCHANGED <<usage, m_tasks, m_outstanding, m_running, adding, job,
                   added, dropped, finished, joins>>

Joined ==
    /\ owner = "joining"
    /\ \A w \in Workers : pc[w] = "exited"
    /\ owner' = "outside"
    /\ UNCHANGED <<usage, m_tasks, m_outstanding, m_running, adding, pc,
                   job, added, dropped, finished, joins>>

\* clearTasks(): by itself before a stop(), and in stop() after the join.
ClearTasks ==
    /\ owner = "outside"
    /\ tasksAdd => Idle
    /\ m_tasks # <<>>
    /\ dropped' = dropped \cup ToSet(m_tasks)
    /\ m_tasks' = <<>>
    /\ UNCHANGED <<usage, m_outstanding, m_running, ownerVars, pc, job,
                   added, finished>>

\* go(), in cycle() and resize().
Go ==
    /\ owner = "outside"
    /\ ~m_running
    /\ m_running' = TRUE
    /\ pc' = [w \in Workers |-> "waking"]
    /\ job' = [w \in Workers |-> 0]
    /\ UNCHANGED <<usage, m_tasks, m_outstanding, ownerVars, added,
                   dropped, finished>>

\* The pool is destroyed; its destructor's join() finds it stopped.
Destroyed ==
    /\ owner = "outside"
    /\ ~m_running
    /\ owner' = "destroyed"
    /\ UNCHANGED <<usage, m_tasks, m_outstanding, m_running, adding, pc,
                   job, added, dropped, finished, joins>>

-----------------------------------------------------------------------------
(***************************************************************************)
(* work(), on each thread.                                                 *)
(***************************************************************************)
\* Fault: a stopped pool takes no more tasks.
TakesIfRunning == m_tasks # <<>> /\ m_running

TakesTask == m_tasks # <<>>

\* The condition of m_consumeCv and what follows it under the lock.
Take(w) ==
    /\ pc[w] = "waking"
    /\ \/ /\ TakesTask
          /\ job' = [job EXCEPT ![w] = Head(m_tasks)]
          /\ m_tasks' = Tail(m_tasks)
          /\ m_outstanding' = m_outstanding + 1
          /\ pc' = [pc EXCEPT ![w] = "taken"]
       \/ /\ ~TakesTask
          /\ pc' = [pc EXCEPT ![w] = IF m_running THEN "asleep" ELSE "exited"]
          /\ UNCHANGED <<job, m_tasks, m_outstanding>>
    /\ UNCHANGED <<usage, m_running, ownerVars, added, dropped, finished>>

\* Fault: the notification after a task is lost.
NobodyWoken(w) == IF pc[w] = "taken" THEN OwnerWoken ELSE owner

WokenBy(w) == OwnerWoken

\* m_produceCv.notify_all, before the task and after it.
NotifyOwner(w) ==
    /\ pc[w] \in {"taken", "ended"}
    /\ owner' = WokenBy(w)
    /\ pc' = [pc EXCEPT ![w] = IF @ = "taken" THEN "running" ELSE "waking"]
    /\ UNCHANGED <<usage, m_tasks, m_outstanding, m_running, adding, job,
                   added, dropped, finished, joins>>

\* The task adds another one.
TaskAdds(w) ==
    /\ pc[w] = "running"
    /\ tasksAdd
    /\ m_running
    /\ Emplace
    /\ pc' = [pc EXCEPT ![w] = "notifying"]
    /\ UNCHANGED <<usage, m_outstanding, m_running, ownerVars, job,
                   dropped, finished>>

TaskNotifies(w) ==
    /\ pc[w] = "notifying"
    /\ pc' = [ThreadsWoken EXCEPT ![w] = "running"]
    /\ UNCHANGED <<usage, m_tasks, m_outstanding, m_running, ownerVars,
                   job, added, dropped, finished>>

TaskEnds(w) ==
    /\ pc[w] = "running"
    /\ pc' = [pc EXCEPT ![w] = "returned"]
    /\ finished' = [finished EXCEPT ![job[w]] = @ + 1]
    /\ UNCHANGED <<usage, m_tasks, m_outstanding, m_running, ownerVars,
                   job, added, dropped>>

\* Fault: a finished task is not counted out.
Uncounted == m_outstanding

CountedOut == m_outstanding - 1

CountOut(w) ==
    /\ pc[w] = "returned"
    /\ m_outstanding' = CountedOut
    /\ pc' = [pc EXCEPT ![w] = "ended"]
    /\ UNCHANGED <<usage, m_tasks, m_running, ownerVars, job, added,
                   dropped, finished>>

\* Condition variables may wake without a notification.
Spurious ==
    /\ \/ owner' = OwnerWoken /\ owner' # owner /\ UNCHANGED pc
       \/ \E w \in Workers : /\ pc[w] = "asleep"
                             /\ pc' = [pc EXCEPT ![w] = "waking"]
                             /\ UNCHANGED owner
    /\ UNCHANGED <<usage, m_tasks, m_outstanding, m_running, adding, job,
                   added, dropped, finished, joins>>

-----------------------------------------------------------------------------
OwnerStep == Add \/ Await \/ Join \/ Notify \/ Joined \/ ClearTasks \/ Go
             \/ Destroyed
WorkerStep(w) == Take(w) \/ NotifyOwner(w) \/ TaskAdds(w) \/ TaskNotifies(w)
                 \/ TaskEnds(w) \/ CountOut(w)
Terminated == owner = "destroyed" /\ UNCHANGED vars

Next == OwnerStep \/ (\E w \in Workers : WorkerStep(w)) \/ Spurious \/ Terminated

\* A call that was begun goes on, a thread goes on, every task returns.  The
\* owner need not call anything, and nobody has to wake by itself.
CallInProgress == owner \in {"addWaiting", "notifying", "awaiting", "joining"}
Fairness ==
    /\ WF_vars(CallInProgress /\ OwnerStep)
    /\ \A w \in Workers : WF_vars(WorkerStep(w))

Spec == Init /\ [][Next]_vars /\ Fairness

-----------------------------------------------------------------------------
Accepted == 1 .. added

\* QueueBounded: a bounded pool never holds more raw chunks than the bound in
\* its queue and one for each thread, although add() waits and re-tests while
\* other threads pop and notify.
QueueBounded ==
    m_queueSize >= 0 =>
        Len(m_tasks) + m_outstanding <= m_queueSize + NumThreads

Running(w) == pc[w] \in {"taken", "running", "notifying"}

Promise == INSTANCE PoolPromise WITH
    PoolThreads <- NumThreads,
    Tasks       <- Ids,
    waiting     <- m_tasks,
    running     <- {job[w] : w \in {v \in Workers : Running(v)}},
    open        <- m_running,
    call        <- CASE owner \in {"awaiting", "awaitAsleep"} -> "await"
                     [] ~adding /\ owner \in {"notifying", "joining"} -> "join"
                     [] OTHER -> "none"

\* KeepsPromise: with its condition variables, spurious wake-ups and tasks that
\* add tasks, the pool still starts the tasks in the order they were added and
\* runs each of them once; await() and join() return, and not before every
\* task accepted so far has finished.
KeepsPromise == Promise!Spec

\* CallsReturn: no lost wake-up leaves add(), await() or join() waiting for
\* ever.
CallsReturn ==
    /\ owner = "addWaiting" ~> owner = "notifying"
    /\ owner \in {"addAsleep", "awaitAsleep", "notifying"} ~> owner = "outside"
=============================================================================
