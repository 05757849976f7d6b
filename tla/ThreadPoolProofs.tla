-------------------------- MODULE ThreadPoolProofs --------------------------
(***************************************************************************)
(* Proofs about ThreadPool for every number of threads, bound and number   *)
(* of tasks: the inductive invariant IInv /\ RanOnce, the bound of the     *)
(* queue, and that every step of the pool is one PoolPromise allows.       *)
(***************************************************************************)
EXTENDS ThreadPool, FiniteSetTheorems, TLAPS

-----------------------------------------------------------------------------
\* The threads that are counted in m_outstanding.
Busy == {w \in Workers :
            pc[w] \in {"taken", "running", "notifying", "returned"}}

\* How many tasks have left the queue.
Left == added - Len(m_tasks)

\* The types, but for the bounds that follow from the invariant.
ControlTypes ==
    /\ m_queueSize \in {-1, QueueBound}
    /\ tasksAdd \in BOOLEAN
    /\ m_tasks \in Seq(Ids)
    /\ m_running \in BOOLEAN
    /\ owner \in {"outside", "addWaiting", "addAsleep", "notifying",
                  "awaiting", "awaitAsleep", "joining", "destroyed"}
    /\ adding \in BOOLEAN
    /\ pc \in [Workers -> {"waking", "asleep", "taken", "running", "notifying",
                           "returned", "ended", "exited"}]
    /\ job \in [Workers -> 0 .. TaskCount]
    /\ added \in 0 .. TaskCount
    /\ dropped \subseteq Ids
    /\ finished \in [Ids -> Nat]
    /\ joins \in 0 .. MaxJoins

\* The queue holds the tasks accepted last, oldest first, and no more of them
\* than the bound.
QueueInv ==
    /\ Len(m_tasks) <= added
    /\ \A i \in 1 .. Len(m_tasks) : m_tasks[i] = Left + i
    /\ m_queueSize >= 0 => Len(m_tasks) <= m_queueSize
    /\ tasksAdd => m_queueSize < 0

\* A thread inside a task has taken one of the tasks that left the queue, and
\* none that another thread took.
JobInv ==
    /\ m_outstanding = Cardinality(Busy)
    /\ \A w \in Workers :
          /\ job[w] <= Left
          /\ w \in Busy => job[w] # 0
    /\ \A w, v \in Workers : w # v /\ job[w] # 0 => job[w] # job[v]

\* A closed pool is being joined, or its threads have left.
OwnerInv ==
    /\ owner \in {"addWaiting", "addAsleep"} => adding /\ m_running
    /\ owner = "notifying" /\ adding => m_running
    /\ owner = "joining" => ~adding
    /\ ~m_running => \/ ~adding /\ owner \in {"notifying", "joining"}
                     \/ \A w \in Workers : pc[w] = "exited"
    /\ \A w \in Workers : pc[w] = "exited" => ~m_running /\ m_tasks = <<>>

\* The tasks the threads are inside, as the promise sees them.
InTask == {job[w] : w \in {v \in Workers : Running(v)}}

\* Every task that has left the queue ran to its end, once, unless it was
\* dropped or a thread is inside it.
RanOnce ==
    /\ dropped \subseteq 1 .. Left
    /\ dropped \cap {job[w] : w \in Workers} = {}
    /\ \A t \in Ids : finished[t] =
          IF t \in (1 .. Left) \ (dropped \cup InTask) THEN 1 ELSE 0

IInv == ControlTypes /\ QueueInv /\ JobInv /\ OwnerInv

-----------------------------------------------------------------------------
\* A task joins the end of the queue.
LEMMA EmplaceQueue ==
    ASSUME PoolAssumption, ControlTypes, QueueInv, Emplace
    PROVE  /\ m_tasks' \in Seq(Ids) /\ added' \in 0 .. TaskCount
           /\ added + 1 \in Ids
           /\ Len(m_tasks') = Len(m_tasks) + 1 /\ Len(m_tasks) \in Nat
           /\ Len(m_tasks') <= added'
           /\ Left' = Left /\ Left \in 0 .. TaskCount
           /\ \A i \in 1 .. Len(m_tasks') : m_tasks'[i] = Left + i
<1>1. /\ TaskCount \in Nat /\ added \in 0 .. TaskCount /\ added < TaskCount
      /\ m_tasks' = Append(m_tasks, added + 1) /\ added' = added + 1
      /\ m_tasks \in Seq(Ids) /\ Len(m_tasks) \in Nat
      /\ Len(m_tasks) <= added
      /\ \A i \in 1 .. Len(m_tasks) : m_tasks[i] = Left + i
  BY DEF PoolAssumption, ControlTypes, QueueInv, Emplace
<1>2. added + 1 \in Ids
  BY <1>1, SMT DEF Ids
<1>3. /\ m_tasks' \in Seq(Ids) /\ Len(m_tasks') = Len(m_tasks) + 1
      /\ \A i \in 1 .. Len(m_tasks) : m_tasks'[i] = m_tasks[i]
      /\ m_tasks'[Len(m_tasks) + 1] = added + 1
  BY <1>1, <1>2, SMT
<1>4. Left' = Left /\ Left \in 0 .. TaskCount /\ added' \in 0 .. TaskCount
  BY <1>1, <1>3, SMT DEF Left
<1>5. \A i \in 1 .. Len(m_tasks') : m_tasks'[i] = Left + i
  <2> SUFFICES ASSUME NEW i \in 1 .. Len(m_tasks) + 1
               PROVE  m_tasks'[i] = Left + i
    BY <1>3
  <2>1. CASE i \in 1 .. Len(m_tasks)
    BY <1>1, <1>3, <2>1
  <2>2. CASE i = Len(m_tasks) + 1
    BY <1>1, <1>3, <2>2, SMT DEF Left
  <2> QED
    BY <1>1, <2>1, <2>2, SMT
<1> QED
  BY <1>1, <1>2, <1>3, <1>4, <1>5, SMT

\* A thread takes the oldest task, the first one that has not left the queue.
LEMMA HeadOfQueue ==
    ASSUME PoolAssumption, ControlTypes, QueueInv, m_tasks # <<>>
    PROVE  /\ Head(m_tasks) = Left + 1 /\ Head(m_tasks) \in Ids
           /\ Left \in Nat /\ added \in Nat
           /\ Tail(m_tasks) \in Seq(Ids)
           /\ Len(Tail(m_tasks)) = Len(m_tasks) - 1 /\ Len(m_tasks) \in Nat
           /\ Len(Tail(m_tasks)) <= added
           /\ added - Len(Tail(m_tasks)) = Left + 1
           /\ \A i \in 1 .. Len(Tail(m_tasks)) : Tail(m_tasks)[i] = Left + 1 + i
<1>1. /\ TaskCount \in Nat /\ added \in 0 .. TaskCount
      /\ m_tasks \in Seq(Ids) /\ Len(m_tasks) \in Nat
      /\ Len(m_tasks) <= added
      /\ \A i \in 1 .. Len(m_tasks) : m_tasks[i] = Left + i
  BY DEF PoolAssumption, ControlTypes, QueueInv
<1>2. /\ Len(m_tasks) >= 1 /\ Head(m_tasks) = m_tasks[1] /\ Head(m_tasks) \in Ids
      /\ Tail(m_tasks) \in Seq(Ids) /\ Len(Tail(m_tasks)) = Len(m_tasks) - 1
      /\ \A i \in 1 .. Len(m_tasks) - 1 : Tail(m_tasks)[i] = m_tasks[i + 1]
  BY <1>1, SMT
<1>3. Left \in Nat /\ added \in Nat /\ Left = added - Len(m_tasks)
  BY <1>1, SMT DEF Left
<1>4. \A i \in 1 .. Len(Tail(m_tasks)) : Tail(m_tasks)[i] = Left + 1 + i
  <2> SUFFICES ASSUME NEW i \in 1 .. Len(m_tasks) - 1
               PROVE  Tail(m_tasks)[i] = Left + 1 + i
    BY <1>2
  <2>1. i + 1 \in 1 .. Len(m_tasks) /\ Left + (i + 1) = Left + 1 + i
    BY <1>1, <1>3, SMT
  <2> QED
    BY <1>1, <1>2, <2>1
<1>5. Head(m_tasks) = Left + 1
  BY <1>1, <1>2, SMT
<1> QED
  BY <1>1, <1>2, <1>3, <1>4, <1>5, SMT

\* Counting the busy threads.
LEMMA BusyCount ==
    ASSUME PoolAssumption
    PROVE  /\ IsFiniteSet(Busy) /\ Cardinality(Busy) \in 0 .. NumThreads
           /\ Cardinality(Busy) = 0 <=> Busy = {}
           /\ \A w \in Workers \ Busy : Cardinality(Busy) < NumThreads
           /\ IsFiniteSet(Workers) /\ Cardinality(Workers) = NumThreads
<1>1. NumThreads \in Nat \ {0}
  BY DEF PoolAssumption
<1>2. IsFiniteSet(Workers) /\ Cardinality(Workers) = NumThreads
  <2>1. 1 \in Int /\ NumThreads \in Int
    BY <1>1
  <2>2. /\ IsFiniteSet(1 .. NumThreads)
        /\ Cardinality(1 .. NumThreads) =
             IF 1 > NumThreads THEN 0 ELSE NumThreads - 1 + 1
    BY <2>1, FS_Interval
  <2> QED
    BY <1>1, <2>2, SMT DEF Workers
<1>3. Busy \subseteq Workers
  BY DEF Busy
<1>4. /\ IsFiniteSet(Busy) /\ Cardinality(Busy) <= NumThreads
      /\ NumThreads = Cardinality(Busy) => Workers = Busy
  BY <1>2, <1>3, FS_Subset
<1>5. Cardinality(Busy) \in Nat
  BY <1>4, FS_CardinalityType
<1>6. Cardinality(Busy) = 0 <=> Busy = {}
  BY <1>4, FS_EmptySet
<1>7. ASSUME NEW w \in Workers \ Busy PROVE Cardinality(Busy) < NumThreads
  BY <1>1, <1>4, <1>5, SMT
<1> QED
  BY <1>1, <1>2, <1>4, <1>5, <1>6, <1>7, SMT

\* The pool starts with an empty queue and idle threads.
LEMMA InitInvariant == ASSUME PoolAssumption, Init PROVE IInv /\ RanOnce
<1>1. /\ NumThreads \in Nat \ {0} /\ QueueBound \in Nat \ {0}
      /\ TaskCount \in Nat /\ MaxJoins \in Nat
  BY DEF PoolAssumption
<1>2. 0 \in 0 .. TaskCount /\ 0 \in 0 .. MaxJoins /\ 0 \in Nat
  BY <1>1, SMT
<1>3. m_tasks = <<>> /\ m_tasks \in Seq(Ids) /\ Len(m_tasks) = 0 /\ Left = 0
  <2>1. m_tasks = <<>> /\ added = 0
    BY DEF Init
  <2>2. m_tasks \in Seq(Ids) /\ Len(m_tasks) = 0
    BY <2>1
  <2>3. Left = 0
    <3>1. added = 0 /\ Len(m_tasks) = 0
      BY <2>1, <2>2
    <3> QED
      BY ONLY <3>1, SMT DEF Left
  <2> QED
    BY <2>1, <2>2, <2>3
<1>4. /\ m_queueSize \in {-1, QueueBound}
      /\ tasksAdd \in BOOLEAN /\ (tasksAdd => m_queueSize < 0)
  <2>1. m_queueSize \in {-1, QueueBound} /\ tasksAdd \in {FALSE, m_queueSize < 0}
    BY DEF Init
  <2>2. (m_queueSize < 0) \in BOOLEAN
    OBVIOUS
  <2>3. tasksAdd = FALSE \/ tasksAdd = (m_queueSize < 0)
    BY <2>1
  <2> QED
    BY <2>1, <2>2, <2>3
<1>9. ControlTypes
  BY <1>2, <1>3, <1>4 DEF Init, ControlTypes
<1>10. QueueInv
  <2>1. m_queueSize >= 0 => 0 <= m_queueSize
    BY <1>1, <1>4, SMT
  <2>2. added = 0 /\ 1 .. Len(m_tasks) = {}
    BY <1>3, SMT DEF Init
  <2> QED
    BY <1>3, <1>4, <2>1, <2>2, SMT DEF QueueInv
<1>5. Busy = {} /\ InTask = {}
  BY DEF Init, Busy, InTask, Running
<1>6. JobInv
  BY <1>2, <1>3, <1>5, FS_EmptySet, SMT DEF Init, JobInv
<1>7. OwnerInv
  BY DEF Init, OwnerInv
<1>8. RanOnce
  BY <1>3, <1>5, SMT DEF Init, RanOnce
<1> QED
  BY <1>9, <1>10, <1>6, <1>7, <1>8 DEF IInv

\* Steps that leave the queue and the threads' tasks alone.
TasksUntouched ==
    /\ UNCHANGED <<m_queueSize, tasksAdd, m_tasks, m_outstanding, job, added,
                   dropped, finished>>
    /\ pc' \in [Workers -> {"waking", "asleep", "taken", "running", "notifying",
                            "returned", "ended", "exited"}]
    /\ \A w \in Workers :
          /\ pc'[w] \in {"taken", "running", "notifying"} <=>
             pc[w] \in {"taken", "running", "notifying"}
          /\ pc'[w] = "returned" <=> pc[w] = "returned"

\* Such steps keep what the invariant says of them.
LEMMA Untouched ==
    ASSUME IInv, RanOnce, TasksUntouched
    PROVE  QueueInv' /\ JobInv' /\ RanOnce' /\ Left' = Left /\ InTask' = InTask
<1>1. Left' = Left /\ Busy' = Busy
  BY DEF TasksUntouched, Left, Busy
<1>2. InTask' = InTask
  BY DEF TasksUntouched, InTask, Running
<1>3. QueueInv'
  BY <1>1 DEF IInv, TasksUntouched, QueueInv
<1>4. JobInv'
  BY <1>1 DEF IInv, TasksUntouched, JobInv
<1>5. RanOnce'
  BY <1>1, <1>2 DEF TasksUntouched, RanOnce
<1> QED
  BY <1>1, <1>2, <1>3, <1>4, <1>5

\* Every step of the owner or a thread keeps the invariant.
LEMMA PoolStep ==
    ASSUME PoolAssumption, IInv, RanOnce, [Next]_vars
    PROVE  IInv' /\ RanOnce'
<1>1. /\ NumThreads \in Nat \ {0} /\ QueueBound \in Nat \ {0}
      /\ TaskCount \in Nat /\ MaxJoins \in Nat
      /\ ControlTypes /\ QueueInv /\ JobInv /\ OwnerInv
  BY DEF PoolAssumption, IInv
<1>2. CASE Add
  <2>1. owner = "outside" \/ owner = "addWaiting"
    BY <1>2 DEF Add
  <2>2. CASE ~HasRoom
    <3>1. TasksUntouched
      BY <1>1, <1>2, <2>2 DEF Add, TasksUntouched, usage, ControlTypes
    <3>2. QueueInv' /\ JobInv' /\ RanOnce'
      BY <3>1, Untouched
    <3>3. ControlTypes' /\ OwnerInv'
      BY <1>1, <1>2, <2>1, <2>2 DEF Add, ControlTypes, OwnerInv, usage
    <3> QED
      BY <3>2, <3>3 DEF IInv
  <2>3. CASE HasRoom
    <3>1. /\ Emplace /\ owner' = "notifying" /\ adding' = TRUE
          /\ UNCHANGED <<m_queueSize, tasksAdd, m_outstanding, m_running, pc,
                         job, dropped, finished, joins>>
      BY <1>2, <2>3 DEF Add, usage
    <3>2. /\ m_tasks' \in Seq(Ids) /\ added' \in 0 .. TaskCount
          /\ Len(m_tasks') = Len(m_tasks) + 1 /\ Len(m_tasks) \in Nat
          /\ Len(m_tasks') <= added' /\ Left' = Left
          /\ \A i \in 1 .. Len(m_tasks') : m_tasks'[i] = Left + i
      BY <1>1, <3>1, EmplaceQueue
    <3>3. ControlTypes'
      BY <1>1, <3>1, <3>2 DEF ControlTypes
    <3>4. QueueInv'
      <4>1. m_queueSize >= 0 => Len(m_tasks) + 1 <= m_queueSize
        BY <1>1, <2>3, <3>2, SMT DEF HasRoom, ControlTypes
      <4> QED
        BY <1>1, <3>1, <3>2, <4>1 DEF QueueInv
    <3>5. JobInv'
      BY <1>1, <3>1, <3>2 DEF JobInv, Busy
    <3>6. OwnerInv'
      BY <1>1, <1>2, <2>1, <3>1 DEF OwnerInv, Add
    <3>7. RanOnce'
      BY <3>1, <3>2 DEF RanOnce, InTask, Running
    <3> QED
      BY <3>3, <3>4, <3>5, <3>6, <3>7 DEF IInv
  <2> QED
    BY <2>2, <2>3
<1>3. CASE Await
  <2>1. TasksUntouched
    BY <1>1, <1>3 DEF Await, TasksUntouched, usage, ControlTypes
  <2>2. ControlTypes' /\ OwnerInv'
    BY <1>1, <1>3, BusyCount DEF Await, ControlTypes, OwnerInv, usage, Idle, JobInv
  <2> QED
    BY <2>1, <2>2, Untouched DEF IInv
<1>4. CASE Join
  <2>1. TasksUntouched
    BY <1>1, <1>4 DEF Join, TasksUntouched, usage, ControlTypes
  <2>2. ControlTypes'
    <3>1. joins + 1 \in 0 .. MaxJoins
      BY <1>1, <1>4, SMT DEF Join, ControlTypes
    <3> QED
      BY <1>1, <1>4, <3>1 DEF Join, ControlTypes, usage
  <2>3. OwnerInv'
    BY <1>1, <1>4 DEF Join, OwnerInv, usage
  <2> QED
    BY <2>1, <2>2, <2>3, Untouched DEF IInv
<1>5. CASE Notify
  <2>1. TasksUntouched
    BY <1>1, <1>5 DEF Notify, TasksUntouched, usage, ControlTypes, ThreadsWoken
  <2>2. ControlTypes' /\ OwnerInv'
    BY <1>1, <1>5 DEF Notify, ControlTypes, OwnerInv, usage, ThreadsWoken
  <2> QED
    BY <2>1, <2>2, Untouched DEF IInv
<1>6. CASE Joined
  <2>1. TasksUntouched
    BY <1>1, <1>6 DEF Joined, TasksUntouched, usage, ControlTypes
  <2>2. ControlTypes' /\ OwnerInv'
    BY <1>1, <1>6 DEF Joined, ControlTypes, OwnerInv, usage
  <2> QED
    BY <2>1, <2>2, Untouched DEF IInv
<1>7. CASE ClearTasks
  <2>1. /\ m_tasks' = <<>> /\ dropped' = dropped \cup ToSet(m_tasks)
        /\ UNCHANGED <<m_queueSize, tasksAdd, m_outstanding, m_running, owner,
                       adding, joins, pc, job, added, finished>>
    BY <1>7 DEF ClearTasks, usage, ownerVars
  <2>2. m_tasks' \in Seq(Ids) /\ Len(m_tasks') = 0
    BY <2>1
  <2>3. /\ ToSet(m_tasks) \subseteq Ids
        /\ \A t \in ToSet(m_tasks) : t \in Left + 1 .. added
        /\ \A t \in Left + 1 .. added : t \in ToSet(m_tasks)
    <3>1. /\ m_tasks \in Seq(Ids) /\ Len(m_tasks) \in Nat /\ added \in Nat
          /\ Left = added - Len(m_tasks) /\ Left \in Nat
          /\ DOMAIN m_tasks = 1 .. Len(m_tasks)
          /\ \A i \in 1 .. Len(m_tasks) : m_tasks[i] = Left + i
      BY <1>1, SMT DEF Left, ControlTypes, QueueInv
    <3>2. ToSet(m_tasks) = {m_tasks[i] : i \in 1 .. Len(m_tasks)}
      BY <3>1 DEF ToSet
    <3>3. ASSUME NEW i \in 1 .. Len(m_tasks)
          PROVE  m_tasks[i] \in Ids /\ m_tasks[i] \in Left + 1 .. added
      BY <3>1, SMT
    <3>4. ASSUME NEW t \in Left + 1 .. added
          PROVE  t - Left \in 1 .. Len(m_tasks) /\ m_tasks[t - Left] = t
      BY <3>1, SMT
    <3> QED
      BY <3>2, <3>3, <3>4
  <2>4. Left \in 0 .. added /\ Left' = added /\ added \in 0 .. TaskCount
    BY <1>1, <2>1, <2>2, SMT DEF Left, ControlTypes, QueueInv
  <2>5. ControlTypes'
    BY <1>1, <2>1, <2>2, <2>3 DEF ControlTypes
  <2>6. QueueInv'
    <3>1. 1 .. Len(m_tasks') = {} /\ (m_queueSize >= 0 => 0 <= m_queueSize)
          /\ 0 <= added
      BY <1>1, <2>2, <2>4, SMT DEF ControlTypes
    <3> QED
      BY <1>1, <2>1, <2>2, <3>1 DEF QueueInv
  <2>7. JobInv'
    <3>1. \A w \in Workers : job[w] <= added
      BY <1>1, <2>4, SMT DEF JobInv, ControlTypes
    <3> QED
      BY <1>1, <2>1, <2>4, <3>1 DEF JobInv, Busy
  <2>8. OwnerInv'
    BY <1>1, <2>1 DEF OwnerInv
  <2>9. RanOnce'
    <3>1. InTask' = InTask
      BY <2>1 DEF InTask, Running
    <3>2. dropped' \subseteq 1 .. added
      <4>1. Left + 1 .. added \subseteq 1 .. added /\ 1 .. Left \subseteq 1 .. added
        BY <2>4, SMT
      <4> QED
        BY <2>1, <2>3, <4>1 DEF RanOnce
    <3>3. ASSUME NEW w \in Workers PROVE job[w] \notin dropped'
      <4>1. job[w] \notin ToSet(m_tasks)
        <5>1. job[w] <= Left /\ job[w] \in 0 .. TaskCount
          BY <1>1 DEF JobInv, ControlTypes
        <5>2. job[w] \notin Left + 1 .. added
          BY <1>1, <2>4, <5>1, SMT
        <5> QED
          BY <2>3, <5>2
      <4> QED
        BY <2>1, <4>1 DEF RanOnce
    <3>4. ASSUME NEW t \in Ids
          PROVE  finished'[t] = IF t \in (1 .. added) \ (dropped' \cup InTask)
                                THEN 1 ELSE 0
      <4>1. t \in 1 .. added /\ t \notin ToSet(m_tasks) <=> t \in 1 .. Left
        <5>1. t \in Nat /\ t >= 1
          BY <1>1, SMT DEF Ids
        <5>2. t \in ToSet(m_tasks) <=> t \in Left + 1 .. added
          BY <2>3
        <5> QED
          BY <2>4, <5>1, <5>2, SMT
      <4> QED
        BY <2>1, <4>1 DEF RanOnce
    <3> QED
      BY <2>1, <2>4, <3>1, <3>2, <3>3, <3>4 DEF RanOnce
  <2> QED
    BY <2>5, <2>6, <2>7, <2>8, <2>9 DEF IInv
<1>8. CASE Go
  <2>1. /\ m_running' = TRUE /\ pc' = [w \in Workers |-> "waking"]
        /\ job' = [w \in Workers |-> 0] /\ owner = "outside" /\ ~m_running
        /\ UNCHANGED <<m_queueSize, tasksAdd, m_tasks, m_outstanding, owner,
                       adding, joins, added, dropped, finished>>
    BY <1>8 DEF Go, usage, ownerVars
  <2>2. \A w \in Workers : pc[w] = "exited"
    BY <1>1, <2>1 DEF OwnerInv
  <2>3. Busy = {} /\ Busy' = {} /\ InTask = {} /\ InTask' = {}
    BY <2>1, <2>2 DEF Busy, InTask, Running
  <2>4. 0 \in 0 .. TaskCount /\ Left' = Left /\ 0 <= Left
    BY <1>1, <2>1, SMT DEF Left, ControlTypes, QueueInv
  <2>5. ControlTypes'
    BY <1>1, <2>1, <2>4 DEF ControlTypes
  <2>6. QueueInv'
    BY <1>1, <2>1, <2>4 DEF QueueInv
  <2>7. JobInv'
    BY <1>1, <2>1, <2>3, <2>4 DEF JobInv
  <2>8. OwnerInv'
    BY <1>1, <2>1 DEF OwnerInv
  <2>9. RanOnce'
    <3>1. 0 \notin 1 .. Left
      BY SMT
    <3> QED
      BY <2>1, <2>3, <2>4, <3>1 DEF RanOnce
  <2> QED
    BY <2>5, <2>6, <2>7, <2>8, <2>9 DEF IInv
<1>9. CASE Destroyed
  <2>1. TasksUntouched
    BY <1>1, <1>9 DEF Destroyed, TasksUntouched, usage, ControlTypes
  <2>2. ControlTypes' /\ OwnerInv'
    BY <1>1, <1>9 DEF Destroyed, ControlTypes, OwnerInv, usage
  <2> QED
    BY <2>1, <2>2, Untouched DEF IInv
<1>10. ASSUME NEW w \in Workers, Take(w) PROVE IInv' /\ RanOnce'
  <2>1. CASE ~TakesTask
    <3>1. TasksUntouched
      BY <1>1, <1>10, <2>1 DEF Take, TasksUntouched, usage, ControlTypes
    <3>2. ControlTypes' /\ OwnerInv'
      BY <1>1, <1>10, <2>1 DEF Take, TakesTask, ControlTypes, OwnerInv, usage, ownerVars
    <3> QED
      BY <3>1, <3>2, Untouched DEF IInv
  <2>2. CASE TakesTask
    <3> DEFINE t == Head(m_tasks)
    <3>1. /\ m_tasks # <<>> /\ pc[w] = "waking"
          /\ job' = [job EXCEPT ![w] = t] /\ m_tasks' = Tail(m_tasks)
          /\ m_outstanding' = m_outstanding + 1
          /\ pc' = [pc EXCEPT ![w] = "taken"]
          /\ UNCHANGED <<m_queueSize, tasksAdd, m_running, owner, adding, joins,
                         added, dropped, finished>>
      BY <1>10, <2>2 DEF Take, TakesTask, usage, ownerVars
    <3>2. /\ t = Left + 1 /\ t \in Ids /\ Left \in Nat /\ added \in Nat
          /\ m_tasks' \in Seq(Ids)
          /\ Len(m_tasks') = Len(m_tasks) - 1 /\ Len(m_tasks) \in Nat
          /\ Len(m_tasks') <= added /\ Left' = Left + 1
          /\ \A i \in 1 .. Len(m_tasks') : m_tasks'[i] = Left + 1 + i
      BY <1>1, <3>1, HeadOfQueue DEF Left
    <3> HIDE DEF t
    <3>3. ControlTypes'
      <4>1. t \in 0 .. TaskCount
        BY <1>1, <3>2, SMT DEF Ids
      <4> QED
        BY <1>1, <3>1, <3>2, <4>1 DEF ControlTypes
    <3>4. QueueInv'
      <4>1. m_queueSize >= 0 => Len(m_tasks) - 1 <= m_queueSize
        BY <1>1, <3>2, SMT DEF QueueInv, ControlTypes
      <4> QED
        BY <1>1, <3>1, <3>2, <4>1 DEF QueueInv
    <3>5. w \notin Busy /\ Busy' = Busy \cup {w}
      BY <1>1, <3>1 DEF Busy, ControlTypes
    <3>6. Cardinality(Busy') = m_outstanding'
      BY <1>1, <3>1, <3>5, BusyCount, FS_AddElement DEF JobInv
    <3>7. JobInv'
      <4>1. \A v \in Workers : job'[v] = IF v = w THEN t ELSE job[v]
        BY <1>1, <3>1 DEF ControlTypes
      <4>2. \A v \in Workers : job[v] <= Left /\ job[v] \in Nat
        BY <1>1, SMT DEF JobInv, ControlTypes
      <4>3. t # 0 /\ t \in Nat /\ \A v \in Workers : job[v] # t
        BY <3>2, <4>2, SMT DEF Ids
      <4>4. \A v \in Workers : job'[v] <= Left'
        BY <3>2, <4>1, <4>2, SMT
      <4>5. \A v \in Workers : v \in Busy' => job'[v] # 0
        BY <1>1, <3>5, <4>1, <4>3 DEF JobInv
      <4>6. \A u, v \in Workers : u # v /\ job'[u] # 0 => job'[u] # job'[v]
        BY <1>1, <4>1, <4>3 DEF JobInv
      <4> QED
        BY <3>6, <4>4, <4>5, <4>6 DEF JobInv
    <3>8. OwnerInv'
      BY <1>1, <3>1 DEF OwnerInv, ControlTypes
    <3>9. RanOnce'
      <4>1. InTask' = InTask \cup {t}
        BY <1>1, <3>1 DEF InTask, Running, ControlTypes
      <4>2. t \notin 1 .. Left /\ 1 .. Left' = (1 .. Left) \cup {t}
        BY <3>2, SMT
      <4>3. dropped' \subseteq 1 .. Left'
        BY <3>1, <4>2 DEF RanOnce
      <4>4. dropped' \cap {job'[v] : v \in Workers} = {}
        <5> SUFFICES ASSUME NEW v \in Workers PROVE job'[v] \notin dropped
          BY <3>1
        <5>1. job'[v] = t \/ job'[v] = job[v]
          BY <1>1, <3>1 DEF ControlTypes
        <5> QED
          BY <4>2, <5>1 DEF RanOnce
      <4>5. ASSUME NEW u \in Ids
            PROVE  finished'[u] = IF u \in (1 .. Left') \ (dropped' \cup InTask')
                                  THEN 1 ELSE 0
        BY <3>1, <4>1, <4>2 DEF RanOnce
      <4> QED
        BY <4>3, <4>4, <4>5 DEF RanOnce
    <3> QED
      BY <3>3, <3>4, <3>7, <3>8, <3>9 DEF IInv
  <2> QED
    BY <2>1, <2>2
<1>11. ASSUME NEW w \in Workers, NotifyOwner(w) PROVE IInv' /\ RanOnce'
  <2>1. TasksUntouched
    BY <1>1, <1>11 DEF NotifyOwner, TasksUntouched, usage, ControlTypes
  <2>2. ControlTypes' /\ OwnerInv'
    BY <1>1, <1>11 DEF NotifyOwner, ControlTypes, OwnerInv, usage, WokenBy, OwnerWoken
  <2> QED
    BY <2>1, <2>2, Untouched DEF IInv
<1>12. ASSUME NEW w \in Workers, TaskAdds(w) PROVE IInv' /\ RanOnce'
  <2>1. /\ Emplace /\ pc[w] = "running" /\ tasksAdd /\ m_running
        /\ pc' = [pc EXCEPT ![w] = "notifying"]
        /\ UNCHANGED <<m_queueSize, tasksAdd, m_outstanding, m_running, owner,
                       adding, joins, job, dropped, finished>>
    BY <1>12 DEF TaskAdds, usage, ownerVars
  <2>2. /\ m_tasks' \in Seq(Ids) /\ added' \in 0 .. TaskCount
        /\ Len(m_tasks') = Len(m_tasks) + 1 /\ Len(m_tasks) \in Nat
        /\ Len(m_tasks') <= added' /\ Left' = Left
        /\ \A i \in 1 .. Len(m_tasks') : m_tasks'[i] = Left + i
    BY <1>1, <2>1, EmplaceQueue
  <2>3. ControlTypes'
    BY <1>1, <2>1, <2>2 DEF ControlTypes
  <2>4. QueueInv'
    <3>1. ~(m_queueSize >= 0)
      BY <1>1, <2>1, SMT DEF QueueInv, ControlTypes
    <3> QED
      BY <1>1, <2>1, <2>2, <3>1 DEF QueueInv
  <2>5. Busy' = Busy /\ InTask' = InTask
    BY <1>1, <2>1 DEF Busy, InTask, Running, ControlTypes
  <2>6. JobInv' /\ RanOnce'
    BY <1>1, <2>1, <2>2, <2>5 DEF JobInv, RanOnce
  <2>7. OwnerInv'
    BY <1>1, <2>1 DEF OwnerInv, ControlTypes
  <2> QED
    BY <2>3, <2>4, <2>6, <2>7 DEF IInv
<1>13. ASSUME NEW w \in Workers, TaskNotifies(w) PROVE IInv' /\ RanOnce'
  <2>1. TasksUntouched
    BY <1>1, <1>13 DEF TaskNotifies, TasksUntouched, usage, ControlTypes, ThreadsWoken
  <2>2. ControlTypes' /\ OwnerInv'
    BY <1>1, <1>13 DEF TaskNotifies, ControlTypes, OwnerInv, usage, ownerVars, ThreadsWoken
  <2> QED
    BY <2>1, <2>2, Untouched DEF IInv
<1>14. ASSUME NEW w \in Workers, TaskEnds(w) PROVE IInv' /\ RanOnce'
  <2>1. /\ pc[w] = "running" /\ pc' = [pc EXCEPT ![w] = "returned"]
        /\ finished' = [finished EXCEPT ![job[w]] = @ + 1]
        /\ UNCHANGED <<m_queueSize, tasksAdd, m_tasks, m_outstanding, m_running,
                       owner, adding, joins, job, added, dropped>>
    BY <1>14 DEF TaskEnds, usage, ownerVars
  <2>2. w \in Busy /\ job[w] # 0
    BY <1>1, <2>1 DEF Busy, JobInv
  <2>3. job[w] \in Ids /\ Left' = Left
    BY <1>1, <2>1, <2>2, SMT DEF Ids, ControlTypes, Left
  <2>4. ControlTypes'
    <3>1. finished' \in [Ids -> Nat]
      BY <1>1, <2>1, <2>3, SMT DEF ControlTypes
    <3> QED
      BY <1>1, <2>1, <3>1 DEF ControlTypes
  <2>5. QueueInv'
    BY <1>1, <2>1, <2>3 DEF QueueInv
  <2>6. Busy' = Busy
    BY <1>1, <2>1 DEF Busy, ControlTypes
  <2>7. JobInv'
    BY <1>1, <2>1, <2>3, <2>6 DEF JobInv
  <2>8. OwnerInv'
    BY <1>1, <2>1 DEF OwnerInv, ControlTypes
  <2>9. RanOnce'
    <3>1. job[w] \in InTask /\ InTask' = InTask \ {job[w]}
      BY <1>1, <2>1, <2>2 DEF InTask, Running, ControlTypes, JobInv
    <3>2. job[w] \in 1 .. Left /\ job[w] \notin dropped
      <4>1. job[w] <= Left /\ Left \in Int
        BY <1>1, SMT DEF JobInv, ControlTypes, Left
      <4> QED
        BY <1>1, <2>3, <4>1, SMT DEF Ids, RanOnce
    <3>3. ASSUME NEW t \in Ids
          PROVE  finished'[t] = IF t \in (1 .. Left') \ (dropped' \cup InTask')
                                THEN 1 ELSE 0
      <4>1. CASE t = job[w]
        <5>1. finished[t] = 0 /\ finished'[t] = finished[t] + 1
          BY <1>1, <2>1, <2>3, <3>1, <4>1 DEF RanOnce, ControlTypes
        <5> QED
          BY <2>1, <2>3, <3>1, <3>2, <4>1, <5>1, SMT
      <4>2. CASE t # job[w]
        BY <1>1, <2>1, <2>3, <3>1, <4>2 DEF RanOnce, ControlTypes
      <4> QED
        BY <4>1, <4>2
    <3> QED
      BY <2>1, <2>3, <3>3 DEF RanOnce
  <2> QED
    BY <2>4, <2>5, <2>7, <2>8, <2>9 DEF IInv
<1>15. ASSUME NEW w \in Workers, CountOut(w) PROVE IInv' /\ RanOnce'
  <2>1. /\ pc[w] = "returned" /\ pc' = [pc EXCEPT ![w] = "ended"]
        /\ m_outstanding' = m_outstanding - 1
        /\ UNCHANGED <<m_queueSize, tasksAdd, m_tasks, m_running, owner, adding,
                       joins, job, added, dropped, finished>>
    BY <1>15 DEF CountOut, CountedOut, usage, ownerVars
  <2>2. w \in Busy /\ Busy' = Busy \ {w} /\ InTask' = InTask /\ Left' = Left
    BY <1>1, <2>1 DEF Busy, InTask, Running, ControlTypes, Left
  <2>3. Cardinality(Busy') = m_outstanding'
    BY <1>1, <2>1, <2>2, BusyCount, FS_RemoveElement DEF JobInv
  <2>4. ControlTypes' /\ OwnerInv'
    BY <1>1, <2>1 DEF ControlTypes, OwnerInv
  <2>5. QueueInv' /\ JobInv' /\ RanOnce'
    BY <1>1, <2>1, <2>2, <2>3 DEF QueueInv, JobInv, RanOnce
  <2> QED
    BY <2>4, <2>5 DEF IInv
<1>16. CASE Spurious
  <2>1. TasksUntouched
    BY <1>1, <1>16 DEF Spurious, TasksUntouched, usage, ControlTypes
  <2>2. ControlTypes' /\ OwnerInv'
    BY <1>1, <1>16 DEF Spurious, ControlTypes, OwnerInv, usage, OwnerWoken
  <2> QED
    BY <2>1, <2>2, Untouched DEF IInv
<1>17. CASE UNCHANGED vars
  <2>1. TasksUntouched
    BY <1>1, <1>17 DEF vars, TasksUntouched, usage, ownerVars, ControlTypes
  <2>2. ControlTypes' /\ OwnerInv'
    BY <1>1, <1>17 DEF vars, ControlTypes, OwnerInv, usage, ownerVars
  <2> QED
    BY <2>1, <2>2, Untouched DEF IInv
<1> QED
  BY <1>2, <1>3, <1>4, <1>5, <1>6, <1>7, <1>8, <1>9, <1>10, <1>11, <1>12, <1>13,
     <1>14, <1>15, <1>16, <1>17
  DEF Next, OwnerStep, WorkerStep, Terminated

\* PoolHolds: the queue, the counter of the tasks in progress, the threads'
\* tasks and the owner's calls agree, and every task runs once.
THEOREM PoolHolds == ASSUME PoolAssumption PROVE Spec => [](IInv /\ RanOnce)
<1>1. Init => IInv /\ RanOnce
  BY InitInvariant
<1>2. IInv /\ RanOnce /\ [Next]_vars => (IInv /\ RanOnce)'
  BY PoolStep
<1> QED
  BY <1>1, <1>2, PTL DEF Spec

\* The invariant gives the types ...
LEMMA TypesSuffice == ASSUME PoolAssumption PROVE IInv => TypeOK
<1> SUFFICES ASSUME IInv PROVE TypeOK
  OBVIOUS
<1>1. /\ ControlTypes /\ QueueInv /\ JobInv /\ TaskCount \in Nat
  BY DEF IInv, PoolAssumption
<1>2. m_outstanding \in 0 .. NumThreads
  BY <1>1, BusyCount DEF JobInv
<1>3. m_tasks \in BoundedSeq(Ids, TaskCount)
  <2>1. /\ Len(m_tasks) \in 0 .. TaskCount
        /\ m_tasks \in [1 .. Len(m_tasks) -> Ids]
    BY <1>1, SMT DEF ControlTypes, QueueInv
  <2> QED
    BY <2>1 DEF BoundedSeq, SeqOf
<1> QED
  BY <1>1, <1>2, <1>3 DEF ControlTypes, TypeOK

\* ThreadPoolTyped: the type invariant; m_outstanding is never negative and
\* never more than the threads, and the queue holds no more than was accepted.
THEOREM ThreadPoolTyped == ASSUME PoolAssumption PROVE Spec => []TypeOK
  BY TypesSuffice, PoolHolds, PTL

\* ... and the bound.
LEMMA BoundSuffices == ASSUME PoolAssumption PROVE IInv => QueueBounded
<1> SUFFICES ASSUME IInv, m_queueSize >= 0
             PROVE  Len(m_tasks) + m_outstanding <= m_queueSize + NumThreads
  BY DEF QueueBounded
<1>1. /\ m_outstanding \in 0 .. NumThreads /\ NumThreads \in Nat
      /\ m_queueSize \in Int
  BY BusyCount, SMT DEF IInv, JobInv, ControlTypes, PoolAssumption
<1>2. Len(m_tasks) <= m_queueSize /\ Len(m_tasks) \in Nat
  BY DEF IInv, QueueInv, ControlTypes
<1> QED
  BY <1>1, <1>2, SMT

\* QueueStaysBounded: a bounded pool never holds more than its bound in the
\* queue and one task for each thread.
THEOREM QueueStaysBounded == ASSUME PoolAssumption PROVE Spec => []QueueBounded
  BY BoundSuffices, PoolHolds, PTL

\* When the pool is idle, every accepted task was dropped or ran once.
LEMMA IdleMeansDone ==
    ASSUME PoolAssumption, IInv, RanOnce, Idle
    PROVE  /\ InTask = {}
           /\ \A t \in Accepted \ dropped : finished[t] = 1
<1>1. Busy = {} /\ m_tasks = <<>>
  BY BusyCount DEF IInv, JobInv, Idle
<1>2. InTask = {}
  BY <1>1 DEF InTask, Running, Busy
<1>3. added \in 0 .. TaskCount /\ TaskCount \in Nat
  BY DEF IInv, ControlTypes, PoolAssumption
<1>4. Left = added
  <2>1. Len(m_tasks) = 0
    BY <1>1
  <2> QED
    BY ONLY <1>3, <2>1, SMT DEF Left
<1>5. Accepted \subseteq Ids
  BY <1>3, SMT DEF Accepted, Ids
<1> QED
  BY <1>2, <1>4, <1>5 DEF RanOnce, Accepted

\* CallsLeaveNothing: await() and join() do not return while an accepted task
\* that was not dropped has still to run, and none ran twice.
CallsLeaveNothing ==
    [][Joined \/ (Await /\ owner' = "outside") =>
          \A t \in Accepted \ dropped : finished[t] = 1]_vars

\* NothingLeft: no call of await() or join() returns too early.
THEOREM NothingLeft == ASSUME PoolAssumption PROVE Spec => CallsLeaveNothing
<1>1. ASSUME IInv, RanOnce, Joined \/ (Await /\ owner' = "outside")
      PROVE  \A t \in Accepted \ dropped : finished[t] = 1
  <2>1. Idle
    <3>1. CASE Joined
      <4>1. \A w \in Workers : pc[w] = "exited"
        BY <3>1 DEF Joined
      <4>2. Busy = {} /\ 1 \in Workers
        BY <4>1, SMT DEF Busy, Workers, PoolAssumption
      <4> QED
        BY <1>1, <4>1, <4>2, BusyCount DEF IInv, OwnerInv, JobInv, Idle
    <3>2. CASE Await /\ owner' = "outside"
      BY <3>2 DEF Await
    <3> QED
      BY <1>1, <3>1, <3>2
  <2> QED
    BY <1>1, <2>1, IdleMeansDone
<1>2. IInv /\ RanOnce /\ [Next]_vars =>
        [Joined \/ (Await /\ owner' = "outside") =>
            \A t \in Accepted \ dropped : finished[t] = 1]_vars
  BY <1>1
<1> QED
  BY <1>2, PoolHolds, PTL DEF Spec, CallsLeaveNothing

-----------------------------------------------------------------------------
(***************************************************************************)
(* The pool implements the safety part of PoolPromise.                     *)
(***************************************************************************)
\* The call the owner is in, as the promise sees it.
PromisedCall == CASE owner \in {"awaiting", "awaitAsleep"} -> "await"
                  [] ~adding /\ owner \in {"notifying", "joining"} -> "join"
                  [] OTHER -> "none"

\* Steps the promise does not see.
LEMMA Stutters ==
    ASSUME UNCHANGED <<m_tasks, m_running>>, InTask' = InTask,
           PromisedCall' = PromisedCall
    PROVE  UNCHANGED Promise!promiseVars
BY DEF Promise!promiseVars, InTask, PromisedCall

\* Every step of the pool is a step of the promise or a stutter.
LEMMA StepKeepsPromise ==
    ASSUME PoolAssumption, IInv, RanOnce, [Next]_vars
    PROVE  [Promise!Next]_(Promise!promiseVars)
<1>1. ControlTypes /\ QueueInv /\ JobInv /\ OwnerInv
  BY DEF IInv
<1>2. CASE Add
  <2>1. CASE ~HasRoom
    <3>1. UNCHANGED <<m_tasks, m_running>> /\ InTask' = InTask
      BY <1>2, <2>1 DEF Add, InTask, Running
    <3>2. PromisedCall' = PromisedCall
      BY <1>2, <2>1 DEF Add, PromisedCall
    <3> QED
      BY <3>1, <3>2, Stutters
  <2>2. CASE HasRoom
    <3>1. m_running /\ PromisedCall = "none" /\ PromisedCall' = "none"
      BY <1>1, <1>2, <2>2 DEF Add, PromisedCall, OwnerInv
    <3>2. /\ added + 1 \in Ids /\ m_tasks' = m_tasks \o <<added + 1>>
          /\ InTask' = InTask /\ m_running' = m_running
      <4>1. Emplace
        BY <1>2, <2>2 DEF Add
      <4>2. added + 1 \in Ids
        BY <1>1, <4>1, EmplaceQueue
      <4>3. Append(m_tasks, added + 1) = m_tasks \o <<added + 1>>
        BY <1>1, <4>2 DEF ControlTypes
      <4> QED
        BY <1>2, <4>1, <4>2, <4>3 DEF Add, Emplace, InTask, Running
    <3>3. Promise!Accept
      BY <3>1, <3>2 DEF Promise!Accept, Promise!AddTasks, PromisedCall, InTask
    <3> QED
      BY <3>3 DEF Promise!Next
  <2> QED
    BY <2>1, <2>2
<1>3. CASE Await
  <2>1. UNCHANGED <<m_tasks, m_running>> /\ InTask' = InTask
    BY <1>3 DEF Await, InTask, Running
  <2>2. CASE owner = "outside" /\ Idle
    <3>1. PromisedCall' = PromisedCall
      BY <1>3, <2>2 DEF Await, PromisedCall
    <3> QED
      BY <2>1, <3>1, Stutters
  <2>3. CASE owner = "awaiting" /\ ~Idle
    <3>1. PromisedCall' = PromisedCall
      BY <1>3, <2>3 DEF Await, PromisedCall
    <3> QED
      BY <2>1, <3>1, Stutters
  <2>4. CASE owner = "outside" /\ ~Idle
    <3>1. PromisedCall = "none" /\ PromisedCall' = "await"
      BY <1>3, <2>4 DEF Await, PromisedCall
    <3>2. Promise!Await
      BY <2>1, <3>1 DEF Promise!Await, Promise!poolVars, PromisedCall, InTask
    <3> QED
      BY <3>2 DEF Promise!Next
  <2>5. CASE owner = "awaiting" /\ Idle
    <3>1. PromisedCall = "await" /\ PromisedCall' = "none"
      BY <1>3, <2>5 DEF Await, PromisedCall
    <3>2. m_tasks = <<>> /\ InTask = {}
      BY <2>5, IdleMeansDone DEF Idle
    <3>3. Promise!Return
      BY <2>1, <3>1, <3>2
      DEF Promise!Return, Promise!Idle, Promise!poolVars, PromisedCall, InTask
    <3> QED
      BY <3>3 DEF Promise!Next
  <2> QED
    BY <1>3, <2>2, <2>3, <2>4, <2>5 DEF Await
<1>4. CASE Join
  <2>1. /\ UNCHANGED m_tasks /\ InTask' = InTask /\ m_running /\ ~m_running'
        /\ m_running' = FALSE
    BY <1>4 DEF Join, InTask, Running
  <2>2. PromisedCall = "none" /\ PromisedCall' = "join"
    BY <1>4 DEF Join, PromisedCall
  <2>3. Promise!Join
    BY <2>1, <2>2 DEF Promise!Join, Promise!ClosePool, PromisedCall, InTask
  <2> QED
    BY <2>3 DEF Promise!Next
<1>5. CASE Notify
  <2>1. UNCHANGED <<m_tasks, m_running>> /\ InTask' = InTask
    BY <1>1, <1>5 DEF Notify, InTask, Running, ThreadsWoken, ControlTypes
  <2>2. PromisedCall' = PromisedCall
    BY <1>5 DEF Notify, PromisedCall
  <2> QED
    BY <2>1, <2>2, Stutters
<1>6. CASE Joined
  <2>1. UNCHANGED <<m_tasks, m_running>> /\ InTask' = InTask
    BY <1>6 DEF Joined, InTask, Running
  <2>2. PromisedCall = "join" /\ PromisedCall' = "none"
    BY <1>1, <1>6 DEF Joined, PromisedCall, OwnerInv
  <2>3. m_tasks = <<>> /\ InTask = {}
    <3>1. \A w \in Workers : pc[w] = "exited"
      BY <1>6 DEF Joined
    <3>2. 1 \in Workers
      BY SMT DEF Workers, PoolAssumption
    <3> QED
      BY <1>1, <3>1, <3>2 DEF OwnerInv, InTask, Running
  <2>4. Promise!Return
    BY <2>1, <2>2, <2>3
    DEF Promise!Return, Promise!Idle, Promise!poolVars, PromisedCall, InTask
  <2> QED
    BY <2>4 DEF Promise!Next
<1>7. CASE ClearTasks
  <2>1. /\ m_tasks' = <<>> /\ UNCHANGED m_running /\ InTask' = InTask
        /\ PromisedCall = "none" /\ PromisedCall' = "none"
    BY <1>7 DEF ClearTasks, ownerVars, InTask, Running, PromisedCall
  <2>2. Promise!Clear
    BY <2>1 DEF Promise!Clear, Promise!DropWaiting, PromisedCall, InTask
  <2> QED
    BY <2>2 DEF Promise!Next
<1>8. CASE Go
  <2>1. \A w \in Workers : pc[w] = "exited"
    BY <1>1, <1>8 DEF OwnerInv, Go
  <2>2. InTask = {} /\ InTask' = {}
    BY <1>8, <2>1 DEF Go, InTask, Running
  <2>3. /\ UNCHANGED m_tasks /\ ~m_running /\ m_running' = TRUE
        /\ PromisedCall = "none" /\ PromisedCall' = "none"
    BY <1>8 DEF Go, ownerVars, PromisedCall
  <2>4. Promise!Reopen
    BY <2>2, <2>3 DEF Promise!Reopen, PromisedCall, InTask
  <2> QED
    BY <2>4 DEF Promise!Next
<1>9. CASE Destroyed
  <2>1. UNCHANGED <<m_tasks, m_running>> /\ InTask' = InTask
    BY <1>9 DEF Destroyed, InTask, Running
  <2>2. PromisedCall' = PromisedCall
    BY <1>9 DEF Destroyed, PromisedCall
  <2> QED
    BY <2>1, <2>2, Stutters
<1>10. ASSUME NEW w \in Workers, Take(w)
       PROVE  [Promise!Next]_(Promise!promiseVars)
  <2>1. UNCHANGED <<m_running, owner, adding>> /\ pc[w] = "waking"
    BY <1>10 DEF Take, ownerVars
  <2>2. PromisedCall' = PromisedCall
    BY <2>1 DEF PromisedCall
  <2>3. CASE ~TakesTask
    <3>1. UNCHANGED m_tasks /\ InTask' = InTask
      BY <1>1, <1>10, <2>3 DEF Take, InTask, Running, ControlTypes
    <3> QED
      BY <2>1, <2>2, <3>1, Stutters
  <2>4. CASE TakesTask
    <3>1. /\ m_tasks # <<>> /\ m_tasks' = Tail(m_tasks)
          /\ job' = [job EXCEPT ![w] = Head(m_tasks)]
          /\ pc' = [pc EXCEPT ![w] = "taken"]
      BY <1>10, <2>4 DEF Take, TakesTask
    <3>2. InTask' = InTask \cup {Head(m_tasks)}
      BY <1>1, <2>1, <3>1 DEF InTask, Running, ControlTypes
    <3>3. Cardinality(InTask) < NumThreads
      <4> DEFINE Inside == {v \in Workers : Running(v)}
      <4>1. Inside \subseteq Busy /\ w \in Workers \ Busy
        BY <2>1 DEF Running, Busy
      <4>2. IsFiniteSet(Inside) /\ Cardinality(Inside) <= Cardinality(Busy)
        BY <4>1, BusyCount, FS_Subset
      <4>3. /\ IsFiniteSet({job[v] : v \in Inside})
            /\ Cardinality({job[v] : v \in Inside}) <= Cardinality(Inside)
        <5> DEFINE T == {job[v] : v \in Inside}
                   f == [v \in Inside |-> job[v]]
        <5>1. f \in Surjection(Inside, T)
          BY DEF Surjection
        <5> HIDE DEF T, f
        <5>2. IsFiniteSet(T) /\ Cardinality(T) <= Cardinality(Inside)
          BY <4>2, <5>1, FS_Surjection
        <5> QED
          BY <5>2 DEF T
      <4>4. Cardinality(InTask) \in Nat /\ Cardinality(Inside) \in Nat
        BY <4>2, <4>3, FS_CardinalityType DEF InTask
      <4>5. Cardinality(Busy) < NumThreads /\ Cardinality(Busy) \in Nat
            /\ NumThreads \in Nat
        BY <4>1, BusyCount DEF PoolAssumption
      <4>6. Cardinality(InTask) <= Cardinality(Inside)
        BY <4>3 DEF InTask
      <4> QED
        BY <4>2, <4>4, <4>5, <4>6, SMT
    <3>4. PICK t \in Ids : t = Head(m_tasks)
      BY <1>1, <3>1, HeadOfQueue
    <3>5. Promise!StartTask(t)
      <4>1. Promise!Cardinality(InTask) = Cardinality(InTask)
        BY DEF Promise!Cardinality, Cardinality
      <4> QED
        BY <2>1, <3>1, <3>2, <3>3, <3>4, <4>1 DEF Promise!StartTask, InTask
    <3>6. Promise!Start
      BY <2>2, <3>5 DEF Promise!Start, PromisedCall
    <3> QED
      BY <3>6 DEF Promise!Next
  <2> QED
    BY <2>3, <2>4
<1>11. ASSUME NEW w \in Workers, NotifyOwner(w)
       PROVE  [Promise!Next]_(Promise!promiseVars)
  <2>1. UNCHANGED <<m_tasks, m_running>> /\ InTask' = InTask
    BY <1>1, <1>11 DEF NotifyOwner, InTask, Running, ControlTypes
  <2>2. PromisedCall' = PromisedCall
    BY <1>11 DEF NotifyOwner, WokenBy, OwnerWoken, PromisedCall
  <2> QED
    BY <2>1, <2>2, Stutters
<1>12. ASSUME NEW w \in Workers, TaskAdds(w)
       PROVE  [Promise!Next]_(Promise!promiseVars)
  <2>1. /\ Emplace /\ m_running /\ m_running' = m_running
        /\ PromisedCall' = PromisedCall
    BY <1>12 DEF TaskAdds, ownerVars, PromisedCall
  <2>2. InTask' = InTask
    BY <1>1, <1>12 DEF TaskAdds, InTask, Running, ControlTypes
  <2>3. added + 1 \in Ids
    BY <1>1, <2>1, EmplaceQueue
  <2>4. m_tasks' = m_tasks \o <<added + 1>>
    BY <1>1, <2>1, <2>3 DEF Emplace, ControlTypes
  <2>5. Promise!Accept
    BY <2>1, <2>2, <2>3, <2>4
    DEF Promise!Accept, Promise!AddTasks, PromisedCall, InTask
  <2> QED
    BY <2>5 DEF Promise!Next
<1>13. ASSUME NEW w \in Workers, TaskNotifies(w)
       PROVE  [Promise!Next]_(Promise!promiseVars)
  <2>1. UNCHANGED <<m_tasks, m_running>> /\ InTask' = InTask
    BY <1>1, <1>13 DEF TaskNotifies, ThreadsWoken, InTask, Running, ControlTypes
  <2>2. PromisedCall' = PromisedCall
    BY <1>13 DEF TaskNotifies, ownerVars, PromisedCall
  <2> QED
    BY <2>1, <2>2, Stutters
<1>14. ASSUME NEW w \in Workers, TaskEnds(w)
       PROVE  [Promise!Next]_(Promise!promiseVars)
  <2>1. /\ pc[w] = "running" /\ pc' = [pc EXCEPT ![w] = "returned"]
        /\ UNCHANGED <<m_tasks, m_running, job>> /\ PromisedCall' = PromisedCall
    BY <1>14 DEF TaskEnds, ownerVars, PromisedCall
  <2>2. job[w] \in InTask /\ w \in Busy /\ job[w] # 0
    BY <1>1, <2>1 DEF InTask, Running, Busy, JobInv
  <2>3. PICK t \in Ids : t = job[w]
    BY <1>1, <2>2, SMT DEF Ids, ControlTypes, PoolAssumption
  <2>4. InTask' = InTask \ {job[w]}
    BY <1>1, <2>1, <2>2 DEF InTask, Running, ControlTypes, JobInv
  <2>5. Promise!Finish(t)
    BY <2>1, <2>2, <2>3, <2>4 DEF Promise!Finish, Promise!FinishTask, PromisedCall, InTask
  <2> QED
    BY <2>5 DEF Promise!Next
<1>15. ASSUME NEW w \in Workers, CountOut(w)
       PROVE  [Promise!Next]_(Promise!promiseVars)
  <2>1. UNCHANGED <<m_tasks, m_running>> /\ InTask' = InTask
    BY <1>1, <1>15 DEF CountOut, InTask, Running, ControlTypes
  <2>2. PromisedCall' = PromisedCall
    BY <1>15 DEF CountOut, ownerVars, PromisedCall
  <2> QED
    BY <2>1, <2>2, Stutters
<1>16. CASE Spurious
  <2>1. UNCHANGED <<m_tasks, m_running>> /\ InTask' = InTask
    BY <1>1, <1>16 DEF Spurious, InTask, Running, ControlTypes
  <2>2. PromisedCall' = PromisedCall
    BY <1>16 DEF Spurious, OwnerWoken, PromisedCall
  <2> QED
    BY <2>1, <2>2, Stutters
<1>17. CASE UNCHANGED vars
  <2>1. UNCHANGED <<m_tasks, m_running>> /\ InTask' = InTask
        /\ PromisedCall' = PromisedCall
    BY <1>17 DEF vars, ownerVars, InTask, Running, PromisedCall
  <2> QED
    BY <2>1, Stutters
<1> QED
  BY <1>2, <1>3, <1>4, <1>5, <1>6, <1>7, <1>8, <1>9, <1>10, <1>11, <1>12, <1>13,
     <1>14, <1>15, <1>16, <1>17
  DEF Next, OwnerStep, WorkerStep, Terminated

\* PromiseKept: the pool, with its condition variables, spurious wake-ups and
\* tasks that add tasks, starts in the promised state and takes no step that
\* PoolPromise does not allow: tasks start in the order they were added, run
\* once, and a call returns only from an idle pool.  (That it does return is a
\* matter of fairness.)
THEOREM PromiseKept ==
    ASSUME PoolAssumption
    PROVE  Spec => Promise!Init /\ [][Promise!Next]_(Promise!promiseVars)
<1>1. Init => Promise!Init
  <2> SUFFICES ASSUME Init PROVE Promise!Init
    OBVIOUS
  <2>1. InTask = {} /\ PromisedCall = "none" /\ m_tasks = <<>> /\ m_running = TRUE
    BY DEF Init, InTask, Running, PromisedCall
  <2> QED
    BY <2>1 DEF Promise!Init, Promise!NoTasks, InTask, PromisedCall
<1>2. IInv /\ RanOnce /\ [Next]_vars => [Promise!Next]_(Promise!promiseVars)
  BY StepKeepsPromise
<1> QED
  BY <1>1, <1>2, PoolHolds, PTL DEF Spec
=============================================================================
