-------------------------- MODULE PositionedOutput --------------------------
(***************************************************************************)
(* The sink of the native CUDA translation (PositionedOutput in            *)
(* src/src/cli/main.cpp): the calling thread copies each block of the file *)
(* into one of a few buffers and a thread writes the buffers out.  The     *)
(* header comes last, when the summary of all the points is known.         *)
(*                                                                         *)
(* A step is what is done under one hold of m_mutex, a wait, or a          *)
(* notification.  What the owner does with the file is its business: it    *)
(* gives the sink an absent file and finds out in sinkResult what became   *)
(* of it.                                                                  *)
(***************************************************************************)
EXTENDS Integers, Sequences, Functions

CONSTANTS
    QueueDepth,     \* the number of buffers
    Blocks          \* the blocks of point records

VARIABLES
    sink,           \* what the calling thread does
    sinkResult,     \* "none" while it runs, then how it ended
    accepted,       \* the number of writes that writeAt took
    m_freeBuffers,  \* how many buffers are free
    m_pending,      \* the writes that wait
    m_failure, m_stopping,
    worker,         \* what the writing thread does
    writing,        \* the write in its hands
    file            \* what the file holds at each place

sinkVars == <<sink, sinkResult, accepted, m_freeBuffers, m_pending, m_failure,
              m_stopping, worker, writing, file>>

SinkAssumption == QueueDepth \in Nat \ {0} /\ Blocks \in Nat

\* A write is the place it goes to and what it puts there.
Header == [at |-> 0, data |-> "header"]
Requests ==
    Append([b \in 1 .. Blocks |-> [at |-> b, data |-> "points"]], Header)

Places == 0 .. Blocks
Hole == "zeros"
Whole == [place \in Places |-> IF place = 0 THEN "header" ELSE "points"]

SinkInitAt(state) ==
    /\ sink = state
    /\ sinkResult = "none"
    /\ accepted = 0
    /\ m_freeBuffers = QueueDepth
    /\ m_pending = <<>>
    /\ m_failure = FALSE
    /\ m_stopping = FALSE
    /\ worker = "absent"
    /\ writing = Header
    /\ file = [place \in Places |-> Hole]

SinkClosed == sink = "absent"

-----------------------------------------------------------------------------
(***************************************************************************)
(* The calling thread.                                                     *)
(***************************************************************************)

\* The constructor, once the file is there: it is sized and the thread starts,
\* or it is closed again.
SinkStarts ==
    /\ SinkClosed
    /\ \/ sink' = "translating" /\ worker' = "checking"
          /\ UNCHANGED sinkResult
       \/ sinkResult' = "failed" /\ UNCHANGED <<sink, worker>>
    /\ UNCHANGED <<accepted, m_freeBuffers, m_pending, m_failure, m_stopping,
                   writing, file>>

\* The destructor of an exception on its way out, or close().
Leave(result) == sink' = "stopping" /\ sinkResult' = result

\* The translation has its next block, or ends, or fails.
NextWrite ==
    /\ sink = "translating"
    /\ accepted < Len(Requests)
    /\ sink' = "taking"
    /\ UNCHANGED <<sinkResult, accepted, m_freeBuffers, m_pending, m_failure,
                   m_stopping, worker, writing, file>>

Translated ==
    /\ sink = "translating"
    /\ \/ accepted = Len(Requests) /\ Leave("closing")
       \/ Leave("cudaError")
       \/ Leave("failed")
    /\ UNCHANGED <<accepted, m_freeBuffers, m_pending, m_failure, m_stopping,
                   worker, writing, file>>

\* Fault: writeAt takes a buffer whether one is free or not.
NeverWaits == TRUE

BufferOrEnd == m_failure \/ m_stopping \/ m_freeBuffers > 0

\* writeAt waits for a buffer.
WaitForBuffer ==
    /\ sink = "taking"
    /\ ~BufferOrEnd
    /\ sink' = "asleep"
    /\ UNCHANGED <<sinkResult, accepted, m_freeBuffers, m_pending, m_failure,
                   m_stopping, worker, writing, file>>

TakeBuffer ==
    /\ sink = "taking"
    /\ BufferOrEnd
    /\ IF m_failure \/ m_stopping
       THEN Leave("failed") /\ UNCHANGED m_freeBuffers
       ELSE /\ m_freeBuffers' = m_freeBuffers - 1
            /\ sink' = "copying"
            /\ UNCHANGED sinkResult
    /\ UNCHANGED <<accepted, m_pending, m_failure, m_stopping, worker, writing,
                   file>>

\* The bytes are copied without the lock; then the write is queued.
QueueBlock ==
    /\ sink = "copying"
    /\ IF m_failure
       THEN /\ m_freeBuffers' = m_freeBuffers + 1
            /\ Leave("failed")
            /\ UNCHANGED <<accepted, m_pending>>
       ELSE /\ m_pending' = Append(m_pending, Requests[accepted + 1])
            /\ accepted' = accepted + 1
            /\ sink' = "notifying"
            /\ UNCHANGED <<sinkResult, m_freeBuffers>>
    /\ UNCHANGED <<m_failure, m_stopping, worker, writing, file>>

\* There is no memory for the copy.
CopyFails ==
    /\ sink = "copying"
    /\ m_freeBuffers' = m_freeBuffers + 1
    /\ Leave("failed")
    /\ UNCHANGED <<accepted, m_pending, m_failure, m_stopping, worker, writing,
                   file>>

Woken == IF worker = "asleep" THEN "checking" ELSE worker

NotifyWriter ==
    /\ sink = "notifying"
    /\ worker' = Woken
    /\ sink' = "translating"
    /\ UNCHANGED <<sinkResult, accepted, m_freeBuffers, m_pending, m_failure,
                   m_stopping, writing, file>>

\* stopWorker() of close() and of the destructor.
StopWorker ==
    /\ sink = "stopping"
    /\ m_stopping' = TRUE
    /\ sink' = "stopped"
    /\ UNCHANGED <<sinkResult, accepted, m_freeBuffers, m_pending, m_failure,
                   worker, writing, file>>

NotifyStop ==
    /\ sink = "stopped"
    /\ worker' = Woken
    /\ sink' = "joining"
    /\ UNCHANGED <<sinkResult, accepted, m_freeBuffers, m_pending, m_failure,
                   m_stopping, writing, file>>

\* Fault: close() does not look at what the thread met.
Unnoticed == FALSE

WriterFailed == m_failure

\* The thread has ended: the file is cut to its size and closed, and close()
\* throws what the thread met.
SinkCloses ==
    /\ sink = "joining"
    /\ worker = "gone"
    /\ sink' = "absent"
    /\ sinkResult' = CASE sinkResult # "closing" -> sinkResult
                       [] WriterFailed -> "failed"
                       [] OTHER -> "written"
    /\ UNCHANGED <<accepted, m_freeBuffers, m_pending, m_failure, m_stopping,
                   worker, writing, file>>

\* The file cannot be cut or closed.
CloseFails ==
    /\ sink = "joining"
    /\ worker = "gone"
    /\ sinkResult = "closing"
    /\ sink' = "absent"
    /\ sinkResult' = "failed"
    /\ UNCHANGED <<accepted, m_freeBuffers, m_pending, m_failure, m_stopping,
                   worker, writing, file>>

-----------------------------------------------------------------------------
(***************************************************************************)
(* The writing thread (run).                                               *)
(***************************************************************************)

CheckPending ==
    /\ worker = "checking"
    /\ IF ~m_stopping /\ m_pending = <<>>
       THEN worker' = "asleep" /\ UNCHANGED <<m_pending, writing>>
       ELSE IF m_pending = <<>>
       THEN worker' = "gone" /\ UNCHANGED <<m_pending, writing>>
       ELSE /\ writing' = Head(m_pending)
            /\ m_pending' = Tail(m_pending)
            /\ worker' = "writing"
    /\ UNCHANGED <<sink, sinkResult, accepted, m_freeBuffers, m_failure,
                   m_stopping, file>>

WriteDirect ==
    /\ worker = "writing"
    /\ file' = [file EXCEPT ![writing.at] = writing.data]
    /\ worker' = "recycling"
    /\ UNCHANGED <<sink, sinkResult, accepted, m_freeBuffers, m_pending,
                   m_failure, m_stopping, writing>>

\* Fault: only who waits for the queue is told.
NotTold == sink

CallerWoken == IF sink = "asleep" THEN "taking" ELSE sink

WriteFails ==
    /\ worker = "writing"
    /\ file' \in {file, [file EXCEPT ![writing.at] = "torn"]}
    /\ m_failure' = TRUE
    /\ m_stopping' = TRUE
    /\ sink' = CallerWoken
    /\ worker' = "gone"
    /\ UNCHANGED <<sinkResult, accepted, m_freeBuffers, m_pending, writing>>

Recycle ==
    /\ worker = "recycling"
    /\ m_freeBuffers' = m_freeBuffers + 1
    /\ worker' = "recycled"
    /\ UNCHANGED <<sink, sinkResult, accepted, m_pending, m_failure,
                   m_stopping, writing, file>>

NotifyFree ==
    /\ worker = "recycled"
    /\ sink' = CallerWoken
    /\ worker' = "checking"
    /\ UNCHANGED <<sinkResult, accepted, m_freeBuffers, m_pending, m_failure,
                   m_stopping, writing, file>>

\* A wait may end for no reason.
SpuriousWakeup ==
    /\ \/ sink = "asleep" /\ sink' = "taking" /\ UNCHANGED worker
       \/ worker = "asleep" /\ worker' = "checking" /\ UNCHANGED sink
    /\ UNCHANGED <<sinkResult, accepted, m_freeBuffers, m_pending, m_failure,
                   m_stopping, writing, file>>

-----------------------------------------------------------------------------
SinkCallerStep ==
    NextWrite \/ Translated \/ WaitForBuffer \/ TakeBuffer \/ QueueBlock
    \/ CopyFails \/ NotifyWriter \/ StopWorker \/ NotifyStop \/ SinkCloses
    \/ CloseFails

SinkWorkerStep ==
    CheckPending \/ WriteDirect \/ WriteFails \/ Recycle \/ NotifyFree

SinkTypeOK ==
    /\ sink \in {"absent", "translating", "taking", "asleep", "copying",
                 "notifying", "stopping", "stopped", "joining"}
    /\ sinkResult \in {"none", "closing", "cudaError", "failed", "written"}
    /\ accepted \in 0 .. Len(Requests)
    /\ m_freeBuffers \in 0 .. QueueDepth
    /\ \A i \in DOMAIN m_pending : m_pending[i] \in Range(Requests)
    /\ m_failure \in BOOLEAN /\ m_stopping \in BOOLEAN
    /\ worker \in {"absent", "checking", "asleep", "writing", "recycling",
                   "recycled", "gone"}
    /\ file \in [Places -> {Hole, "torn", "points", "header"}]

\* SinkWhole: a sink that close() returned from has every block that writeAt
\* took, and the header.
SinkWhole == sinkResult = "written" => file = Whole
=============================================================================
