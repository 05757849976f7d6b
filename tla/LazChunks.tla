------------------------------ MODULE LazChunks ------------------------------
(***************************************************************************)
(* LazPerfVlrCompressorImpl: points arrive one at a time, are cut into     *)
(* chunks of ChunkSize and compressed, and the chunks and a table of them  *)
(* are written to a stream.  With one thread each chunk is written as it   *)
(* is filled; with more, a chunk is handed to the pool and written, in     *)
(* order, when it is the oldest of as many as there are threads.           *)
(*                                                                         *)
(* A point is its number, a chunk the number of its points; the stream is  *)
(* the chunks in it after Place, kept for the position of the table.        *)
(***************************************************************************)
EXTENDS PoolTasks

CONSTANTS
    ChunkSize,      \* m_chunksize
    MaxPoints,      \* bounds the points that are written
    FailingChunks   \* the sets of chunks that may fail to compress

ChunksAssumption ==
    /\ ChunkSize \in Nat \ {0}
    /\ MaxPoints \in Nat
    /\ FailingChunks \subseteq SUBSET (Nat \ {0})

VARIABLES
    parallel,           \* m_pool was created
    failingChunks,      \* the chunks whose compression throws
    writer,             \* where the writing thread is
    points,             \* the points it was given
    m_chunkPointsWritten,
    m_compressor,       \* the serial compressor exists
    m_parallelResults,  \* the chunks whose futures wait, oldest first
    submitted,          \* the sizes of the chunks handed to the pool
    compressed,         \* the chunks whose futures are ready
    m_stream,           \* Place, and the size of each chunk
    m_chunkTable

lazState == <<parallel, failingChunks, writer, points, m_chunkPointsWritten,
              m_compressor, m_parallelResults, submitted, compressed,
              m_stream, m_chunkTable>>
lazVars == <<lazState, poolVars>>

Place == 0
MaxChunks == MaxPoints \div ChunkSize + 1
Chunks == 1 .. MaxChunks

LazTypeOK ==
    /\ parallel \in BOOLEAN
    /\ failingChunks \subseteq Nat
    /\ writer \in {"outside", "adding", "writing", "finishing", "table",
                   "joining", "thrown", "written", "gone"}
    /\ points \in 0 .. MaxPoints
    /\ m_chunkPointsWritten \in 0 .. ChunkSize
    /\ m_compressor \in BOOLEAN
    /\ m_parallelResults \in BoundedSeq(Chunks, PoolThreads)
    /\ submitted \in BoundedSeq(1 .. ChunkSize, MaxChunks)
    /\ compressed \subseteq Chunks
    /\ m_stream \in BoundedSeq({Place} \cup 1 .. ChunkSize, MaxChunks + 1)
    /\ m_chunkTable \in BoundedSeq(1 .. ChunkSize, MaxChunks)

LazInitAt(place) ==
    /\ writer = place
    /\ points = 0 /\ m_chunkPointsWritten = 0
    /\ m_compressor = FALSE
    /\ m_parallelResults = <<>> /\ submitted = <<>> /\ compressed = {}
    /\ m_stream = <<>> /\ m_chunkTable = <<>>

LazInit ==
    /\ parallel \in BOOLEAN
    /\ failingChunks \in IF parallel THEN FailingChunks ELSE {{}}
    /\ LazInitAt("outside")

-----------------------------------------------------------------------------
(***************************************************************************)
(* One thread.                                                             *)
(***************************************************************************)
\* newChunk()
WriteChunk(size) ==
    /\ m_stream' = Append(m_stream, size)
    /\ m_chunkTable' = Append(m_chunkTable, size)

\* compress(): a full chunk is written only when another point comes.
CompressSerial ==
    /\ writer = "outside"
    /\ ~parallel
    /\ points < MaxPoints
    /\ points' = points + 1
    /\ \/ /\ ~m_compressor
          /\ m_stream' = Append(m_stream, Place)
          /\ m_compressor' = TRUE
          /\ m_chunkPointsWritten' = 1
          /\ UNCHANGED m_chunkTable
       \/ /\ m_compressor
          /\ m_chunkPointsWritten = ChunkSize
          /\ WriteChunk(ChunkSize)
          /\ m_chunkPointsWritten' = 1
          /\ UNCHANGED m_compressor
       \/ /\ m_compressor
          /\ m_chunkPointsWritten < ChunkSize
          /\ m_chunkPointsWritten' = m_chunkPointsWritten + 1
          /\ UNCHANGED <<m_compressor, m_stream, m_chunkTable>>
    /\ UNCHANGED <<parallel, failingChunks, writer, m_parallelResults,
                   submitted, compressed, poolVars>>

DoneSerial ==
    /\ writer = "outside"
    /\ ~parallel
    /\ IF m_compressor
       THEN WriteChunk(m_chunkPointsWritten) /\ m_chunkPointsWritten' = 0
       ELSE UNCHANGED <<m_stream, m_chunkTable, m_chunkPointsWritten>>
    /\ writer' = "table"
    /\ UNCHANGED <<parallel, failingChunks, points, m_compressor,
                   m_parallelResults, submitted, compressed, poolVars>>

-----------------------------------------------------------------------------
(***************************************************************************)
(* Several threads.                                                        *)
(***************************************************************************)
FirstPoint == /\ m_chunkPointsWritten = 0
              /\ m_parallelResults = <<>>
              /\ m_chunkTable = <<>>

\* compressParallel()
CompressParallel ==
    /\ writer = "outside"
    /\ parallel
    /\ points < MaxPoints
    /\ points' = points + 1
    /\ m_stream' = IF FirstPoint THEN Append(m_stream, Place) ELSE m_stream
    /\ m_chunkPointsWritten' = m_chunkPointsWritten + 1
    /\ writer' = IF m_chunkPointsWritten' = ChunkSize THEN "adding" ELSE writer
    /\ UNCHANGED <<parallel, failingChunks, m_compressor, m_parallelResults,
                   submitted, compressed, m_chunkTable, poolVars>>

\* Fault: as many chunks again may wait to be written.
TwiceThePool == Len(m_parallelResults) >= 2 * PoolThreads - 1

PoolIsFull == Len(m_parallelResults) >= PoolThreads - 1

\* submitParallelChunk(), also as the first step of done().  The queue of the
\* pool is as long as the pool has threads; add() waits for room in it.
SubmitChunk ==
    /\ writer \in {"adding", "finishing"}
    /\ m_chunkPointsWritten > 0
    /\ Len(waiting) < PoolThreads
    /\ submitted' = Append(submitted, m_chunkPointsWritten)
    /\ m_parallelResults' = Append(m_parallelResults, Len(submitted'))
    /\ AddTasks(<<Len(submitted')>>)
    /\ m_chunkPointsWritten' = 0
    /\ writer' = CASE PoolIsFull -> IF writer = "adding" THEN "writing"
                                                         ELSE writer
                   [] OTHER -> IF writer = "adding" THEN "outside" ELSE writer
    /\ UNCHANGED <<parallel, failingChunks, points, m_compressor, compressed,
                   m_stream, m_chunkTable>>

StartChunk(chunk) == StartTask(chunk) /\ UNCHANGED lazState

\* The task's future becomes ready, with the chunk or with what was thrown.
ChunkReady(chunk) ==
    /\ FinishTask(chunk)
    /\ compressed' = compressed \cup {chunk}
    /\ UNCHANGED <<parallel, failingChunks, writer, points,
                   m_chunkPointsWritten, m_compressor, m_parallelResults,
                   submitted, m_stream, m_chunkTable>>

\* Fault: whichever chunk is ready is written.
AnyReady == ToSet(m_parallelResults) \cap compressed

Oldest == {Head(m_parallelResults)} \cap compressed

AfterWrite == IF writer = "writing" THEN "outside" ELSE writer

\* writeNextParallelChunk(): after a submission, and for every chunk left in
\* done().  A chunk that failed, or is too large, throws.
WriteNext ==
    /\ \/ writer = "writing"
       \/ writer = "finishing" /\ m_chunkPointsWritten = 0
    /\ m_parallelResults # <<>>
    /\ \E chunk \in Oldest :
          \/ /\ chunk \notin failingChunks
             /\ m_parallelResults' = Tail(m_parallelResults)
             /\ WriteChunk(submitted[chunk])
             /\ writer' = AfterWrite
          \/ /\ chunk \in failingChunks
             /\ m_parallelResults' \in {m_parallelResults,
                                        Tail(m_parallelResults)}
             /\ writer' = "thrown"
             /\ UNCHANGED <<m_stream, m_chunkTable>>
    /\ UNCHANGED <<parallel, failingChunks, points, m_chunkPointsWritten,
                   m_compressor, submitted, compressed, poolVars>>

DoneParallel ==
    /\ writer = "outside"
    /\ parallel
    /\ writer' = "finishing"
    /\ UNCHANGED <<parallel, failingChunks, points, m_chunkPointsWritten,
                   m_compressor, m_parallelResults, submitted, compressed,
                   m_stream, m_chunkTable, poolVars>>

\* m_pool->join() in done(), or in the destructor after an exception.
JoinPool ==
    /\ \/ writer = "finishing" /\ m_chunkPointsWritten = 0
                               /\ m_parallelResults = <<>>
       \/ writer = "thrown" /\ open
    /\ ClosePool
    /\ writer' = IF writer = "finishing" THEN "joining" ELSE writer
    /\ UNCHANGED <<parallel, failingChunks, points, m_chunkPointsWritten,
                   m_compressor, m_parallelResults, submitted, compressed,
                   m_stream, m_chunkTable>>

PoolJoined ==
    /\ writer \in {"joining", "thrown"}
    /\ ~open /\ Idle
    /\ writer' = IF writer = "joining" THEN "table" ELSE "gone"
    /\ UNCHANGED <<parallel, failingChunks, points, m_chunkPointsWritten,
                   m_compressor, m_parallelResults, submitted, compressed,
                   m_stream, m_chunkTable, poolVars>>

\* The rest of done(): the table's position, then the table.
WriteTable ==
    /\ writer = "table"
    /\ m_stream' = IF m_stream = <<>> THEN <<Place>> ELSE m_stream
    /\ writer' = "written"
    /\ UNCHANGED <<parallel, failingChunks, points, m_chunkPointsWritten,
                   m_compressor, m_parallelResults, submitted, compressed,
                   m_chunkTable, poolVars>>

-----------------------------------------------------------------------------
LazWriterStep == SubmitChunk \/ WriteNext \/ JoinPool \/ PoolJoined
                 \/ WriteTable
LazTaskStep(chunk) == StartChunk(chunk) \/ ChunkReady(chunk)

\* A call that was begun goes on and every compression ends.
LazFairness == /\ WF_lazVars(LazWriterStep)
               /\ \A chunk \in Chunks : WF_lazVars(LazTaskStep(chunk))

LazEnded == writer \in {"written", "gone"} /\ UNCHANGED lazVars

LazNext == CompressSerial \/ DoneSerial \/ CompressParallel \/ DoneParallel
           \/ LazWriterStep \/ (\E chunk \in Chunks : LazTaskStep(chunk))
           \/ LazEnded

LazSpec == NoTasks(TRUE) /\ LazInit /\ [][LazNext]_lazVars /\ LazFairness

-----------------------------------------------------------------------------
\* The chunks that the first n points make.
Cut(n) == [i \in 1 .. (n + ChunkSize - 1) \div ChunkSize |->
              IF i * ChunkSize <= n THEN ChunkSize ELSE n % ChunkSize]

\* SerialFile: whatever the threads do, the stream and the table hold the
\* chunks that one thread would have written, in the same order, up to the
\* first that fails, and a finished file holds them all.
SerialFile ==
    /\ m_stream # <<>> => m_stream = <<Place>> \o m_chunkTable
    /\ IsPrefix(m_chunkTable, Cut(points))
    /\ writer = "written" => m_chunkTable = Cut(points) /\ m_stream # <<>>
    /\ \A chunk \in DOMAIN m_chunkTable : chunk \notin failingChunks

\* OneChunkPerWorker: between two calls fewer chunks than threads are held, raw
\* or compressed, and never more than one for each; add() finds room.
OneChunkPerWorker ==
    /\ Len(m_parallelResults) <= PoolThreads
    /\ writer = "outside" => Len(m_parallelResults) < PoolThreads
    /\ writer \in {"adding", "finishing"} /\ m_chunkPointsWritten > 0
          => Len(waiting) < PoolThreads

\* LazReturns: compress() and done() return, or throw and let the writer be
\* destroyed.
LazReturned == writer \in {"outside", "gone", "written"}
LazReturns == ~LazReturned ~> LazReturned
==============================================================================
