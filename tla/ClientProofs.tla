----------------------------- MODULE ClientProofs -----------------------------
(***************************************************************************)
(* Proofs about the clients of the thread pool, for every number of        *)
(* threads, points, pages, walkers and octants and every size of a chunk   *)
(* or a cache; ReaderProofs has those of the COPC, EPT and STAC readers.   *)
(*                                                                         *)
(* The LAZ compressor (LazChunks) and the LAS reader (LasTiles): the       *)
(* futures and tiles, the queue of the pool and the points given agree.    *)
(* The cache of node pages (PageCache): a page that an entry waits for has *)
(* one fetch, in a walker's hand, in the queue or with a thread.  The      *)
(* pyramid of the COPC writer (Pyramid): no live octant is above another,  *)
(* and the points that live octants and written chunks have add up.        *)
(*                                                                         *)
(* At the end, what that means for MCPoolClients, where one of the clients *)
(* runs and the others rest.                                               *)
(***************************************************************************)
EXTENDS MCPoolClients, ReaderProofs

-----------------------------------------------------------------------------
(***************************************************************************)
(* The LAZ compressor, whatever chunks fail.                               *)
(*                                                                         *)
(* The chunks are numbered in the order they are handed to the pool.  The  *)
(* queue of the pool is then always the last of them, the futures are the  *)
(* ones after the last that was written, and the points say how many there *)
(* are and how large each is.                                              *)
(***************************************************************************)
Submitted == Len(submitted)
Written == Len(m_chunkTable)

\* The size that the i-th chunk of so many points has.
SizeOfChunk(n, i) == IF i * ChunkSize <= n THEN ChunkSize
                                           ELSE n - (i - 1) * ChunkSize

\* n points take k chunks.
Takes(n, k) ==
    /\ n <= k * ChunkSize
    /\ k > 0 => (k - 1) * ChunkSize < n

LazTypes ==
    /\ parallel \in BOOLEAN
    /\ failingChunks \subseteq Nat
    /\ writer \in {"outside", "adding", "writing", "finishing", "table",
                   "joining", "thrown", "written", "gone"}
    /\ points \in 0 .. MaxPoints
    /\ m_chunkPointsWritten \in 0 .. ChunkSize
    /\ m_compressor \in BOOLEAN
    /\ m_parallelResults \in Seq(Nat)
    /\ submitted \in Seq(1 .. ChunkSize)
    /\ compressed \subseteq Nat
    /\ m_stream \in Seq(Nat)
    /\ m_chunkTable \in Seq(1 .. ChunkSize)
    /\ waiting \in Seq(Nat)
    /\ running \subseteq Nat

\* One thread: full chunks, and at least a point in the chunk that is open.
SerialInv ==
    /\ waiting = <<>> /\ running = {} /\ compressed = {} /\ failingChunks = {}
    /\ submitted = <<>> /\ m_parallelResults = <<>>
    /\ writer \in {"outside", "table", "written"}
    /\ m_compressor =>
          /\ m_stream = <<Place>> \o m_chunkTable
          /\ writer = "outside" =>
                /\ m_chunkPointsWritten > 0
                /\ points = Written * ChunkSize + m_chunkPointsWritten
                /\ \A i \in 1 .. Written : m_chunkTable[i] = ChunkSize
          /\ writer # "outside" => m_chunkTable = Cut(points)
    /\ ~m_compressor =>
          /\ points = 0 /\ m_chunkPointsWritten = 0
          /\ m_chunkTable = <<>>
          /\ m_stream = IF writer = "written" THEN <<Place>> ELSE <<>>

\* The pool: its queue holds the chunks submitted last, and a thread or a
\* future only ones before them.
ChunksInPool ==
    /\ Written + Len(waiting) <= Submitted
    /\ \A i \in 1 .. Len(waiting) : waiting[i] = Submitted - Len(waiting) + i
    /\ \A chunk \in running \cup compressed :
          chunk \in 1 .. Submitted - Len(waiting)

\* The chunks submitted are the ones the points make, but for those in hand.
ChunksCut ==
    /\ \A i \in 1 .. Submitted : submitted[i] = SizeOfChunk(points, i)
    /\ Submitted > 0 => (Submitted - 1) * ChunkSize < points
    /\ \A i \in 1 .. Written : /\ m_chunkTable[i] = submitted[i]
                               /\ i \notin failingChunks

\* The futures, oldest first: the chunks submitted and not yet written.
FuturesInOrder ==
    /\ Len(m_parallelResults) <= PoolThreads
    /\ \A i \in 1 .. Len(m_parallelResults) :
          m_parallelResults[i] \in 1 .. Submitted
    /\ writer \notin {"thrown", "gone"} =>
          /\ Written + Len(m_parallelResults) = Submitted
          /\ \A i \in 1 .. Len(m_parallelResults) :
                m_parallelResults[i] = Written + i

\* What the writing thread knows at each place.
InHand == points = Submitted * ChunkSize + m_chunkPointsWritten
RoomForOne == Len(m_parallelResults) < PoolThreads
WriterInv ==
    /\ writer = "outside" => InHand /\ RoomForOne /\ m_chunkPointsWritten < ChunkSize
    /\ writer = "adding" => InHand /\ RoomForOne /\ m_chunkPointsWritten = ChunkSize
    /\ writer = "writing" => InHand /\ m_chunkPointsWritten = 0
    /\ writer = "finishing" =>
          IF m_chunkPointsWritten > 0 THEN InHand /\ RoomForOne
          ELSE Takes(points, Submitted)
    /\ writer \in {"joining", "table", "written"} =>
          Takes(points, Submitted) /\ Written = Submitted

ParallelInv ==
    /\ ~m_compressor
    /\ ChunksInPool /\ ChunksCut /\ FuturesInOrder /\ WriterInv
    /\ m_stream = IF points = 0 /\ writer # "written" THEN <<>>
                  ELSE <<Place>> \o m_chunkTable

LazInv ==
    /\ LazTypes
    /\ ~parallel => SerialInv
    /\ parallel => ParallelInv

-----------------------------------------------------------------------------
(***************************************************************************)
(* How points are cut into chunks.                                         *)
(***************************************************************************)
\* Some number of chunks is right.
LEMMA SomeTakes ==
    ASSUME ChunksAssumption, NEW n \in Nat
    PROVE  /\ (n + ChunkSize - 1) \div ChunkSize \in Nat
           /\ Takes(n, (n + ChunkSize - 1) \div ChunkSize)
<1> DEFINE k == (n + ChunkSize - 1) \div ChunkSize
           r == (n + ChunkSize - 1) % ChunkSize
<1>1. ChunkSize \in Nat \ {0} /\ n + ChunkSize - 1 \in Nat
  BY SMT DEF ChunksAssumption
<1>2. k \in Nat /\ r \in 0 .. (ChunkSize - 1) /\ n + ChunkSize - 1 = k * ChunkSize + r
  BY <1>1, DivMod
<1> HIDE DEF k, r
<1>3. (k - 1) * ChunkSize = k * ChunkSize - ChunkSize /\ k * ChunkSize \in Nat
  BY <1>1, <1>2, SMT
<1>4. Takes(n, k)
  BY <1>1, <1>2, <1>3, SMT DEF Takes
<1> QED
  BY <1>2, <1>4 DEF k

\* A full chunk before one that holds a point is one of the chunks needed.
LEMMA NoMoreThanTaken ==
    ASSUME ChunksAssumption, NEW n \in Nat, NEW k \in Nat, NEW s \in Nat,
           Takes(n, k), s > 0 => (s - 1) * ChunkSize < n
    PROVE  s <= k
<1>1. ChunkSize \in Nat \ {0}
  BY DEF ChunksAssumption
<1>2. SUFFICES ASSUME k < s PROVE FALSE
  BY SMT
<1>3. k <= s - 1 /\ s - 1 \in Nat
  BY <1>2, SMT
<1>4. k * ChunkSize <= (s - 1) * ChunkSize
  <2>1. CASE k = s - 1
    BY <2>1, <1>1, <1>3, SMT
  <2>2. CASE k < s - 1
    <3>1. k * ChunkSize + ChunkSize <= (s - 1) * ChunkSize /\ k * ChunkSize \in Nat
      BY <2>2, <1>1, <1>3, TimesMonotone
    <3> QED
      BY <3>1, <1>1, <1>3, SMT
  <2> QED
    BY <1>3, <2>1, <2>2, SMT
<1>5. n <= k * ChunkSize /\ (s - 1) * ChunkSize < n
  BY <1>2, SMT DEF Takes
<1> QED
  BY <1>1, <1>3, <1>4, <1>5, SMT

\* The chunks before the last are full.
LEMMA FullBefore ==
    ASSUME ChunksAssumption, NEW n \in Nat, NEW k \in Nat \ {0},
           (k - 1) * ChunkSize < n, NEW i \in 1 .. k - 1
    PROVE  i * ChunkSize <= n
<1>1. ChunkSize \in Nat \ {0} /\ i \in Nat /\ k - 1 \in Nat
  BY SMT DEF ChunksAssumption
<1>2. CASE i = k - 1
  BY <1>1, <1>2, SMT
<1>3. CASE i < k - 1
  <2>1. i * ChunkSize + ChunkSize <= (k - 1) * ChunkSize /\ i * ChunkSize \in Nat
    BY <1>1, <1>3, TimesMonotone
  <2> QED
    BY <1>1, <2>1, SMT
<1> QED
  BY <1>1, <1>2, <1>3, SMT

\* What Cut makes of n points.
LEMMA CutTakes ==
    ASSUME ChunksAssumption, NEW n \in Nat, NEW k \in Nat, Takes(n, k)
    PROVE  Cut(n) = [i \in 1 .. k |-> SizeOfChunk(n, i)]
<1>1. ChunkSize \in Nat \ {0}
  BY DEF ChunksAssumption
<1> DEFINE c == (n + ChunkSize - 1) \div ChunkSize
<1>2. c \in Nat /\ Takes(n, c)
  BY SomeTakes
<1> HIDE DEF c
<1>3. c = k
  <2>1. c <= k
    BY <1>2, NoMoreThanTaken DEF Takes
  <2>2. k <= c
    BY <1>2, NoMoreThanTaken DEF Takes
  <2> QED
    BY <1>2, <2>1, <2>2, SMT
<1>4. ASSUME NEW i \in 1 .. k, ~(i * ChunkSize <= n)
      PROVE  n % ChunkSize = n - (i - 1) * ChunkSize
  <2>1. k \in Nat \ {0} /\ i \in Nat
    BY <1>4, SMT
  <2>2. (k - 1) * ChunkSize < n
    BY <2>1, SMT DEF Takes
  <2>3. i = k
    BY <1>4, <2>1, <2>2, FullBefore, SMT
  <2> DEFINE r == n - (i - 1) * ChunkSize
  <2>4. (i - 1) * ChunkSize = i * ChunkSize - ChunkSize
    BY <1>1, <2>1, SMT
  <2>5. (i - 1) * ChunkSize \in Nat /\ i - 1 \in Nat
    BY <1>1, <2>1, <1>4, SMT
  <2>6. r \in 0 .. (ChunkSize - 1) /\ n = (i - 1) * ChunkSize + r
    BY <1>1, <2>1, <2>2, <2>3, <2>4, <2>5, <1>4, SMT
  <2> HIDE DEF r
  <2>7. (n % ChunkSize) = r
    BY <1>1, <2>5, <2>6, DivModUnique
  <2> QED
    BY <2>7 DEF r
<1>5. Cut(n) = [i \in 1 .. c |-> IF i * ChunkSize <= n THEN ChunkSize ELSE n % ChunkSize]
  BY DEF Cut, c
<1> QED
  BY <1>3, <1>4, <1>5 DEF SizeOfChunk

\* What is in a sequence is in the set it is a sequence of.
LEMMA ChunkOfSeq ==
    ASSUME NEW S, NEW s \in Seq(S), NEW i \in 1 .. Len(s)
    PROVE  s[i] \in S
  OBVIOUS

\* A table whose entries have the right sizes is the beginning of the one that
\* a single thread writes, and all of it when it has enough entries.
LEMMA TableIsPrefix ==
    ASSUME ChunksAssumption, NEW n \in Nat, NEW t \in Seq(1 .. ChunkSize),
           Len(t) > 0 => (Len(t) - 1) * ChunkSize < n,
           \A i \in 1 .. Len(t) : t[i] = SizeOfChunk(n, i)
    PROVE  /\ IsPrefix(t, Cut(n))
           /\ Takes(n, Len(t)) => t = Cut(n)
<1>1. PICK k \in Nat : Takes(n, k)
  BY SomeTakes
<1>2. Len(t) \in Nat /\ Len(t) <= k
  BY <1>1, NoMoreThanTaken
<1>3. Cut(n) = [i \in 1 .. k |-> SizeOfChunk(n, i)]
  BY <1>1, CutTakes
<1>4. Len(Cut(n)) = k
  BY <1>3
<1>5. SubSeq(t, 1, Len(t)) = SubSeq(Cut(n), 1, Len(t))
  <2>1. SubSeq(t, 1, Len(t)) = [i \in 1 .. Len(t) |-> t[i]]
    BY <1>2, SMT
  <2>2. SubSeq(Cut(n), 1, Len(t)) = [i \in 1 .. Len(t) |-> Cut(n)[i]]
    BY <1>2, <1>3, SMT
  <2>3. \A i \in 1 .. Len(t) : i \in 1 .. k
    BY <1>2, SMT
  <2> QED
    BY <1>3, <2>1, <2>2, <2>3
<1>6. Takes(n, Len(t)) => t = Cut(n)
  <2> SUFFICES ASSUME Takes(n, Len(t)) PROVE t = Cut(n)
    OBVIOUS
  <2>1. Cut(n) = [i \in 1 .. Len(t) |-> SizeOfChunk(n, i)]
    BY <1>2, CutTakes
  <2>2. t = [i \in 1 .. Len(t) |-> t[i]]
    OBVIOUS
  <2> QED
    BY <2>1, <2>2
<1> QED
  BY <1>2, <1>4, <1>5, <1>6 DEF IsPrefix

\* A chunk is written behind the others.
LEMMA WrittenBehind ==
    ASSUME NEW t \in Seq(Nat), NEW x \in Nat
    PROVE  /\ Append(<<Place>> \o t, x) = <<Place>> \o Append(t, x)
           /\ <<Place>> \o t \in Seq(Nat)
           /\ <<Place>> \o t # <<>>
<1>1. Place \in Nat
  BY DEF Place
<1> QED
  BY <1>1, SMT

-----------------------------------------------------------------------------
(***************************************************************************)
(* The inductive invariant.                                                *)
(***************************************************************************)
LEMMA InitLaz == ASSUME ChunksAssumption, NoTasks(TRUE), LazInit PROVE LazInv
<1>1. /\ waiting = <<>> /\ running = {}
      /\ parallel \in BOOLEAN /\ writer = "outside" /\ points = 0
      /\ m_chunkPointsWritten = 0 /\ m_compressor = FALSE
      /\ m_parallelResults = <<>> /\ submitted = <<>> /\ compressed = {}
      /\ m_stream = <<>> /\ m_chunkTable = <<>>
      /\ failingChunks \subseteq Nat
      /\ ~parallel => failingChunks = {}
  BY DEF NoTasks, LazInit, LazInitAt, ChunksAssumption
<1>2. ChunkSize \in Nat \ {0} /\ MaxPoints \in Nat /\ PoolThreads \in Nat \ {0}
  BY PoolTasksAssumption DEF ChunksAssumption
<1>3. Submitted = 0 /\ Written = 0 /\ Len(m_parallelResults) = 0 /\ Len(waiting) = 0
  BY <1>1 DEF Submitted, Written
<1>4. LazTypes
  <2>1. 0 \in 0 .. MaxPoints /\ 0 \in 0 .. ChunkSize
    BY <1>2, SMT
  <2>2. <<>> \in Seq(Nat) /\ <<>> \in Seq(1 .. ChunkSize)
    OBVIOUS
  <2>3. {} \subseteq Nat /\ FALSE \in BOOLEAN
    OBVIOUS
  <2> QED
    BY <1>1, <2>1, <2>2, <2>3, Zenon DEF LazTypes
<1>5. ~parallel => SerialInv
  BY <1>1 DEF SerialInv
<1>6. ParallelInv
  <2>1. ChunksInPool /\ ChunksCut /\ FuturesInOrder
    BY <1>1, <1>2, <1>3, SMT DEF ChunksInPool, ChunksCut, FuturesInOrder
  <2>2. WriterInv
    BY <1>1, <1>2, <1>3, SMT DEF WriterInv, InHand, RoomForOne
  <2> QED
    BY <1>1, <2>1, <2>2 DEF ParallelInv
<1> QED
  BY <1>4, <1>5, <1>6 DEF LazInv

\* One thread only compresses, ends a chunk and writes the table.
LEMMA SerialSteps ==
    ASSUME ChunksAssumption, LazTypes, SerialInv, ~parallel, [LazNext]_lazVars
    PROVE  \/ CompressSerial \/ DoneSerial \/ WriteTable \/ UNCHANGED lazVars
<1>1. \A chunk \in Chunks : ~LazTaskStep(chunk)
  BY DEF SerialInv, LazTaskStep, StartChunk, StartTask, ChunkReady, FinishTask
<1>2. ~SubmitChunk /\ ~WriteNext /\ ~JoinPool /\ ~PoolJoined
  BY DEF SerialInv, SubmitChunk, WriteNext, JoinPool, PoolJoined
<1> QED
  BY <1>1, <1>2 DEF LazNext, LazWriterStep, LazEnded, CompressParallel, DoneParallel

LEMMA SerialStep ==
    ASSUME ChunksAssumption, LazTypes, SerialInv, ~parallel, [LazNext]_lazVars
    PROVE  LazTypes' /\ SerialInv' /\ ~parallel'
<1>1. ChunkSize \in Nat \ {0} /\ MaxPoints \in Nat
  BY DEF ChunksAssumption
<1>2. /\ m_chunkTable \in Seq(1 .. ChunkSize) /\ m_chunkTable \in Seq(Nat)
      /\ Written \in Nat /\ points \in Nat
  BY <1>1, SMT DEF LazTypes, Written
<1>3. CASE CompressSerial
  <2>0. /\ ~parallel' /\ writer = "outside" /\ writer' = "outside"
        /\ points < MaxPoints /\ points' = points + 1
        /\ UNCHANGED <<parallel, failingChunks, m_parallelResults, submitted,
                       compressed, waiting, running, open>>
    BY <1>3 DEF CompressSerial, poolVars
  <2>1. points' \in 0 .. MaxPoints
    BY <1>1, <2>0, SMT DEF LazTypes
  <2>2. CASE ~m_compressor
    <3>1. /\ m_stream' = Append(m_stream, Place) /\ m_compressor' = TRUE
          /\ m_chunkPointsWritten' = 1 /\ m_chunkTable' = m_chunkTable
      BY <1>3, <2>2 DEF CompressSerial
    <3>2. m_stream = <<>> /\ m_chunkTable = <<>> /\ points = 0
      BY <2>0, <2>2 DEF SerialInv
    <3>3. m_stream' = <<Place>> \o m_chunkTable'
      BY <3>1, <3>2
    <3>4. Written' = 0 /\ points' = Written' * ChunkSize + 1
      BY <1>1, <2>0, <3>1, <3>2 DEF Written
    <3>5. m_stream' \in Seq(Nat) /\ m_chunkPointsWritten' \in 0 .. ChunkSize
      BY <1>1, <3>1, <3>2, SMT DEF Place
    <3>6. LazTypes'
      BY <2>0, <2>1, <3>1, <3>5 DEF LazTypes
    <3>7. SerialInv'
      BY <2>0, <3>1, <3>3, <3>4, SMT DEF SerialInv
    <3> QED
      BY <2>0, <3>6, <3>7
  <2>3. CASE m_compressor /\ m_chunkPointsWritten = ChunkSize
    <3>1. /\ WriteChunk(ChunkSize) /\ m_chunkPointsWritten' = 1
          /\ m_compressor' = m_compressor
      <4>1. ~(ChunkSize < ChunkSize)
        BY <1>1, SMT
      <4> QED
        BY <1>3, <2>3, <4>1 DEF CompressSerial
    <3>2. /\ m_stream = <<Place>> \o m_chunkTable
          /\ points = Written * ChunkSize + ChunkSize
          /\ \A i \in 1 .. Written : m_chunkTable[i] = ChunkSize
      BY <2>0, <2>3 DEF SerialInv
    <3>3. m_stream' = Append(m_stream, ChunkSize) /\ m_chunkTable' = Append(m_chunkTable, ChunkSize)
      BY <3>1 DEF WriteChunk
    <3>4. m_stream' = <<Place>> \o m_chunkTable'
      BY <1>1, <1>2, <3>2, <3>3, WrittenBehind
    <3>5. /\ m_chunkTable' \in Seq(1 .. ChunkSize) /\ Written' = Written + 1
          /\ \A i \in 1 .. Written' : m_chunkTable'[i] = ChunkSize
      BY <1>1, <1>2, <3>2, <3>3, SMT DEF Written
    <3>6. points' = Written' * ChunkSize + 1
      BY <1>1, <1>2, <2>0, <3>2, <3>5, SMT
    <3>7. m_stream' \in Seq(Nat) /\ m_chunkPointsWritten' \in 0 .. ChunkSize
      BY <1>1, <3>1, <3>3, SMT DEF LazTypes
    <3>8. LazTypes'
      BY <2>0, <2>1, <3>1, <3>5, <3>7 DEF LazTypes
    <3>9. SerialInv'
      BY <2>0, <2>3, <3>1, <3>4, <3>5, <3>6, SMT DEF SerialInv
    <3> QED
      BY <2>0, <3>8, <3>9
  <2>4. CASE m_compressor /\ m_chunkPointsWritten # ChunkSize
    <3>1. /\ m_chunkPointsWritten < ChunkSize
          /\ m_chunkPointsWritten' = m_chunkPointsWritten + 1
          /\ UNCHANGED <<m_compressor, m_stream, m_chunkTable>>
      BY <1>3, <2>4 DEF CompressSerial
    <3>2. /\ m_chunkPointsWritten > 0 /\ m_chunkPointsWritten \in Nat
          /\ points = Written * ChunkSize + m_chunkPointsWritten
      BY <1>1, <2>0, <2>4, SMT DEF SerialInv, LazTypes
    <3>3. Written' = Written /\ points' = Written' * ChunkSize + m_chunkPointsWritten'
      BY <1>1, <1>2, <2>0, <3>1, <3>2, SMT DEF Written
    <3>4. m_chunkPointsWritten' \in 0 .. ChunkSize /\ m_chunkPointsWritten' > 0
      BY <1>1, <3>1, <3>2, SMT
    <3>5. LazTypes'
      BY <2>0, <2>1, <3>1, <3>4 DEF LazTypes
    <3>6. SerialInv'
      BY <2>0, <2>4, <3>1, <3>3, <3>4 DEF SerialInv
    <3> QED
      BY <2>0, <3>5, <3>6
  <2> QED
    BY <2>2, <2>3, <2>4
<1>4. CASE DoneSerial
  <2>0. /\ ~parallel' /\ writer = "outside" /\ writer' = "table"
        /\ UNCHANGED <<parallel, failingChunks, points, m_compressor,
                       m_parallelResults, submitted, compressed, waiting,
                       running, open>>
    BY <1>4 DEF DoneSerial, poolVars
  <2>1. CASE ~m_compressor
    <3>1. UNCHANGED <<m_stream, m_chunkTable, m_chunkPointsWritten>>
      BY <1>4, <2>1 DEF DoneSerial
    <3> QED
      BY <2>0, <2>1, <3>1 DEF LazTypes, SerialInv
  <2>2. CASE m_compressor
    <3> DEFINE p == m_chunkPointsWritten
    <3>1. /\ m_stream' = Append(m_stream, p) /\ m_chunkTable' = Append(m_chunkTable, p)
          /\ m_chunkPointsWritten' = 0
      BY <1>4, <2>2 DEF DoneSerial, WriteChunk
    <3>2. /\ p \in 1 .. ChunkSize
          /\ m_stream = <<Place>> \o m_chunkTable
          /\ points = Written * ChunkSize + p
          /\ \A i \in 1 .. Written : m_chunkTable[i] = ChunkSize
      BY <1>1, <2>0, <2>2, SMT DEF SerialInv, LazTypes
    <3> HIDE DEF p
    <3>3. m_stream' = <<Place>> \o m_chunkTable'
      BY <1>1, <1>2, <3>1, <3>2, WrittenBehind, SMT
    <3>4. /\ m_chunkTable' \in Seq(1 .. ChunkSize) /\ Len(m_chunkTable') = Written + 1
          /\ \A i \in 1 .. Written : m_chunkTable'[i] = ChunkSize
          /\ m_chunkTable'[Written + 1] = p
      BY <1>1, <1>2, <3>1, <3>2, SMT DEF Written
    <3>5. /\ (Written + 1) * ChunkSize = Written * ChunkSize + ChunkSize
          /\ Written * ChunkSize \in Nat
      BY <1>1, <1>2, SMT
    <3>6. Takes(points, Written + 1)
      BY <1>1, <1>2, <3>2, <3>5, SMT DEF Takes
    <3>7. ASSUME NEW i \in 1 .. Written + 1
          PROVE  m_chunkTable'[i] = SizeOfChunk(points, i)
      <4>1. CASE i \in 1 .. Written
        <5>1. i * ChunkSize <= points
          <6>1. /\ Written + 1 \in Nat \ {0} /\ Written + 1 > 0
                /\ i \in 1 .. (Written + 1) - 1
            BY <1>2, <4>1, SMT
          <6>2. ((Written + 1) - 1) * ChunkSize < points
            BY <3>6, <6>1 DEF Takes
          <6> QED
            BY <1>2, <6>1, <6>2, FullBefore
        <5> QED
          BY <3>4, <4>1, <5>1 DEF SizeOfChunk
      <4>2. CASE i = Written + 1
        BY <1>1, <1>2, <3>2, <3>4, <3>5, <4>2, SMT DEF SizeOfChunk
      <4> QED
        BY <1>2, <4>1, <4>2, SMT
    <3>8. m_chunkTable' = Cut(points)
      <4>1. Len(m_chunkTable') > 0 => (Len(m_chunkTable') - 1) * ChunkSize < points
        BY <3>4, <3>6 DEF Takes
      <4> QED
        BY <1>2, <3>4, <3>6, <3>7, <4>1, TableIsPrefix
    <3>9. m_stream' \in Seq(Nat) /\ 0 \in 0 .. ChunkSize
      BY <1>1, <3>1, <3>2, SMT DEF LazTypes
    <3>10. LazTypes'
      BY <2>0, <3>1, <3>4, <3>9 DEF LazTypes
    <3>11. SerialInv'
      <4>1. Cut(points)' = Cut(points)
        BY <2>0 DEF Cut
      <4> QED
        BY <2>0, <2>2, <3>3, <3>8, <4>1 DEF SerialInv
    <3> QED
      BY <2>0, <3>10, <3>11
  <2> QED
    BY <2>1, <2>2
<1>5. CASE WriteTable
  <2>1. /\ writer = "table" /\ writer' = "written" /\ ~parallel'
        /\ m_stream' = IF m_stream = <<>> THEN <<Place>> ELSE m_stream
        /\ UNCHANGED <<parallel, failingChunks, points, m_chunkPointsWritten,
                       m_compressor, m_parallelResults, submitted, compressed,
                       m_chunkTable, waiting, running, open>>
    BY <1>5 DEF WriteTable, poolVars
  <2>2. <<Place>> \in Seq(Nat)
    BY DEF Place
  <2>3. LazTypes'
    BY <2>1, <2>2 DEF LazTypes
  <2>4. m_compressor => m_stream # <<>>
    BY <1>2, WrittenBehind DEF SerialInv
  <2>5. Cut(points)' = Cut(points)
    BY <2>1 DEF Cut
  <2>6. ~m_compressor => m_stream = <<>>
    BY <2>1 DEF SerialInv
  <2> QED
    BY <2>1, <2>3, <2>4, <2>5, <2>6 DEF SerialInv
<1>6. CASE UNCHANGED lazVars
  <2>1. Cut(points)' = Cut(points) /\ Written' = Written
    BY <1>6 DEF Cut, lazVars, lazState, Written
  <2> QED
    BY <1>6, <2>1 DEF lazVars, lazState, poolVars, LazTypes, SerialInv
<1> QED
  BY <1>3, <1>4, <1>5, <1>6, SerialSteps

\* The queue of the pool begins with the first chunk that no thread has taken.
LEMMA HeadOfChunks ==
    ASSUME LazTypes, ChunksInPool, waiting # <<>>
    PROVE  /\ Head(waiting) = Submitted - Len(waiting) + 1
           /\ Tail(waiting) \in Seq(Nat)
           /\ Len(Tail(waiting)) = Len(waiting) - 1 /\ Len(waiting) \in Nat
           /\ Submitted \in Nat
           /\ \A i \in 1 .. Len(waiting) - 1 :
                 Tail(waiting)[i] = Submitted - (Len(waiting) - 1) + i
<1>1. waiting \in Seq(Nat) /\ submitted \in Seq(1 .. ChunkSize)
  BY DEF LazTypes
<1>2. Submitted \in Nat /\ Len(waiting) \in Nat
  BY <1>1 DEF Submitted
<1>3. /\ Len(waiting) >= 1 /\ Head(waiting) = waiting[1]
      /\ Tail(waiting) \in Seq(Nat) /\ Len(Tail(waiting)) = Len(waiting) - 1
      /\ \A i \in 1 .. Len(waiting) - 1 : Tail(waiting)[i] = waiting[i + 1]
  BY <1>1, SMT
<1>4. \A i \in 1 .. Len(waiting) : waiting[i] = Submitted - Len(waiting) + i
  BY DEF ChunksInPool
<1>5. ASSUME NEW i \in 1 .. Len(waiting) - 1
      PROVE  Tail(waiting)[i] = Submitted - (Len(waiting) - 1) + i
  <2>1. i + 1 \in 1 .. Len(waiting)
    BY <1>2, SMT
  <2>2. Tail(waiting)[i] = Submitted - Len(waiting) + (i + 1)
    BY <1>3, <1>4, <2>1
  <2> QED
    BY <1>2, <2>2, SMT
<1>6. Head(waiting) = Submitted - Len(waiting) + 1
  BY <1>2, <1>3, <1>4, SMT
<1> QED
  BY <1>2, <1>3, <1>5, <1>6

\* Chunks that are all full stay so when points are added.
LEMMA StillFull ==
    ASSUME ChunksAssumption, NEW k \in Nat, NEW n \in Nat, k * ChunkSize <= n,
           NEW i \in 1 .. k
    PROVE  SizeOfChunk(n, i) = ChunkSize
<1>1. ChunkSize \in Nat \ {0} /\ i \in Nat
  BY SMT DEF ChunksAssumption
<1>2. i * ChunkSize <= n
  <2>1. CASE i = k
    BY <2>1
  <2>2. CASE i < k
    <3>1. i * ChunkSize + ChunkSize <= k * ChunkSize
          /\ i * ChunkSize \in Nat /\ k * ChunkSize \in Nat
      BY <1>1, <2>2, TimesMonotone
    <3> QED
      BY <1>1, <3>1, SMT
  <2> QED
    BY <1>1, <2>1, <2>2, SMT
<1> QED
  BY <1>2 DEF SizeOfChunk

\* The numbers that the steps of the parallel compressor speak of.
LEMMA LazNumbers ==
    ASSUME ChunksAssumption, LazTypes
    PROVE  /\ ChunkSize \in Nat \ {0} /\ MaxPoints \in Nat
           /\ PoolThreads \in Nat \ {0}
           /\ points \in Nat /\ m_chunkPointsWritten \in Nat
           /\ Submitted \in Nat /\ Written \in Nat
           /\ Len(m_parallelResults) \in Nat /\ Len(waiting) \in Nat
           /\ m_chunkTable \in Seq(Nat)
           /\ Submitted * ChunkSize \in Nat
           /\ (Submitted - 1) * ChunkSize = Submitted * ChunkSize - ChunkSize
           /\ (Submitted + 1) * ChunkSize = Submitted * ChunkSize + ChunkSize
           /\ Submitted > 0 => Submitted * ChunkSize >= ChunkSize
<1>1. /\ ChunkSize \in Nat \ {0} /\ MaxPoints \in Nat
      /\ PoolThreads \in Nat \ {0}
  BY PoolTasksAssumption DEF ChunksAssumption
<1>2. /\ submitted \in Seq(1 .. ChunkSize) /\ m_chunkTable \in Seq(1 .. ChunkSize)
      /\ m_parallelResults \in Seq(Nat) /\ waiting \in Seq(Nat)
      /\ points \in 0 .. MaxPoints /\ m_chunkPointsWritten \in 0 .. ChunkSize
  BY DEF LazTypes
<1>3. /\ points \in Nat /\ m_chunkPointsWritten \in Nat
      /\ Submitted \in Nat /\ Written \in Nat
      /\ Len(m_parallelResults) \in Nat /\ Len(waiting) \in Nat
      /\ m_chunkTable \in Seq(Nat)
  BY <1>1, <1>2, SMT DEF Submitted, Written
<1>4. /\ Submitted * ChunkSize \in Nat
      /\ (Submitted - 1) * ChunkSize = Submitted * ChunkSize - ChunkSize
      /\ (Submitted + 1) * ChunkSize = Submitted * ChunkSize + ChunkSize
  BY <1>1, <1>3, SMT
<1>5. Submitted > 0 => Submitted * ChunkSize >= ChunkSize
  <2>1. ASSUME Submitted > 0 PROVE 0 * ChunkSize + ChunkSize <= Submitted * ChunkSize
    BY <1>1, <1>3, <2>1, TimesMonotone
  <2> QED
    BY <1>1, <1>4, <2>1, SMT
<1> QED
  BY <1>1, <1>3, <1>4, <1>5

-----------------------------------------------------------------------------
(***************************************************************************)
(* Several threads: one lemma for each action of the writing thread.       *)
(***************************************************************************)
\* What all the lemmas below start from.
Parallel == ChunksAssumption /\ LazTypes /\ parallel /\ ParallelInv

LEMMA PointKept ==
    ASSUME Parallel, CompressParallel
    PROVE  LazTypes' /\ ParallelInv'
<1> USE DEF Parallel
<1> DEFINE S == Submitted
           n == points
           p == m_chunkPointsWritten
<1>1. /\ writer = "outside" /\ n < MaxPoints /\ n' = n + 1 /\ p' = p + 1
      /\ m_stream' = IF FirstPoint THEN Append(m_stream, Place) ELSE m_stream
      /\ writer' = IF p + 1 = ChunkSize THEN "adding" ELSE "outside"
      /\ UNCHANGED <<parallel, failingChunks, m_compressor, m_parallelResults,
                     submitted, compressed, m_chunkTable, waiting, running, open>>
  BY DEF CompressParallel, poolVars
<1>2. /\ ChunkSize \in Nat \ {0} /\ MaxPoints \in Nat
      /\ n \in Nat /\ p \in Nat /\ S \in Nat /\ Written \in Nat
      /\ Len(m_parallelResults) \in Nat /\ Len(waiting) \in Nat
      /\ S * ChunkSize \in Nat
      /\ S > 0 => S * ChunkSize >= ChunkSize
  BY LazNumbers
<1>3. /\ n = S * ChunkSize + p /\ p < ChunkSize
      /\ Len(m_parallelResults) < PoolThreads
  BY <1>1 DEF ParallelInv, WriterInv, InHand, RoomForOne
<1>4. Submitted' = S /\ Written' = Written
  BY <1>1 DEF Submitted, Written
<1>5. ChunksInPool'
  BY <1>1, <1>4 DEF ParallelInv, ChunksInPool
<1>6. ChunksCut'
  <2>1. ASSUME NEW i \in 1 .. S
        PROVE  submitted[i] = SizeOfChunk(n + 1, i)
    <3>1. S * ChunkSize <= n /\ S * ChunkSize <= n + 1 /\ n + 1 \in Nat
      BY <1>2, <1>3, SMT
    <3>2. SizeOfChunk(n, i) = ChunkSize /\ SizeOfChunk(n + 1, i) = ChunkSize
      BY <1>2, <3>1, StillFull
    <3>3. submitted[i] = SizeOfChunk(n, i)
      BY DEF ParallelInv, ChunksCut
    <3> QED
      BY <3>2, <3>3
  <2>2. S > 0 => (S - 1) * ChunkSize < n + 1
    <3>1. S > 0 => (S - 1) * ChunkSize < n
      BY DEF ParallelInv, ChunksCut
    <3>2. (S - 1) * ChunkSize \in Int
      BY <1>2, SMT
    <3> QED
      BY <1>2, <3>1, <3>2, SMT
  <2>3. \A i \in 1 .. S : SizeOfChunk(points, i)' = SizeOfChunk(n + 1, i)
    BY <1>1 DEF SizeOfChunk
  <2>4. \A i \in 1 .. Written : /\ m_chunkTable[i] = submitted[i]
                                /\ i \notin failingChunks
    BY DEF ParallelInv, ChunksCut
  <2> QED
    BY <1>1, <1>4, <2>1, <2>2, <2>3, <2>4 DEF ChunksCut
<1>7. FuturesInOrder'
  BY <1>1, <1>4 DEF ParallelInv, FuturesInOrder
<1>8. WriterInv'
  <2>1. n' = S * ChunkSize + p'
    BY <1>1, <1>2, <1>3, SMT
  <2>2. CASE p + 1 = ChunkSize
    BY <1>1, <1>3, <1>4, <2>1, <2>2 DEF WriterInv, InHand, RoomForOne
  <2>3. CASE p + 1 # ChunkSize
    <3>1. p' < ChunkSize
      BY <1>1, <1>2, <1>3, <2>3, SMT
    <3> QED
      BY <1>1, <1>3, <1>4, <2>1, <2>3, <3>1 DEF WriterInv, InHand, RoomForOne
  <2> QED
    BY <2>2, <2>3
<1>9. m_stream' = <<Place>> \o m_chunkTable' /\ m_stream' \in Seq(Nat)
  <2>1. /\ m_stream = IF n = 0 THEN <<>> ELSE <<Place>> \o m_chunkTable
        /\ Written + Len(m_parallelResults) = S
    BY <1>1 DEF ParallelInv, FuturesInOrder
  <2>2. m_stream \in Seq(Nat) /\ Place \in Nat
    BY DEF LazTypes, Place
  <2>3. CASE n = 0
    <3>1. p = 0 /\ S = 0
      BY <1>2, <1>3, <2>3, SMT
    <3>2. Written = 0 /\ Len(m_parallelResults) = 0
      BY <1>2, <2>1, <3>1, SMT
    <3>3. m_chunkTable = <<>> /\ m_parallelResults = <<>>
      BY <3>2, SMT DEF LazTypes, Written
    <3>4. FirstPoint
      BY <3>1, <3>3 DEF FirstPoint
    <3>5. m_stream = <<>>
      BY <2>1, <2>3
    <3> QED
      BY <1>1, <2>2, <3>3, <3>4, <3>5
  <2>4. CASE n # 0
    <3>1. ~FirstPoint
      <4> SUFFICES ASSUME FirstPoint PROVE FALSE
        OBVIOUS
      <4>1. p = 0 /\ Len(m_parallelResults) = 0 /\ Written = 0
        BY DEF FirstPoint, Written
      <4>2. S = 0
        BY <1>2, <2>1, <4>1, SMT
      <4>3. n = 0
        BY <1>2, <1>3, <4>1, <4>2, SMT
      <4> QED
        BY <2>4, <4>3
    <3> QED
      BY <1>1, <2>1, <2>2, <2>4, <3>1
  <2> QED
    BY <2>3, <2>4
<1>10. LazTypes'
  <2>1. points' \in 0 .. MaxPoints
    BY <1>1, <1>2, SMT
  <2>2. m_chunkPointsWritten' \in 0 .. ChunkSize
    BY <1>1, <1>2, <1>3, SMT
  <2> QED
    BY <1>1, <1>9, <2>1, <2>2 DEF LazTypes
<1>11. n' # 0
  BY <1>1, <1>2, SMT
<1> QED
  BY <1>1, <1>5, <1>6, <1>7, <1>8, <1>9, <1>10, <1>11 DEF ParallelInv

\* What the writing thread has handed over stays as it was: the part of the
\* invariant that a step between two places of the writer leaves alone.
LEMMA ChunksUntouched ==
    ASSUME ParallelInv,
           UNCHANGED <<failingChunks, points, submitted, compressed,
                       m_chunkTable, waiting, running>>
    PROVE  /\ Submitted' = Submitted /\ Written' = Written
           /\ ChunksInPool' /\ ChunksCut'
<1>1. Submitted' = Submitted /\ Written' = Written
  BY DEF Submitted, Written
<1> QED
  BY <1>1 DEF ParallelInv, ChunksInPool, ChunksCut, SizeOfChunk

LEMMA DoneKept ==
    ASSUME Parallel, DoneParallel
    PROVE  LazTypes' /\ ParallelInv'
<1> USE DEF Parallel
<1>1. /\ writer = "outside" /\ writer' = "finishing"
      /\ UNCHANGED <<parallel, failingChunks, points, m_chunkPointsWritten,
                     m_compressor, m_parallelResults, submitted, compressed,
                     m_stream, m_chunkTable, waiting, running, open>>
  BY DEF DoneParallel, poolVars
<1>2. Submitted' = Submitted /\ Written' = Written /\ ChunksInPool' /\ ChunksCut'
  BY <1>1, ChunksUntouched
<1>3. FuturesInOrder'
  BY <1>1, <1>2 DEF ParallelInv, FuturesInOrder
<1>4. WriterInv'
  <2>1. /\ points = Submitted * ChunkSize + m_chunkPointsWritten
        /\ Len(m_parallelResults) < PoolThreads
    BY <1>1 DEF ParallelInv, WriterInv, InHand, RoomForOne
  <2>2. ~(m_chunkPointsWritten > 0) => Takes(points, Submitted)
    <3>1. /\ ChunkSize \in Nat \ {0} /\ points \in Nat /\ m_chunkPointsWritten \in Nat
          /\ Submitted * ChunkSize \in Nat
          /\ (Submitted - 1) * ChunkSize = Submitted * ChunkSize - ChunkSize
      BY LazNumbers
    <3> QED
      BY <2>1, <3>1, SMT DEF Takes
  <2>3. Takes(points, Submitted)' = Takes(points, Submitted)
    BY <1>1, <1>2 DEF Takes
  <2> QED
    BY <1>1, <1>2, <2>1, <2>2, <2>3 DEF WriterInv, InHand, RoomForOne
<1> QED
  BY <1>1, <1>2, <1>3, <1>4 DEF ParallelInv, LazTypes

LEMMA SubmitKept ==
    ASSUME Parallel, SubmitChunk
    PROVE  LazTypes' /\ ParallelInv'
<1> USE DEF Parallel
<1> DEFINE S == Submitted
           n == points
           p == m_chunkPointsWritten
<1>1. /\ writer \in {"adding", "finishing"} /\ p > 0
      /\ submitted' = Append(submitted, p)
      /\ m_parallelResults' = Append(m_parallelResults, Len(submitted'))
      /\ waiting' = waiting \o <<Len(submitted')>>
      /\ p' = 0
      /\ UNCHANGED <<parallel, failingChunks, points, m_compressor, compressed,
                     m_stream, m_chunkTable, running, open>>
  BY DEF SubmitChunk, AddTasks
<1>2. writer' = IF writer = "finishing" THEN "finishing"
                ELSE IF PoolIsFull THEN "writing" ELSE "outside"
  BY DEF SubmitChunk
<1>3. /\ ChunkSize \in Nat \ {0} /\ PoolThreads \in Nat \ {0}
      /\ n \in Nat /\ p \in 1 .. ChunkSize /\ S \in Nat /\ Written \in Nat
      /\ Len(m_parallelResults) \in Nat /\ Len(waiting) \in Nat
      /\ S * ChunkSize \in Nat
      /\ (S + 1) * ChunkSize = S * ChunkSize + ChunkSize
  <2>1. p \in 0 .. ChunkSize
    BY DEF LazTypes
  <2> QED
    BY <1>1, <2>1, LazNumbers, SMT
<1>4. /\ n = S * ChunkSize + p /\ Len(m_parallelResults) < PoolThreads
      /\ writer = "adding" => p = ChunkSize
  BY <1>1 DEF ParallelInv, WriterInv, InHand, RoomForOne
<1>5. /\ submitted \in Seq(1 .. ChunkSize) /\ m_parallelResults \in Seq(Nat)
      /\ waiting \in Seq(Nat)
  BY DEF LazTypes
<1>6. /\ submitted' \in Seq(1 .. ChunkSize) /\ Len(submitted') = S + 1
      /\ \A i \in 1 .. S : submitted'[i] = submitted[i]
      /\ submitted'[S + 1] = p
  BY <1>1, <1>3, <1>5, SMT DEF Submitted
<1>7. Submitted' = S + 1 /\ Written' = Written
  BY <1>1, <1>6 DEF Submitted, Written
<1>8. /\ m_parallelResults' \in Seq(Nat)
      /\ Len(m_parallelResults') = Len(m_parallelResults) + 1
      /\ \A i \in 1 .. Len(m_parallelResults) :
            m_parallelResults'[i] = m_parallelResults[i]
      /\ m_parallelResults'[Len(m_parallelResults) + 1] = S + 1
  BY <1>1, <1>3, <1>5, <1>6, SMT
<1>9. /\ waiting' \in Seq(Nat) /\ Len(waiting') = Len(waiting) + 1
      /\ \A i \in 1 .. Len(waiting) : waiting'[i] = waiting[i]
      /\ waiting'[Len(waiting) + 1] = S + 1
  BY <1>1, <1>3, <1>5, <1>6, SMT
<1>10. LazTypes'
  <2>1. 0 \in 0 .. ChunkSize
    BY <1>3, SMT
  <2>2. writer' \in {"finishing", "writing", "outside"}
    BY <1>2
  <2> QED
    BY <1>1, <1>6, <1>8, <1>9, <2>1, <2>2 DEF LazTypes
<1>11. ChunksInPool'
  <2>1. /\ Written + Len(waiting) <= S
        /\ \A i \in 1 .. Len(waiting) : waiting[i] = S - Len(waiting) + i
        /\ \A chunk \in running \cup compressed : chunk \in 1 .. S - Len(waiting)
    BY DEF ParallelInv, ChunksInPool
  <2>2. ASSUME NEW i \in 1 .. Len(waiting')
        PROVE  waiting'[i] = Submitted' - Len(waiting') + i
    <3>1. CASE i \in 1 .. Len(waiting)
      <4>1. waiting'[i] = S - Len(waiting) + i
        BY <1>9, <2>1, <3>1
      <4> QED
        BY <1>3, <1>7, <1>9, <4>1, SMT
    <3>2. CASE i = Len(waiting) + 1
      BY <1>3, <1>7, <1>9, <3>2, SMT
    <3> QED
      BY <1>3, <1>9, <3>1, <3>2, SMT
  <2>3. S - Len(waiting) = Submitted' - Len(waiting')
    BY <1>3, <1>7, <1>9, SMT
  <2>4. Written' + Len(waiting') <= Submitted'
    BY <1>3, <1>7, <1>9, <2>1, SMT
  <2> QED
    BY <1>1, <2>1, <2>2, <2>3, <2>4 DEF ChunksInPool
<1>12. ChunksCut'
  <2>1. /\ \A i \in 1 .. S : submitted[i] = SizeOfChunk(n, i)
        /\ \A i \in 1 .. Written : /\ m_chunkTable[i] = submitted[i]
                                   /\ i \notin failingChunks
    BY DEF ParallelInv, ChunksCut
  <2>2. SizeOfChunk(n, S + 1) = p
    BY <1>3, <1>4, SMT DEF SizeOfChunk
  <2>3. \A i \in 1 .. S + 1 : submitted'[i] = SizeOfChunk(n, i)
    <3> SUFFICES ASSUME NEW i \in 1 .. S + 1 PROVE submitted'[i] = SizeOfChunk(n, i)
      OBVIOUS
    <3>1. CASE i \in 1 .. S
      BY <1>6, <2>1, <3>1
    <3>2. CASE i = S + 1
      BY <1>6, <2>2, <3>2
    <3> QED
      BY <1>3, <3>1, <3>2, SMT
  <2>4. ((S + 1) - 1) * ChunkSize < n
    BY <1>3, <1>4, SMT
  <2>5. Written <= S
    BY <1>3, SMT DEF ParallelInv, ChunksInPool
  <2>6. \A i \in 1 .. Written : submitted'[i] = submitted[i]
    BY <1>3, <1>6, <2>5, SMT
  <2>7. \A i \in 1 .. S + 1 : SizeOfChunk(points, i)' = SizeOfChunk(n, i)
    BY <1>1 DEF SizeOfChunk
  <2>8. \A i \in 1 .. Submitted' : submitted'[i] = SizeOfChunk(points, i)'
    BY <1>7, <2>3, <2>7
  <2>9. (Submitted' - 1) * ChunkSize < points'
    <3>1. points' = n
      BY <1>1
    <3>2. Submitted' = S + 1
      BY <1>7
    <3> QED
      BY <2>4, <3>1, <3>2, Zenon
  <2>10. \A i \in 1 .. Written' : /\ m_chunkTable'[i] = submitted'[i]
                                  /\ i \notin failingChunks'
    BY <1>1, <1>7, <2>1, <2>6
  <2> HIDE DEF Parallel
  <2> QED
    BY <2>8, <2>9, <2>10 DEF ChunksCut
<1>13. FuturesInOrder'
  <2>1. /\ Written + Len(m_parallelResults) = S
        /\ \A i \in 1 .. Len(m_parallelResults) : m_parallelResults[i] = Written + i
        /\ \A i \in 1 .. Len(m_parallelResults) : m_parallelResults[i] \in 1 .. S
    BY <1>1 DEF ParallelInv, FuturesInOrder
  <2>2. ASSUME NEW i \in 1 .. Len(m_parallelResults')
        PROVE  m_parallelResults'[i] = Written' + i /\ m_parallelResults'[i] \in 1 .. Submitted'
    <3>1. CASE i \in 1 .. Len(m_parallelResults)
      <4>1. m_parallelResults'[i] = Written + i /\ m_parallelResults'[i] \in 1 .. S
        BY <1>8, <2>1, <3>1
      <4> QED
        BY <1>3, <1>7, <4>1, SMT
    <3>2. CASE i = Len(m_parallelResults) + 1
      BY <1>3, <1>7, <1>8, <2>1, <3>2, SMT
    <3> QED
      BY <1>3, <1>8, <3>1, <3>2, SMT
  <2>3. /\ Len(m_parallelResults') <= PoolThreads
        /\ Written' + Len(m_parallelResults') = Submitted'
    BY <1>3, <1>4, <1>7, <1>8, <2>1, SMT
  <2> QED
    BY <2>2, <2>3 DEF FuturesInOrder
<1>14. WriterInv'
  <2>1. CASE writer = "finishing"
    <3>1. Takes(n, S + 1)
      BY <1>3, <1>4, SMT DEF Takes
    <3>2. Takes(points, Submitted)'
      BY <1>1, <1>7, <3>1 DEF Takes
    <3>3. ~(p' > 0)
      BY <1>1, SMT
    <3> QED
      BY <1>2, <2>1, <3>2, <3>3 DEF WriterInv
  <2>2. CASE writer = "adding"
    <3>1. n' = Submitted' * ChunkSize + p'
      BY <1>1, <1>3, <1>4, <1>7, <2>2, SMT
    <3>2. p' < ChunkSize
      BY <1>1, <1>3, SMT
    <3>3. ~PoolIsFull => Len(m_parallelResults') < PoolThreads
      BY <1>3, <1>8, SMT DEF PoolIsFull
    <3> QED
      BY <1>1, <1>2, <2>2, <3>1, <3>2, <3>3 DEF WriterInv, InHand, RoomForOne
  <2> QED
    BY <1>1, <2>1, <2>2
<1>15. n # 0
  BY <1>3, <1>4, SMT
<1>16. m_stream' = <<Place>> \o m_chunkTable'
  BY <1>1, <1>15 DEF ParallelInv
<1> QED
  BY <1>1, <1>10, <1>11, <1>12, <1>13, <1>14, <1>15, <1>16 DEF ParallelInv

\* A chunk that is ready and the oldest one was taken by a thread before those
\* that still wait.
LEMMA OldestChunk ==
    ASSUME Parallel, m_parallelResults # <<>>, NEW chunk \in Oldest,
           writer \notin {"thrown", "gone"}
    PROVE  /\ chunk = Written + 1
           /\ Written + 1 + Len(waiting) <= Submitted
           /\ Tail(m_parallelResults) \in Seq(Nat)
           /\ Len(Tail(m_parallelResults)) = Len(m_parallelResults) - 1
           /\ \A i \in 1 .. Len(m_parallelResults) - 1 :
                 /\ Tail(m_parallelResults)[i] = Written + 1 + i
                 /\ Tail(m_parallelResults)[i] \in 1 .. Submitted
<1> USE DEF Parallel
<1>1. /\ Submitted \in Nat /\ Written \in Nat
      /\ Len(m_parallelResults) \in Nat /\ Len(waiting) \in Nat
  BY LazNumbers
<1>2. m_parallelResults \in Seq(Nat)
  BY DEF LazTypes
<1>3. /\ Len(m_parallelResults) >= 1 /\ Head(m_parallelResults) = m_parallelResults[1]
      /\ Tail(m_parallelResults) \in Seq(Nat)
      /\ Len(Tail(m_parallelResults)) = Len(m_parallelResults) - 1
      /\ \A i \in 1 .. Len(m_parallelResults) - 1 :
            Tail(m_parallelResults)[i] = m_parallelResults[i + 1]
  BY <1>2, SMT
<1>4. /\ \A i \in 1 .. Len(m_parallelResults) : m_parallelResults[i] = Written + i
      /\ \A i \in 1 .. Len(m_parallelResults) : m_parallelResults[i] \in 1 .. Submitted
  BY DEF ParallelInv, FuturesInOrder
<1>5. chunk = Written + 1
  BY <1>1, <1>3, <1>4, SMT DEF Oldest
<1>6. chunk \in 1 .. Submitted - Len(waiting)
  BY DEF Oldest, ParallelInv, ChunksInPool
<1>7. ASSUME NEW i \in 1 .. Len(m_parallelResults) - 1
      PROVE  /\ Tail(m_parallelResults)[i] = Written + 1 + i
             /\ Tail(m_parallelResults)[i] \in 1 .. Submitted
  <2>1. i + 1 \in 1 .. Len(m_parallelResults)
    BY <1>1, SMT
  <2>2. /\ Tail(m_parallelResults)[i] = Written + (i + 1)
        /\ Tail(m_parallelResults)[i] \in 1 .. Submitted
    BY <1>3, <1>4, <2>1
  <2> QED
    BY <1>1, <2>2, SMT
<1>8. Written + 1 + Len(waiting) <= Submitted
  BY <1>1, <1>5, <1>6, SMT
<1> QED
  BY <1>3, <1>5, <1>7, <1>8

LEMMA WriteKept ==
    ASSUME Parallel, WriteNext
    PROVE  LazTypes' /\ ParallelInv'
<1> USE DEF Parallel
<1>1. /\ writer \in {"writing", "finishing"}
      /\ writer = "finishing" => m_chunkPointsWritten = 0
      /\ m_parallelResults # <<>>
      /\ UNCHANGED <<parallel, failingChunks, points, m_chunkPointsWritten,
                     m_compressor, submitted, compressed, waiting, running, open>>
  BY DEF WriteNext, poolVars
<1>2. PICK chunk \in Oldest :
          \/ /\ chunk \notin failingChunks
             /\ m_parallelResults' = Tail(m_parallelResults)
             /\ WriteChunk(submitted[chunk])
             /\ writer' = AfterWrite
          \/ /\ chunk \in failingChunks
             /\ m_parallelResults' \in {m_parallelResults, Tail(m_parallelResults)}
             /\ writer' = "thrown"
             /\ UNCHANGED <<m_stream, m_chunkTable>>
  BY DEF WriteNext
<1>3. /\ chunk = Written + 1
      /\ Written + 1 + Len(waiting) <= Submitted
      /\ Tail(m_parallelResults) \in Seq(Nat)
      /\ Len(Tail(m_parallelResults)) = Len(m_parallelResults) - 1
      /\ \A i \in 1 .. Len(m_parallelResults) - 1 :
            /\ Tail(m_parallelResults)[i] = Written + 1 + i
            /\ Tail(m_parallelResults)[i] \in 1 .. Submitted
  BY <1>1, OldestChunk
<1>4. /\ ChunkSize \in Nat \ {0} /\ PoolThreads \in Nat \ {0} /\ points \in Nat
      /\ Submitted \in Nat /\ Written \in Nat
      /\ Len(m_parallelResults) \in Nat /\ Len(waiting) \in Nat
      /\ m_chunkTable \in Seq(Nat)
  BY LazNumbers
<1>5. Submitted' = Submitted
  BY <1>1 DEF Submitted
<1>6. /\ Len(m_parallelResults) <= PoolThreads
      /\ Written + Len(m_parallelResults) = Submitted
      /\ \A i \in 1 .. Len(m_parallelResults) : m_parallelResults[i] \in 1 .. Submitted
  BY <1>1 DEF ParallelInv, FuturesInOrder
<1>7. CASE chunk \in failingChunks
  <2>1. /\ writer' = "thrown" /\ UNCHANGED <<m_stream, m_chunkTable>>
        /\ m_parallelResults' \in {m_parallelResults, Tail(m_parallelResults)}
    BY <1>2, <1>7
  <2>2. Written' = Written /\ ChunksInPool' /\ ChunksCut'
    BY <1>1, <2>1, ChunksUntouched
  <2>3. LazTypes'
    BY <1>1, <1>3, <2>1 DEF LazTypes
  <2>4. FuturesInOrder'
    <3>1. CASE m_parallelResults' = m_parallelResults
      BY <1>5, <1>6, <2>1, <3>1 DEF FuturesInOrder
    <3>2. CASE m_parallelResults' = Tail(m_parallelResults)
      <4>1. Len(m_parallelResults') <= PoolThreads
        BY <1>3, <1>4, <1>6, <3>2, SMT
      <4>2. \A i \in 1 .. Len(m_parallelResults') : m_parallelResults'[i] \in 1 .. Submitted'
        BY <1>3, <1>5, <3>2
      <4> QED
        BY <2>1, <4>1, <4>2 DEF FuturesInOrder
    <3> QED
      BY <2>1, <3>1, <3>2
  <2>5. WriterInv'
    BY <2>1 DEF WriterInv
  <2>6. m_stream' = IF points' = 0 /\ writer' # "written" THEN <<>> ELSE <<Place>> \o m_chunkTable'
    BY <1>1, <2>1 DEF ParallelInv
  <2> QED
    BY <1>1, <2>2, <2>3, <2>4, <2>5, <2>6 DEF ParallelInv
<1>8. CASE chunk \notin failingChunks
  <2>1. /\ m_parallelResults' = Tail(m_parallelResults)
        /\ m_stream' = Append(m_stream, submitted[chunk])
        /\ m_chunkTable' = Append(m_chunkTable, submitted[chunk])
        /\ writer' = IF writer = "writing" THEN "outside" ELSE writer
    BY <1>2, <1>8 DEF WriteChunk, AfterWrite
  <2>2. submitted[chunk] \in 1 .. ChunkSize
    <3>1. chunk \in 1 .. Submitted
      BY <1>3, <1>4, SMT
    <3>2. submitted \in Seq(1 .. ChunkSize)
      BY DEF LazTypes
    <3>3. \A i \in 1 .. Len(submitted) : submitted[i] \in 1 .. ChunkSize
      BY <3>2, ChunkOfSeq
    <3> QED
      BY ONLY <3>1, <3>3 DEF Submitted
  <2>3. /\ m_chunkTable' \in Seq(1 .. ChunkSize) /\ Written' = Written + 1
        /\ \A i \in 1 .. Written : m_chunkTable'[i] = m_chunkTable[i]
        /\ m_chunkTable'[Written + 1] = submitted[chunk]
    <3>1. m_chunkTable \in Seq(1 .. ChunkSize)
      BY DEF LazTypes
    <3> QED
      BY <1>4, <2>1, <2>2, <3>1, SMT DEF Written
  <2>4. points # 0
    <3>1. Submitted > 0
      BY <1>3, <1>4, SMT
    <3>2. (Submitted - 1) * ChunkSize < points
      BY <3>1 DEF ParallelInv, ChunksCut
    <3>3. (Submitted - 1) * ChunkSize \in Nat
      BY <1>4, <3>1, SMT
    <3> QED
      BY <1>4, <3>2, <3>3, SMT
  <2>5. m_stream' = <<Place>> \o m_chunkTable' /\ m_stream' \in Seq(Nat)
    <3>1. m_stream = <<Place>> \o m_chunkTable
      BY <2>4 DEF ParallelInv
    <3>2. submitted[chunk] \in Nat /\ m_stream \in Seq(Nat)
      BY <1>4, <2>2, SMT DEF LazTypes
    <3> QED
      BY <1>4, <2>1, <3>1, <3>2, WrittenBehind, SMT
  <2>6. writer' \in {"outside", "finishing"}
    BY <1>1, <2>1
  <2>7. LazTypes'
    BY <1>1, <1>3, <2>1, <2>3, <2>5, <2>6 DEF LazTypes
  <2>8. ChunksInPool'
    <3>1. /\ \A i \in 1 .. Len(waiting) : waiting[i] = Submitted - Len(waiting) + i
          /\ \A c \in running \cup compressed : c \in 1 .. Submitted - Len(waiting)
      BY DEF ParallelInv, ChunksInPool
    <3> QED
      BY <1>1, <1>3, <1>5, <2>3, <3>1 DEF ChunksInPool
  <2>9. ChunksCut'
    <3>1. /\ \A i \in 1 .. Submitted : submitted[i] = SizeOfChunk(points, i)
          /\ Submitted > 0 => (Submitted - 1) * ChunkSize < points
          /\ \A i \in 1 .. Written : /\ m_chunkTable[i] = submitted[i]
                                     /\ i \notin failingChunks
      BY DEF ParallelInv, ChunksCut
    <3>2. \A i \in 1 .. Submitted : SizeOfChunk(points, i)' = SizeOfChunk(points, i)
      BY <1>1 DEF SizeOfChunk
    <3>3. ASSUME NEW i \in 1 .. Written + 1
          PROVE  m_chunkTable'[i] = submitted[i] /\ i \notin failingChunks
      <4>1. CASE i \in 1 .. Written
        BY <2>3, <3>1, <4>1
      <4>2. CASE i = Written + 1
        BY <1>3, <1>8, <2>3, <4>2
      <4> QED
        BY <1>4, <4>1, <4>2, SMT
    <3> QED
      BY <1>1, <1>5, <2>3, <3>1, <3>2, <3>3 DEF ChunksCut
  <2>10. FuturesInOrder'
    <3>1. /\ Len(m_parallelResults') <= PoolThreads
          /\ Written' + Len(m_parallelResults') = Submitted'
      <4>1. Len(m_parallelResults') = Len(m_parallelResults) - 1
        BY <1>3, <2>1
      <4>2. Written' = Written + 1
        BY <2>3
      <4> QED
        BY ONLY <1>4, <1>5, <1>6, <4>1, <4>2, SMT
    <3> QED
      BY <1>3, <1>5, <2>1, <2>3, <3>1 DEF FuturesInOrder
  <2>11. WriterInv'
    <3>1. CASE writer = "writing"
      <4>1. points = Submitted * ChunkSize + m_chunkPointsWritten /\ m_chunkPointsWritten = 0
        BY <3>1 DEF ParallelInv, WriterInv, InHand
      <4>2. m_chunkPointsWritten < ChunkSize /\ Len(m_parallelResults') < PoolThreads
        BY <1>3, <1>4, <1>6, <2>1, <4>1, SMT
      <4> QED
        BY <1>1, <1>5, <2>1, <3>1, <4>1, <4>2 DEF WriterInv, InHand, RoomForOne
    <3>2. CASE writer = "finishing"
      <4>1. m_chunkPointsWritten = 0 /\ ~(m_chunkPointsWritten > 0)
        BY <1>1, <3>2, SMT
      <4>2. Takes(points, Submitted)
        BY <3>2, <4>1 DEF ParallelInv, WriterInv
      <4>3. Takes(points, Submitted)'
        BY <1>1, <1>5, <4>2 DEF Takes
      <4> QED
        BY <1>1, <2>1, <3>2, <4>1, <4>3 DEF WriterInv
    <3> QED
      BY <1>1, <3>1, <3>2
  <2> QED
    BY <1>1, <2>4, <2>5, <2>7, <2>8, <2>9, <2>10, <2>11 DEF ParallelInv
<1> QED
  BY <1>7, <1>8

\* join() in done() and after an exception, and the table at the end.
LEMMA EndingsKept ==
    ASSUME Parallel, JoinPool \/ PoolJoined \/ WriteTable
    PROVE  LazTypes' /\ ParallelInv'
<1> USE DEF Parallel
<1>1. /\ UNCHANGED <<parallel, failingChunks, points, m_chunkPointsWritten,
                     m_compressor, m_parallelResults, submitted, compressed,
                     m_chunkTable, waiting, running>>
      /\ m_stream' = IF WriteTable /\ m_stream = <<>> THEN <<Place>> ELSE m_stream
  BY DEF JoinPool, PoolJoined, WriteTable, ClosePool, poolVars
<1>2. \/ /\ writer = "finishing" /\ writer' = "joining"
         /\ m_chunkPointsWritten = 0 /\ m_parallelResults = <<>>
      \/ writer = "thrown" /\ writer' \in {"thrown", "gone"}
      \/ writer = "joining" /\ writer' = "table"
      \/ writer = "table" /\ writer' = "written"
  BY DEF JoinPool, PoolJoined, WriteTable
<1>3. Submitted' = Submitted /\ Written' = Written /\ ChunksInPool' /\ ChunksCut'
  BY <1>1, ChunksUntouched
<1>4. /\ Submitted \in Nat /\ Written \in Nat /\ points \in Nat
      /\ ChunkSize \in Nat \ {0}
      /\ (Submitted - 1) * ChunkSize = Submitted * ChunkSize - ChunkSize
      /\ Submitted > 0 => Submitted * ChunkSize >= ChunkSize
      /\ Submitted * ChunkSize \in Nat
  BY LazNumbers
<1>5. Takes(points, Submitted)' = Takes(points, Submitted)
  BY <1>1, <1>3 DEF Takes
<1>6. FuturesInOrder'
  BY <1>1, <1>2, <1>3 DEF ParallelInv, FuturesInOrder
<1>7. WriterInv'
  <2>1. CASE writer = "finishing" /\ writer' = "joining"
    <3>1. m_chunkPointsWritten = 0 /\ Len(m_parallelResults) = 0
      BY <1>2, <2>1
    <3>2. Takes(points, Submitted)
      BY <2>1, <3>1, SMT DEF ParallelInv, WriterInv
    <3>3. Written + Len(m_parallelResults) = Submitted
      BY <2>1 DEF ParallelInv, FuturesInOrder
    <3>4. Written = Submitted
      BY <1>4, <3>1, <3>3, SMT
    <3> QED
      BY <1>3, <1>5, <2>1, <3>2, <3>4 DEF WriterInv
  <2>2. CASE writer' \in {"thrown", "gone"}
    BY <2>2 DEF WriterInv
  <2>3. CASE writer \in {"joining", "table"} /\ writer' \in {"table", "written"}
    BY <1>3, <1>5, <2>3 DEF ParallelInv, WriterInv
  <2> QED
    BY <1>2, <2>1, <2>2, <2>3
<1>8. m_stream' = IF points' = 0 /\ writer' # "written" THEN <<>>
                  ELSE <<Place>> \o m_chunkTable'
  <2>1. CASE writer = "table" /\ writer' = "written"
    <3>1. WriteTable
      BY <2>1 DEF JoinPool, PoolJoined
    <3>2. CASE points = 0
      <4>1. Takes(points, Submitted) /\ Written = Submitted
        BY <2>1 DEF ParallelInv, WriterInv
      <4>2. Submitted = 0
        BY <1>4, <3>2, <4>1, SMT DEF Takes
      <4>3. m_chunkTable \in Seq(1 .. ChunkSize) /\ Len(m_chunkTable) = 0
        BY <4>1, <4>2 DEF LazTypes, Written
      <4>4. m_chunkTable = <<>>
        BY ONLY <4>3, SMT
      <4>5. m_stream = <<>>
        BY <2>1, <3>2 DEF ParallelInv
      <4> QED
        BY <1>1, <2>1, <3>1, <4>4, <4>5
    <3>3. CASE points # 0
      <4>1. m_stream = <<Place>> \o m_chunkTable
        BY <2>1, <3>3 DEF ParallelInv
      <4>2. m_stream # <<>>
        BY <4>1, LazNumbers, WrittenBehind
      <4> QED
        BY <1>1, <2>1, <4>1, <4>2
    <3> QED
      BY <3>2, <3>3
  <2>2. CASE writer # "table"
    <3>1. m_stream' = m_stream /\ writer # "written" /\ writer' # "written"
      BY <1>1, <1>2, <2>2 DEF WriteTable
    <3> QED
      BY <1>1, <3>1 DEF ParallelInv
  <2> QED
    BY <1>2, <2>1, <2>2
<1>9. LazTypes'
  <2>1. m_stream' \in Seq(Nat)
    BY <1>1 DEF LazTypes, Place
  <2>2. writer' \in {"thrown", "gone", "joining", "table", "written"}
    BY <1>2
  <2> QED
    BY <1>1, <2>1, <2>2 DEF LazTypes
<1> QED
  BY <1>1, <1>3, <1>6, <1>7, <1>8, <1>9 DEF ParallelInv

\* A thread takes a chunk or has compressed one.
LEMMA TasksKept ==
    ASSUME Parallel, NEW chunk \in Chunks, LazTaskStep(chunk)
    PROVE  LazTypes' /\ ParallelInv'
<1> USE DEF Parallel
<1>1. UNCHANGED <<parallel, failingChunks, writer, points, m_chunkPointsWritten,
                  m_compressor, m_parallelResults, submitted, m_stream,
                  m_chunkTable>>
  BY DEF LazTaskStep, StartChunk, ChunkReady, lazState
<1>2. Submitted' = Submitted /\ Written' = Written
  BY <1>1 DEF Submitted, Written
<1>3. Submitted \in Nat /\ Written \in Nat /\ Len(waiting) \in Nat
  BY LazNumbers
<1>4. ChunksCut' /\ FuturesInOrder'
  BY <1>1, <1>2 DEF ParallelInv, ChunksCut, FuturesInOrder, SizeOfChunk
<1>5. WriterInv'
  BY <1>1, <1>2 DEF ParallelInv, WriterInv, InHand, RoomForOne, Takes
<1>6. LazTypes' /\ ChunksInPool'
  <2>0. /\ Written + Len(waiting) <= Submitted
        /\ \A i \in 1 .. Len(waiting) : waiting[i] = Submitted - Len(waiting) + i
        /\ \A c \in running \cup compressed : c \in 1 .. Submitted - Len(waiting)
    BY DEF ParallelInv, ChunksInPool
  <2>1. CASE StartChunk(chunk)
    <3>1. /\ waiting # <<>> /\ chunk = Head(waiting)
          /\ waiting' = Tail(waiting) /\ running' = running \cup {chunk}
          /\ compressed' = compressed
      BY <2>1 DEF StartChunk, StartTask, lazState
    <3>2. /\ Head(waiting) = Submitted - Len(waiting) + 1
          /\ Tail(waiting) \in Seq(Nat)
          /\ Len(Tail(waiting)) = Len(waiting) - 1
          /\ \A i \in 1 .. Len(waiting) - 1 :
                Tail(waiting)[i] = Submitted - (Len(waiting) - 1) + i
      BY <3>1, HeadOfChunks DEF ParallelInv
    <3>3. Len(waiting) >= 1
      <4>1. Len(Tail(waiting)) \in Nat
        BY <3>2
      <4> QED
        BY <1>3, <3>2, <4>1, SMT
    <3>4. ASSUME NEW c \in running' \cup compressed'
          PROVE  c \in 1 .. Submitted - (Len(waiting) - 1)
      <4>1. CASE c \in running \cup compressed
        <5>1. c \in 1 .. Submitted - Len(waiting)
          BY <2>0, <4>1
        <5> QED
          BY <1>3, <3>3, <5>1, SMT
      <4>2. CASE c = chunk
        BY <1>3, <2>0, <3>1, <3>2, <3>3, <4>2, SMT
      <4> QED
        BY <3>1, <4>1, <4>2
    <3>5. Written + (Len(waiting) - 1) <= Submitted
      BY <1>3, <2>0, <3>3, SMT
    <3>6. Len(waiting') = Len(waiting) - 1
      BY <3>1, <3>2
    <3>7. ChunksInPool'
      BY <1>2, <3>1, <3>2, <3>4, <3>5, <3>6 DEF ChunksInPool
    <3>8. chunk \in Nat
      BY <1>3, <2>0, <3>1, <3>2, <3>3, SMT
    <3>9. LazTypes'
      BY <1>1, <3>1, <3>2, <3>8 DEF LazTypes
    <3> QED
      BY <3>7, <3>9
  <2>2. CASE ChunkReady(chunk)
    <3>1. /\ chunk \in running /\ running' = running \ {chunk}
          /\ waiting' = waiting /\ compressed' = compressed \cup {chunk}
      BY <2>2 DEF ChunkReady, FinishTask
    <3>2. ChunksInPool'
      BY <1>2, <2>0, <3>1 DEF ChunksInPool
    <3>3. LazTypes'
      BY <1>1, <3>1 DEF LazTypes
    <3> QED
      BY <3>2, <3>3
  <2> QED
    BY <2>1, <2>2 DEF LazTaskStep
<1>7. m_stream' = IF points' = 0 /\ writer' # "written" THEN <<>>
                  ELSE <<Place>> \o m_chunkTable'
  BY <1>1 DEF ParallelInv
<1> QED
  BY <1>1, <1>4, <1>5, <1>6, <1>7 DEF ParallelInv

LEMMA ParallelStep ==
    ASSUME Parallel, [LazNext]_lazVars
    PROVE  LazTypes' /\ ParallelInv' /\ parallel'
<1>1. parallel'
  BY DEF Parallel, LazNext, LazWriterStep, LazTaskStep, LazEnded, CompressSerial,
         DoneSerial, CompressParallel, DoneParallel, SubmitChunk, WriteNext,
         JoinPool, PoolJoined, WriteTable, StartChunk, ChunkReady, lazVars, lazState
<1>2. CASE UNCHANGED lazVars
  <2>1. LazTypes'
    BY <1>2 DEF Parallel, LazTypes, lazVars, lazState, poolVars
  <2>2. /\ Submitted' = Submitted /\ Written' = Written
        /\ ChunksInPool' /\ ChunksCut'
    BY <1>2, ChunksUntouched DEF Parallel, lazVars, lazState, poolVars
  <2>3. FuturesInOrder' /\ WriterInv'
    BY <1>2, <2>2 DEF Parallel, ParallelInv, FuturesInOrder, WriterInv, InHand,
                      RoomForOne, Takes, lazVars, lazState
  <2> QED
    BY <1>1, <1>2, <2>1, <2>2, <2>3 DEF Parallel, ParallelInv, lazVars, lazState
<1>3. CASE LazEnded
  BY <1>2, <1>3 DEF LazEnded
<1>4. ~CompressSerial /\ ~DoneSerial
  BY DEF Parallel, CompressSerial, DoneSerial
<1>5. CASE CompressParallel
  BY <1>1, <1>5, PointKept
<1>6. CASE DoneParallel
  BY <1>1, <1>6, DoneKept
<1>7. CASE SubmitChunk
  BY <1>1, <1>7, SubmitKept
<1>8. CASE WriteNext
  BY <1>1, <1>8, WriteKept
<1>9. CASE JoinPool \/ PoolJoined \/ WriteTable
  BY <1>1, <1>9, EndingsKept
<1>10. CASE \E chunk \in Chunks : LazTaskStep(chunk)
  BY <1>1, <1>10, TasksKept
<1> QED
  BY <1>2, <1>3, <1>4, <1>5, <1>6, <1>7, <1>8, <1>9, <1>10 DEF LazNext, LazWriterStep

-----------------------------------------------------------------------------
\* Each step keeps the invariant.
LEMMA LazStep == ASSUME ChunksAssumption, LazInv, [LazNext]_lazVars PROVE LazInv'
<1>1. CASE ~parallel
  BY <1>1, SerialStep DEF LazInv
<1>2. CASE parallel
  BY <1>2, ParallelStep DEF LazInv, Parallel
<1> QED
  BY <1>1, <1>2

\* LazHolds: with one thread or several, the chunks, the futures, the pool's
\* queue and the points given agree at every step.
THEOREM LazHolds == ASSUME ChunksAssumption PROVE LazSpec => []LazInv
<1>1. NoTasks(TRUE) /\ LazInit => LazInv
  BY InitLaz
<1>2. LazInv /\ [LazNext]_lazVars => LazInv'
  BY LazStep
<1> QED
  BY <1>1, <1>2, PTL DEF LazSpec

\* The futures and the table agree with what the points make.
LEMMA FileSerial == ASSUME ChunksAssumption PROVE LazInv => SerialFile
<1>1. LazInv => SerialFile
  <2> SUFFICES ASSUME LazInv PROVE SerialFile
    OBVIOUS
  <2>0. /\ ChunkSize \in Nat \ {0} /\ points \in Nat /\ Written \in Nat
        /\ m_chunkTable \in Seq(1 .. ChunkSize)
        /\ m_chunkTable \in Seq(Nat)
    BY LazNumbers DEF LazInv, LazTypes
  <2>1. CASE ~parallel
    <3>1. SerialInv
      BY <2>1 DEF LazInv
    <3>2. CASE ~m_compressor
      <4>1. points = 0 /\ m_chunkTable = <<>> /\ Written = 0
        BY <3>1, <3>2 DEF SerialInv, Written
      <4>2. Takes(points, Written)
        BY <2>0, <4>1, SMT DEF Takes
      <4>3. Len(m_chunkTable) = 0
        BY <4>1
      <4>4. IsPrefix(m_chunkTable, Cut(points)) /\ m_chunkTable = Cut(points)
        <5>1. ~(Len(m_chunkTable) > 0) /\ 1 .. Len(m_chunkTable) = {}
          BY ONLY <4>3, SMT
        <5>2. /\ Len(m_chunkTable) > 0 => (Len(m_chunkTable) - 1) * ChunkSize < points
              /\ \A i \in 1 .. Len(m_chunkTable) : m_chunkTable[i] = SizeOfChunk(points, i)
          BY <5>1
        <5>3. Takes(points, Len(m_chunkTable))
          BY <4>2 DEF Written
        <5> QED
          BY <2>0, <5>2, <5>3, TableIsPrefix
      <4>5. \A chunk \in DOMAIN m_chunkTable : chunk \notin failingChunks
        BY <4>1
      <4>6. <<Place>> \o <<>> = <<Place>> /\ <<Place>> # <<>>
        BY SMT DEF Place
      <4> QED
        BY <3>1, <3>2, <4>1, <4>4, <4>5, <4>6 DEF SerialInv, SerialFile
    <3>3. CASE m_compressor
      <4>1. m_stream = <<Place>> \o m_chunkTable /\ failingChunks = {}
        BY <3>1, <3>3 DEF SerialInv
      <4>2. m_stream # <<>>
        BY <2>0, <4>1, WrittenBehind
      <4>3. CASE writer = "outside"
        <5>1. /\ m_chunkPointsWritten > 0 /\ m_chunkPointsWritten \in Nat
              /\ points = Written * ChunkSize + m_chunkPointsWritten
              /\ \A i \in 1 .. Written : m_chunkTable[i] = ChunkSize
          BY <3>1, <3>3, <4>3, LazNumbers DEF SerialInv, LazInv
        <5>2. Written * ChunkSize <= points /\ Written * ChunkSize \in Nat
              /\ (Written - 1) * ChunkSize = Written * ChunkSize - ChunkSize
          BY <2>0, <5>1, SMT
        <5>3. \A i \in 1 .. Written : m_chunkTable[i] = SizeOfChunk(points, i)
          BY <2>0, <5>1, <5>2, StillFull
        <5>4. (Written - 1) * ChunkSize < points
          BY <2>0, <5>1, <5>2, SMT
        <5>5. IsPrefix(m_chunkTable, Cut(points))
          BY <2>0, <5>3, <5>4, TableIsPrefix DEF Written
        <5> QED
          BY <4>1, <4>3, <5>5 DEF SerialFile
      <4>4. CASE writer # "outside"
        <5>1. m_chunkTable = Cut(points)
          BY <3>1, <3>3, <4>4 DEF SerialInv
        <5>2. IsPrefix(m_chunkTable, Cut(points))
          BY <2>0, <5>1, SMT DEF IsPrefix
        <5> QED
          BY <4>1, <4>2, <5>1, <5>2 DEF SerialFile
      <4> QED
        BY <4>3, <4>4
    <3> QED
      BY <3>2, <3>3
  <2>2. CASE parallel
    <3>1. ParallelInv /\ Submitted \in Nat
      BY <2>2, LazNumbers DEF LazInv
    <3>2. /\ \A i \in 1 .. Submitted : submitted[i] = SizeOfChunk(points, i)
          /\ Submitted > 0 => (Submitted - 1) * ChunkSize < points
          /\ \A i \in 1 .. Written : /\ m_chunkTable[i] = submitted[i]
                                     /\ i \notin failingChunks
          /\ Written <= Submitted
      <4>1. Written + Len(waiting) <= Submitted /\ Len(waiting) \in Nat
        BY <3>1, LazNumbers DEF ParallelInv, ChunksInPool, LazInv
      <4>2. Written <= Submitted
        BY <2>0, <3>1, <4>1, SMT
      <4> QED
        BY <3>1, <4>2 DEF ParallelInv, ChunksCut
    <3>3. \A i \in 1 .. Written : m_chunkTable[i] = SizeOfChunk(points, i)
      <4>1. \A i \in 1 .. Written : i \in 1 .. Submitted
        BY <2>0, <3>1, <3>2, SMT
      <4> QED
        BY <3>2, <4>1
    <3>4. Written > 0 => (Written - 1) * ChunkSize < points
      <4> SUFFICES ASSUME Written > 0 PROVE (Written - 1) * ChunkSize < points
        OBVIOUS
      <4>1. CASE Written = Submitted
        BY <3>2, <4>1
      <4>2. CASE Written < Submitted
        <5>1. /\ Submitted - 1 \in Nat /\ Submitted > 0
              /\ Submitted \in Nat \ {0}
              /\ Written \in 1 .. Submitted - 1
          BY <2>0, <3>1, <4>2, SMT
        <5>2. Written * ChunkSize <= points
          BY <2>0, <3>2, <5>1, FullBefore
        <5>3. (Written - 1) * ChunkSize = Written * ChunkSize - ChunkSize
              /\ Written * ChunkSize \in Nat
          BY <2>0, SMT
        <5> QED
          BY <2>0, <5>2, <5>3, SMT
      <4> QED
        BY <2>0, <3>1, <3>2, <4>1, <4>2, SMT
    <3>5. /\ IsPrefix(m_chunkTable, Cut(points))
          /\ Takes(points, Written) => m_chunkTable = Cut(points)
      BY <2>0, <3>3, <3>4, TableIsPrefix DEF Written
    <3>6. \A chunk \in DOMAIN m_chunkTable : chunk \notin failingChunks
      <4>1. DOMAIN m_chunkTable = 1 .. Written
        BY <2>0 DEF Written
      <4> QED
        BY <3>2, <4>1
    <3>7. m_stream # <<>> => m_stream = <<Place>> \o m_chunkTable
      BY <3>1 DEF ParallelInv
    <3>8. writer = "written" => m_chunkTable = Cut(points) /\ m_stream # <<>>
      <4> SUFFICES ASSUME writer = "written"
                   PROVE  m_chunkTable = Cut(points) /\ m_stream # <<>>
        OBVIOUS
      <4>1. Takes(points, Submitted) /\ Written = Submitted
        BY <3>1 DEF ParallelInv, WriterInv
      <4>2. m_stream = <<Place>> \o m_chunkTable
        BY <3>1 DEF ParallelInv
      <4> QED
        BY <2>0, <3>5, <4>1, <4>2, WrittenBehind
    <3> QED
      BY <3>5, <3>6, <3>7, <3>8 DEF SerialFile
  <2> QED
    BY <2>1, <2>2
<1> QED
  BY <1>1

\* FileAsSerial: whatever the threads do, the stream and the table hold the
\* chunks that one thread would have written, in the same order, up to the
\* first that fails, and a finished file holds them all.
THEOREM FileAsSerial == ASSUME ChunksAssumption PROVE LazSpec => []SerialFile
  BY FileSerial, LazHolds, PTL

\* There are no more futures than threads.
LEMMA MemoryBound == ASSUME ChunksAssumption PROVE LazInv => OneChunkPerWorker
<1>1. LazInv => OneChunkPerWorker
  <2> SUFFICES ASSUME LazInv PROVE OneChunkPerWorker
    OBVIOUS
  <2>0. /\ PoolThreads \in Nat \ {0} /\ Submitted \in Nat /\ Written \in Nat
        /\ Len(m_parallelResults) \in Nat /\ Len(waiting) \in Nat
    BY LazNumbers DEF LazInv
  <2>1. CASE ~parallel
    <3>1. Len(m_parallelResults) = 0 /\ Len(waiting) = 0
      BY <2>1 DEF LazInv, SerialInv
    <3> QED
      BY <2>0, <3>1, SMT DEF OneChunkPerWorker
  <2>2. CASE parallel
    <3>1. ParallelInv
      BY <2>2 DEF LazInv
    <3>2. Len(m_parallelResults) <= PoolThreads
      BY <3>1 DEF ParallelInv, FuturesInOrder
    <3>3. writer = "outside" => Len(m_parallelResults) < PoolThreads
      BY <3>1 DEF ParallelInv, WriterInv, RoomForOne
    <3>4. ASSUME writer \in {"adding", "finishing"}, m_chunkPointsWritten > 0
          PROVE  Len(waiting) < PoolThreads
      <4>1. Len(m_parallelResults) < PoolThreads
        BY <3>1, <3>4 DEF ParallelInv, WriterInv, RoomForOne
      <4>2. Written + Len(m_parallelResults) = Submitted
        BY <3>1, <3>4 DEF ParallelInv, FuturesInOrder
      <4>3. Written + Len(waiting) <= Submitted
        BY <3>1 DEF ParallelInv, ChunksInPool
      <4> QED
        BY <2>0, <4>1, <4>2, <4>3, SMT
    <3> QED
      BY <3>2, <3>3, <3>4 DEF OneChunkPerWorker
  <2> QED
    BY <2>1, <2>2
<1> QED
  BY <1>1

\* MemoryBounded: fewer chunks than threads are held between two calls, never
\* more than one for each, and add() never waits for room in the pool.
THEOREM MemoryBounded == ASSUME ChunksAssumption PROVE LazSpec => []OneChunkPerWorker
  BY MemoryBound, LazHolds, PTL

-----------------------------------------------------------------------------
(***************************************************************************)
(* The LAS reader.                                                         *)
(*                                                                         *)
(* A chunk's number says which points its tile has, so the tiles differ    *)
(* wherever they are.  The chunks fetched and not yet read are as many as  *)
(* the tiles waiting, being read and filled, and the first point that was  *)
(* not handed out is the first of the current tile or, without one, of the *)
(* next chunk to read.                                                     *)
(***************************************************************************)
FirstChunk == IF las.compressed THEN las.start \div ChunkPoints ELSE 0

\* The first point to read of each chunk, and the one after its last.
FirstOf ==
    [c \in Nat |-> IF ~las.compressed THEN las.start + c * ChunkPoints
                   ELSE IF c = FirstChunk THEN las.start ELSE c * ChunkPoints]
EndOf ==
    [c \in Nat |-> IF las.compressed
                   THEN Least((c + 1) * ChunkPoints, FilePoints)
                   ELSE Least(FirstOf[c] + ChunkPoints, End)]

\* The chunks with a point to read, and their tiles.
ChunksToRead == {c \in Nat : /\ FirstChunk <= c
                       /\ IF las.compressed
                          THEN c < NumChunks /\ c * ChunkPoints < End
                          ELSE FirstOf[c] < End}
TileOf == [c \in Nat |-> [chunk |-> c, next |-> FirstOf[c],
                          last |-> EndOf[c], round |-> readies]]
GoodTiles == {TileOf[c] : c \in ChunksToRead}

TileRecord == [chunk : Nat, next : Nat, last : Nat, round : Nat]

LasTypes ==
    /\ las \in LasCases
    /\ lasReader \in {"readying", "clearing", "queueing", "outside", "seeking",
                      "asleep", "holding", "joining", "done", "gone"}
    /\ readies \in Nat
    /\ index \in Nat
    /\ nextFetchChunk \in Nat /\ nextFetchPoint \in Nat /\ nextReadChunk \in Nat
    /\ tiles \in Seq(TileRecord \cup {NoTile})
    /\ currentTile \in TileRecord \cup {NoTile}
    /\ waiting \in Seq(TileRecord)
    /\ running \subseteq TileRecord /\ IsFiniteSet(running)

Ready == readies > 0

\* Each tile is the one its number says, and the queue of the pool has the
\* ones fetched last.
OldestWaiting == nextFetchChunk - Len(waiting)
TilesGood ==
    /\ \A i \in 1 .. Len(waiting) : /\ (OldestWaiting + i) - 1 \in ChunksToRead
                                    /\ waiting[i] = TileOf[(OldestWaiting + i) - 1]
    /\ \A tile \in running : tile \in GoodTiles /\ tile.chunk < OldestWaiting
    /\ \A i \in Filled : tiles[i] \in GoodTiles

FetchInv ==
    /\ lasReader \notin {"readying", "clearing"} => Ready
    /\ Ready =>
          /\ FirstChunk <= nextReadChunk
          /\ nextReadChunk <= nextFetchChunk
          /\ nextFetchPoint =
                IF ~las.compressed THEN las.start + nextFetchChunk * ChunkPoints
                ELSE IF nextFetchChunk = FirstChunk THEN las.start % ChunkPoints
                ELSE 0

\* The reader hands out the point that comes next, and when its tile is used
\* up that is the first one of the next chunk.
ReadInv ==
    /\ currentTile = NoTile /\ Ready /\ nextReadChunk \in ChunksToRead =>
          FirstOf[nextReadChunk] = las.start + index
    /\ currentTile # NoTile =>
          /\ currentTile.next = las.start + index
          /\ currentTile.next < currentTile.last
          /\ currentTile.round = readies
          /\ nextReadChunk \in ChunksToRead => currentTile.last = FirstOf[nextReadChunk]
    /\ lasReader = "holding" => currentTile # NoTile
    /\ lasReader \in {"seeking", "asleep"} => currentTile = NoTile

WindowInv ==
    /\ nextFetchChunk - nextReadChunk
           = Len(waiting) + Cardinality(running) + Cardinality(Filled)
    /\ nextFetchChunk - nextReadChunk <= PoolThreads
    /\ Len(tiles) <= PoolThreads

LasInv == LasTypes /\ TilesGood /\ FetchInv /\ ReadInv /\ WindowInv

\* The case, its last point, and the places where chunks begin are numbers.
LEMMA CaseNumbers ==
    ASSUME LasAssumption, las \in LasCases
    PROVE  /\ las.compressed \in BOOLEAN /\ las.start \in Nat /\ las.count \in Nat
           /\ ChunkPoints \in Nat \ {0} /\ FilePoints \in Nat
           /\ las.start < FilePoints
           /\ End \in Nat /\ End <= FilePoints
           /\ FirstChunk \in Nat
           /\ las.compressed => /\ las.start = FirstChunk * ChunkPoints + (las.start % ChunkPoints)
                                /\ (las.start % ChunkPoints) \in 0 .. (ChunkPoints - 1)
<1>1. /\ las.compressed \in BOOLEAN /\ las.start \in Nat /\ las.count \in Nat
      /\ ChunkPoints \in Nat \ {0} /\ FilePoints \in Nat
      /\ las.start < FilePoints
  BY DEF LasAssumption, LasCase
<1>2. End \in Nat /\ End <= FilePoints
  BY <1>1, SMT DEF End
<1>3. /\ las.start \div ChunkPoints \in Nat
      /\ las.start = (las.start \div ChunkPoints) * ChunkPoints + (las.start % ChunkPoints)
      /\ (las.start % ChunkPoints) \in 0 .. (ChunkPoints - 1)
  BY <1>1, DivMod
<1>4. FirstChunk \in Nat
  BY <1>3 DEF FirstChunk
<1> QED
  BY <1>1, <1>2, <1>3, <1>4 DEF FirstChunk

\* A chunk to read has a point, and the next chunk starts where it ends.
LEMMA ChunksAdjoin ==
    ASSUME LasAssumption, las \in LasCases, NEW c \in ChunksToRead
    PROVE  /\ c \in Nat /\ FirstOf[c] \in Nat /\ EndOf[c] \in Nat
           /\ FirstOf[c] < EndOf[c]
           /\ c + 1 \in ChunksToRead => EndOf[c] = FirstOf[c + 1]
<1>1. /\ las.compressed \in BOOLEAN /\ las.start \in Nat
      /\ ChunkPoints \in Nat \ {0} /\ FilePoints \in Nat
      /\ las.start < FilePoints
      /\ End \in Nat /\ End <= FilePoints
      /\ FirstChunk \in Nat
      /\ las.compressed => /\ las.start = FirstChunk * ChunkPoints + (las.start % ChunkPoints)
                           /\ (las.start % ChunkPoints) \in 0 .. (ChunkPoints - 1)
  BY CaseNumbers
<1>2. c \in Nat /\ FirstChunk <= c
  BY DEF ChunksToRead
<1>3. c + 1 \in Nat
  BY <1>2, SMT
<1> DEFINE p == c * ChunkPoints
           f == FirstChunk * ChunkPoints
<1>4. /\ p \in Nat /\ (c + 1) * ChunkPoints = p + ChunkPoints
      /\ f \in Nat /\ (FirstChunk + 1) * ChunkPoints = f + ChunkPoints
  BY <1>1, <1>2, SMT
<1>5. CASE las.compressed
  <2>1. p < End /\ (c + 1 \in ChunksToRead => (c + 1) * ChunkPoints < End)
    BY <1>5 DEF ChunksToRead
  <2>2. EndOf[c] = IF (c + 1) * ChunkPoints < FilePoints THEN (c + 1) * ChunkPoints ELSE FilePoints
    BY <1>2, <1>5 DEF EndOf, Least
  <2>3. c + 1 # FirstChunk
    BY <1>1, <1>2, SMT
  <2>4. FirstOf[c + 1] = (c + 1) * ChunkPoints
    BY <1>3, <1>5, <2>3 DEF FirstOf
  <2>5. CASE c = FirstChunk
    <3>1. FirstOf[c] = las.start /\ p = f
      BY <1>2, <1>5, <2>5 DEF FirstOf
    <3> HIDE DEF p, f
    <3>2. las.start = f + (las.start % ChunkPoints) /\ (las.start % ChunkPoints) \in 0 .. (ChunkPoints - 1)
      BY <1>1, <1>5 DEF f
    <3> QED
      BY ONLY <1>1, <1>2, <1>4, <2>1, <2>2, <2>4, <3>1, <3>2, SMT
  <2>6. CASE c # FirstChunk
    <3>1. FirstOf[c] = p
      BY <1>2, <1>5, <2>6 DEF FirstOf
    <3> HIDE DEF p, f
    <3> QED
      BY ONLY <1>1, <1>2, <1>4, <2>1, <2>2, <2>4, <3>1, SMT
  <2> QED
    BY <2>5, <2>6
<1>6. CASE ~las.compressed
  <2>1. FirstOf[c] = las.start + p /\ FirstOf[c + 1] = las.start + (c + 1) * ChunkPoints
    BY <1>2, <1>3, <1>6 DEF FirstOf
  <2>2. FirstOf[c] < End /\ (c + 1 \in ChunksToRead => FirstOf[c + 1] < End)
    BY <1>6 DEF ChunksToRead
  <2>3. EndOf[c] = IF FirstOf[c] + ChunkPoints < End THEN FirstOf[c] + ChunkPoints ELSE End
    BY <1>2, <1>6 DEF EndOf, Least
  <2> HIDE DEF p, f
  <2> QED
    BY ONLY <1>1, <1>2, <1>4, <2>1, <2>2, <2>3, SMT
<1> QED
  BY <1>5, <1>6

\* What a tile of a chunk to read says.
LEMMA GoodTile ==
    ASSUME LasAssumption, las \in LasCases, readies \in Nat, NEW c \in ChunksToRead
    PROVE  /\ TileOf[c] \in TileRecord /\ TileOf[c] \in GoodTiles
           /\ TileOf[c].chunk = c /\ TileOf[c].next = FirstOf[c]
           /\ TileOf[c].last = EndOf[c] /\ TileOf[c].round = readies
<1>1. c \in Nat /\ FirstOf[c] \in Nat /\ EndOf[c] \in Nat
  BY ChunksAdjoin
<1>2. TileOf[c] = [chunk |-> c, next |-> FirstOf[c], last |-> EndOf[c], round |-> readies]
  BY <1>1 DEF TileOf
<1>3. TileOf[c] \in GoodTiles
  BY DEF GoodTiles
<1> QED
  BY <1>1, <1>2, <1>3 DEF TileRecord

LEMMA GoodTileIs ==
    ASSUME LasAssumption, las \in LasCases, readies \in Nat, NEW tile \in GoodTiles
    PROVE  /\ tile \in TileRecord
           /\ tile.chunk \in ChunksToRead /\ tile = TileOf[tile.chunk]
<1>1. PICK c \in ChunksToRead : tile = TileOf[c]
  BY DEF GoodTiles
<1> QED
  BY <1>1, GoodTile

LEMMA NotATile == ASSUME NEW tile \in TileRecord PROVE tile # NoTile
<1>1. tile.chunk \in Nat /\ NoTile.chunk = -1
  BY DEF TileRecord, NoTile
<1>2. -1 \notin Nat
  BY SMT
<1> QED
  BY <1>1, <1>2

LEMMA SameTiles ==
    ASSUME las' = las, readies' = readies
    PROVE  /\ FirstChunk' = FirstChunk /\ FirstOf' = FirstOf
           /\ ChunksToRead' = ChunksToRead /\ TileOf' = TileOf /\ GoodTiles' = GoodTiles
<1>1. FirstChunk' = FirstChunk /\ End' = End
  BY DEF FirstChunk, End
<1>2. FirstOf' = FirstOf
  BY <1>1 DEF FirstOf
<1>3. EndOf' = EndOf /\ ChunksToRead' = ChunksToRead
  BY <1>1, <1>2 DEF EndOf, ChunksToRead
<1>4. TileOf' = TileOf
  BY <1>2, <1>3 DEF TileOf
<1> QED
  BY <1>1, <1>2, <1>3, <1>4 DEF GoodTiles

\* What queueing another read does.
LEMMA Queued ==
    ASSUME LasAssumption, LasInv, Ready, QueueNext
    PROVE  /\ running' = running
           /\ \/ /\ nextFetchChunk \in ChunksToRead
                 /\ waiting' = Append(waiting, TileOf[nextFetchChunk])
                 /\ nextFetchChunk' = nextFetchChunk + 1
                 /\ nextFetchPoint' = IF las.compressed THEN 0
                                      ELSE nextFetchPoint + ChunkPoints
              \/ /\ nextFetchChunk \notin ChunksToRead
                 /\ UNCHANGED <<waiting, nextFetchChunk, nextFetchPoint>>
<1> DEFINE c == nextFetchChunk
<1>1. /\ las \in LasCases /\ c \in Nat /\ nextReadChunk \in Nat
      /\ FirstChunk <= nextReadChunk /\ nextReadChunk <= c
      /\ nextFetchPoint = IF ~las.compressed THEN las.start + c * ChunkPoints
                ELSE IF c = FirstChunk THEN las.start % ChunkPoints ELSE 0
      /\ waiting \in Seq(TileRecord)
  BY DEF LasInv, LasTypes, FetchInv
<1>2. /\ las.compressed \in BOOLEAN /\ las.start \in Nat
      /\ ChunkPoints \in Nat \ {0} /\ FilePoints \in Nat
      /\ las.start < FilePoints
      /\ End \in Nat /\ End <= FilePoints
      /\ FirstChunk \in Nat
      /\ las.compressed => /\ las.start = FirstChunk * ChunkPoints + (las.start % ChunkPoints)
                           /\ (las.start % ChunkPoints) \in 0 .. (ChunkPoints - 1)
  BY <1>1, CaseNumbers
<1>3. FirstChunk <= c
  BY <1>1, <1>2, SMT
<1>4. c * ChunkPoints \in Nat /\ NumChunks \in Int
  <2>1. FilePoints + ChunkPoints - 1 \in Nat
    BY <1>2, SMT
  <2>2. NumChunks \in Nat
    BY <1>2, <2>1, DivMod DEF NumChunks
  <2> QED
    BY <1>1, <1>2, <2>2, SMT
<1>5. CASE las.compressed
  <2>1. c \in ChunksToRead <=> ~(c >= NumChunks \/ c * ChunkPoints >= End)
    <3>1. c \in ChunksToRead <=> c < NumChunks /\ c * ChunkPoints < End
      BY <1>1, <1>3, <1>5 DEF ChunksToRead
    <3> QED
      BY ONLY <1>1, <1>2, <1>4, <3>1, SMT
  <2>2. c * ChunkPoints + nextFetchPoint = FirstOf[c]
    <3>1. CASE c = FirstChunk
      BY <1>1, <1>2, <1>5, <3>1 DEF FirstOf
    <3>2. CASE c # FirstChunk
      <4>1. nextFetchPoint = 0 /\ FirstOf[c] = c * ChunkPoints
        BY <1>1, <1>5, <3>2 DEF FirstOf
      <4> QED
        BY <1>4, <4>1, SMT
    <3> QED
      BY <3>1, <3>2
  <2>3. NextTiles = IF c \in ChunksToRead THEN <<TileOf[c]>> ELSE <<>>
    BY <1>1, <1>5, <2>1, <2>2 DEF NextTiles, TileOf, EndOf
  <2> QED
    BY <1>1, <1>3, <2>3 DEF QueueNext, AddTasks, poolVars
<1>6. CASE ~las.compressed
  <2>1. FirstOf[c] = nextFetchPoint
    BY <1>1, <1>6 DEF FirstOf
  <2>2. c \in ChunksToRead <=> ~(nextFetchPoint >= End)
    <3>1. c \in ChunksToRead <=> nextFetchPoint < End
      BY <1>1, <1>3, <1>6, <2>1 DEF ChunksToRead
    <3>2. nextFetchPoint \in Nat
      BY DEF LasInv, LasTypes
    <3> QED
      BY <1>2, <3>1, <3>2, SMT
  <2>3. NextTiles = IF c \in ChunksToRead THEN <<TileOf[c]>> ELSE <<>>
    BY <1>1, <1>6, <2>1, <2>2 DEF NextTiles, TileOf, EndOf
  <2> QED
    BY <1>1, <1>3, <2>3 DEF QueueNext, AddTasks, poolVars
<1> QED
  BY <1>5, <1>6

\* The tiles that are filled are counted like the tasks.
LEMMA FilledCounted ==
    ASSUME LasTypes
    PROVE  /\ Filled \subseteq 1 .. Len(tiles) /\ Empty \subseteq 1 .. Len(tiles)
           /\ Len(tiles) \in Nat /\ DOMAIN tiles = 1 .. Len(tiles)
           /\ IsFiniteSet(Filled) /\ Cardinality(Filled) \in Nat
           /\ Cardinality(running) \in Nat
<1>1. tiles \in Seq(TileRecord \cup {NoTile}) /\ IsFiniteSet(running)
  BY DEF LasTypes
<1>2. Len(tiles) \in Nat /\ DOMAIN tiles = 1 .. Len(tiles)
  BY <1>1, SMT
<1>3. Filled \subseteq 1 .. Len(tiles) /\ Empty \subseteq 1 .. Len(tiles)
  BY <1>2 DEF Filled, Empty
<1>4. IsFiniteSet(1 .. Len(tiles))
  BY <1>2, FS_Interval
<1>5. IsFiniteSet(Filled)
  BY <1>3, <1>4, FS_Subset
<1> QED
  BY <1>1, <1>2, <1>3, <1>5, FS_CardinalityType

(***************************************************************************)
(* The steps.                                                              *)
(***************************************************************************)
\* A step that only moves the reader.
LEMMA LasRests ==
    ASSUME LasAssumption, LasInv,
           UNCHANGED <<las, readies, index, nextFetchChunk, nextFetchPoint,
                       nextReadChunk, tiles, currentTile, waiting, running>>,
           lasReader' \in {"readying", "clearing", "queueing", "outside", "seeking",
                           "asleep", "holding", "joining", "done", "gone"},
           lasReader' \notin {"readying", "clearing"} => Ready,
           lasReader' = "holding" => currentTile # NoTile,
           lasReader' \in {"seeking", "asleep"} => currentTile = NoTile
    PROVE  LasInv'
<1>1. /\ FirstChunk' = FirstChunk /\ FirstOf' = FirstOf
      /\ ChunksToRead' = ChunksToRead /\ TileOf' = TileOf /\ GoodTiles' = GoodTiles
  BY SameTiles
<1>2. Ready' = Ready /\ OldestWaiting' = OldestWaiting /\ Filled' = Filled
  BY DEF Ready, OldestWaiting, Filled
<1>3. LasTypes'
  BY DEF LasInv, LasTypes
<1>4. TilesGood'
  BY <1>1, <1>2 DEF LasInv, TilesGood
<1>5. FetchInv'
  BY <1>1, <1>2 DEF LasInv, FetchInv
<1>6. ReadInv'
  BY <1>1, <1>2 DEF LasInv, ReadInv
<1>7. WindowInv'
  BY <1>2 DEF LasInv, WindowInv
<1> QED
  BY <1>3, <1>4, <1>5, <1>6, <1>7 DEF LasInv

\* What is between the chunks fetched and the chunks read.
LEMMA WindowMoves ==
    ASSUME NEW f \in Nat, NEW g \in Nat, NEW r \in Nat, NEW w \in Nat, NEW v \in Nat,
           NEW u \in Nat, NEW c \in Nat, g - v = f - w, f - r = w + u + c
    PROVE  /\ g - r = v + u + c
           /\ g - (r + 1) = v + u + (c - 1)
           /\ r <= g
           /\ c - 1 \in Nat => r + 1 <= g
  BY SMT

\* Another read joins the queue of the pool, if there is one.
LEMMA QueuedGood ==
    ASSUME LasAssumption, LasInv, Ready, QueueNext, las' = las, readies' = readies
    PROVE  /\ waiting' \in Seq(TileRecord) /\ running' = running
           /\ nextFetchChunk' \in Nat /\ nextFetchPoint' \in Nat
           /\ nextFetchChunk' \in {nextFetchChunk, nextFetchChunk + 1}
           /\ OldestWaiting' = OldestWaiting
           /\ nextFetchChunk' - Len(waiting') = nextFetchChunk - Len(waiting)
           /\ Len(waiting') \in Nat /\ Len(waiting) \in Nat
           /\ \A i \in 1 .. Len(waiting') :
                 /\ (OldestWaiting + i) - 1 \in ChunksToRead
                 /\ waiting'[i] = TileOf[(OldestWaiting + i) - 1]
           /\ nextFetchPoint' =
                 IF ~las.compressed THEN las.start + nextFetchChunk' * ChunkPoints
                 ELSE IF nextFetchChunk' = FirstChunk THEN las.start % ChunkPoints
                 ELSE 0
<1> DEFINE c == nextFetchChunk
           w == waiting
<1>1. /\ las \in LasCases /\ readies \in Nat /\ c \in Nat /\ nextFetchPoint \in Nat
      /\ nextReadChunk \in Nat
      /\ FirstChunk <= nextReadChunk /\ nextReadChunk <= c
      /\ nextFetchPoint = IF ~las.compressed THEN las.start + c * ChunkPoints
                ELSE IF c = FirstChunk THEN las.start % ChunkPoints ELSE 0
      /\ w \in Seq(TileRecord)
  BY DEF LasInv, LasTypes, FetchInv
<1>2. /\ las.compressed \in BOOLEAN /\ las.start \in Nat
      /\ ChunkPoints \in Nat \ {0} /\ FirstChunk \in Nat
  BY <1>1, CaseNumbers
<1>3. \A i \in 1 .. Len(w) : /\ (OldestWaiting + i) - 1 \in ChunksToRead
                             /\ w[i] = TileOf[(OldestWaiting + i) - 1]
  BY DEF LasInv, TilesGood
<1>4. Len(w) \in Nat
  BY <1>1, SMT
<1>5. running' = running
  BY Queued
<1>6. CASE UNCHANGED <<waiting, nextFetchChunk, nextFetchPoint>>
  <2>1. OldestWaiting' = OldestWaiting
    BY <1>6 DEF OldestWaiting
  <2> QED
    BY <1>1, <1>3, <1>4, <1>5, <1>6, <2>1
<1>7. CASE /\ c \in ChunksToRead
           /\ waiting' = Append(waiting, TileOf[c])
           /\ nextFetchChunk' = c + 1
           /\ nextFetchPoint' = IF las.compressed THEN 0 ELSE nextFetchPoint + ChunkPoints
  <2>1. TileOf[c] \in TileRecord
    BY <1>1, <1>7, GoodTile
  <2>2. /\ waiting' \in Seq(TileRecord) /\ Len(waiting') = Len(w) + 1
        /\ \A i \in 1 .. Len(w) : waiting'[i] = w[i]
        /\ waiting'[Len(w) + 1] = TileOf[c]
    BY <1>1, <1>7, <2>1, SMT
  <2>3. OldestWaiting' = OldestWaiting /\ OldestWaiting = c - Len(w)
    <3>1. OldestWaiting' = nextFetchChunk' - Len(waiting') /\ OldestWaiting = c - Len(w)
      BY DEF OldestWaiting
    <3> QED
      BY ONLY <1>1, <1>4, <1>7, <2>2, <3>1, SMT
  <2>4. (OldestWaiting + (Len(w) + 1)) - 1 = c
    BY ONLY <1>1, <1>4, <2>3, SMT
  <2>5. \A i \in 1 .. Len(waiting') : i \in 1 .. Len(w) \/ i = Len(w) + 1
    BY ONLY <1>4, <2>2, SMT
  <2>6. \A i \in 1 .. Len(waiting') :
                 /\ (OldestWaiting + i) - 1 \in ChunksToRead
                 /\ waiting'[i] = TileOf[(OldestWaiting + i) - 1]
    BY <1>3, <1>7, <2>2, <2>4, <2>5
  <2>7. nextFetchPoint' = IF ~las.compressed THEN las.start + nextFetchChunk' * ChunkPoints
                          ELSE IF nextFetchChunk' = FirstChunk THEN las.start % ChunkPoints
                          ELSE 0
    <3>1. CASE las.compressed
      <4>1. nextFetchChunk' # FirstChunk
        BY ONLY <1>1, <1>2, <1>7, SMT
      <4> QED
        BY <1>7, <3>1, <4>1
    <3>2. CASE ~las.compressed
      <4>1. (c + 1) * ChunkPoints = c * ChunkPoints + ChunkPoints /\ c * ChunkPoints \in Nat
        BY ONLY <1>1, <1>2, SMT
      <4>2. nextFetchPoint' = nextFetchPoint + ChunkPoints
            /\ nextFetchPoint = las.start + c * ChunkPoints
        BY <1>1, <1>7, <3>2
      <4>3. nextFetchPoint' = las.start + (c + 1) * ChunkPoints
        BY ONLY <1>2, <4>1, <4>2, SMT
      <4> QED
        BY <1>7, <3>2, <4>3
    <3> QED
      BY <3>1, <3>2
  <2>8. nextFetchPoint' \in Nat
    <3>1. 0 \in Nat /\ nextFetchPoint + ChunkPoints \in Nat
      BY ONLY <1>1, <1>2, SMT
    <3> QED
      BY <1>7, <3>1
  <2>9. /\ nextFetchChunk' \in Nat /\ Len(waiting') \in Nat
        /\ nextFetchChunk' - Len(waiting') = c - Len(w)
    BY ONLY <1>1, <1>4, <1>7, <2>2, SMT
  <2> QED
    BY <1>4, <1>5, <1>7, <2>2, <2>3, <2>6, <2>7, <2>8, <2>9
<1> QED
  BY <1>6, <1>7, Queued

LEMMA LasClears == LasAssumption /\ LasInv /\ Clear => LasInv'
<1> SUFFICES ASSUME LasAssumption, LasInv, Clear PROVE LasInv'
  OBVIOUS
<1>1. /\ las \in LasCases /\ readies \in Nat
  BY DEF LasInv, LasTypes
<1>2. /\ las.compressed \in BOOLEAN /\ las.start \in Nat
      /\ ChunkPoints \in Nat \ {0} /\ FirstChunk \in Nat
      /\ las.compressed => (las.start % ChunkPoints) \in 0 .. (ChunkPoints - 1)
  BY <1>1, CaseNumbers
<1>3. /\ waiting = <<>> /\ running = {} /\ waiting' = <<>> /\ running' = {}
      /\ las' = las /\ readies' = readies + 1 /\ currentTile' = NoTile
      /\ tiles' = <<>> /\ index' = 0
      /\ nextFetchChunk' = FirstChunk /\ nextReadChunk' = FirstChunk
      /\ nextFetchPoint' = IF las.compressed THEN las.start % ChunkPoints ELSE las.start
      /\ lasReader' = "queueing"
  BY DEF Clear, Idle, FirstChunk
<1>4. FirstChunk' = FirstChunk
  BY <1>3 DEF FirstChunk
<1>5. FirstOf' = FirstOf
  BY <1>3, <1>4 DEF FirstOf
<1>6. /\ readies + 1 \in Nat /\ 0 \in Nat /\ readies + 1 > 0
      /\ 0 * ChunkPoints = 0 /\ las.start + 0 = las.start
      /\ FirstChunk <= FirstChunk
  BY <1>1, <1>2, SMT
<1>7. nextFetchPoint' \in Nat
  <2>1. las.compressed => (las.start % ChunkPoints) \in Nat
    BY <1>2, SMT
  <2> QED
    BY <1>2, <1>3, <2>1
<1>8. /\ <<>> \in Seq(TileRecord) /\ <<>> \in Seq(TileRecord \cup {NoTile})
      /\ {} \subseteq TileRecord /\ IsFiniteSet({})
  BY FS_EmptySet
<1>9. LasTypes'
  BY <1>1, <1>2, <1>3, <1>6, <1>7, <1>8 DEF LasTypes
<1>10. Filled' = {} /\ DOMAIN tiles' = {}
  BY <1>3 DEF Filled
<1>11. 1 .. Len(waiting') = {}
  BY <1>3
<1>12. TilesGood'
  BY <1>3, <1>10, <1>11 DEF TilesGood
<1>13. Ready'
  BY <1>3, <1>6 DEF Ready
<1>14. ~las.compressed => FirstChunk = 0
  BY DEF FirstChunk
<1>15. FetchInv'
  BY <1>3, <1>4, <1>6, <1>13, <1>14 DEF FetchInv
<1>16. FirstOf[FirstChunk] = las.start
  BY <1>2, <1>6, <1>14 DEF FirstOf
<1>17. ReadInv'
  BY <1>3, <1>5, <1>6, <1>16 DEF ReadInv
<1>18. WindowInv'
  <2>1. Cardinality({}) = 0 /\ Len(<<>>) = 0
    BY FS_EmptySet
  <2>2. FirstChunk - FirstChunk = 0 /\ 0 + 0 + 0 = 0 /\ 0 <= PoolThreads
    BY <1>2, PoolTasksAssumption, SMT
  <2> QED
    BY <1>3, <1>10, <2>1, <2>2 DEF WindowInv
<1> QED
  BY <1>9, <1>12, <1>15, <1>17, <1>18 DEF LasInv

LEMMA LasQueues == LasAssumption /\ LasInv /\ QueueFirst => LasInv'
<1> SUFFICES ASSUME LasAssumption, LasInv, QueueFirst PROVE LasInv'
  OBVIOUS
<1>1. /\ lasReader = "queueing" /\ Ready
      /\ UNCHANGED <<las, readies, index, nextReadChunk, tiles, currentTile>>
  BY DEF QueueFirst, LasInv, FetchInv
<1>2. CASE lasReader' = "outside" /\ UNCHANGED <<nextFetchChunk, nextFetchPoint, poolVars>>
  BY <1>1, <1>2, LasRests DEF poolVars
<1>3. CASE nextFetchChunk - nextReadChunk < PoolThreads /\ QueueNext /\ UNCHANGED lasReader
  <2>1. /\ waiting' \in Seq(TileRecord) /\ running' = running
        /\ nextFetchChunk' \in Nat /\ nextFetchPoint' \in Nat
        /\ nextFetchChunk' \in {nextFetchChunk, nextFetchChunk + 1}
        /\ OldestWaiting' = OldestWaiting
        /\ nextFetchChunk' - Len(waiting') = nextFetchChunk - Len(waiting)
        /\ Len(waiting') \in Nat /\ Len(waiting) \in Nat
        /\ \A i \in 1 .. Len(waiting') :
              /\ (OldestWaiting + i) - 1 \in ChunksToRead
              /\ waiting'[i] = TileOf[(OldestWaiting + i) - 1]
        /\ nextFetchPoint' =
              IF ~las.compressed THEN las.start + nextFetchChunk' * ChunkPoints
              ELSE IF nextFetchChunk' = FirstChunk THEN las.start % ChunkPoints
              ELSE 0
    BY <1>1, <1>3, QueuedGood
  <2>2. /\ FirstChunk' = FirstChunk /\ FirstOf' = FirstOf
        /\ ChunksToRead' = ChunksToRead /\ TileOf' = TileOf /\ GoodTiles' = GoodTiles
    BY <1>1, SameTiles
  <2>3. Ready' = Ready /\ Filled' = Filled
    BY <1>1 DEF Ready, Filled
  <2>4. LasTypes'
    BY <1>1, <1>3, <2>1 DEF LasInv, LasTypes
  <2>5. TilesGood'
    BY <1>1, <2>1, <2>2, <2>3 DEF LasInv, TilesGood
  <2>6. nextReadChunk \in Nat /\ nextFetchChunk \in Nat /\ nextReadChunk <= nextFetchChunk
        /\ FirstChunk <= nextReadChunk
    BY <1>1 DEF LasInv, LasTypes, FetchInv
  <2>7. nextReadChunk <= nextFetchChunk'
    BY ONLY <2>1, <2>6, SMT
  <2>8. FetchInv'
    BY <1>1, <2>1, <2>2, <2>3, <2>6, <2>7 DEF FetchInv
  <2>9. ReadInv'
    BY <1>1, <1>3, <2>2, <2>3 DEF LasInv, ReadInv
  <2>10. WindowInv'
    <3>1. /\ Cardinality(running) \in Nat /\ Cardinality(Filled) \in Nat
      BY FilledCounted DEF LasInv
    <3>2. /\ nextFetchChunk - nextReadChunk
                = Len(waiting) + Cardinality(running) + Cardinality(Filled)
          /\ Len(tiles) <= PoolThreads
      BY DEF LasInv, WindowInv
    <3>3. nextFetchChunk' - nextReadChunk
              = Len(waiting') + Cardinality(running) + Cardinality(Filled)
      <4>1. /\ nextFetchChunk \in Nat /\ nextFetchChunk' \in Nat /\ nextReadChunk \in Nat
            /\ Len(waiting) \in Nat /\ Len(waiting') \in Nat
            /\ nextFetchChunk' - Len(waiting') = nextFetchChunk - Len(waiting)
        BY <2>1, <2>6
      <4> DEFINE f == nextFetchChunk
                 g == nextFetchChunk'
                 r == nextReadChunk
                 w == Len(waiting)
                 v == Len(waiting')
                 u == Cardinality(running)
                 c == Cardinality(Filled)
      <4>2. /\ f \in Nat /\ g \in Nat /\ r \in Nat /\ w \in Nat /\ v \in Nat
            /\ u \in Nat /\ c \in Nat /\ g - v = f - w /\ f - r = w + u + c
        BY <4>1, <3>1, <3>2
      <4> HIDE DEF f, g, r, w, v, u, c
      <4>3. g - r = v + u + c
        BY ONLY <4>2, WindowMoves
      <4> QED
        BY <4>3 DEF f, g, r, w, v, u, c
    <3>4. nextFetchChunk' - nextReadChunk <= PoolThreads
      <4>1. PoolThreads \in Nat /\ nextFetchChunk - nextReadChunk < PoolThreads
        BY <1>3, PoolTasksAssumption
      <4>2. nextFetchChunk' = nextFetchChunk \/ nextFetchChunk' = nextFetchChunk + 1
        BY <2>1
      <4> QED
        BY ONLY <2>6, <4>1, <4>2, SMT
    <3> QED
      BY <1>1, <2>1, <2>3, <3>2, <3>3, <3>4 DEF WindowInv
  <2> QED
    BY <2>4, <2>5, <2>8, <2>9, <2>10 DEF LasInv
<1> QED
  BY <1>1, <1>2, <1>3 DEF QueueFirst

\* A thread takes the oldest tile: it is in no other thread's hands.
LEMMA LasStarts ==
    LasAssumption /\ LasInv /\ (\E tile \in LasTasks : StartTile(tile)) => LasInv'
<1> SUFFICES ASSUME LasAssumption, LasInv, NEW tile \in LasTasks, StartTile(tile)
             PROVE  LasInv'
  OBVIOUS
<1> DEFINE w == waiting
           n == Len(waiting)
<1>1. /\ w # <<>> /\ tile = Head(w) /\ waiting' = Tail(w)
      /\ running' = running \cup {tile}
      /\ UNCHANGED <<las, lasReader, readies, index, nextFetchChunk, nextFetchPoint,
                     nextReadChunk, tiles, currentTile>>
  BY DEF StartTile, StartTask, lasState
<1>2. /\ w \in Seq(TileRecord) /\ las \in LasCases /\ readies \in Nat
      /\ nextFetchChunk \in Nat /\ running \subseteq TileRecord /\ IsFiniteSet(running)
  BY DEF LasInv, LasTypes
<1>3. /\ n \in Nat \ {0} /\ Len(waiting') = n - 1 /\ tile = w[1]
      /\ waiting' \in Seq(TileRecord) /\ tile \in TileRecord
      /\ \A i \in 1 .. (n - 1) : waiting'[i] = w[i + 1]
  BY <1>1, <1>2, SMT
<1>4. OldestWaiting = nextFetchChunk - n /\ OldestWaiting' = nextFetchChunk - (n - 1)
  BY <1>1, <1>3 DEF OldestWaiting
<1>5. OldestWaiting' = OldestWaiting + 1 /\ OldestWaiting \in Int
      /\ (OldestWaiting + 1) - 1 = OldestWaiting
      /\ 1 \in 1 .. n
  BY ONLY <1>2, <1>3, <1>4, SMT
<1>6. /\ \A i \in 1 .. n : /\ (OldestWaiting + i) - 1 \in ChunksToRead
                           /\ w[i] = TileOf[(OldestWaiting + i) - 1]
      /\ \A t \in running : t \in GoodTiles /\ t.chunk < OldestWaiting
      /\ \A i \in Filled : tiles[i] \in GoodTiles
  BY DEF LasInv, TilesGood
<1>7. tile = TileOf[OldestWaiting] /\ OldestWaiting \in ChunksToRead
  BY <1>3, <1>5, <1>6
<1>8. tile \in GoodTiles /\ tile.chunk = OldestWaiting
  BY <1>2, <1>7, GoodTile
<1>9. tile \notin running
  <2>1. tile \in running => OldestWaiting < OldestWaiting
    BY <1>6, <1>8
  <2> QED
    BY <1>5, <2>1, SMT
<1>10. /\ FirstChunk' = FirstChunk /\ FirstOf' = FirstOf
       /\ ChunksToRead' = ChunksToRead /\ TileOf' = TileOf /\ GoodTiles' = GoodTiles
  BY <1>1, SameTiles
<1>11. Ready' = Ready /\ Filled' = Filled
  BY <1>1 DEF Ready, Filled
<1>12. IsFiniteSet(running') /\ Cardinality(running') = Cardinality(running) + 1
  BY <1>1, <1>2, <1>9, FS_AddElement
<1>13. LasTypes'
  BY <1>1, <1>2, <1>3, <1>12 DEF LasInv, LasTypes
<1>14. TilesGood'
  <2>1. ASSUME NEW i \in 1 .. Len(waiting')
        PROVE  /\ (OldestWaiting' + i) - 1 \in ChunksToRead
               /\ waiting'[i] = TileOf[(OldestWaiting' + i) - 1]
    <3>1. i + 1 \in 1 .. n /\ i \in 1 .. (n - 1)
          /\ (OldestWaiting' + i) - 1 = (OldestWaiting + (i + 1)) - 1
      BY <1>3, <1>5, SMT
    <3> QED
      BY <1>3, <1>6, <3>1
  <2>2. ASSUME NEW t \in running' PROVE t \in GoodTiles /\ t.chunk < OldestWaiting'
    <3>1. CASE t = tile
      BY <1>5, <1>8, <3>1, SMT
    <3>2. CASE t \in running
      <4>1. t.chunk \in Nat /\ t.chunk < OldestWaiting /\ t \in GoodTiles
        BY <1>2, <1>6, <3>2 DEF TileRecord
      <4> QED
        BY <1>5, <4>1, SMT
    <3> QED
      BY <1>1, <3>1, <3>2
  <2> QED
    BY <1>1, <1>6, <1>10, <1>11, <2>1, <2>2 DEF TilesGood
<1>15. FetchInv' /\ ReadInv'
  BY <1>1, <1>10, <1>11 DEF LasInv, FetchInv, ReadInv
<1>16. WindowInv'
  <2>1. /\ Cardinality(running) \in Nat /\ Cardinality(Filled) \in Nat
    BY FilledCounted DEF LasInv
  <2>2. /\ nextFetchChunk - nextReadChunk
             = n + Cardinality(running) + Cardinality(Filled)
        /\ nextFetchChunk - nextReadChunk <= PoolThreads /\ Len(tiles) <= PoolThreads
    BY DEF LasInv, WindowInv
  <2>3. n + Cardinality(running) + Cardinality(Filled)
           = (n - 1) + (Cardinality(running) + 1) + Cardinality(Filled)
    BY ONLY <1>3, <2>1, SMT
  <2> QED
    BY <1>1, <1>3, <1>11, <1>12, <2>2, <2>3 DEF WindowInv
<1> QED
  BY <1>13, <1>14, <1>15, <1>16 DEF LasInv

\* A tile that was read fills the first empty slot, or a new one if the
\* window still has room for it.
LEMMA LasFills ==
    LasAssumption /\ LasInv /\ (\E tile \in LasTasks : TileReady(tile)) => LasInv'
<1> SUFFICES ASSUME LasAssumption, LasInv, NEW tile \in LasTasks, TileReady(tile)
             PROVE  LasInv'
  OBVIOUS
<1> DEFINE n == Len(tiles)
<1>1. /\ tile \in running /\ running' = running \ {tile} /\ waiting' = waiting
      /\ lasReader' = IF lasReader = "asleep" THEN "seeking" ELSE lasReader
      /\ UNCHANGED <<las, readies, index, nextFetchChunk, nextFetchPoint,
                     nextReadChunk, currentTile>>
  BY DEF TileReady, FinishTask
<1>2. /\ las \in LasCases /\ readies \in Nat
      /\ running \subseteq TileRecord /\ IsFiniteSet(running)
      /\ tiles \in Seq(TileRecord \cup {NoTile})
  BY DEF LasInv, LasTypes
<1>3. /\ \A t \in running : t \in GoodTiles /\ t.chunk < OldestWaiting
      /\ \A i \in Filled : tiles[i] \in GoodTiles
  BY DEF LasInv, TilesGood
<1>4. tile \in TileRecord /\ tile # NoTile /\ tile \in GoodTiles
  BY <1>1, <1>2, <1>3, NotATile
<1>5. /\ Filled \subseteq 1 .. n /\ Empty \subseteq 1 .. n
      /\ n \in Nat /\ DOMAIN tiles = 1 .. n
      /\ IsFiniteSet(Filled) /\ Cardinality(Filled) \in Nat
      /\ Cardinality(running) \in Nat
  BY FilledCounted DEF LasInv
<1>6. /\ IsFiniteSet(running') /\ Cardinality(running') = Cardinality(running) - 1
  BY <1>1, <1>2, FS_RemoveElement
<1>7. Cardinality(running') \in Nat
  BY <1>6, FS_CardinalityType
<1>8. /\ nextFetchChunk - nextReadChunk
           = Len(waiting) + Cardinality(running) + Cardinality(Filled)
      /\ nextFetchChunk - nextReadChunk <= PoolThreads /\ n <= PoolThreads
  BY DEF LasInv, WindowInv
<1>9. Len(waiting) \in Nat /\ nextFetchChunk \in Nat /\ nextReadChunk \in Nat
  <2>1. waiting \in Seq(TileRecord) /\ nextFetchChunk \in Nat /\ nextReadChunk \in Nat
    BY DEF LasInv, LasTypes
  <2> QED
    BY <2>1, SMT
\* Wherever it goes:
<1>10. \E i : /\ i \notin Filled /\ Filled' = Filled \cup {i}
              /\ \A k \in Filled : tiles'[k] = tiles[k]
              /\ tiles'[i] = tile
              /\ tiles' \in Seq(TileRecord \cup {NoTile})
              /\ Len(tiles') <= PoolThreads
  <2>1. CASE Empty = {} /\ tiles' = Append(tiles, tile)
    <3>1. /\ tiles' \in Seq(TileRecord \cup {NoTile}) /\ Len(tiles') = n + 1
          /\ DOMAIN tiles' = 1 .. (n + 1)
          /\ \A i \in 1 .. n : tiles'[i] = tiles[i]
          /\ tiles'[n + 1] = tile
      BY <1>2, <1>4, <2>1, SMT
    <3>2. 1 .. (n + 1) = 1 .. n \cup {n + 1} /\ n + 1 \notin 1 .. n
      BY <1>5, SMT
    <3>3. Filled = 1 .. n
      BY <1>5, <2>1 DEF Filled, Empty
    <3>4. Filled' = {i \in DOMAIN tiles' : tiles'[i] # NoTile}
      BY DEF Filled
    <3>5. Filled' = Filled \cup {n + 1}
      BY <1>4, <3>1, <3>2, <3>3, <3>4 DEF Filled
    <3>6. Cardinality(Filled) = n
      <4>1. 0 \in Int /\ 1 \in Int /\ n \in Int /\ n - 1 + 1 = n
        BY <1>5, SMT
      <4>2. Cardinality(1 .. n) = IF 1 > n THEN 0 ELSE n - 1 + 1
        BY <4>1, FS_Interval
      <4> QED
        BY <1>5, <3>3, <4>1, <4>2, SMT
    <3>7. PoolThreads \in Nat
      BY PoolTasksAssumption
    <3>8. n + 1 <= PoolThreads
      BY ONLY <1>5, <1>6, <1>7, <1>8, <1>9, <3>6, <3>7, SMT
    <3> QED
      BY <3>1, <3>2, <3>3, <3>5, <3>8
  <2>2. CASE \E i \in Empty : tiles' = [tiles EXCEPT ![i] = tile]
    <3>1. PICK i \in Empty : tiles' = [tiles EXCEPT ![i] = tile]
      BY <2>2
    <3>2. i \in 1 .. n /\ i \notin Filled
      BY <1>5 DEF Filled, Empty
    <3>3. /\ tiles' \in Seq(TileRecord \cup {NoTile}) /\ Len(tiles') = n
      BY <1>2, <1>4, <3>1, <3>2, SMT
    <3>4. /\ DOMAIN tiles' = 1 .. n /\ tiles'[i] = tile
          /\ \A k \in 1 .. n : k # i => tiles'[k] = tiles[k]
      BY <1>5, <3>1, <3>2
    <3>5. Filled' = {k \in DOMAIN tiles' : tiles'[k] # NoTile}
      BY DEF Filled
    <3>6. Filled' = Filled \cup {i}
      BY <1>4, <1>5, <3>2, <3>4, <3>5 DEF Filled
    <3> QED
      BY <1>5, <1>8, <3>2, <3>3, <3>4, <3>6
  <2> QED
    BY <2>1, <2>2 DEF TileReady
<1>11. PICK i : /\ i \notin Filled /\ Filled' = Filled \cup {i}
                /\ \A k \in Filled : tiles'[k] = tiles[k]
                /\ tiles'[i] = tile
                /\ tiles' \in Seq(TileRecord \cup {NoTile})
                /\ Len(tiles') <= PoolThreads
  BY <1>10
<1>12. /\ FirstChunk' = FirstChunk /\ FirstOf' = FirstOf
       /\ ChunksToRead' = ChunksToRead /\ TileOf' = TileOf /\ GoodTiles' = GoodTiles
  BY <1>1, SameTiles
<1>13. Ready' = Ready /\ OldestWaiting' = OldestWaiting
  BY <1>1 DEF Ready, OldestWaiting
<1>14. LasTypes'
  BY <1>1, <1>2, <1>6, <1>11 DEF LasInv, LasTypes
<1>15. TilesGood'
  <2>1. ASSUME NEW k \in Filled' PROVE tiles'[k] \in GoodTiles
    BY <1>3, <1>4, <1>11
  <2>2. ASSUME NEW t \in running' PROVE t \in GoodTiles /\ t.chunk < OldestWaiting
    BY <1>1, <1>3
  <2> QED
    BY <1>1, <1>12, <1>13, <2>1, <2>2 DEF LasInv, TilesGood
<1>16. FetchInv' /\ ReadInv'
  BY <1>1, <1>12, <1>13 DEF LasInv, FetchInv, ReadInv
<1>17. WindowInv'
  <2>1. Cardinality(Filled') = Cardinality(Filled) + 1
    BY <1>5, <1>11, FS_AddElement
  <2>2. Len(waiting) + Cardinality(running) + Cardinality(Filled)
           = Len(waiting) + (Cardinality(running) - 1) + (Cardinality(Filled) + 1)
    BY ONLY <1>5, <1>9, SMT
  <2> QED
    BY <1>1, <1>6, <1>8, <1>11, <2>1, <2>2 DEF WindowInv
<1> QED
  BY <1>14, <1>15, <1>16, <1>17 DEF LasInv

\* The reader takes the tile that comes next, and its slot is empty again.
LEMMA LasTakes == LasAssumption /\ LasInv /\ TakeTile => LasInv'
<1> SUFFICES ASSUME LasAssumption, LasInv, TakeTile PROVE LasInv'
  OBVIOUS
<1> DEFINE n == Len(tiles)
           r == nextReadChunk
<1>1. PICK i \in TheTile : currentTile' = tiles[i] /\ tiles' = [tiles EXCEPT ![i] = NoTile]
  BY DEF TakeTile
<1>2. /\ lasReader = "seeking" /\ lasReader' = "holding"
      /\ nextReadChunk' = r + 1 /\ QueueNext
      /\ UNCHANGED <<las, readies, index>>
  BY DEF TakeTile
<1>3. /\ las \in LasCases /\ readies \in Nat /\ index \in Nat /\ r \in Nat /\ nextFetchChunk \in Nat
      /\ running \subseteq TileRecord /\ IsFiniteSet(running)
      /\ tiles \in Seq(TileRecord \cup {NoTile})
      /\ Ready /\ currentTile = NoTile
      /\ FirstChunk <= r
  BY <1>2 DEF LasInv, LasTypes, FetchInv, ReadInv
<1>4. /\ Filled \subseteq 1 .. n /\ n \in Nat /\ DOMAIN tiles = 1 .. n
      /\ IsFiniteSet(Filled) /\ Cardinality(Filled) \in Nat
      /\ Cardinality(running) \in Nat
  BY FilledCounted DEF LasInv
<1>5. i \in 1 .. n /\ tiles[i].chunk = r
  BY <1>4 DEF TheTile
<1>6. i \in Filled
  <2>1. NoTile.chunk # r
    <3>1. NoTile.chunk = -1
      BY DEF NoTile
    <3> QED
      BY <1>3, <3>1, SMT
  <2> QED
    BY <1>4, <1>5, <2>1 DEF Filled
<1>7. tiles[i] \in GoodTiles
  BY <1>6 DEF LasInv, TilesGood
<1>8. tiles[i] \in TileRecord /\ r \in ChunksToRead /\ tiles[i] = TileOf[r]
  BY <1>3, <1>5, <1>7, GoodTileIs
<1>9. /\ tiles[i].next = FirstOf[r] /\ tiles[i].last = EndOf[r]
      /\ tiles[i].round = readies
      /\ FirstOf[r] < EndOf[r]
      /\ r + 1 \in ChunksToRead => EndOf[r] = FirstOf[r + 1]
  BY <1>3, <1>8, GoodTile, ChunksAdjoin
<1>10. FirstOf[r] = las.start + index
  BY <1>3, <1>8 DEF LasInv, ReadInv
<1>11. /\ waiting' \in Seq(TileRecord) /\ running' = running
       /\ nextFetchChunk' \in Nat /\ nextFetchPoint' \in Nat
       /\ nextFetchChunk' \in {nextFetchChunk, nextFetchChunk + 1}
       /\ OldestWaiting' = OldestWaiting
       /\ nextFetchChunk' - Len(waiting') = nextFetchChunk - Len(waiting)
       /\ Len(waiting') \in Nat /\ Len(waiting) \in Nat
       /\ \A k \in 1 .. Len(waiting') :
             /\ (OldestWaiting + k) - 1 \in ChunksToRead
             /\ waiting'[k] = TileOf[(OldestWaiting + k) - 1]
       /\ nextFetchPoint' =
             IF ~las.compressed THEN las.start + nextFetchChunk' * ChunkPoints
             ELSE IF nextFetchChunk' = FirstChunk THEN las.start % ChunkPoints
             ELSE 0
  BY <1>2, <1>3, QueuedGood
<1>12. /\ FirstChunk' = FirstChunk /\ FirstOf' = FirstOf
       /\ ChunksToRead' = ChunksToRead /\ TileOf' = TileOf /\ GoodTiles' = GoodTiles
  BY <1>2, SameTiles
<1>13. Ready' = Ready
  BY <1>2 DEF Ready
<1>14. /\ tiles' \in Seq(TileRecord \cup {NoTile}) /\ Len(tiles') = n
  BY <1>1, <1>3, <1>5, SMT
<1>15. /\ DOMAIN tiles' = 1 .. n /\ tiles'[i] = NoTile
       /\ \A k \in 1 .. n : k # i => tiles'[k] = tiles[k]
  BY <1>1, <1>4, <1>5
<1>16. Filled' = Filled \ {i}
  <2>1. Filled' = {k \in DOMAIN tiles' : tiles'[k] # NoTile}
    BY DEF Filled
  <2> QED
    BY <1>4, <1>5, <1>15, <2>1 DEF Filled
<1>17. Cardinality(Filled') = Cardinality(Filled) - 1 /\ Cardinality(Filled') \in Nat
  <2>1. IsFiniteSet(Filled') /\ Cardinality(Filled') = Cardinality(Filled) - 1
    BY <1>4, <1>6, <1>16, FS_RemoveElement
  <2> QED
    BY <2>1, FS_CardinalityType
<1>18. /\ nextFetchChunk - r = Len(waiting) + Cardinality(running) + Cardinality(Filled)
       /\ nextFetchChunk - r <= PoolThreads /\ n <= PoolThreads
  BY DEF LasInv, WindowInv
<1>19. PoolThreads \in Nat /\ FirstChunk \in Nat /\ r + 1 \in Nat
  <2>1. r + 1 \in Nat
    BY <1>3, SMT
  <2> QED
    BY <1>3, <2>1, CaseNumbers, PoolTasksAssumption
<1>20. /\ nextFetchChunk' - (r + 1)
              = Len(waiting') + Cardinality(running) + (Cardinality(Filled) - 1)
       /\ nextFetchChunk' - (r + 1) <= PoolThreads
       /\ r + 1 <= nextFetchChunk' /\ FirstChunk <= r + 1
  <2>1. Cardinality(Filled) - 1 \in Nat
    BY <1>17
  <2>2. /\ nextFetchChunk' - (r + 1)
               = Len(waiting') + Cardinality(running) + (Cardinality(Filled) - 1)
        /\ r + 1 <= nextFetchChunk'
    <3>1. /\ nextFetchChunk \in Nat /\ nextFetchChunk' \in Nat /\ r \in Nat
          /\ Len(waiting) \in Nat /\ Len(waiting') \in Nat
          /\ nextFetchChunk' - Len(waiting') = nextFetchChunk - Len(waiting)
      BY <1>3, <1>11
    <3>2. nextFetchChunk - r = Len(waiting) + Cardinality(running) + Cardinality(Filled)
      BY <1>18
    <3>3. Cardinality(running) \in Nat /\ Cardinality(Filled) \in Nat
      BY <1>4
    <3> DEFINE f == nextFetchChunk
               g == nextFetchChunk'
               w == Len(waiting)
               v == Len(waiting')
               u == Cardinality(running)
               c == Cardinality(Filled)
    <3>4. /\ f \in Nat /\ g \in Nat /\ r \in Nat /\ w \in Nat /\ v \in Nat
          /\ u \in Nat /\ c \in Nat /\ g - v = f - w /\ f - r = w + u + c
          /\ c - 1 \in Nat
      BY <2>1, <3>1, <3>2, <3>3
    <3> HIDE DEF f, g, w, v, u, c, r
    <3>5. g - (r + 1) = v + u + (c - 1) /\ r + 1 <= g
      BY ONLY <3>4, WindowMoves
    <3> QED
      BY <3>5 DEF f, g, w, v, u, c
  <2>3. FirstChunk <= r /\ r \in Nat /\ nextFetchChunk \in Nat
    BY <1>3
  <2>4. nextFetchChunk' = nextFetchChunk \/ nextFetchChunk' = nextFetchChunk + 1
    BY <1>11
  <2>5. nextFetchChunk - r <= PoolThreads
    BY <1>18
  <2> HIDE DEF r, n
  <2>6. nextFetchChunk' - (r + 1) <= PoolThreads /\ FirstChunk <= r + 1
    BY ONLY <1>19, <2>3, <2>4, <2>5, SMT
  <2> QED
    BY <2>2, <2>6
<1>21. LasTypes'
  BY <1>1, <1>2, <1>3, <1>8, <1>11, <1>14, <1>19 DEF LasInv, LasTypes
<1>22. TilesGood'
  <2>1. ASSUME NEW k \in Filled' PROVE tiles'[k] \in GoodTiles
    <3>1. k \in Filled /\ k # i /\ k \in 1 .. n
      BY <1>4, <1>16
    <3> QED
      BY <1>15, <3>1 DEF LasInv, TilesGood
  <2> QED
    BY <1>11, <1>12, <2>1 DEF LasInv, TilesGood
<1>23. FetchInv'
  BY <1>2, <1>3, <1>11, <1>12, <1>13, <1>20 DEF FetchInv
<1>24. ReadInv'
  <2>1. currentTile' # NoTile
    BY <1>1, <1>8, NotATile
  <2> QED
    BY <1>1, <1>2, <1>9, <1>10, <1>12, <2>1 DEF ReadInv
<1>25. WindowInv'
  BY <1>2, <1>11, <1>14, <1>16, <1>17, <1>18, <1>20 DEF WindowInv
<1> QED
  BY <1>21, <1>22, <1>23, <1>24, <1>25 DEF LasInv

\* A point is handed out, and a used tile is dropped.
LEMMA LasLoads == LasAssumption /\ LasInv /\ LoadPoint => LasInv'
<1> SUFFICES ASSUME LasAssumption, LasInv, LoadPoint PROVE LasInv'
  OBVIOUS
<1> DEFINE t == currentTile
<1>1. /\ lasReader = "holding" /\ lasReader' = "outside" /\ index' = index + 1
      /\ currentTile' = IF t.next + 1 = t.last THEN NoTile ELSE [t EXCEPT !.next = t.next + 1]
      /\ UNCHANGED <<las, readies, nextFetchChunk, nextFetchPoint, nextReadChunk,
                     tiles, waiting, running>>
  BY DEF LoadPoint, poolVars
<1>2. /\ t \in TileRecord /\ t # NoTile
      /\ t.next = las.start + index /\ t.next < t.last
      /\ t.round = readies
      /\ nextReadChunk \in ChunksToRead => t.last = FirstOf[nextReadChunk]
      /\ las \in LasCases /\ index \in Nat
  BY <1>1 DEF LasInv, LasTypes, ReadInv
<1>3. t.next \in Nat /\ t.last \in Nat /\ las.start \in Nat
  BY <1>2, CaseNumbers DEF TileRecord
<1>4. /\ index + 1 \in Nat /\ t.next + 1 \in Nat
      /\ t.next + 1 = las.start + (index + 1)
      /\ t.next + 1 # t.last => t.next + 1 < t.last
  BY ONLY <1>2, <1>3, SMT
<1>5. t.next + 1 # t.last =>
         /\ currentTile' \in TileRecord /\ currentTile'.next = t.next + 1
         /\ currentTile'.last = t.last /\ currentTile'.round = t.round
  BY <1>1, <1>2, <1>4 DEF TileRecord
<1>6. /\ FirstChunk' = FirstChunk /\ FirstOf' = FirstOf
      /\ ChunksToRead' = ChunksToRead /\ TileOf' = TileOf /\ GoodTiles' = GoodTiles
  BY <1>1, SameTiles
<1>7. Ready' = Ready /\ Filled' = Filled /\ OldestWaiting' = OldestWaiting
  BY <1>1 DEF Ready, Filled, OldestWaiting
<1>8. LasTypes'
  BY <1>1, <1>4, <1>5 DEF LasInv, LasTypes
<1>9. TilesGood' /\ FetchInv' /\ WindowInv'
  BY <1>1, <1>6, <1>7 DEF LasInv, TilesGood, FetchInv, WindowInv
<1>10. ReadInv'
  <2>1. CASE t.next + 1 = t.last
    BY <1>1, <1>2, <1>4, <1>6, <2>1 DEF ReadInv
  <2>2. CASE t.next + 1 # t.last
    BY <1>1, <1>2, <1>4, <1>5, <1>6, <2>2, NotATile DEF ReadInv
  <2> QED
    BY <2>1, <2>2
<1> QED
  BY <1>8, <1>9, <1>10 DEF LasInv

(***************************************************************************)
(* The theorems.                                                           *)
(***************************************************************************)
LEMMA LasStarted == LasAssumption /\ NoTasks(TRUE) /\ LasInit => LasInv
<1> SUFFICES ASSUME LasAssumption, NoTasks(TRUE), LasInit PROVE LasInv
  OBVIOUS
<1>1. /\ las \in LasCases /\ lasReader = "readying" /\ readies = 0 /\ index = 0
      /\ nextFetchChunk = 0 /\ nextFetchPoint = 0 /\ nextReadChunk = 0
      /\ tiles = <<>> /\ currentTile = NoTile /\ waiting = <<>> /\ running = {}
  BY DEF NoTasks, LasInit, LasInitAt
<1>2. /\ <<>> \in Seq(TileRecord) /\ <<>> \in Seq(TileRecord \cup {NoTile})
      /\ {} \subseteq TileRecord /\ IsFiniteSet({}) /\ 0 \in Nat
  BY FS_EmptySet
<1>3. LasTypes
  BY <1>1, <1>2 DEF LasTypes
<1>4. ~Ready
  BY <1>1 DEF Ready
<1>5. Filled = {} /\ 1 .. Len(waiting) = {}
  BY <1>1 DEF Filled
<1>6. TilesGood /\ FetchInv /\ ReadInv
  BY <1>1, <1>4, <1>5 DEF TilesGood, FetchInv, ReadInv
<1>7. WindowInv
  <2>1. Cardinality({}) = 0 /\ Len(<<>>) = 0
    BY FS_EmptySet
  <2>2. 0 - 0 = 0 + 0 + 0 /\ 0 - 0 <= PoolThreads /\ 0 <= PoolThreads
    BY PoolTasksAssumption, SMT
  <2> QED
    BY <1>1, <1>5, <2>1, <2>2 DEF WindowInv
<1> QED
  BY <1>3, <1>6, <1>7 DEF LasInv

LEMMA LasSteps == LasAssumption /\ LasInv /\ [LasNext]_lasVars => LasInv'
<1> SUFFICES ASSUME LasAssumption, LasInv, [LasNext]_lasVars PROVE LasInv'
  OBVIOUS
<1>1. lasReader \notin {"readying", "clearing"} => Ready
  BY DEF LasInv, FetchInv
<1>2. CASE Resize
  BY <1>1, <1>2, LasRests DEF Resize, ClosePool, poolVars
<1>3. CASE Clear
  BY <1>3, LasClears
<1>4. CASE QueueFirst
  BY <1>4, LasQueues
<1>5. CASE AskPoint
  BY <1>1, <1>5, LasRests DEF AskPoint, poolVars
<1>6. CASE TakeTile
  BY <1>6, LasTakes
<1>7. CASE WaitForTile
  <2>1. currentTile = NoTile
    BY <1>7 DEF WaitForTile, LasInv, ReadInv
  <2> QED
    BY <1>1, <1>7, <2>1, LasRests DEF WaitForTile, poolVars
<1>8. CASE LoadPoint
  BY <1>8, LasLoads
<1>9. CASE Join
  BY <1>1, <1>9, LasRests DEF Join, ClosePool
<1>10. CASE Done
  BY <1>1, <1>10, LasRests DEF Done, poolVars
<1>11. CASE \E tile \in LasTasks : LasTaskStep(tile)
  BY <1>11, LasStarts, LasFills DEF LasTaskStep
<1>12. CASE Spurious
  <2>1. currentTile = NoTile
    BY <1>12 DEF Spurious, LasInv, ReadInv
  <2> QED
    BY <1>1, <1>12, <2>1, LasRests DEF Spurious, poolVars
<1>13. CASE UNCHANGED lasVars
  <2>1. /\ lasReader = "holding" => currentTile # NoTile
        /\ lasReader \in {"seeking", "asleep"} => currentTile = NoTile
        /\ lasReader \in {"readying", "clearing", "queueing", "outside", "seeking",
                          "asleep", "holding", "joining", "done", "gone"}
    BY DEF LasInv, LasTypes, ReadInv
  <2> QED
    BY <1>1, <1>13, <2>1, LasRests DEF lasVars, lasState, poolVars
<1> QED
  BY <1>2, <1>3, <1>4, <1>5, <1>6, <1>7, <1>8, <1>9, <1>10, <1>11, <1>12, <1>13
  DEF LasNext, LasReaderStep, LasEnded

\* LasHolds: what LasInv says of the reader, its tiles and the queue of the
\* pool is always so.
THEOREM LasHolds == ASSUME LasAssumption PROVE LasSpec => []LasInv
<1>1. NoTasks(TRUE) /\ LasInit => LasInv
  BY LasStarted
<1>2. LasInv /\ [LasNext]_lasVars => LasInv'
  BY LasSteps
<1> QED
  BY <1>1, <1>2, PTL DEF LasSpec

\* The tiles that are kept are of this reading.
LEMMA PointsOrdered == ASSUME LasAssumption PROVE LasInv => InFileOrder
<1>1. LasInv => InFileOrder
  <2> SUFFICES ASSUME LasInv PROVE InFileOrder
    OBVIOUS
  <2>1. ASSUME NEW i \in DOMAIN tiles, tiles[i] # NoTile PROVE tiles[i].round = readies
    <3>1. tiles[i] \in GoodTiles /\ las \in LasCases /\ readies \in Nat
      BY <2>1 DEF LasInv, LasTypes, TilesGood, Filled
    <3>2. tiles[i].chunk \in ChunksToRead /\ tiles[i] = TileOf[tiles[i].chunk]
      BY <3>1, GoodTileIs
    <3> QED
      BY <3>1, <3>2, GoodTile
  <2> QED
    BY <2>1 DEF InFileOrder, LasInv, ReadInv
<1> QED
  BY <1>1

\* PointsInFileOrder: LasReader hands out the points of the file in order,
\* none twice and none left out, whatever order the threads finish in, and
\* none that an earlier reading left behind.
THEOREM PointsInFileOrder == ASSUME LasAssumption PROVE LasSpec => []InFileOrder
  BY PointsOrdered, LasHolds, PTL

\* The window counts the tiles that are read or being read.
LEMMA ReadAheadBound == ASSUME LasAssumption PROVE LasInv => WindowHolds
<1>1. LasInv => WindowHolds
  <2> SUFFICES ASSUME LasInv PROVE WindowHolds
    OBVIOUS
  <2>1. Cardinality(Filled) \in Nat /\ Cardinality(running) \in Nat
    BY FilledCounted DEF LasInv
  <2>2. /\ nextFetchChunk - nextReadChunk
             = Len(waiting) + Cardinality(running) + Cardinality(Filled)
        /\ nextFetchChunk - nextReadChunk <= PoolThreads
        /\ Len(tiles) <= PoolThreads
    BY DEF LasInv, WindowInv
  <2>3. Len(waiting) \in Nat /\ PoolThreads \in Nat
    <3>1. waiting \in Seq(TileRecord)
      BY DEF LasInv, LasTypes
    <3>2. Len(waiting) \in Nat
      BY <3>1, SMT
    <3> QED
      BY <3>2, PoolTasksAssumption
  <2>4. Len(waiting) + Cardinality(running) <= PoolThreads
    BY ONLY <2>1, <2>2, <2>3, SMT
  <2> QED
    BY <2>2, <2>4 DEF WindowHolds
<1> QED
  BY <1>1

\* ReadAheadBounded: LasReader and its threads never have more tiles read or
\* being read than the pool has threads.
THEOREM ReadAheadBounded == ASSUME LasAssumption PROVE LasSpec => []WindowHolds
  BY ReadAheadBound, LasHolds, PTL

-----------------------------------------------------------------------------
(***************************************************************************)
(* The cache of node pages.                                                *)
(***************************************************************************)
\* The sets of pages with a fetch on the way, and the entries that lack a page.
QueuedPages == ToSet(waiting)
Hands == {w \in Walkers : fetching[w] # NoPage}
PagesInHand == {fetching[w] : w \in Hands}
Lacking == {m_cache[i].index : i \in {k \in DOMAIN m_cache : ~m_cache[k].page}}

PageTypes ==
    /\ wants \in [Walkers -> Seq(NodePages)]
    /\ asked \in [Walkers -> Nat]
    /\ walker \in [Walkers -> Calls]
    /\ fetching \in [Walkers -> NodePages \cup {NoPage}]
    /\ m_cache \in Seq(Entry)
    /\ waiting \in Seq(NodePages)
    /\ running \subseteq NodePages

\* What each walker's call is about.
WalkerInv ==
    \A w \in Walkers :
        /\ asked[w] <= Len(wants[w])
        /\ walker[w] \in {"getting", "asleep", "missing"} => asked[w] = Len(wants[w])
        /\ walker[w] \in {"asleep", "missing"} => wants[w] # <<>>
        /\ walker[w] \in {"evicting", "adding"} <=> fetching[w] # NoPage

OneEntry ==
    \A i, j \in DOMAIN m_cache : m_cache[i].index = m_cache[j].index => i = j

\* Each page that lacks has one fetch.
OneFetch ==
    /\ IsInjective(waiting)
    /\ \A w, v \in Hands : fetching[w] = fetching[v] => w = v
    /\ QueuedPages \cap running = {} /\ QueuedPages \cap PagesInHand = {} /\ running \cap PagesInHand = {}
    /\ Lacking = QueuedPages \cup running \cup PagesInHand

PageInv == PageTypes /\ WalkerInv /\ OneEntry /\ OneFetch

-----------------------------------------------------------------------------
(***************************************************************************)
(* Part of a sequence.                                                     *)
(***************************************************************************)
\* Each place of a finite set of numbers is the n-th of them for one n.
LEMMA NthPlaces ==
    ASSUME NEW n \in Nat, NEW P \in SUBSET (1 .. n)
    PROVE  /\ Cardinality(P) \in Nat
           /\ \A k \in 1 .. Cardinality(P) : Nth(P, k) \in P
           /\ \A k, l \in 1 .. Cardinality(P) : Nth(P, k) = Nth(P, l) => k = l
           /\ \A i \in P : \E k \in 1 .. Cardinality(P) : Nth(P, k) = i
<1> DEFINE Upto(i) == {j \in P : j <= i}
           c == Cardinality(P)
           rank == [i \in P |-> Cardinality(Upto(i))]
<1>1. IsFiniteSet(P) /\ c \in Nat
  <2>1. IsFiniteSet(1 .. n)
    BY FS_Interval
  <2> QED
    BY <2>1, FS_Subset, FS_CardinalityType
<1>2. \A i \in P : i \in Nat
  BY SMT
<1>3. \A i \in P : /\ IsFiniteSet(Upto(i)) /\ Cardinality(Upto(i)) \in Nat
                   /\ Cardinality(Upto(i)) <= c
  <2> TAKE i \in P
  <2>1. Upto(i) \subseteq P
    OBVIOUS
  <2> QED
    BY <1>1, <2>1, FS_Subset, FS_CardinalityType
<1>4. \A i \in P : Cardinality(Upto(i)) \in 1 .. c
  <2> TAKE i \in P
  <2>1. i \in Upto(i)
    BY <1>2, SMT
  <2>2. Cardinality(Upto(i)) # 0
    BY <1>3, <2>1, FS_EmptySet
  <2>3. Cardinality(Upto(i)) \in Nat /\ Cardinality(Upto(i)) <= c
    BY <1>3
  <2> QED
    BY ONLY <1>1, <2>2, <2>3, SMT
<1>5. ASSUME NEW i \in P, NEW j \in P, i < j
      PROVE  Cardinality(Upto(i)) < Cardinality(Upto(j))
  <2>1. Upto(i) \subseteq Upto(j) \ {j}
    <3>1. \A k \in Upto(i) : k <= j /\ k # j
      BY <1>2, <1>5, SMT
    <3> QED
      BY <3>1
  <2>2. j \in Upto(j)
    BY <1>2, SMT
  <2>3. /\ IsFiniteSet(Upto(j) \ {j})
        /\ Cardinality(Upto(j) \ {j}) = Cardinality(Upto(j)) - 1
    BY <1>3, <2>2, FS_RemoveElement
  <2>4. Cardinality(Upto(i)) <= Cardinality(Upto(j) \ {j})
    BY <2>1, <2>3, FS_Subset
  <2>5. Cardinality(Upto(i)) \in Nat /\ Cardinality(Upto(j)) \in Nat
    BY <1>3
  <2> QED
    BY ONLY <2>3, <2>4, <2>5, SMT
<1>6. \A i, j \in P : Cardinality(Upto(i)) = Cardinality(Upto(j)) => i = j
  <2> SUFFICES ASSUME NEW i \in P, NEW j \in P,
                      Cardinality(Upto(i)) = Cardinality(Upto(j)), i # j
               PROVE  FALSE
    OBVIOUS
  <2>1. i < j \/ j < i
    BY <1>2, SMT
  <2>2. Cardinality(Upto(i)) \in Nat
    BY <1>3
  <2>3. Cardinality(Upto(i)) < Cardinality(Upto(i))
    BY <1>5, <2>1
  <2> HIDE DEF Upto
  <2> QED
    BY <2>2, <2>3, SMT
<1> HIDE DEF Upto
<1>7. rank \in Injection(P, 1 .. c)
  BY <1>4, <1>6 DEF Injection, IsInjective
<1>8. IsFiniteSet(1 .. c) /\ Cardinality(1 .. c) = c
  <2>1. 1 \in Int /\ c \in Int /\ c - 1 + 1 = c /\ (1 > c => c = 0)
    BY <1>1, SMT
  <2> QED
    BY <2>1, FS_Interval
<1>9. rank \in Surjection(P, 1 .. c)
  BY <1>7, <1>8, FS_Injection
<1>10. \A k \in 1 .. c : \E i \in P : Cardinality(Upto(i)) = k
  BY <1>9 DEF Surjection
<1>11. \A k \in 1 .. c : Nth(P, k) \in P /\ Cardinality(Upto(Nth(P, k))) = k
  BY <1>10 DEF Nth, Upto
<1>12. \A i \in P : Nth(P, Cardinality(Upto(i))) = i
  BY <1>4, <1>6, <1>11
<1> QED
  BY <1>1, <1>4, <1>11, <1>12

\* What is kept is what was at those places, each element at one place.
LEMMA Kept ==
    ASSUME NEW S, NEW s \in Seq(S), NEW P \in SUBSET DOMAIN s
    PROVE  /\ Keeping(s, P) \in Seq(S)
           /\ \A k \in DOMAIN Keeping(s, P) :
                 Nth(P, k) \in P /\ Keeping(s, P)[k] = s[Nth(P, k)]
           /\ \A k, l \in DOMAIN Keeping(s, P) : Nth(P, k) = Nth(P, l) => k = l
           /\ \A i \in P : \E k \in DOMAIN Keeping(s, P) : Nth(P, k) = i
<1>1. Len(s) \in Nat /\ DOMAIN s = 1 .. Len(s) /\ \A i \in 1 .. Len(s) : s[i] \in S
  BY SMT
<1>2. /\ Cardinality(P) \in Nat
      /\ \A k \in 1 .. Cardinality(P) : Nth(P, k) \in P
      /\ \A k, l \in 1 .. Cardinality(P) : Nth(P, k) = Nth(P, l) => k = l
      /\ \A i \in P : \E k \in 1 .. Cardinality(P) : Nth(P, k) = i
  <2>1. Len(s) \in Nat /\ P \in SUBSET (1 .. Len(s))
    BY <1>1
  <2> QED
    BY ONLY <2>1, NthPlaces
<1>3. DOMAIN Keeping(s, P) = 1 .. Cardinality(P)
  BY DEF Keeping
<1>4. \A k \in 1 .. Cardinality(P) : Keeping(s, P)[k] = s[Nth(P, k)]
  BY DEF Keeping
<1>5. Keeping(s, P) \in [1 .. Cardinality(P) -> S]
  BY <1>1, <1>2 DEF Keeping
<1>6. Keeping(s, P) \in Seq(S)
  BY ONLY <1>2, <1>5, SMT
<1> QED
  BY <1>2, <1>3, <1>4, <1>6

\* A walker goes somewhere else.
LEMMA WalkerGoes ==
    ASSUME PageTypes, NEW w \in Walkers, NEW place \in Calls, GoTo(w, place)
    PROVE  /\ walker' \in [Walkers -> Calls]
           /\ walker'[w] = place
           /\ \A v \in Walkers : v # w => walker'[v] = walker[v]
  BY DEF PageTypes, GoTo

LEMMA FetchesUntouched ==
    ASSUME OneFetch, UNCHANGED <<waiting, running, fetching>>, Lacking' = Lacking
    PROVE  OneFetch'
<1>1. QueuedPages' = QueuedPages /\ Hands' = Hands /\ PagesInHand' = PagesInHand
  BY DEF QueuedPages, Hands, PagesInHand
<1> QED
  BY <1>1 DEF OneFetch

LEMMA CacheUntouched ==
    ASSUME OneEntry, m_cache' = m_cache
    PROVE  OneEntry' /\ Lacking' = Lacking
  BY DEF OneEntry, Lacking

\* Entries that change places, or of which some go that have their page.
CameFrom(f) ==
    /\ \A k \in DOMAIN m_cache' :
          f[k] \in DOMAIN m_cache /\ m_cache'[k] = m_cache[f[k]]
    /\ \A k, l \in DOMAIN m_cache' : f[k] = f[l] => k = l
    /\ \A j \in DOMAIN m_cache : ~m_cache[j].page =>
          \E k \in DOMAIN m_cache' : f[k] = j

LEMMA Rearranged ==
    ASSUME OneEntry, NEW f, CameFrom(f)
    PROVE  OneEntry' /\ Lacking' = Lacking
<1> USE DEF CameFrom
<1>1. OneEntry'
  <2> SUFFICES ASSUME NEW k \in DOMAIN m_cache', NEW l \in DOMAIN m_cache',
                      m_cache'[k].index = m_cache'[l].index
               PROVE  k = l
    BY DEF OneEntry
  <2>1. f[k] = f[l]
    BY DEF OneEntry
  <2> QED
    BY <2>1
<1>2. Lacking' = {m_cache'[k].index : k \in {l \in DOMAIN m_cache' : ~m_cache'[l].page}}
  BY DEF Lacking
<1>3. ASSUME NEW k \in DOMAIN m_cache', ~m_cache'[k].page
      PROVE  m_cache'[k].index \in Lacking
  <2>1. f[k] \in DOMAIN m_cache /\ m_cache'[k] = m_cache[f[k]]
    OBVIOUS
  <2> QED
    BY <1>3, <2>1 DEF Lacking
<1>4. ASSUME NEW j \in DOMAIN m_cache, ~m_cache[j].page
      PROVE  m_cache[j].index \in Lacking'
  <2>1. PICK k \in DOMAIN m_cache' : f[k] = j
    BY <1>4
  <2>2. m_cache'[k] = m_cache[j]
    BY <2>1
  <2> QED
    BY <1>2, <1>4, <2>2
<1>5. Lacking' \subseteq Lacking
  BY <1>2, <1>3
<1>6. Lacking \subseteq Lacking'
  BY <1>4 DEF Lacking
<1> QED
  BY <1>1, <1>5, <1>6

\* An entry that moves to the end is the only one of its page as before.
LEMMA CacheReordered ==
    ASSUME PageTypes, OneEntry, NEW i \in DOMAIN m_cache,
           m_cache' = Append(Keeping(m_cache, DOMAIN m_cache \ {i}), m_cache[i])
    PROVE  m_cache' \in Seq(Entry) /\ OneEntry' /\ Lacking' = Lacking
<1> DEFINE P == DOMAIN m_cache \ {i}
           kept == Keeping(m_cache, P)
           n == Len(kept)
           from == [k \in 1 .. (n + 1) |-> IF k \in 1 .. n THEN Nth(P, k) ELSE i]
<1>1. m_cache \in Seq(Entry) /\ m_cache[i] \in Entry
  <2>1. m_cache \in Seq(Entry)
    BY DEF PageTypes
  <2> QED
    BY <2>1, SMT
<1>2. /\ kept \in Seq(Entry)
      /\ \A k \in DOMAIN kept : Nth(P, k) \in P /\ kept[k] = m_cache[Nth(P, k)]
      /\ \A k, l \in DOMAIN kept : Nth(P, k) = Nth(P, l) => k = l
      /\ \A j \in P : \E k \in DOMAIN kept : Nth(P, k) = j
  <2>1. P \in SUBSET DOMAIN m_cache /\ m_cache \in Seq(Entry)
    BY <1>1
  <2> HIDE DEF P
  <2> QED
    BY ONLY <2>1, Kept
<1>3. m_cache' = Append(kept, m_cache[i])
  OBVIOUS
<1> HIDE DEF kept, P
<1>4. /\ n \in Nat /\ DOMAIN kept = 1 .. n
      /\ m_cache' \in Seq(Entry) /\ DOMAIN m_cache' = 1 .. (n + 1)
      /\ \A k \in 1 .. n : m_cache'[k] = kept[k]
      /\ m_cache'[n + 1] = m_cache[i]
  <2>1. kept \in Seq(Entry)
    BY <1>2
  <2> QED
    BY ONLY <1>1, <1>3, <2>1, SMT
<1>5. 1 .. (n + 1) = 1 .. n \cup {n + 1} /\ n + 1 \notin 1 .. n
  BY ONLY <1>4, SMT
<1> HIDE DEF n
<1>6. /\ from[n + 1] = i
      /\ \A k \in 1 .. n : from[k] = Nth(P, k)
  BY <1>5
<1>7. P \subseteq DOMAIN m_cache /\ i \notin P /\ DOMAIN m_cache = P \cup {i}
  BY DEF P
<1> HIDE DEF from
<1>8. /\ \A k \in 1 .. n : from[k] \in P /\ m_cache'[k] = m_cache[from[k]]
      /\ \A k, l \in 1 .. n : from[k] = from[l] => k = l
      /\ \A j \in P : \E k \in 1 .. n : from[k] = j
  <2>1. DOMAIN kept = 1 .. n
    BY <1>4
  <2>2. \A j \in P : \E k \in 1 .. n : Nth(P, k) = j
    BY <1>2, <2>1
  <2>3. \A j \in P : \E k \in 1 .. n : from[k] = j
    BY ONLY <1>6, <2>2
  <2>4. \A k \in 1 .. n : from[k] \in P /\ m_cache'[k] = m_cache[from[k]]
    BY ONLY <1>2, <1>4, <1>6, <2>1
  <2>5. \A k, l \in 1 .. n : from[k] = from[l] => k = l
    BY ONLY <1>2, <1>6, <2>1
  <2> QED
    BY ONLY <2>3, <2>4, <2>5
<1>9. \A k \in DOMAIN m_cache' : from[k] \in DOMAIN m_cache /\ m_cache'[k] = m_cache[from[k]]
  <2>1. ASSUME NEW k \in 1 .. n \cup {n + 1}
        PROVE  from[k] \in DOMAIN m_cache /\ m_cache'[k] = m_cache[from[k]]
    <3>1. CASE k \in 1 .. n
      BY ONLY <1>7, <1>8, <3>1
    <3>2. CASE k = n + 1
      BY ONLY <1>4, <1>6, <1>7, <3>2
    <3> QED
      BY ONLY <2>1, <3>1, <3>2
  <2> QED
    BY ONLY <1>4, <1>5, <2>1
<1>10. \A k, l \in DOMAIN m_cache' : from[k] = from[l] => k = l
  <2>1. ASSUME NEW k \in 1 .. n \cup {n + 1}, NEW l \in 1 .. n \cup {n + 1}, from[k] = from[l]
        PROVE  k = l
    <3>1. \A m \in 1 .. n : from[m] # i
      BY ONLY <1>7, <1>8
    <3> QED
      BY ONLY <1>6, <1>8, <2>1, <3>1
  <2> QED
    BY ONLY <1>4, <1>5, <2>1
<1>11. \A j \in DOMAIN m_cache : \E k \in DOMAIN m_cache' : from[k] = j
  <2>1. \A j \in P : \E k \in 1 .. n \cup {n + 1} : from[k] = j
    BY ONLY <1>8
  <2>2. \E k \in 1 .. n \cup {n + 1} : from[k] = i
    BY ONLY <1>6
  <2> QED
    BY ONLY <1>4, <1>5, <1>7, <2>1, <2>2
<1> QED
  <2>1. CameFrom(from)
    BY <1>9, <1>10, <1>11 DEF CameFrom
  <2> QED
    BY <1>4, <2>1, Rearranged

\* Eviction leaves the entries that lack their page.
LEMMA CacheShrunk ==
    ASSUME PageTypes, OneEntry, m_cache' = Keeping(m_cache, DOMAIN m_cache \ ToEvict)
    PROVE  m_cache' \in Seq(Entry) /\ OneEntry' /\ Lacking' = Lacking
<1> DEFINE P == DOMAIN m_cache \ ToEvict
           from == [k \in DOMAIN m_cache' |-> Nth(P, k)]
<1>1. m_cache \in Seq(Entry)
  BY DEF PageTypes
<1>2. P \subseteq DOMAIN m_cache /\ m_cache' = Keeping(m_cache, P)
  OBVIOUS
<1>3. \A j \in DOMAIN m_cache : ~m_cache[j].page => j \in P
  BY DEF ToEvict, Evictable
<1> HIDE DEF P
<1>4. /\ Keeping(m_cache, P) \in Seq(Entry)
      /\ \A k \in DOMAIN Keeping(m_cache, P) :
            Nth(P, k) \in P /\ Keeping(m_cache, P)[k] = m_cache[Nth(P, k)]
      /\ \A k, l \in DOMAIN Keeping(m_cache, P) : Nth(P, k) = Nth(P, l) => k = l
      /\ \A j \in P : \E k \in DOMAIN Keeping(m_cache, P) : Nth(P, k) = j
  <2>1. P \in SUBSET DOMAIN m_cache
    BY <1>2
  <2> QED
    BY ONLY <1>1, <2>1, Kept
<1>5. \A k \in DOMAIN m_cache' : from[k] = Nth(P, k)
  OBVIOUS
<1> HIDE DEF from
<1>6. \A k \in DOMAIN m_cache' : from[k] \in DOMAIN m_cache /\ m_cache'[k] = m_cache[from[k]]
  <2>1. ASSUME NEW k \in DOMAIN m_cache'
        PROVE  from[k] \in P /\ m_cache'[k] = m_cache[from[k]]
    <3>1. k \in DOMAIN Keeping(m_cache, P) /\ from[k] = Nth(P, k)
      BY ONLY <1>2, <1>5, <2>1
    <3>2. Nth(P, k) \in P /\ Keeping(m_cache, P)[k] = m_cache[Nth(P, k)]
      BY <1>4, <3>1
    <3> QED
      BY ONLY <1>2, <3>1, <3>2
  <2> QED
    BY ONLY <1>2, <2>1
<1>7. \A k, l \in DOMAIN m_cache' : from[k] = from[l] => k = l
  BY <1>2, <1>4, <1>5
<1>8. \A j \in DOMAIN m_cache : ~m_cache[j].page => \E k \in DOMAIN m_cache' : from[k] = j
  <2>1. \A j \in P : \E k \in DOMAIN m_cache' : Nth(P, k) = j
    BY ONLY <1>2, <1>4
  <2>2. \A j \in P : \E k \in DOMAIN m_cache' : from[k] = j
    BY ONLY <1>5, <2>1
  <2> QED
    BY ONLY <1>3, <2>2
<1>9. m_cache' \in Seq(Entry)
  BY <1>2, <1>4
<1> QED
  <2>1. CameFrom(from)
    BY <1>6, <1>7, <1>8 DEF CameFrom
  <2> QED
    BY <1>9, <2>1, Rearranged

-----------------------------------------------------------------------------
\* A page is noted: if it has no entry, nothing was on the way for it.
LEMMA PageNoted ==
    ASSUME PageAssumption, PageInv, NEW w \in Walkers, NotePage(w) PROVE PageInv'
<1> DEFINE first == walker[w] = "walking"
           pageNo == IF first THEN wants[w][asked[w] + 1] ELSE Head(wants[w])
<1>1. /\ wants \in [Walkers -> Seq(NodePages)] /\ asked \in [Walkers -> Nat]
      /\ walker \in [Walkers -> Calls] /\ fetching \in [Walkers -> NodePages \cup {NoPage}]
      /\ m_cache \in Seq(Entry)
  BY DEF PageInv, PageTypes
<1>2. /\ wants' = wants /\ waiting' = waiting /\ running' = running /\ open' = open
      /\ asked' = IF first THEN [asked EXCEPT ![w] = asked[w] + 1] ELSE asked
      /\ walker[w] \in {"walking", "missing"}
      /\ first => asked[w] < Len(wants[w])
  BY DEF NotePage, poolVars
<1>3. /\ asked[w] \in Nat /\ Len(wants[w]) \in Nat /\ wants[w] \in Seq(NodePages)
  <2>1. asked[w] \in Nat /\ wants[w] \in Seq(NodePages)
    BY <1>1
  <2> QED
    BY <2>1, SMT
<1>4. /\ walker[w] = "missing" => asked[w] = Len(wants[w]) /\ wants[w] # <<>>
      /\ fetching[w] = NoPage
      /\ asked[w] <= Len(wants[w])
  BY <1>2 DEF PageInv, WalkerInv
<1>5. pageNo \in NodePages
  <2>1. first => asked[w] + 1 \in 1 .. Len(wants[w])
    BY <1>2, <1>3, SMT
  <2>2. first => wants[w][asked[w] + 1] \in NodePages
    BY ONLY <1>3, <2>1, SMT
  <2>3. wants[w] # <<>> => Head(wants[w]) \in NodePages
    BY ONLY <1>3, SMT
  <2> QED
    BY <1>2, <1>4, <2>2, <2>3
<1>6. /\ asked' \in [Walkers -> Nat]
      /\ asked'[w] = IF first THEN asked[w] + 1 ELSE asked[w]
      /\ \A v \in Walkers : v # w => asked'[v] = asked[v]
  <2>1. asked[w] + 1 \in Nat
    BY <1>3, SMT
  <2> QED
    BY <1>1, <1>2, <2>1
<1>7. /\ asked'[w] <= Len(wants[w])
      /\ first /\ ~(asked'[w] < Len(wants[w])) => asked'[w] = Len(wants[w])
  BY ONLY <1>2, <1>3, <1>4, <1>6, SMT
<1>8. CASE InCache(pageNo) # {}
  <2> DEFINE place == IF first /\ asked'[w] < Len(wants[w]) THEN "walking" ELSE "getting"
  <2>1. GoTo(w, place) /\ fetching' = fetching /\ m_cache' = m_cache /\ place \in Calls
    BY <1>2, <1>8 DEF NotePage, Calls
  <2>2. /\ walker' \in [Walkers -> Calls] /\ walker'[w] = place
        /\ \A v \in Walkers : v # w => walker'[v] = walker[v]
    BY <2>1, WalkerGoes DEF PageInv
  <2>3. PageTypes'
    BY <1>1, <1>2, <1>6, <2>1, <2>2 DEF PageInv, PageTypes
  <2>4. WalkerInv'
    <3>1. place = "getting" => asked'[w] = Len(wants[w])
      BY <1>2, <1>4, <1>6, <1>7
    <3>2. place \in {"walking", "getting"}
      OBVIOUS
    <3> HIDE DEF place
    <3>3. ASSUME NEW v \in Walkers
          PROVE /\ asked'[v] <= Len(wants'[v])
                /\ walker'[v] \in {"getting", "asleep", "missing"} => asked'[v] = Len(wants'[v])
                /\ walker'[v] \in {"asleep", "missing"} => wants'[v] # <<>>
                /\ walker'[v] \in {"evicting", "adding"} <=> fetching'[v] # NoPage
      <4>1. CASE v = w
        BY <1>2, <1>4, <1>7, <2>1, <2>2, <3>1, <3>2, <4>1
      <4>2. CASE v # w
        BY <1>2, <1>6, <2>1, <2>2, <4>2 DEF PageInv, WalkerInv
      <4> QED
        BY <4>1, <4>2
    <3> QED
      BY <3>3 DEF WalkerInv
  <2>5. OneEntry' /\ OneFetch'
    BY <1>2, <2>1, CacheUntouched, FetchesUntouched DEF PageInv
  <2> QED
    BY <2>3, <2>4, <2>5 DEF PageInv
<1>9. CASE InCache(pageNo) = {}
  <2> DEFINE place == IF Len(m_cache') >= CacheSize THEN "evicting" ELSE "adding"
             entry == [index |-> pageNo, page |-> FALSE]
             n == Len(m_cache)
  <2> HIDE DEF pageNo
  <2>1. /\ GoTo(w, place) /\ fetching' = [fetching EXCEPT ![w] = pageNo]
        /\ m_cache' = Append(m_cache, entry)
        /\ place \in Calls /\ place \in {"evicting", "adding"}
    BY <1>2, <1>9 DEF NotePage, Calls, pageNo
  <2> HIDE DEF place
  <2>2. /\ walker' \in [Walkers -> Calls] /\ walker'[w] = place
        /\ \A v \in Walkers : v # w => walker'[v] = walker[v]
    BY <2>1, WalkerGoes DEF PageInv
  <2>3. entry \in Entry /\ entry.index = pageNo /\ ~entry.page
    BY <1>5 DEF Entry
  <2> HIDE DEF entry
  <2>4. /\ m_cache' \in Seq(Entry) /\ n \in Nat
        /\ DOMAIN m_cache = 1 .. n /\ DOMAIN m_cache' = 1 .. (n + 1)
        /\ \A i \in 1 .. n : m_cache'[i] = m_cache[i]
        /\ m_cache'[n + 1] = entry
    BY <1>1, <2>1, <2>3, SMT
  <2>5. 1 .. (n + 1) = 1 .. n \cup {n + 1} /\ n + 1 \notin 1 .. n
    BY <2>4, SMT
  <2>6. \A i \in 1 .. n : m_cache[i].index # pageNo
    BY <1>9, <2>4 DEF InCache, Cached
  <2>7. /\ fetching' \in [Walkers -> NodePages \cup {NoPage}] /\ fetching'[w] = pageNo
        /\ \A v \in Walkers : v # w => fetching'[v] = fetching[v]
    BY <1>1, <1>5, <2>1
  <2>8. pageNo # NoPage
    BY <1>5 DEF PageAssumption
  <2>9. PageTypes'
    BY <1>1, <1>2, <1>6, <2>2, <2>4, <2>7 DEF PageInv, PageTypes
  <2>10. WalkerInv'
    <3>1. ASSUME NEW v \in Walkers
          PROVE /\ asked'[v] <= Len(wants'[v])
                /\ walker'[v] \in {"getting", "asleep", "missing"} => asked'[v] = Len(wants'[v])
                /\ walker'[v] \in {"asleep", "missing"} => wants'[v] # <<>>
                /\ walker'[v] \in {"evicting", "adding"} <=> fetching'[v] # NoPage
      <4>1. CASE v = w
        BY <1>2, <1>4, <1>7, <2>1, <2>2, <2>7, <2>8, <4>1
      <4>2. CASE v # w
        BY <1>2, <1>6, <2>2, <2>7, <4>2 DEF PageInv, WalkerInv
      <4> QED
        BY <4>1, <4>2
    <3> QED
      BY <3>1 DEF WalkerInv
  <2>11. OneEntry'
    <3> SUFFICES ASSUME NEW i \in DOMAIN m_cache', NEW j \in DOMAIN m_cache',
                        m_cache'[i].index = m_cache'[j].index
                 PROVE  i = j
      BY DEF OneEntry
    <3>1. \A k, l \in 1 .. n : m_cache[k].index = m_cache[l].index => k = l
      BY <2>4 DEF PageInv, OneEntry
    <3> QED
      BY <2>3, <2>4, <2>5, <2>6, <3>1
  <2>12. Lacking' = Lacking \cup {pageNo} /\ pageNo \notin Lacking
    <3>1. Lacking' = {m_cache'[i].index : i \in {k \in DOMAIN m_cache' : ~m_cache'[k].page}}
      BY DEF Lacking
    <3>2. Lacking = {m_cache[i].index : i \in {k \in 1 .. n : ~m_cache[k].page}}
      BY <2>4 DEF Lacking
    <3>3. Lacking' = Lacking \cup {pageNo}
      BY <2>3, <2>4, <2>5, <3>1, <3>2
    <3> QED
      BY <2>6, <3>2, <3>3
  <2>13. Hands' = Hands \cup {w} /\ w \notin Hands
    BY <1>4, <2>7, <2>8 DEF Hands
  <2>14. PagesInHand' = PagesInHand \cup {pageNo}
    <3>1. PagesInHand' = {fetching'[v] : v \in Hands'}
      BY DEF PagesInHand
    <3>2. \A v \in Hands : fetching'[v] = fetching[v] /\ v \in Walkers
      BY <2>7, <2>13 DEF Hands
    <3> QED
      BY <2>7, <2>13, <3>1, <3>2 DEF PagesInHand
  <2>15. OneFetch'
    <3>1. QueuedPages' = QueuedPages
      BY <1>2 DEF QueuedPages
    <3>2. /\ Lacking = QueuedPages \cup running \cup PagesInHand /\ IsInjective(waiting)
          /\ QueuedPages \cap running = {} /\ QueuedPages \cap PagesInHand = {} /\ running \cap PagesInHand = {}
      BY DEF PageInv, OneFetch
    <3>3. \A v, u \in Hands' : fetching'[v] = fetching'[u] => v = u
      <4>1. \A v \in Hands : fetching'[v] = fetching[v] /\ fetching[v] # pageNo
        BY <2>7, <2>12, <2>13, <3>2 DEF Hands, PagesInHand
      <4> QED
        BY <2>7, <2>13, <4>1 DEF PageInv, OneFetch
    <3>4. IsInjective(waiting')
      BY <1>2, <3>2
    <3> QED
      BY <1>2, <2>12, <2>14, <3>1, <3>2, <3>3, <3>4 DEF OneFetch
  <2> QED
    BY <2>9, <2>10, <2>11, <2>15 DEF PageInv
<1> QED
  BY <1>8, <1>9

\* A walker goes on, and entries may change places or go.
LEMMA WalkerGoesOn ==
    ASSUME PageInv, NEW w \in Walkers, NEW place \in Calls, GoTo(w, place),
           UNCHANGED <<wants, asked, fetching, poolVars>>,
           m_cache' \in Seq(Entry), OneEntry', Lacking' = Lacking,
           place \in {"evicting", "adding"} <=> fetching[w] # NoPage,
           place \in {"getting", "asleep", "missing"} => asked[w] = Len(wants[w]),
           place \in {"asleep", "missing"} => wants[w] # <<>>
    PROVE  PageInv'
<1>1. /\ walker' \in [Walkers -> Calls] /\ walker'[w] = place
      /\ \A v \in Walkers : v # w => walker'[v] = walker[v]
  BY WalkerGoes DEF PageInv
<1>2. UNCHANGED <<wants, asked, fetching, waiting, running>>
  BY DEF poolVars
<1>3. PageTypes'
  BY <1>1, <1>2 DEF PageInv, PageTypes
<1>4. WalkerInv'
  BY <1>1, <1>2 DEF PageInv, WalkerInv
<1>5. OneFetch'
  BY <1>2, FetchesUntouched DEF PageInv
<1> QED
  BY <1>3, <1>4, <1>5 DEF PageInv

LEMMA EvictKept ==
    ASSUME PageInv, NEW w \in Walkers, Evict(w) PROVE PageInv'
<1>1. /\ walker[w] = "evicting" /\ GoTo(w, "adding") /\ "adding" \in Calls
      /\ m_cache' = Keeping(m_cache, DOMAIN m_cache \ ToEvict)
      /\ UNCHANGED <<wants, asked, fetching, poolVars>>
  BY DEF Evict, Calls
<1>2. m_cache' \in Seq(Entry) /\ OneEntry' /\ Lacking' = Lacking
  BY <1>1, CacheShrunk DEF PageInv
<1>3. fetching[w] # NoPage
  BY <1>1 DEF PageInv, WalkerInv
<1> QED
  BY <1>1, <1>2, <1>3, WalkerGoesOn

LEMMA WalkerRests ==
    ASSUME PageInv, NEW w \in Walkers, WalkEnds(w) \/ SpuriousWalker(w)
    PROVE  PageInv'
<1>1. m_cache' = m_cache /\ UNCHANGED <<wants, asked, fetching, poolVars>>
  BY DEF WalkEnds, SpuriousWalker
<1>2. m_cache' \in Seq(Entry) /\ OneEntry' /\ Lacking' = Lacking
  BY <1>1, CacheUntouched DEF PageInv, PageTypes
<1>3. CASE WalkEnds(w)
  <2>1. GoTo(w, "gone") /\ "gone" \in Calls /\ fetching[w] = NoPage
    BY <1>3 DEF WalkEnds, Calls, PageInv, WalkerInv
  <2> QED
    BY <1>1, <1>2, <2>1, WalkerGoesOn
<1>4. CASE SpuriousWalker(w)
  <2>1. /\ GoTo(w, "getting") /\ "getting" \in Calls /\ fetching[w] = NoPage
        /\ asked[w] = Len(wants[w])
    BY <1>4 DEF SpuriousWalker, Calls, PageInv, WalkerInv
  <2> QED
    BY <1>1, <1>2, <2>1, WalkerGoesOn
<1> QED
  BY <1>3, <1>4

\* The page in a walker's hand goes into the queue.
LEMMA AddFetchKept ==
    ASSUME PageInv, NEW w \in Walkers, AddFetch(w) PROVE PageInv'
<1> DEFINE x == fetching[w]
           place == AfterFetch(w)
<1>1. /\ walker[w] = "adding" /\ waiting' = waiting \o <<x>> /\ running' = running
      /\ fetching' = [fetching EXCEPT ![w] = NoPage] /\ GoTo(w, place)
      /\ wants' = wants /\ asked' = asked /\ m_cache' = m_cache
  BY DEF AddFetch, AddTasks
<1>2. /\ wants \in [Walkers -> Seq(NodePages)] /\ asked \in [Walkers -> Nat]
      /\ fetching \in [Walkers -> NodePages \cup {NoPage}] /\ waiting \in Seq(NodePages)
  BY DEF PageInv, PageTypes
<1>3. x # NoPage /\ x \in NodePages /\ asked[w] <= Len(wants[w]) /\ w \in Hands
  BY <1>1, <1>2 DEF PageInv, WalkerInv, Hands
<1>4. place \in {"walking", "getting"} /\ (place = "getting" => asked[w] = Len(wants[w]))
  <2>1. asked[w] \in Nat /\ wants[w] \in Seq(NodePages)
    BY <1>2
  <2>2. Len(wants[w]) \in Nat
    BY <2>1, SMT
  <2>3. ~(asked[w] < Len(wants[w])) => asked[w] = Len(wants[w])
    BY ONLY <1>3, <2>1, <2>2, SMT
  <2> QED
    BY <2>3 DEF AfterFetch
<1>5. /\ IsInjective(waiting) /\ QueuedPages \cap PagesInHand = {} /\ QueuedPages \cap running = {}
      /\ running \cap PagesInHand = {} /\ Lacking = QueuedPages \cup running \cup PagesInHand
      /\ \A v, u \in Hands : fetching[v] = fetching[u] => v = u
  BY DEF PageInv, OneFetch
<1>6. x \in PagesInHand /\ x \notin ToSet(waiting)
  BY <1>3, <1>5 DEF PagesInHand, QueuedPages
<1> HIDE DEF x, place
<1>7. waiting' = Append(waiting, x)
  BY ONLY <1>1, <1>2, <1>3, SMT
<1>8. /\ waiting' \in Seq(NodePages) /\ IsInjective(waiting') /\ QueuedPages' = QueuedPages \cup {x}
  <2>1. /\ Append(waiting, x) \in Seq(NodePages) /\ IsInjective(Append(waiting, x))
        /\ ToSet(Append(waiting, x)) = ToSet(waiting) \cup {x}
    BY <1>2, <1>3, <1>5, <1>6, Joins
  <2> QED
    BY <1>7, <2>1 DEF QueuedPages
<1>9. /\ fetching' \in [Walkers -> NodePages \cup {NoPage}] /\ fetching'[w] = NoPage
      /\ \A v \in Walkers : v # w => fetching'[v] = fetching[v]
  BY <1>1, <1>2
<1>10. Hands' = Hands \ {w} /\ \A v \in Hands' : fetching'[v] = fetching[v]
  BY <1>9 DEF Hands
<1>11. PagesInHand' = PagesInHand \ {x}
  <2>1. {fetching[v] : v \in Hands \ {w}} = {fetching[v] : v \in Hands} \ {fetching[w]}
    BY <1>3, <1>5, Dropped
  <2>2. PagesInHand' = {fetching[v] : v \in Hands \ {w}}
    BY <1>10 DEF PagesInHand
  <2> QED
    BY <2>1, <2>2 DEF PagesInHand, x
<1>12. /\ walker' \in [Walkers -> Calls] /\ walker'[w] = place
       /\ \A v \in Walkers : v # w => walker'[v] = walker[v]
  <2>1. place \in Calls
    BY <1>4 DEF Calls
  <2> QED
    BY <1>1, <2>1, WalkerGoes DEF PageInv
<1>13. PageTypes'
  BY <1>1, <1>8, <1>9, <1>12 DEF PageInv, PageTypes
<1>14. WalkerInv'
  <2>1. ASSUME NEW v \in Walkers
        PROVE /\ asked'[v] <= Len(wants'[v])
              /\ walker'[v] \in {"getting", "asleep", "missing"} => asked'[v] = Len(wants'[v])
              /\ walker'[v] \in {"asleep", "missing"} => wants'[v] # <<>>
              /\ walker'[v] \in {"evicting", "adding"} <=> fetching'[v] # NoPage
    <3>1. CASE v = w
      BY <1>1, <1>3, <1>4, <1>9, <1>12, <3>1
    <3>2. CASE v # w
      BY <1>1, <1>9, <1>12, <3>2 DEF PageInv, WalkerInv
    <3> QED
      BY <3>1, <3>2
  <2> QED
    BY <2>1 DEF WalkerInv
<1>15. OneEntry' /\ Lacking' = Lacking
  BY <1>1, CacheUntouched DEF PageInv
<1>16. OneFetch'
  <2>1. \A v, u \in Hands' : fetching'[v] = fetching'[u] => v = u
    BY <1>5, <1>10
  <2> QED
    BY <1>1, <1>5, <1>6, <1>8, <1>11, <1>15, <2>1 DEF OneFetch
<1> QED
  BY <1>13, <1>14, <1>15, <1>16 DEF PageInv

\* A thread takes the fetch that has waited longest.
LEMMA StartFetchKept ==
    ASSUME PageInv, NEW pageNo \in NodePages, StartFetch(pageNo) PROVE PageInv'
<1>1. /\ waiting # <<>> /\ pageNo = Head(waiting) /\ waiting' = Tail(waiting)
      /\ running' = running \cup {pageNo}
      /\ UNCHANGED <<wants, asked, walker, fetching, m_cache>>
  BY DEF StartFetch, StartTask, pageState
<1>2. waiting \in Seq(NodePages)
  BY DEF PageInv, PageTypes
<1>3. /\ IsInjective(waiting) /\ QueuedPages \cap PagesInHand = {} /\ QueuedPages \cap running = {}
      /\ running \cap PagesInHand = {} /\ Lacking = QueuedPages \cup running \cup PagesInHand
      /\ \A v, u \in Hands : fetching[v] = fetching[u] => v = u
  BY DEF PageInv, OneFetch
<1>4. /\ pageNo \in QueuedPages /\ waiting' \in Seq(NodePages) /\ IsInjective(waiting')
      /\ QueuedPages' = QueuedPages \ {pageNo}
  BY <1>1, <1>2, <1>3, LeavesQueue DEF QueuedPages
<1>5. PageTypes' /\ WalkerInv'
  BY <1>1, <1>4 DEF PageInv, PageTypes, WalkerInv
<1>6. OneEntry' /\ Lacking' = Lacking
  BY <1>1, CacheUntouched DEF PageInv
<1>7. Hands' = Hands /\ PagesInHand' = PagesInHand
  BY <1>1 DEF Hands, PagesInHand
<1>8. OneFetch'
  BY <1>1, <1>3, <1>4, <1>6, <1>7 DEF OneFetch
<1> QED
  BY <1>5, <1>6, <1>8 DEF PageInv

\* The page comes: its one entry lacks it no longer.
LEMMA PageComesKept ==
    ASSUME PageInv, NEW pageNo \in NodePages, PageComes(pageNo) PROVE PageInv'
<1> DEFINE here == [index |-> pageNo, page |-> TRUE]
<1>1. /\ pageNo \in running /\ running' = running \ {pageNo} /\ waiting' = waiting
      /\ walker' = [w \in Walkers |-> IF walker[w] = "asleep" THEN "getting" ELSE walker[w]]
      /\ wants' = wants /\ asked' = asked /\ fetching' = fetching
  BY DEF PageComes, FinishTask
<1>2. /\ IsInjective(waiting) /\ QueuedPages \cap PagesInHand = {} /\ QueuedPages \cap running = {}
      /\ running \cap PagesInHand = {} /\ Lacking = QueuedPages \cup running \cup PagesInHand
      /\ \A v, u \in Hands : fetching[v] = fetching[u] => v = u
  BY DEF PageInv, OneFetch
<1>3. PICK e \in DOMAIN m_cache : ~m_cache[e].page /\ m_cache[e].index = pageNo
  <2>1. pageNo \in Lacking
    BY <1>1, <1>2
  <2> QED
    BY <2>1 DEF Lacking
<1>4. \A i \in Cached(pageNo) : i = e
  BY <1>3 DEF Cached, PageInv, OneEntry
<1>5. m_cache' = [m_cache EXCEPT ![e] = here]
  <2>1. e \in Cached(pageNo)
    BY <1>3 DEF Cached
  <2> QED
    BY <1>4, <2>1 DEF PageComes, EntryOf
<1>6. here \in Entry /\ here.index = pageNo /\ here.page
  BY DEF Entry
<1> HIDE DEF here
<1>7. m_cache \in Seq(Entry) /\ walker \in [Walkers -> Calls]
  BY DEF PageInv, PageTypes
<1>8. /\ m_cache' \in Seq(Entry) /\ DOMAIN m_cache' = DOMAIN m_cache /\ m_cache'[e] = here
      /\ \A i \in DOMAIN m_cache : i # e => m_cache'[i] = m_cache[i]
  <2>1. m_cache' \in Seq(Entry)
    BY ONLY <1>3, <1>5, <1>6, <1>7, SMT
  <2>2. /\ DOMAIN m_cache' = DOMAIN m_cache /\ m_cache'[e] = here
        /\ \A i \in DOMAIN m_cache : i # e => m_cache'[i] = m_cache[i]
    BY ONLY <1>3, <1>5
  <2> QED
    BY <2>1, <2>2
<1>9. walker' \in [Walkers -> Calls]
  BY <1>1, <1>7 DEF Calls
<1>10. PageTypes'
  BY <1>1, <1>8, <1>9 DEF PageInv, PageTypes
<1>11. WalkerInv'
  BY <1>1 DEF PageInv, WalkerInv
<1>12. OneEntry'
  BY <1>3, <1>6, <1>8 DEF PageInv, OneEntry
<1>13. Lacking' = Lacking \ {pageNo}
  <2>1. Lacking' = {m_cache'[i].index : i \in {k \in DOMAIN m_cache' : ~m_cache'[k].page}}
    BY DEF Lacking
  <2>2. {k \in DOMAIN m_cache' : ~m_cache'[k].page}
           = {k \in DOMAIN m_cache : ~m_cache[k].page} \ {e}
    BY <1>6, <1>8
  <2>3. \A i, j \in {k \in DOMAIN m_cache : ~m_cache[k].page} :
            m_cache[i].index = m_cache[j].index => i = j
    BY DEF PageInv, OneEntry
  <2>4. \A i \in DOMAIN m_cache : i # e => m_cache'[i].index = m_cache[i].index
    BY <1>8
  <2>5. Lacking' = {m_cache[i].index : i \in {k \in DOMAIN m_cache : ~m_cache[k].page} \ {e}}
    BY <2>1, <2>2, <2>4
  <2> QED
    BY <1>3, <2>3, <2>5 DEF Lacking
<1>14. QueuedPages' = QueuedPages /\ Hands' = Hands /\ PagesInHand' = PagesInHand
  BY <1>1 DEF QueuedPages, Hands, PagesInHand
<1>15. OneFetch'
  BY <1>1, <1>2, <1>13, <1>14 DEF OneFetch
<1> QED
  BY <1>10, <1>11, <1>12, <1>15 DEF PageInv

\* A walker looks for its page: takes it, waits for it, or finds that it went.
LEMMA GetPageKept ==
    ASSUME PageInv, NEW w \in Walkers, GetPage(w) PROVE PageInv'
<1>1. /\ walker[w] = "getting" /\ wants[w] # <<>> /\ asked[w] = Len(wants[w])
      /\ fetching[w] = NoPage /\ UNCHANGED <<fetching, poolVars>>
  BY DEF GetPage, PageInv, WalkerInv
<1>2. {"missing", "asleep"} \subseteq Calls
  BY DEF Calls
<1>3. ASSUME Cached(Head(wants[w])) = {}, GoTo(w, "missing"),
             UNCHANGED <<wants, asked, m_cache>>
      PROVE  PageInv'
  <2>1. m_cache' \in Seq(Entry) /\ OneEntry' /\ Lacking' = Lacking
    BY <1>3, CacheUntouched DEF PageInv, PageTypes
  <2> QED
    BY <1>1, <1>2, <1>3, <2>1, WalkerGoesOn
<1>4. ASSUME NEW i \in EntryOf(Head(wants[w])),
             m_cache' = Append(Keeping(m_cache, DOMAIN m_cache \ {i}), m_cache[i])
      PROVE  m_cache' \in Seq(Entry) /\ OneEntry' /\ Lacking' = Lacking
  <2>1. i \in DOMAIN m_cache
    BY DEF EntryOf, Cached
  <2> QED
    BY <1>4, <2>1, CacheReordered DEF PageInv
<1>5. ASSUME NEW i \in EntryOf(Head(wants[w])),
             m_cache' = Append(Keeping(m_cache, DOMAIN m_cache \ {i}), m_cache[i]),
             GoTo(w, "asleep"), UNCHANGED <<wants, asked>>
      PROVE  PageInv'
  BY <1>1, <1>2, <1>4, <1>5, WalkerGoesOn
<1>6. ASSUME NEW i \in EntryOf(Head(wants[w])),
             m_cache' = Append(Keeping(m_cache, DOMAIN m_cache \ {i}), m_cache[i]),
             wants' = [wants EXCEPT ![w] = Tail(@)],
             asked' = [asked EXCEPT ![w] = @ - 1], UNCHANGED walker
      PROVE  PageInv'
  <2>1. m_cache' \in Seq(Entry) /\ OneEntry' /\ Lacking' = Lacking
    BY <1>4, <1>6
  <2>2. wants \in [Walkers -> Seq(NodePages)] /\ asked \in [Walkers -> Nat]
    BY DEF PageInv, PageTypes
  <2>3. /\ Tail(wants[w]) \in Seq(NodePages)
        /\ Len(wants[w]) \in Nat \ {0} /\ Len(Tail(wants[w])) = Len(wants[w]) - 1
    <3>1. wants[w] \in Seq(NodePages)
      BY <2>2
    <3> QED
      BY ONLY <1>1, <3>1, SMT
  <2>4. asked[w] - 1 \in Nat /\ asked[w] - 1 = Len(Tail(wants[w]))
    BY ONLY <1>1, <2>3, SMT
  <2>5. asked[w] - 1 <= Len(Tail(wants[w]))
    BY ONLY <2>4, SMT
  <2>6. /\ wants' \in [Walkers -> Seq(NodePages)] /\ asked' \in [Walkers -> Nat]
        /\ wants'[w] = Tail(wants[w]) /\ asked'[w] = asked[w] - 1
        /\ \A v \in Walkers : v # w => wants'[v] = wants[v] /\ asked'[v] = asked[v]
    BY <1>6, <2>2, <2>3, <2>4
  <2>7. UNCHANGED <<waiting, running, fetching>>
    BY <1>1 DEF poolVars
  <2>8. PageTypes'
    BY <1>6, <2>1, <2>6, <2>7 DEF PageInv, PageTypes
  <2>9. WalkerInv'
    <3>1. ASSUME NEW v \in Walkers
          PROVE /\ asked'[v] <= Len(wants'[v])
                /\ walker'[v] \in {"getting", "asleep", "missing"} => asked'[v] = Len(wants'[v])
                /\ walker'[v] \in {"asleep", "missing"} => wants'[v] # <<>>
                /\ walker'[v] \in {"evicting", "adding"} <=> fetching'[v] # NoPage
      <4>1. CASE v = w
        BY <1>1, <1>6, <2>4, <2>5, <2>6, <4>1
      <4>2. CASE v # w
        BY <1>1, <1>6, <2>6, <4>2 DEF PageInv, WalkerInv
      <4> QED
        BY <4>1, <4>2
    <3> QED
      BY <3>1 DEF WalkerInv
  <2>10. OneFetch'
    BY <2>1, <2>7, FetchesUntouched DEF PageInv
  <2> QED
    BY <2>1, <2>8, <2>9, <2>10 DEF PageInv
<1> QED
  BY <1>3, <1>5, <1>6 DEF GetPage

LEMMA InitPage ==
    ASSUME PageAssumption, NoTasks(TRUE), PageInit PROVE PageInv
<1> USE DEF NoTasks, PageInit, PageInitAt
<1>1. QueuedPages = {} /\ Hands = {} /\ PagesInHand = {} /\ Lacking = {}
  BY DEF QueuedPages, Hands, PagesInHand, Lacking, ToSet
<1>2. <<>> \in Seq(NodePages) /\ <<>> \in Seq(Entry) /\ 0 \in Nat /\ DOMAIN <<>> = {}
  OBVIOUS
<1>3. /\ wants \in [Walkers -> Seq(NodePages)] /\ "walking" \in Calls
      /\ asked \in [Walkers -> Nat]
  BY <1>2 DEF PageAssumption, Calls
<1>4. PageTypes
  BY <1>2, <1>3 DEF PageTypes
<1>5. \A w \in Walkers : 0 <= Len(wants[w])
  <2> TAKE w \in Walkers
  <2>1. wants[w] \in Seq(NodePages)
    BY <1>3
  <2> QED
    BY ONLY <2>1, SMT
<1>6. WalkerInv
  BY <1>5 DEF WalkerInv
<1>7. OneEntry
  BY <1>2 DEF OneEntry
<1>8. IsInjective(waiting)
  BY <1>2 DEF IsInjective
<1>9. OneFetch
  BY <1>1, <1>8 DEF OneFetch
<1> QED
  BY <1>4, <1>6, <1>7, <1>9 DEF PageInv

LEMMA PageStep ==
    ASSUME PageAssumption, PageInv, [PageNext]_pageVars PROVE PageInv'
<1>1. ASSUME NEW w \in Walkers, WalkerStep(w) \/ SpuriousWalker(w) PROVE PageInv'
  BY <1>1, PageNoted, EvictKept, AddFetchKept, GetPageKept, WalkerRests DEF WalkerStep
<1>2. ASSUME NEW pageNo \in NodePages, FetchStep(pageNo) PROVE PageInv'
  BY <1>2, StartFetchKept, PageComesKept DEF FetchStep
<1>3. CASE UNCHANGED pageVars
  <2>1. UNCHANGED <<wants, asked, walker, fetching, m_cache, waiting, running>>
    BY <1>3 DEF pageVars, pageState, poolVars
  <2>2. PageTypes' /\ WalkerInv'
    BY <2>1 DEF PageInv, PageTypes, WalkerInv
  <2>3. OneEntry' /\ OneFetch'
    BY <2>1, CacheUntouched, FetchesUntouched DEF PageInv
  <2> QED
    BY <2>2, <2>3 DEF PageInv
<1> QED
  BY <1>1, <1>2, <1>3 DEF PageNext, AllGone

\* PageHolds: the inductive invariant of the cache of node pages.
THEOREM PageHolds == ASSUME PageAssumption PROVE PageSpec => []PageInv
<1>1. NoTasks(TRUE) /\ PageInit => PageInv
  BY InitPage
<1>2. PageInv /\ [PageNext]_pageVars => PageInv'
  BY PageStep
<1> QED
  BY <1>1, <1>2, PTL DEF PageSpec

\* A set without two elements has size one if it has any.
LEMMA AtMostOne ==
    ASSUME NEW S, \A x, y \in S : x = y
    PROVE  Cardinality(S) = IF S = {} THEN 0 ELSE 1
<1>1. CASE S = {}
  BY <1>1, FS_EmptySet
<1>2. CASE S # {}
  <2>1. PICK x : x \in S
    BY <1>2
  <2>2. S = {x}
    BY <2>1
  <2> QED
    BY <1>2, <2>2, FS_Singleton
<1> QED
  BY <1>1, <1>2

\* A page that lacks has one fetch.
LEMMA PagesFetched == ASSUME PageAssumption PROVE PageInv => OneFetchEach
<1>1. ASSUME PageInv PROVE OneFetchEach
  <2> SUFFICES ASSUME NEW pageNo \in NodePages
               PROVE  /\ Cardinality(Cached(pageNo)) <= 1
                      /\ OnTheWay(pageNo)
                            = Cardinality({i \in Cached(pageNo) : ~m_cache[i].page})
    BY DEF OneFetchEach
  <2> DEFINE inQueue == {i \in DOMAIN waiting : waiting[i] = pageNo}
             inThread == {pageNo} \cap running
             inHand == AboutToFetch(pageNo)
             lacks == {i \in Cached(pageNo) : ~m_cache[i].page}
  <2>1. /\ IsInjective(waiting) /\ QueuedPages \cap PagesInHand = {} /\ QueuedPages \cap running = {}
        /\ running \cap PagesInHand = {} /\ Lacking = QueuedPages \cup running \cup PagesInHand
        /\ \A v, u \in Hands : fetching[v] = fetching[u] => v = u
    BY <1>1 DEF PageInv, OneFetch
  <2>2. /\ Cardinality(Cached(pageNo)) = IF Cached(pageNo) = {} THEN 0 ELSE 1
        /\ Cardinality(lacks) = IF lacks = {} THEN 0 ELSE 1
    <3>1. \A i, j \in Cached(pageNo) : i = j
      BY <1>1 DEF PageInv, OneEntry, Cached
    <3> QED
      BY <3>1, AtMostOne
  <2>3. Cardinality(inQueue) = IF inQueue = {} THEN 0 ELSE 1
    <3>1. \A i, j \in inQueue : i = j
      BY <2>1 DEF IsInjective
    <3> QED
      BY <3>1, AtMostOne
  <2>4. Cardinality(inThread) = IF inThread = {} THEN 0 ELSE 1
    BY AtMostOne
  <2>5. Cardinality(inHand) = IF inHand = {} THEN 0 ELSE 1
    <3>1. \A v, u \in inHand : v = u
      BY <2>1 DEF AboutToFetch, Hands, PageAssumption
    <3> QED
      BY <3>1, AtMostOne
  <2>6. inQueue # {} <=> pageNo \in QueuedPages
    BY DEF QueuedPages, ToSet
  <2>7. inThread # {} <=> pageNo \in running
    OBVIOUS
  <2>8. inHand # {} <=> pageNo \in PagesInHand
    BY DEF AboutToFetch, PagesInHand, Hands, PageAssumption
  <2>9. lacks # {} <=> pageNo \in Lacking
    BY DEF Cached, Lacking
  <2>10. OnTheWay(pageNo) = Cardinality(inQueue) + Cardinality(inThread) + Cardinality(inHand)
    BY DEF OnTheWay
  <2> HIDE DEF inQueue, inThread, inHand, lacks
  <2>11. Cardinality(Cached(pageNo)) <= 1
    BY ONLY <2>2, SMT
  <2>12. OnTheWay(pageNo) = Cardinality(lacks)
    <3> DEFINE q == pageNo \in QueuedPages
               t == pageNo \in running
               h == pageNo \in PagesInHand
               l == pageNo \in Lacking
    <3>1. ~(q /\ t) /\ ~(q /\ h) /\ ~(t /\ h) /\ (l <=> q \/ t \/ h)
      BY <2>1
    <3>2. /\ Cardinality(inQueue) = IF q THEN 1 ELSE 0
          /\ Cardinality(inThread) = IF t THEN 1 ELSE 0
          /\ Cardinality(inHand) = IF h THEN 1 ELSE 0
          /\ Cardinality(lacks) = IF l THEN 1 ELSE 0
      BY <2>2, <2>3, <2>4, <2>5, <2>6, <2>7, <2>8, <2>9
    <3> HIDE DEF q, t, h, l
    <3> QED
      BY ONLY <2>10, <3>1, <3>2, SMT
  <2> QED
    BY <2>11, <2>12 DEF lacks
<1>2. PageInv => OneFetchEach
  BY <1>1
<1> QED
  BY <1>2

\* PagesFetchedOnce: for any number of walkers and pages, and a cache of any
\* size, the cache has one entry for a page, and an entry waits for its page
\* exactly as long as one fetch of it is on the way.
THEOREM PagesFetchedOnce == ASSUME PageAssumption PROVE PageSpec => []OneFetchEach
  BY PagesFetched, PageHolds, PTL

-----------------------------------------------------------------------------
(***************************************************************************)
(* The pyramid of the COPC writer (Pyramid).                               *)
(*                                                                         *)
(* An octant that has not been written is popped, queued, complete, given  *)
(* to a Processor or left by one, and in one of these places.  No key of a *)
(* live octant is above another's, so when a parent takes the place of its *)
(* children there was no octant of that key, and no live octant is at or   *)
(* below a key that was written.  The points of the live octants below the *)
(* root and those written are the points of the cells; and a key written   *)
(* is below the root, a written key or an octant that must be written.     *)
(***************************************************************************)
Octants == [key : Seq(Directions), points : Nat, mustWrite : BOOLEAN]

\* Where octants are that have not been written yet.
PoppedOctants == IF runner = "processing" THEN {held} ELSE {}
QueuedOctants == ToSet(m_queue)
GivenOctants == UNION {voxels[key] : key \in Unprocessed}
LiveOctants == PoppedOctants \cup QueuedOctants \cup m_completes
               \cup processed \cup GivenOctants
OctantsApart ==
    /\ PoppedOctants \cap (QueuedOctants \cup m_completes \cup processed
                           \cup GivenOctants) = {}
    /\ QueuedOctants \cap (m_completes \cup processed \cup GivenOctants) = {}
    /\ m_completes \cap (processed \cup GivenOctants) = {}
    /\ processed \cap GivenOctants = {}

BelowRoot(octants) == {o \in octants : o.key # Root}
Counting == runner \in {"counting", "gone"}
RootOctants == IF Counting THEN {held} ELSE {}
ChildKeys(key) == {Child(key, d) : d \in Directions}
KeysOf(octants) == {o.key : o \in octants}

\* No two octants have one key, and none is above another.
Antichain(octants) ==
    /\ octants \subseteq Octants /\ IsFiniteSet(octants)
    /\ \A o \in octants : o.mustWrite => o.points > 0
    /\ \A o, p \in octants : o.key = p.key => o = p
    /\ \A o, p \in octants : o.key \notin Ancestors(p.key)

Unwritten(octants, written) ==
    \A o \in BelowRoot(octants) :
        ({o.key} \cup Ancestors(o.key)) \cap DOMAIN written = {}
RootWritten(octants, written) ==
    \A o \in octants :
        o.key = Root => Root \in DOMAIN written /\ o.points = written[Root]
Linked(octants, written) ==
    \A key \in DOMAIN written \ {Root} :
        \/ Parent(key) \in {Root} \cup DOMAIN written
        \/ \E o \in octants : o.key = Parent(key) /\ o.mustWrite

OctantInv ==
    /\ Antichain(LiveOctants)
    /\ OctantsApart
    /\ LiveOctants # {} => DOMAIN cells # {}

RunnerInv ==
    /\ runner \in {"queueing", "waiting", "processing", "counting", "gone"}
    /\ m_queue \in Seq(Octants)
    /\ IsInjective(m_queue)
    /\ \A o \in m_completes \cup PoppedOctants : o.key # Root
    /\ held \in Octants
    /\ runner \in {"queueing", "waiting"} => held = NoOctant
    /\ Counting => held.key = Root /\ LiveOctants = {}
    /\ runner = "queueing" => LiveOctants = {} /\ DOMAIN m_written = {}

VoxelInv ==
    /\ waiting \in Seq(DOMAIN voxels) /\ IsInjective(waiting)
    /\ DOMAIN voxels = ToSet(waiting) \cup running
    /\ ToSet(waiting) \cap running = {}
    /\ \A key \in DOMAIN voxels :
          /\ key \in Seq(Directions)
          /\ KeysOf(voxels[key]) = ChildKeys(key)
    /\ KeysOf(processed) \subseteq running
    /\ Directions # {} \/ DOMAIN voxels = {}

WrittenInv ==
    /\ IsFiniteSet(DOMAIN m_written)
    /\ m_written \in [DOMAIN m_written -> Nat]
    /\ DOMAIN m_written \subseteq Seq(Directions)
    /\ Unwritten(LiveOctants, m_written)
    /\ RootWritten(LiveOctants \cup RootOctants, m_written)
    /\ Linked(LiveOctants, m_written)

PointInv ==
    /\ m_totalPoints = SumFunction(m_written)
    /\ runner # "queueing" =>
          PointsOf(BelowRoot(LiveOctants)) + m_totalPoints = CellPoints
    /\ childCounts = IF runner = "gone" THEN DOMAIN m_written ELSE {}

PyramidInv == cells \in CellSets /\ OctantInv /\ RunnerInv /\ VoxelInv
              /\ WrittenInv /\ PointInv

-----------------------------------------------------------------------------
\* The keys as sequences.
LEMMA SameSequence ==
    ASSUME NEW S, NEW s \in Seq(S), NEW t \in Seq(S), Len(s) = Len(t),
           \A i \in 1 .. Len(s) : s[i] = t[i]
    PROVE  s = t
  OBVIOUS

LEMMA PrefixFacts ==
    ASSUME NEW S, NEW s \in Seq(S), NEW n \in 0 .. Len(s)
    PROVE  /\ SubSeq(s, 1, n) \in Seq(S) /\ Len(SubSeq(s, 1, n)) = n
           /\ \A i \in 1 .. n : SubSeq(s, 1, n)[i] = s[i]
  OBVIOUS

LEMMA PrefixOfPrefix ==
    ASSUME NEW S, NEW s \in Seq(S), NEW n \in 0 .. Len(s), NEW m \in 0 .. n
    PROVE  SubSeq(SubSeq(s, 1, n), 1, m) = SubSeq(s, 1, m)
<1> DEFINE p == SubSeq(s, 1, n)
           q == SubSeq(p, 1, m)
           r == SubSeq(s, 1, m)
<1>1. n \in Nat /\ m \in 0 .. Len(s) /\ m \in Nat /\ Len(s) \in Nat /\ m <= n
  BY SMT
<1>2. p \in Seq(S) /\ Len(p) = n /\ \A i \in 1 .. n : p[i] = s[i]
  BY PrefixFacts
<1>3. q \in Seq(S) /\ Len(q) = m /\ \A i \in 1 .. m : q[i] = p[i]
  <2> HIDE DEF p
  <2>1. m \in 0 .. Len(p)
    BY <1>2
  <2> QED
    BY <1>2, <2>1, PrefixFacts
<1>4. r \in Seq(S) /\ Len(r) = m /\ \A i \in 1 .. m : r[i] = s[i]
  BY <1>1, PrefixFacts
<1>5. \A i \in 1 .. m : i \in 1 .. n
  BY <1>1, SMT
<1> HIDE DEF p, q, r
<1>6. \A i \in 1 .. Len(q) : q[i] = r[i]
  BY <1>2, <1>3, <1>4, <1>5
<1>7. q = r
  BY ONLY <1>3, <1>4, <1>6, SameSequence
<1> QED
  BY <1>7 DEF p, q, r

\* The keys above a key.
LEMMA AboveFacts ==
    ASSUME NEW key \in Seq(Directions), NEW above \in Ancestors(key)
    PROVE  /\ above \in Seq(Directions) /\ Len(above) < Len(key)
           /\ above = SubSeq(key, 1, Len(above)) /\ above # key
<1>1. PICK n \in 0 .. Len(key) - 1 : above = SubSeq(key, 1, n)
  BY DEF Ancestors
<1>2. n \in 0 .. Len(key) /\ n < Len(key) /\ Len(key) \in Nat
  BY SMT
<1>3. above \in Seq(Directions) /\ Len(above) = n
  BY <1>1, <1>2, PrefixFacts
<1> QED
  BY <1>1, <1>2, <1>3, SMT

LEMMA PrefixIsAbove ==
    ASSUME NEW key \in Seq(Directions), NEW n \in Nat, n < Len(key)
    PROVE  SubSeq(key, 1, n) \in Ancestors(key)
<1>1. n \in 0 .. Len(key) - 1
  BY SMT
<1> QED
  BY <1>1 DEF Ancestors

LEMMA AboveAbove ==
    ASSUME NEW key \in Seq(Directions), NEW a \in Ancestors(key), NEW b \in Ancestors(a)
    PROVE  b \in Ancestors(key)
<1>1. a \in Seq(Directions) /\ Len(a) < Len(key) /\ a = SubSeq(key, 1, Len(a))
  BY AboveFacts
<1>2. Len(b) < Len(a) /\ b = SubSeq(a, 1, Len(b)) /\ b \in Seq(Directions)
  BY <1>1, AboveFacts
<1>3. /\ Len(a) \in 0 .. Len(key) /\ Len(b) \in 0 .. Len(a)
      /\ Len(b) \in Nat /\ Len(b) < Len(key)
  BY <1>1, <1>2, SMT
<1>4. SubSeq(SubSeq(key, 1, Len(a)), 1, Len(b)) = SubSeq(key, 1, Len(b))
  BY <1>3, PrefixOfPrefix
<1>5. b = SubSeq(key, 1, Len(b))
  BY <1>1, <1>2, <1>4
<1>6. SubSeq(key, 1, Len(b)) \in Ancestors(key)
  BY <1>3, PrefixIsAbove
<1> QED
  BY <1>5, <1>6

LEMMA RootAbove ==
    ASSUME NEW key \in Seq(Directions), key # Root
    PROVE  Root \in Ancestors(key)
<1>1. Len(key) \in Nat /\ 0 < Len(key) /\ SubSeq(key, 1, 0) = Root
  BY DEF Root
<1>2. SubSeq(key, 1, 0) \in Ancestors(key)
  BY <1>1, PrefixIsAbove
<1> QED
  BY <1>1, <1>2

LEMMA ChildFacts ==
    ASSUME NEW key \in Seq(Directions), NEW d \in Directions
    PROVE  /\ Child(key, d) \in Seq(Directions) /\ Child(key, d) # Root
           /\ Len(Child(key, d)) = Len(key) + 1
           /\ Parent(Child(key, d)) = key
           /\ key \in Ancestors(Child(key, d))
           /\ Child(key, d)[Len(key) + 1] = d
<1> DEFINE child == Child(key, d)
<1>1. /\ child \in Seq(Directions) /\ Len(child) = Len(key) + 1
      /\ child[Len(key) + 1] = d
      /\ \A i \in 1 .. Len(key) : child[i] = key[i]
  BY DEF Child
<1>2. child # Root /\ Len(key) \in 0 .. Len(child) /\ Len(child) - 1 = Len(key)
      /\ Len(key) \in Nat /\ Len(key) < Len(child)
  <2>1. Len(key) \in Nat
    OBVIOUS
  <2>2. Len(Root) = 0
    BY DEF Root
  <2> QED
    BY <1>1, <2>1, <2>2, SMT
<1> HIDE DEF child
<1>3. SubSeq(child, 1, Len(key)) = key
  <2>1. /\ SubSeq(child, 1, Len(key)) \in Seq(Directions)
        /\ Len(SubSeq(child, 1, Len(key))) = Len(key)
        /\ \A i \in 1 .. Len(key) : SubSeq(child, 1, Len(key))[i] = child[i]
    BY <1>1, <1>2, PrefixFacts
  <2> QED
    BY <1>1, <2>1, SameSequence
<1>4. Parent(child) = key
  BY <1>2, <1>3 DEF Parent, Front
<1>5. key \in Ancestors(child)
  BY <1>1, <1>2, <1>3, PrefixIsAbove
<1> QED
  BY <1>1, <1>2, <1>4, <1>5 DEF child

LEMMA ParentFacts ==
    ASSUME NEW key \in Seq(Directions), key # Root
    PROVE  /\ Parent(key) \in Seq(Directions) /\ Len(Parent(key)) = Len(key) - 1
           /\ key[Len(key)] \in Directions
           /\ key = Child(Parent(key), key[Len(key)])
           /\ Len(key) \in Nat \ {0}
<1> DEFINE parent == Parent(key)
           n == Len(key) - 1
           child == Child(parent, key[Len(key)])
<1>1. /\ Len(key) \in Nat \ {0} /\ n \in 0 .. Len(key) /\ n + 1 = Len(key)
      /\ Len(key) \in 1 .. Len(key)
  <2>1. Len(key) \in Nat /\ Len(key) # 0
    BY DEF Root
  <2> QED
    BY <2>1, SMT
<1>2. /\ parent \in Seq(Directions) /\ Len(parent) = n
      /\ \A i \in 1 .. n : parent[i] = key[i]
  BY <1>1, PrefixFacts DEF Parent, Front
<1>3. key[Len(key)] \in Directions
  BY <1>1
<1>4. /\ child \in Seq(Directions) /\ Len(child) = n + 1
      /\ child[n + 1] = key[n + 1]
      /\ \A i \in 1 .. n : child[i] = key[i]
  <2> HIDE DEF parent, n
  <2> QED
    BY <1>1, <1>2, <1>3 DEF Child
<1>5. child = key
  <2>1. \A i \in 1 .. Len(child) : i \in 1 .. n \/ i = n + 1
    <3>1. n \in Nat /\ Len(child) = n + 1
      BY <1>1, <1>4, SMT
    <3> HIDE DEF child, n
    <3> QED
      BY ONLY <3>1, SMT
  <2> HIDE DEF child, n
  <2>2. \A i \in 1 .. Len(child) : child[i] = key[i]
    BY <1>1, <1>4, <2>1
  <2> QED
    BY <1>1, <1>4, <2>2, SameSequence
<1> QED
  BY <1>1, <1>2, <1>3, <1>5

\* The keys above a child are its parent and those above that.
LEMMA AboveChild ==
    ASSUME NEW key \in Seq(Directions), NEW d \in Directions
    PROVE  Ancestors(Child(key, d)) = Ancestors(key) \cup {key}
<1> DEFINE child == Child(key, d)
<1>1. /\ child \in Seq(Directions) /\ Len(child) = Len(key) + 1
      /\ key \in Ancestors(child) /\ key = SubSeq(child, 1, Len(key))
  BY ChildFacts, AboveFacts
<1>2. Len(key) \in Nat
  OBVIOUS
<1> HIDE DEF child
<1>3. ASSUME NEW a \in Ancestors(child) PROVE a \in Ancestors(key) \cup {key}
  <2>1. a \in Seq(Directions) /\ Len(a) < Len(key) + 1 /\ a = SubSeq(child, 1, Len(a))
    BY <1>1, AboveFacts
  <2>2. Len(a) \in Nat /\ (Len(a) = Len(key) \/ Len(a) < Len(key))
        /\ Len(a) \in 0 .. Len(key) /\ Len(key) \in 0 .. Len(child)
    <3> DEFINE m == Len(a)
               n == Len(key)
               l == Len(child)
    <3>1. m \in Nat /\ n \in Nat /\ m < n + 1 /\ l = n + 1
      BY <1>1, <1>2, <2>1
    <3> HIDE DEF m, n, l
    <3>2. m \in Nat /\ (m = n \/ m < n) /\ m \in 0 .. n /\ n \in 0 .. l
      BY ONLY <3>1, SMT
    <3> QED
      BY <3>2 DEF m, n, l
  <2>3. CASE Len(a) = Len(key)
    BY <1>1, <2>1, <2>3
  <2>4. CASE Len(a) < Len(key)
    <3>1. SubSeq(SubSeq(child, 1, Len(key)), 1, Len(a)) = SubSeq(child, 1, Len(a))
      BY <1>1, <2>2, PrefixOfPrefix
    <3>2. a = SubSeq(key, 1, Len(a))
      BY <1>1, <2>1, <3>1
    <3> QED
      BY <2>2, <2>4, <3>2, PrefixIsAbove
  <2> QED
    BY <2>2, <2>3, <2>4
<1>4. Ancestors(key) \subseteq Ancestors(child)
  BY <1>1, AboveAbove
<1>5. Ancestors(child) = Ancestors(key) \cup {key}
  BY <1>1, <1>3, <1>4
<1> QED
  BY <1>5 DEF child

\* Below a key every key is a child of it, or below one.
LEMMA BelowIsBelowChild ==
    ASSUME NEW key \in Seq(Directions), NEW above \in Ancestors(key)
    PROVE  \E d \in Directions :
              key = Child(above, d) \/ Child(above, d) \in Ancestors(key)
<1> DEFINE n == Len(above)
           d == key[n + 1]
           child == SubSeq(key, 1, n + 1)
<1>1. /\ above \in Seq(Directions) /\ n < Len(key)
      /\ above = SubSeq(key, 1, n)
  BY AboveFacts
<1>2. /\ n \in Nat /\ Len(key) \in Nat /\ n + 1 \in 0 .. Len(key) /\ n + 1 \in 1 .. Len(key)
      /\ n + 1 \in Nat /\ n \in 0 .. Len(key) /\ (n + 1 = Len(key) \/ n + 1 < Len(key))
      /\ n + 1 \in 1 .. (n + 1) /\ \A i \in 1 .. n : i \in 1 .. (n + 1)
  <2>1. n \in Nat /\ Len(key) \in Nat
    BY <1>1
  <2> HIDE DEF n
  <2> QED
    BY <1>1, <2>1, SMT
<1>3. d \in Directions
  BY <1>2
<1>4. /\ child \in Seq(Directions) /\ Len(child) = n + 1
      /\ \A i \in 1 .. (n + 1) : child[i] = key[i]
  BY <1>2, PrefixFacts
<1>5. \A i \in 1 .. n : above[i] = key[i]
  <2>1. \A i \in 1 .. n : SubSeq(key, 1, n)[i] = key[i]
    BY <1>2, PrefixFacts
  <2> QED
    BY <1>1, <2>1
<1>6. child = Child(above, d)
  <2> DEFINE c == Child(above, d)
  <2>1. /\ c \in Seq(Directions) /\ Len(c) = n + 1 /\ c[n + 1] = d
        /\ \A i \in 1 .. n : c[i] = above[i]
    <3> HIDE DEF d
    <3> QED
      BY <1>1, <1>3 DEF Child
  <2>2. \A i \in 1 .. (n + 1) : i \in 1 .. n \/ i = n + 1
    BY <1>2, SMT
  <2> HIDE DEF c, child, n
  <2>3. \A i \in 1 .. Len(c) : c[i] = child[i]
    BY <1>4, <1>5, <2>1, <2>2, <1>2
  <2>4. c = child
    BY <1>4, <2>1, <2>3, SameSequence
  <2> QED
    BY <2>4 DEF c
<1>7. CASE n + 1 = Len(key)
  <2>1. child = key
    <3> HIDE DEF child, n
    <3> QED
      BY <1>4, <1>7, SameSequence
  <2> QED
    BY <1>3, <1>6, <2>1
<1>8. CASE n + 1 < Len(key)
  <2>1. child \in Ancestors(key)
    BY <1>2, <1>8, PrefixIsAbove
  <2> QED
    BY <1>3, <1>6, <2>1
<1> QED
  BY <1>2, <1>7, <1>8

\* The points of octants.
LEMMA PointsAre ==
    ASSUME NEW octants, IsFiniteSet(octants), octants \subseteq Octants,
           NEW some \in SUBSET octants
    PROVE  /\ PointsOf(some) = SumFunctionOnSet([o \in octants |-> o.points], some)
           /\ Counts([o \in octants |-> o.points], some)
           /\ IsFiniteSet(some)
           /\ PointsOf(some) \in Nat
<1> DEFINE f == [o \in octants |-> o.points]
           g == [o \in some |-> o.points]
<1>1. IsFiniteSet(some)
  BY FS_Subset
<1>2. Counts(g, some) /\ Counts(f, some) /\ \A o \in some : g[o] = f[o]
  BY DEF Counts, Octants
<1>3. PointsOf(some) = SumFunctionOnSet(g, some)
  BY DEF PointsOf, SumFunction
<1> HIDE DEF f, g
<1>4. SumFunctionOnSet(g, some) = SumFunctionOnSet(f, some)
  BY <1>1, <1>2, SumSame
<1>5. SumFunctionOnSet(f, some) \in Nat
  BY <1>1, <1>2, SumNat
<1> QED
  BY <1>1, <1>2, <1>3, <1>4, <1>5 DEF f

LEMMA PointsJoin ==
    ASSUME NEW A, NEW B, IsFiniteSet(A), IsFiniteSet(B), A \cap B = {},
           A \subseteq Octants, B \subseteq Octants
    PROVE  PointsOf(A \cup B) = PointsOf(A) + PointsOf(B)
<1> DEFINE f == [o \in A \cup B |-> o.points]
<1>1. IsFiniteSet(A \cup B) /\ A \cup B \subseteq Octants
  BY FS_Union
<1>2. /\ PointsOf(A) = SumFunctionOnSet(f, A) /\ Counts(f, A)
      /\ PointsOf(B) = SumFunctionOnSet(f, B) /\ Counts(f, B)
      /\ PointsOf(A \cup B) = SumFunctionOnSet(f, A \cup B)
  BY <1>1, PointsAre
<1> HIDE DEF f
<1> QED
  BY <1>2, SumUnion

LEMMA PointsOfOne ==
    ASSUME NEW o \in Octants
    PROVE  PointsOf({o}) = o.points /\ o.points \in Nat
<1> DEFINE f == [p \in {o} |-> p.points]
<1>1. IsFiniteSet({o}) /\ {o} \subseteq Octants
  BY FS_Singleton
<1>2. PointsOf({o}) = SumFunctionOnSet(f, {o}) /\ Counts(f, {o})
  BY <1>1, PointsAre
<1>3. f[o] = o.points /\ {o} \ {o} = {} /\ o.points \in Nat
  BY DEF Octants
<1> HIDE DEF f
<1>4. SumFunctionOnSet(f, {o}) = f[o] + SumFunctionOnSet(f, {})
  BY <1>1, <1>2, <1>3, SumWithout
<1>5. SumFunctionOnSet(f, {}) = 0
  BY SumOfNone
<1> QED
  BY <1>2, <1>3, <1>4, <1>5

LEMMA PointsOfNone == PointsOf({}) = 0
<1>1. DOMAIN [o \in {} |-> o.points] = {}
  OBVIOUS
<1> QED
  BY <1>1, SumOfNone DEF PointsOf, SumFunction

LEMMA PointsOfAny ==
    ASSUME NEW octants, IsFiniteSet(octants), octants \subseteq Octants,
           NEW o \in octants
    PROVE  o.points <= PointsOf(octants) /\ o.points \in Nat /\ PointsOf(octants) \in Nat
<1> DEFINE f == [p \in octants |-> p.points]
<1>1. /\ PointsOf(octants) = SumFunctionOnSet(f, octants) /\ Counts(f, octants)
      /\ PointsOf(octants) \in Nat
  BY PointsAre
<1>2. f[o] = o.points /\ o.points \in Nat
  BY DEF Octants
<1> HIDE DEF f
<1>3. f[o] <= SumFunctionOnSet(f, octants)
  BY <1>1, SumBounds
<1> QED
  BY <1>1, <1>2, <1>3

-----------------------------------------------------------------------------
\* An octant takes the place of all the children of its key.
Replaced(octants, children, o) == (octants \ children) \cup {o}

LEMMA OthersElsewhere ==
    ASSUME NEW octants, Antichain(octants), NEW children \in SUBSET octants,
           NEW key \in Seq(Directions), KeysOf(children) = ChildKeys(key),
           Directions # {}, NEW p \in octants \ children
    PROVE  /\ p.key # key /\ key \notin Ancestors(p.key)
           /\ p.key \notin Ancestors(key) /\ p.key # Root /\ key # Root
<1>1. PICK d \in Directions : TRUE
  OBVIOUS
<1>2. PICK c \in children : c.key = Child(key, d)
  BY <1>1 DEF KeysOf, ChildKeys
<1>3. key \in Ancestors(c.key) /\ c.key \in Seq(Directions) /\ p.key \in Seq(Directions)
  <2>1. c \in Octants /\ p \in Octants
    BY DEF Antichain
  <2> QED
    BY <1>2, <2>1, ChildFacts DEF Octants
<1>4. p.key # key
  BY <1>3 DEF Antichain
<1>5. p.key \notin Ancestors(key)
  <2>1. p.key \in Ancestors(key) => p.key \in Ancestors(c.key)
    BY <1>3, AboveAbove
  <2> QED
    BY <2>1 DEF Antichain
<1>6. key \notin Ancestors(p.key)
  <2> SUFFICES ASSUME key \in Ancestors(p.key) PROVE FALSE
    OBVIOUS
  <2>1. PICK e \in Directions :
            p.key = Child(key, e) \/ Child(key, e) \in Ancestors(p.key)
    BY <1>3, BelowIsBelowChild
  <2>2. PICK b \in children : b.key = Child(key, e)
    BY DEF KeysOf, ChildKeys
  <2>3. b \in octants /\ p \in octants /\ p # b
    BY <2>2
  <2> QED
    BY <2>1, <2>2, <2>3 DEF Antichain
<1>7. key # Root /\ p.key # Root
  <2>1. key = Root => FALSE
    BY <1>3, <1>4, <1>6, RootAbove
  <2>2. p.key = Root => FALSE
    BY <1>4, <1>5, RootAbove
  <2> QED
    BY <2>1, <2>2
<1> QED
  BY <1>4, <1>5, <1>6, <1>7

LEMMA ReplacedChildren ==
    ASSUME NEW octants, Antichain(octants), NEW children \in SUBSET octants,
           NEW o \in Octants, KeysOf(children) = ChildKeys(o.key),
           Directions # {}, o.mustWrite => o.points > 0
    PROVE  Antichain(Replaced(octants, children, o)) /\ o \notin octants \ children
<1> DEFINE rest == octants \ children
           new == rest \cup {o}
<1>1. o.key \in Seq(Directions)
  BY DEF Octants
<1>2. \A p \in rest : /\ p.key # o.key /\ o.key \notin Ancestors(p.key)
                      /\ p.key \notin Ancestors(o.key)
  BY <1>1, OthersElsewhere
<1>3. o.key \notin Ancestors(o.key)
  BY <1>1, AboveFacts
<1>4. IsFiniteSet(new) /\ new \subseteq Octants
  <2>1. IsFiniteSet(octants) /\ octants \subseteq Octants
    BY DEF Antichain
  <2>2. IsFiniteSet(rest)
    BY <2>1, FS_Subset
  <2> QED
    BY <2>1, <2>2, FS_AddElement
<1>5. \A p \in new : p.mustWrite => p.points > 0
  BY DEF Antichain
<1>6. \A p, q \in new : p.key = q.key => p = q
  BY <1>2 DEF Antichain
<1>7. \A p, q \in new : p.key \notin Ancestors(q.key)
  BY <1>2, <1>3 DEF Antichain
<1>8. o \notin rest
  BY <1>2
<1> HIDE DEF rest
<1>9. Antichain(new)
  BY <1>4, <1>5, <1>6, <1>7 DEF Antichain
<1> QED
  BY <1>8, <1>9 DEF Replaced, rest

\* At the root there are no others.
LEMMA RootAlone ==
    ASSUME NEW octants, Antichain(octants), NEW o \in octants, o.key = Root
    PROVE  octants = {o}
<1>1. ASSUME NEW p \in octants PROVE p = o
  <2>1. p.key \in Seq(Directions)
    BY DEF Antichain, Octants
  <2>2. p.key # Root => Root \in Ancestors(p.key)
    BY <2>1, RootAbove
  <2> QED
    BY <2>2 DEF Antichain
<1> QED
  BY <1>1

LEMMA ReplacedPoints ==
    ASSUME NEW octants, Antichain(octants), NEW children \in SUBSET octants,
           NEW o \in Octants, KeysOf(children) = ChildKeys(o.key),
           Directions # {}
    PROVE  /\ PointsOf(BelowRoot(octants)) \in Nat /\ PointsOf(children) \in Nat
           /\ PointsOf(BelowRoot(Replaced(octants, children, o))) + PointsOf(children)
                = PointsOf(BelowRoot(octants))
                  + (IF o.key = Root THEN 0 ELSE o.points)
<1> DEFINE rest == octants \ children
<1>1. IsFiniteSet(octants) /\ octants \subseteq Octants /\ o.key \in Seq(Directions)
  BY DEF Antichain, Octants
<1>2. /\ IsFiniteSet(rest) /\ rest \subseteq Octants
      /\ IsFiniteSet(children) /\ children \subseteq Octants
      /\ rest \cap children = {} /\ rest \cup children = octants
  BY <1>1, FS_Subset
<1>3. \A p \in rest : p.key # Root /\ p.key # o.key
  BY <1>1, OthersElsewhere
<1>4. \A c \in children : c.key # Root
  <2> SUFFICES ASSUME NEW c \in children PROVE c.key # Root
    OBVIOUS
  <2>1. PICK d \in Directions : c.key = Child(o.key, d)
    BY DEF KeysOf, ChildKeys
  <2> QED
    BY <1>1, <2>1, ChildFacts
<1>5. BelowRoot(octants) = octants
  BY <1>3, <1>4 DEF BelowRoot
<1>6. PointsOf(octants) = PointsOf(rest) + PointsOf(children)
  <2>1. PointsOf(rest \cup children) = PointsOf(rest) + PointsOf(children)
    BY <1>2, PointsJoin
  <2> QED
    BY <1>2, <2>1
<1>7. PointsOf(rest) \in Nat /\ PointsOf(children) \in Nat /\ PointsOf(octants) \in Nat
  BY <1>1, PointsAre
<1>8. CASE o.key = Root
  <2>1. BelowRoot(Replaced(octants, children, o)) = rest
    BY <1>3, <1>8 DEF BelowRoot, Replaced
  <2> QED
    BY <1>5, <1>6, <1>7, <1>8, <2>1
<1>9. CASE o.key # Root
  <2>1. BelowRoot(Replaced(octants, children, o)) = rest \cup {o} /\ o \notin rest
    BY <1>3, <1>9 DEF BelowRoot, Replaced
  <2>2. PointsOf({o}) = o.points /\ o.points \in Nat /\ IsFiniteSet({o})
    BY PointsOfOne, FS_Singleton
  <2>3. PointsOf(rest \cup {o}) = PointsOf(rest) + PointsOf({o})
    <3>1. rest \cap {o} = {} /\ {o} \subseteq Octants
      BY <2>1
    <3> HIDE DEF rest
    <3> QED
      BY <1>2, <2>2, <3>1, PointsJoin
  <2> HIDE DEF rest
  <2> QED
    BY <1>5, <1>6, <1>7, <1>9, <2>1, <2>2, <2>3
<1> QED
  BY <1>8, <1>9

-----------------------------------------------------------------------------
Working == runner \in {"waiting", "processing"}

\* A step that moves octants from place to place.
LEMMA OctantsStay ==
    ASSUME cells \in CellSets, OctantInv, WrittenInv, PointInv,
           LiveOctants' = LiveOctants, OctantsApart',
           UNCHANGED <<cells, m_written, m_totalPoints, childCounts>>,
           Working, Working'
    PROVE  cells' \in CellSets /\ OctantInv' /\ WrittenInv' /\ PointInv'
<1>1. RootOctants = {} /\ RootOctants' = {} /\ runner # "gone" /\ runner' # "gone"
      /\ runner # "queueing"
  BY DEF RootOctants, Working, Counting
<1>2. CellPoints' = CellPoints
  BY DEF CellPoints
<1>3. OctantInv'
  BY DEF OctantInv
<1>4. WrittenInv'
  BY <1>1 DEF WrittenInv
<1>5. PointInv'
  BY <1>1, <1>2 DEF PointInv
<1> QED
  BY <1>3, <1>4, <1>5

LEMMA OctantTaken == PyramidInv /\ TakeOctant => PyramidInv'
<1> SUFFICES ASSUME PyramidInv, TakeOctant PROVE PyramidInv'
  OBVIOUS
<1> USE DEF PyramidInv
<1> DEFINE o == Head(m_queue)
<1>1. /\ o \in Octants /\ o \in QueuedOctants
      /\ Tail(m_queue) \in Seq(Octants) /\ IsInjective(Tail(m_queue))
      /\ QueuedOctants' = QueuedOctants \ {o} /\ held' = o
  <2>1. m_queue \in Seq(Octants) /\ IsInjective(m_queue) /\ m_queue # <<>>
        /\ m_queue' = Tail(m_queue)
    BY DEF TakeOctant, RunnerInv
  <2> QED
    BY <2>1, LeavesQueue DEF TakeOctant, QueuedOctants
<1>2. PoppedOctants = {} /\ RootOctants = {} /\ Working /\ runner = "waiting"
  BY DEF TakeOctant, PoppedOctants, RootOctants, Counting, Working
<1>3. /\ GivenOctants' = GivenOctants /\ processed' = processed
      /\ m_completes' = m_completes
  BY DEF TakeOctant, GivenOctants, Unprocessed
<1>4. VoxelInv'
  BY DEF TakeOctant, VoxelInv, poolVars
<1>5. o \notin m_completes \cup processed \cup GivenOctants
  BY <1>1 DEF OctantInv, OctantsApart
<1>6. CASE o.key # Root
  <2>1. runner' = "processing" /\ PoppedOctants' = {o}
    BY <1>1, <1>6 DEF TakeOctant, PoppedOctants
  <2>2. OctantsApart'
    BY <1>1, <1>2, <1>3, <1>5, <2>1 DEF OctantInv, OctantsApart
  <2>3. LiveOctants' = LiveOctants
    BY <1>1, <1>2, <1>3, <2>1 DEF LiveOctants
  <2>4. RunnerInv'
    BY <1>1, <1>2, <1>3, <1>6, <2>1, <2>3 DEF RunnerInv, Counting, TakeOctant
  <2> QED
    BY <1>2, <1>4, <2>1, <2>2, <2>3, <2>4, OctantsStay DEF TakeOctant, Working
<1>7. CASE o.key = Root
  <2>1. runner' = "counting" /\ PoppedOctants' = {} /\ RootOctants' = {o} /\ Counting'
    BY <1>1, <1>7 DEF TakeOctant, PoppedOctants, RootOctants, Counting
  <2>2. LiveOctants = {o}
    <3>1. o \in LiveOctants
      BY <1>1 DEF LiveOctants
    <3> QED
      BY <1>7, <3>1, RootAlone DEF OctantInv
  <2>3. LiveOctants' = {}
    BY <1>1, <1>3, <1>5, <2>1, <2>2 DEF LiveOctants
  <2>4. OctantInv'
    <3>1. OctantsApart'
      BY <2>3 DEF LiveOctants, OctantsApart
    <3> QED
      BY <2>3, <3>1, FS_EmptySet DEF OctantInv, Antichain
  <2>5. RunnerInv'
    BY <1>1, <1>3, <1>7, <2>1, <2>3 DEF RunnerInv, TakeOctant, LiveOctants
  <2>6. WrittenInv'
    <3>1. m_written' = m_written
      BY DEF TakeOctant
    <3>2. Unwritten({}, m_written)
      BY DEF Unwritten, BelowRoot
    <3>3. RootWritten({o}, m_written)
      BY <2>2 DEF WrittenInv, RootWritten
    <3>4. Linked({}, m_written)
      BY <1>7, <2>2 DEF WrittenInv, Linked
    <3> QED
      BY <2>1, <2>3, <3>1, <3>2, <3>3, <3>4 DEF WrittenInv
  <2>7. PointInv'
    <3>1. BelowRoot({o}) = {} /\ BelowRoot({}) = {} /\ CellPoints' = CellPoints
      BY <1>7 DEF BelowRoot, CellPoints, TakeOctant
    <3> QED
      BY <1>2, <2>1, <2>2, <2>3, <3>1 DEF PointInv, TakeOctant
  <2> QED
    BY <1>4, <2>4, <2>5, <2>6, <2>7 DEF TakeOctant
<1> QED
  BY <1>6, <1>7

\* The octants given to a Processor that has not written are live.
LEMMA GivenFacts ==
    ASSUME VoxelInv, OctantInv, NEW key \in Unprocessed
    PROVE  /\ key \in DOMAIN voxels /\ key \in Seq(Directions) /\ Directions # {}
           /\ voxels[key] \subseteq GivenOctants /\ voxels[key] \subseteq LiveOctants
           /\ KeysOf(voxels[key]) = ChildKeys(key)
           /\ \A other \in Unprocessed \ {key} : voxels[other] \cap voxels[key] = {}
<1>1. key \in DOMAIN voxels /\ key \in Seq(Directions) /\ Directions # {}
      /\ KeysOf(voxels[key]) = ChildKeys(key)
  BY DEF Unprocessed, VoxelInv
<1>2. voxels[key] \subseteq GivenOctants /\ voxels[key] \subseteq LiveOctants
  BY DEF GivenOctants, LiveOctants
<1>3. ASSUME NEW other \in Unprocessed \ {key}, NEW o \in voxels[other] \cap voxels[key]
      PROVE  FALSE
  <2>1. other \in Seq(Directions) /\ KeysOf(voxels[other]) = ChildKeys(other)
    BY DEF Unprocessed, VoxelInv
  <2>2. o.key \in ChildKeys(key) /\ o.key \in ChildKeys(other)
    BY <1>1, <2>1 DEF KeysOf
  <2>3. PICK d \in Directions : o.key = Child(key, d)
    BY <2>2 DEF ChildKeys
  <2>4. PICK e \in Directions : o.key = Child(other, e)
    BY <2>2 DEF ChildKeys
  <2>5. Parent(o.key) = key /\ Parent(o.key) = other
    BY <1>1, <2>1, <2>3, <2>4, ChildFacts
  <2> QED
    BY <2>5
<1> QED
  BY <1>1, <1>2, <1>3

LEMMA VoxelStarts ==
    ASSUME NEW key PROVE PyramidInv /\ StartVoxel(key) => PyramidInv'
<1> SUFFICES ASSUME PyramidInv, StartVoxel(key) PROVE PyramidInv'
  OBVIOUS
<1> USE DEF PyramidInv
<1>1. UNCHANGED <<cells, runner, held, m_queue, m_completes, voxels, processed,
                  m_written, m_totalPoints, childCounts>>
  BY DEF StartVoxel, pyramidState
<1>2. /\ LiveOctants' = LiveOctants /\ OctantsApart' = OctantsApart /\ PoppedOctants' = PoppedOctants
      /\ RootOctants' = RootOctants /\ CellPoints' = CellPoints
  BY <1>1 DEF LiveOctants, OctantsApart, PoppedOctants, QueuedOctants, GivenOctants,
              Unprocessed, RootOctants, Counting, CellPoints
<1>3. OctantInv' /\ RunnerInv' /\ WrittenInv' /\ PointInv'
  BY <1>1, <1>2 DEF OctantInv, RunnerInv, WrittenInv, PointInv, Counting
<1>4. VoxelInv'
  <2>1. /\ waiting # <<>> /\ key = Head(waiting) /\ waiting' = Tail(waiting)
        /\ running' = running \cup {key}
    BY DEF StartVoxel, StartTask
  <2>2. /\ waiting \in Seq(DOMAIN voxels) /\ IsInjective(waiting)
    BY DEF VoxelInv
  <2>3. /\ Tail(waiting) \in Seq(DOMAIN voxels) /\ IsInjective(Tail(waiting))
        /\ key \in ToSet(waiting) /\ ToSet(Tail(waiting)) = ToSet(waiting) \ {key}
    BY <2>1, <2>2, LeavesQueue
  <2> QED
    BY <1>1, <2>1, <2>3 DEF VoxelInv, KeysOf
<1> QED
  BY <1>1, <1>3, <1>4

LEMMA VoxelQueued ==
    ASSUME NEW key PROVE PyramidInv /\ QueueVoxel(key) => PyramidInv'
<1> SUFFICES ASSUME PyramidInv, QueueVoxel(key) PROVE PyramidInv'
  OBVIOUS
<1> USE DEF PyramidInv
<1>1. PICK o \in processed : /\ o.key = key
                             /\ m_queue' = Append(m_queue, o)
                             /\ processed' = processed \ {o}
  BY DEF QueueVoxel
<1>2. /\ UNCHANGED <<cells, runner, held, m_completes, m_written, m_totalPoints,
                     childCounts>>
      /\ voxels' = [k \in DOMAIN voxels \ {key} |-> voxels[k]]
      /\ key \in running /\ running' = running \ {key} /\ waiting' = waiting
  BY DEF QueueVoxel, FinishTask
<1>3. o \in LiveOctants /\ o \in Octants /\ o \notin QueuedOctants
      /\ o \notin PoppedOctants \cup m_completes \cup GivenOctants
  BY DEF LiveOctants, OctantInv, Antichain, OctantsApart
<1>4. Working
  BY <1>3 DEF RunnerInv, Counting, Working
<1>5. /\ m_queue' \in Seq(Octants) /\ IsInjective(m_queue')
      /\ QueuedOctants' = QueuedOctants \cup {o}
  <2>1. m_queue \in Seq(Octants) /\ IsInjective(m_queue)
    BY DEF RunnerInv
  <2> QED
    BY <1>1, <1>3, <2>1, Joins DEF QueuedOctants
<1>6. \A p \in processed : p.key = key => p = o
  BY <1>1 DEF LiveOctants, OctantInv, Antichain
<1>7. Unprocessed' = Unprocessed /\ key \notin Unprocessed
  BY <1>1, <1>2, <1>6 DEF Unprocessed
<1>8. GivenOctants' = GivenOctants
  <2>1. \A k \in Unprocessed : voxels'[k] = voxels[k]
    BY <1>2, <1>7 DEF Unprocessed
  <2> QED
    BY <1>7, <2>1 DEF GivenOctants
<1>9. PoppedOctants' = PoppedOctants
  BY <1>2 DEF PoppedOctants
<1>10. LiveOctants' = LiveOctants /\ OctantsApart'
  BY <1>1, <1>2, <1>3, <1>5, <1>8, <1>9 DEF LiveOctants, OctantsApart, OctantInv
<1>11. cells' \in CellSets /\ OctantInv' /\ WrittenInv' /\ PointInv'
  BY <1>2, <1>4, <1>10, OctantsStay DEF Working
<1>12. RunnerInv'
  BY <1>2, <1>4, <1>5, <1>9, <1>10 DEF RunnerInv, Working, Counting
<1>13. VoxelInv'
  <2>1. key \notin ToSet(waiting) /\ key \in DOMAIN voxels
    BY <1>2 DEF VoxelInv
  <2>2. waiting \in Seq(DOMAIN voxels')
    <3>1. waiting \in Seq(DOMAIN voxels) /\ \A i \in 1 .. Len(waiting) : waiting[i] # key
      BY <2>1 DEF VoxelInv, ToSet
    <3>2. DOMAIN voxels' = DOMAIN voxels \ {key}
      BY <1>2
    <3> QED
      BY <3>1, <3>2
  <2>3. DOMAIN voxels' = DOMAIN voxels \ {key}
        /\ \A k \in DOMAIN voxels' : voxels'[k] = voxels[k]
    BY <1>2
  <2>4. KeysOf(processed') \subseteq running'
    BY <1>1, <1>2, <1>6 DEF VoxelInv, KeysOf
  <2> QED
    BY <1>2, <2>1, <2>2, <2>3, <2>4 DEF VoxelInv
<1> QED
  BY <1>11, <1>12, <1>13

LEMMA RunnerFinishes == PyramidInv /\ Finish => PyramidInv'
<1> SUFFICES ASSUME PyramidInv, Finish PROVE PyramidInv'
  OBVIOUS
<1> USE DEF PyramidInv
<1>1. /\ runner = "counting" /\ runner' = "gone"
      /\ UNCHANGED <<cells, held, m_queue, m_completes, voxels, processed,
                     m_written, m_totalPoints, poolVars>>
      /\ childCounts' = {Root} \cup
           {key \in DOMAIN m_written :
               Ancestors(key) \ {Root} \subseteq DOMAIN m_written}
  BY DEF Finish
<1>2. /\ PoppedOctants' = PoppedOctants /\ QueuedOctants' = QueuedOctants
      /\ GivenOctants' = GivenOctants /\ RootOctants' = RootOctants
      /\ CellPoints' = CellPoints /\ Counting /\ Counting'
  BY <1>1 DEF PoppedOctants, QueuedOctants, GivenOctants, Unprocessed,
              RootOctants, Counting, CellPoints
<1>3. LiveOctants' = LiveOctants /\ OctantsApart' = OctantsApart /\ LiveOctants = {}
  BY <1>1, <1>2 DEF LiveOctants, OctantsApart, RunnerInv
<1>4. OctantInv' /\ WrittenInv' /\ VoxelInv'
  BY <1>1, <1>2, <1>3 DEF OctantInv, WrittenInv, VoxelInv, poolVars
<1>5. RunnerInv'
  BY <1>1, <1>2, <1>3 DEF RunnerInv
<1>6. Root \in DOMAIN m_written
  BY <1>2 DEF RootOctants, WrittenInv, RootWritten, RunnerInv
<1>7. ASSUME NEW key \in DOMAIN m_written
      PROVE  Ancestors(key) \ {Root} \subseteq DOMAIN m_written
  <2> DEFINE bad == (Ancestors(key) \ {Root}) \ DOMAIN m_written
             lengths == {Len(a) : a \in bad}
  <2>1. key \in Seq(Directions) /\ Len(key) \in Nat
    BY DEF WrittenInv
  <2>2. \A a \in bad : a \in Seq(Directions) /\ Len(a) \in Nat /\ Len(a) <= Len(key)
    <3>1. \A a \in bad : a \in Seq(Directions) /\ Len(a) < Len(key)
      BY <2>1, AboveFacts
    <3> QED
      BY <2>1, <3>1
  <2>3. \A k \in DOMAIN m_written \ {Root} : Parent(k) \in {Root} \cup DOMAIN m_written
    BY <1>3 DEF WrittenInv, Linked
  <2> SUFFICES ASSUME bad # {} PROVE FALSE
    OBVIOUS
  <2>4. PICK m \in lengths : \A n \in lengths : n <= m
    <3>1. lengths # {}
      OBVIOUS
    <3>2. ASSUME NEW n \in lengths PROVE n \in 0 .. Len(key)
      <4>1. n \in Nat /\ n <= Len(key)
        BY <2>2
      <4> QED
        BY <2>1, <4>1
    <3>3. lengths \subseteq 0 .. Len(key)
      BY <3>2
    <3> HIDE DEF lengths
    <3> QED
      BY <2>1, <3>1, <3>3, GreatestMember
  <2>5. PICK a \in bad : Len(a) = m
    BY <2>4
  <2>6. PICK d \in Directions : key = Child(a, d) \/ Child(a, d) \in Ancestors(key)
    BY <2>1, <2>5, BelowIsBelowChild
  <2>7. /\ Child(a, d) # Root /\ Parent(Child(a, d)) = a
        /\ Len(Child(a, d)) = m + 1
    BY <2>2, <2>5, ChildFacts
  <2>8. Child(a, d) \in DOMAIN m_written
    <3>1. m \in Nat
      BY <2>2, <2>5
    <3>2. Child(a, d) \notin bad
      <4> SUFFICES ASSUME Child(a, d) \in bad PROVE FALSE
        OBVIOUS
      <4>1. m + 1 \in lengths
        BY <2>7
      <4> HIDE DEF lengths
      <4> QED
        BY <2>4, <3>1, <4>1
    <3> QED
      BY <2>6, <2>7, <3>2
  <2> QED
    BY <2>3, <2>5, <2>7, <2>8
<1>8. childCounts' = DOMAIN m_written
  BY <1>1, <1>6, <1>7
<1>9. PointInv'
  BY <1>1, <1>2, <1>3, <1>8 DEF PointInv
<1> QED
  BY <1>1, <1>4, <1>5, <1>9

\* There are as many keys below a key as directions.
LEMMA ChildKeysCounted ==
    ASSUME IsFiniteSet(Directions), NEW key \in Seq(Directions)
    PROVE  /\ IsFiniteSet(ChildKeys(key))
           /\ Cardinality(ChildKeys(key)) = Cardinality(Directions)
<1> DEFINE f == [d \in Directions |-> Child(key, d)]
<1>1. f \in Surjection(Directions, ChildKeys(key))
  BY DEF Surjection, ChildKeys
<1>2. f \in Injection(Directions, ChildKeys(key))
  <2>1. \A d, e \in Directions : Child(key, d) = Child(key, e) => d = e
    BY ChildFacts
  <2>2. f \in [Directions -> ChildKeys(key)] /\ IsInjective(f)
    BY <2>1 DEF ChildKeys, IsInjective
  <2> QED
    BY <2>2 DEF Injection
<1> QED
  BY <1>1, <1>2, FS_Surjection

\* Children as many as there are directions are all the children.
LEMMA AllChildren ==
    ASSUME IsFiniteSet(Directions), NEW key \in Seq(Directions),
           NEW children, IsFiniteSet(children), children \subseteq Octants,
           \A o, p \in children : o.key = p.key => o = p,
           \A o \in children : o.key # Root /\ Parent(o.key) = key,
           Cardinality(children) = Cardinality(Directions)
    PROVE  KeysOf(children) = ChildKeys(key)
<1> DEFINE f == [o \in children |-> o.key]
<1>1. \A o \in children : o.key \in ChildKeys(key)
  <2> SUFFICES ASSUME NEW o \in children PROVE o.key \in ChildKeys(key)
    OBVIOUS
  <2>1. o.key \in Seq(Directions)
    BY DEF Octants
  <2> QED
    BY <2>1, ParentFacts DEF ChildKeys
<1>2. f \in [children -> ChildKeys(key)] /\ IsInjective(f)
  BY <1>1 DEF IsInjective
<1>3. f \in Injection(children, ChildKeys(key))
  BY <1>2 DEF Injection
<1>4. /\ IsFiniteSet(ChildKeys(key))
      /\ Cardinality(children) = Cardinality(ChildKeys(key))
  BY ChildKeysCounted
<1>5. f \in Surjection(children, ChildKeys(key))
  <2> HIDE DEF f
  <2> QED
    BY <1>3, <1>4, FS_Injection
<1>6. \A k \in ChildKeys(key) : \E o \in children : o.key = k
  BY <1>5 DEF Surjection
<1> QED
  BY <1>1, <1>6 DEF KeysOf

Completes == m_completes \cup {held}
Family == Siblings(Completes)

LEMMA PoppedFacts ==
    ASSUME PyramidInv, runner = "processing"
    PROVE  /\ PoppedOctants = {held} /\ held \in LiveOctants /\ held \in Octants
           /\ Completes \subseteq LiveOctants /\ Family \subseteq Completes
           /\ held \in Family /\ Working
           /\ held.key \in Seq(Directions) /\ held.key # Root
           /\ Parent(held.key) \in Seq(Directions) /\ Directions # {}
           /\ Parent(held.key) \in Ancestors(held.key)
           /\ held \notin QueuedOctants \cup m_completes \cup processed \cup GivenOctants
<1> USE DEF PyramidInv
<1>1. PoppedOctants = {held}
  BY DEF PoppedOctants
<1>2. held \in LiveOctants /\ Completes \subseteq LiveOctants /\ held \in Octants
      /\ held.key # Root
  BY <1>1 DEF LiveOctants, Completes, RunnerInv
<1>3. held \in Family /\ Family \subseteq Completes
  BY DEF Family, Siblings, Completes
<1>4. held.key \in Seq(Directions)
  BY <1>2 DEF Octants
<1>5. /\ Parent(held.key) \in Seq(Directions) /\ Directions # {}
      /\ Parent(held.key) \in Ancestors(held.key)
  <2>1. /\ Parent(held.key) \in Seq(Directions)
        /\ held.key[Len(held.key)] \in Directions
        /\ held.key = Child(Parent(held.key), held.key[Len(held.key)])
    BY <1>2, <1>4, ParentFacts
  <2> QED
    BY <2>1, ChildFacts
<1> QED
  BY <1>1, <1>2, <1>3, <1>4, <1>5 DEF OctantInv, OctantsApart, Working

LEMMA FamilyFacts ==
    ASSUME PyramidAssumption, PyramidInv, runner = "processing",
           Cardinality(Family) = Cardinality(Directions)
    PROVE  KeysOf(Family) = ChildKeys(Parent(held.key)) /\ Family \subseteq LiveOctants
<1> USE DEF PyramidInv
<1>1. /\ held \in LiveOctants /\ Completes \subseteq LiveOctants
      /\ Family \subseteq Completes /\ Parent(held.key) \in Seq(Directions)
      /\ PoppedOctants = {held}
  BY PoppedFacts
<1>2. IsFiniteSet(LiveOctants) /\ Family \subseteq LiveOctants
      /\ LiveOctants \subseteq Octants
      /\ \A o, p \in LiveOctants : o.key = p.key => o = p
  BY <1>1 DEF OctantInv, Antichain
<1>3. IsFiniteSet(Family)
  BY <1>2, FS_Subset
<1>4. \A o \in Family : o.key # Root /\ Parent(o.key) = Parent(held.key)
  BY <1>1 DEF Family, Siblings, Completes, RunnerInv
<1>5. IsFiniteSet(Directions) /\ Family \subseteq Octants
      /\ \A o, p \in Family : o.key = p.key => o = p
  BY <1>2 DEF PyramidAssumption
<1> QED
  BY <1>1, <1>2, <1>3, <1>4, <1>5, AllChildren

\* An octant waits for those next to it.
LEMMA OctantWaits ==
    ASSUME PyramidInv, runner = "processing", runner' = "waiting", held' = NoOctant,
           m_completes' = Completes,
           UNCHANGED <<cells, m_queue, voxels, poolVars, processed, m_written,
                       m_totalPoints, childCounts>>
    PROVE  PyramidInv'
<1> USE DEF PyramidInv
<1>1. /\ PoppedOctants = {held} /\ held \in LiveOctants
      /\ held.key # Root /\ Working /\ Working'
      /\ held \notin QueuedOctants \cup m_completes \cup processed \cup GivenOctants
  BY PoppedFacts DEF Working
<1>2. PoppedOctants' = {} /\ NoOctant \in Octants
  BY DEF PoppedOctants, NoOctant, Octants, Octant, Root
<1>3. /\ GivenOctants' = GivenOctants /\ QueuedOctants' = QueuedOctants
      /\ Counting' = FALSE
  BY DEF GivenOctants, Unprocessed, QueuedOctants, Counting
<1>4. LiveOctants' = LiveOctants /\ OctantsApart'
  BY <1>1, <1>2, <1>3 DEF LiveOctants, Completes, OctantInv, OctantsApart
<1>5. cells' \in CellSets /\ OctantInv' /\ WrittenInv' /\ PointInv'
  BY <1>1, <1>4, OctantsStay
<1>6. RunnerInv'
  BY <1>1, <1>2, <1>3 DEF RunnerInv, Completes
<1>7. VoxelInv'
  BY DEF VoxelInv, poolVars
<1> QED
  BY <1>5, <1>6, <1>7

\* A complete family with points is given to a Processor.
LEMMA FamilyGiven ==
    ASSUME PyramidAssumption, PyramidInv, runner = "processing",
           Cardinality(Family) = Cardinality(Directions),
           runner' = "waiting", held' = NoOctant, m_completes' = Completes \ Family,
           AddTasks(<<Parent(held.key)>>),
           voxels' = Inserted(voxels, [k \in {Parent(held.key)} |-> Family]),
           UNCHANGED <<cells, m_queue, processed, m_written, m_totalPoints,
                       childCounts>>
    PROVE  PyramidInv'
<1> USE DEF PyramidInv
<1> DEFINE key == Parent(held.key)
<1>1. /\ PoppedOctants = {held} /\ held \in LiveOctants
      /\ held.key # Root /\ Working /\ Working' /\ held \in Family
      /\ held \notin QueuedOctants \cup m_completes \cup processed \cup GivenOctants
      /\ key \in Seq(Directions) /\ Directions # {} /\ key \in Ancestors(held.key)
      /\ Family \subseteq Completes
  BY PoppedFacts DEF Working
<1>2. KeysOf(Family) = ChildKeys(key) /\ Family \subseteq LiveOctants
  BY FamilyFacts
<1>3. PoppedOctants' = {} /\ NoOctant \in Octants /\ QueuedOctants' = QueuedOctants
      /\ Counting' = FALSE
  BY DEF PoppedOctants, NoOctant, Octants, Octant, Root, QueuedOctants, Counting
<1>4. \A o \in processed : o.key # key
  BY <1>1 DEF OctantInv, Antichain, LiveOctants
<1>5. key \notin DOMAIN voxels
  <2> SUFFICES ASSUME key \in DOMAIN voxels PROVE FALSE
    OBVIOUS
  <2>1. key \in Unprocessed
    BY <1>4 DEF Unprocessed
  <2>2. voxels[key] \subseteq GivenOctants /\ voxels[key] \subseteq LiveOctants
        /\ KeysOf(voxels[key]) = ChildKeys(key)
    BY <2>1, GivenFacts
  <2>3. held.key \in ChildKeys(key)
    BY <1>1, <1>2 DEF KeysOf
  <2>4. PICK o \in voxels[key] : o.key = held.key
    BY <2>2, <2>3 DEF KeysOf
  <2>5. o = held
    BY <1>1, <2>2, <2>4 DEF OctantInv, Antichain
  <2> QED
    BY <1>1, <2>2, <2>4, <2>5
<1>6. /\ DOMAIN voxels' = DOMAIN voxels \cup {key} /\ voxels'[key] = Family
      /\ \A k \in DOMAIN voxels : voxels'[k] = voxels[k]
  BY <1>5 DEF Inserted
<1>7. Unprocessed' = Unprocessed \cup {key} /\ key \notin Unprocessed
  BY <1>4, <1>5, <1>6 DEF Unprocessed
<1>8. GivenOctants' = GivenOctants \cup Family
  <2>1. \A k \in Unprocessed : voxels'[k] = voxels[k]
    BY <1>6 DEF Unprocessed
  <2> QED
    BY <1>6, <1>7, <2>1 DEF GivenOctants
<1>9. LiveOctants' = LiveOctants /\ OctantsApart'
  <2>1. Family \subseteq m_completes \cup PoppedOctants
    BY <1>1 DEF Completes
  <2>2. m_completes' = (m_completes \cup PoppedOctants) \ Family
    BY <1>1 DEF Completes
  <2>3. /\ PoppedOctants' = {} /\ QueuedOctants' = QueuedOctants
        /\ processed' = processed /\ GivenOctants' = GivenOctants \cup Family
    BY <1>3, <1>8
  <2>4. OctantsApart
    BY DEF OctantInv
  <2>5. LiveOctants' = LiveOctants
    BY <2>1, <2>2, <2>3 DEF LiveOctants
  <2>6. OctantsApart'
    BY ONLY <2>1, <2>2, <2>3, <2>4 DEF OctantsApart
  <2> QED
    BY <2>5, <2>6
<1>10. cells' \in CellSets /\ OctantInv' /\ WrittenInv' /\ PointInv'
  BY <1>1, <1>9, OctantsStay
<1>11. RunnerInv'
  BY <1>1, <1>3 DEF RunnerInv, Completes
<1>12. VoxelInv'
  <2>1. waiting' = waiting \o <<key>> /\ running' = running
    BY DEF AddTasks
  <2>2. waiting \in Seq(DOMAIN voxels') /\ IsInjective(waiting) /\ key \notin ToSet(waiting)
    <3>1. waiting \in Seq(DOMAIN voxels) /\ ToSet(waiting) \subseteq DOMAIN voxels
          /\ IsInjective(waiting)
      BY DEF VoxelInv
    <3>2. waiting \in Seq(DOMAIN voxels')
      BY <1>6, <3>1
    <3> QED
      BY <1>5, <3>1, <3>2
  <2>3. Append(waiting, key) = waiting \o <<key>>
    <3>1. waiting \in Seq(DOMAIN voxels') /\ key \in DOMAIN voxels'
      BY <1>6, <2>2
    <3> HIDE DEF key
    <3> QED
      BY ONLY <3>1
  <2>4. /\ waiting' \in Seq(DOMAIN voxels') /\ IsInjective(waiting')
        /\ ToSet(waiting') = ToSet(waiting) \cup {key}
    <3>1. key \in DOMAIN voxels' /\ waiting' = Append(waiting, key)
      BY <1>6, <2>1, <2>3
    <3> HIDE DEF key
    <3> QED
      BY <2>2, <3>1, Joins
  <2>5. key \notin running
    BY <1>5 DEF VoxelInv
  <2>6. \A k \in DOMAIN voxels' : k \in Seq(Directions) /\ KeysOf(voxels'[k]) = ChildKeys(k)
    BY <1>1, <1>2, <1>6 DEF VoxelInv
  <2>7. /\ DOMAIN voxels' = ToSet(waiting') \cup running'
        /\ ToSet(waiting') \cap running' = {}
    <3>1. DOMAIN voxels = ToSet(waiting) \cup running /\ ToSet(waiting) \cap running = {}
      BY DEF VoxelInv
    <3>2. DOMAIN voxels' = DOMAIN voxels \cup {key}
      BY <1>6
    <3> HIDE DEF key
    <3> QED
      BY ONLY <2>1, <2>4, <2>5, <3>1, <3>2
  <2>8. KeysOf(processed') \subseteq running'
    BY <1>3, <2>1 DEF VoxelInv, KeysOf
  <2>9. Directions # {}
    BY <1>1
  <2> QED
    BY <2>4, <2>6, <2>7, <2>8, <2>9 DEF VoxelInv
<1> QED
  BY <1>10, <1>11, <1>12

LEMMA CellsCounted ==
    ASSUME PyramidAssumption, cells \in CellSets
    PROVE  /\ CellPoints \in Nat /\ IsFiniteSet(DOMAIN cells)
           /\ DOMAIN cells # {} => CellPoints > 0
<1>1. /\ IsFiniteSet(DOMAIN cells) /\ Counts(cells, DOMAIN cells)
      /\ \A key \in DOMAIN cells : cells[key] \in Nat \ {0}
  BY DEF PyramidAssumption, Counts
<1>2. CellPoints = SumFunctionOnSet(cells, DOMAIN cells)
  BY DEF CellPoints, SumFunction
<1>3. CellPoints \in Nat
  BY <1>1, <1>2, SumNat
<1>4. ASSUME NEW key \in DOMAIN cells PROVE CellPoints > 0
  <2>1. cells[key] <= CellPoints /\ cells[key] \in Nat \ {0}
    BY <1>1, <1>2, SumBounds
  <2> QED
    BY <1>3, <2>1
<1> QED
  BY <1>1, <1>3, <1>4

\* No family without points is that of the root: something was written.
LEMMA EmptyFamily ==
    ASSUME PyramidAssumption, PyramidInv, runner = "processing",
           Cardinality(Family) = Cardinality(Directions), PointsOf(Family) = 0
    PROVE  /\ Parent(held.key) # Root
           /\ \A o \in Family : ~o.mustWrite
<1> USE DEF PyramidInv
<1> DEFINE key == Parent(held.key)
<1>1. /\ held \in LiveOctants /\ held \in Family /\ key \in Seq(Directions)
      /\ Directions # {} /\ held.key # Root /\ held.key \in Seq(Directions)
  BY PoppedFacts
<1>2. KeysOf(Family) = ChildKeys(key) /\ Family \subseteq LiveOctants
  BY FamilyFacts
<1>3. Antichain(LiveOctants)
  BY DEF OctantInv
<1>4. ASSUME NEW o \in Family PROVE ~o.mustWrite
  <2>1. IsFiniteSet(Family) /\ Family \subseteq Octants
    BY <1>2, <1>3, FS_Subset DEF Antichain
  <2>2. o.points <= 0 /\ o.points \in Nat
    BY <2>1, PointsOfAny
  <2>3. o.mustWrite => o.points > 0
    BY <1>2, <1>3 DEF Antichain
  <2> QED
    BY <2>2, <2>3
<1>5. ASSUME key = Root PROVE FALSE
  <2>1. LiveOctants = Family
    <3>1. \A p \in LiveOctants \ Family : FALSE
      BY <1>1, <1>2, <1>3, <1>5, OthersElsewhere
    <3> QED
      BY <1>2, <3>1
  <2>2. BelowRoot(Family) = Family
    <3> SUFFICES ASSUME NEW o \in Family PROVE o.key # Root
      BY DEF BelowRoot
    <3>1. o.key \in ChildKeys(key)
      BY <1>2 DEF KeysOf
    <3>2. PICK d \in Directions : o.key = Child(key, d)
      BY <3>1 DEF ChildKeys
    <3> QED
      BY <1>1, <3>2, ChildFacts
  <2>3. m_totalPoints = CellPoints /\ CellPoints > 0
    <3>1. PointsOf(BelowRoot(LiveOctants)) + m_totalPoints = CellPoints
      BY DEF PointInv
    <3>2. DOMAIN cells # {}
      BY <1>1 DEF OctantInv
    <3>3. CellPoints \in Nat /\ CellPoints > 0
      BY <3>2, CellsCounted
    <3>4. m_totalPoints \in Nat
      <4>1. /\ IsFiniteSet(DOMAIN m_written)
            /\ Counts(m_written, DOMAIN m_written)
        BY DEF WrittenInv, Counts
      <4>2. SumFunctionOnSet(m_written, DOMAIN m_written) \in Nat
        BY <4>1, SumNat
      <4> QED
        BY <4>2 DEF PointInv, SumFunction
    <3> QED
      BY <2>1, <2>2, <3>1, <3>3, <3>4
  <2>4. DOMAIN m_written # {}
    <3> SUFFICES ASSUME DOMAIN m_written = {} PROVE FALSE
      OBVIOUS
    <3>1. m_totalPoints = 0
      BY SumOfNone DEF PointInv, SumFunction
    <3> QED
      BY <2>3, <3>1
  <2>5. Root \notin DOMAIN m_written
    <3>1. Root \in Ancestors(held.key)
      BY <1>1, RootAbove
    <3> QED
      BY <1>1, <3>1 DEF WrittenInv, Unwritten, BelowRoot
  <2> DEFINE lengths == {Len(k) : k \in DOMAIN m_written}
  <2>6. PICK m \in lengths : \A n \in lengths : m <= n
    <3>1. \A k \in DOMAIN m_written : Len(k) \in Nat
      BY DEF WrittenInv
    <3>2. lengths \in SUBSET Nat /\ lengths # {}
      BY <2>4, <3>1
    <3> HIDE DEF lengths
    <3> QED
      BY <3>2, LeastMember
  <2>7. PICK k \in DOMAIN m_written : Len(k) = m
    BY <2>6
  <2>8. k \in Seq(Directions) /\ k # Root
    BY <2>5, <2>7 DEF WrittenInv
  <2>9. /\ Parent(k) \in Seq(Directions) /\ Len(Parent(k)) = Len(k) - 1
        /\ Len(k) \in Nat \ {0} /\ k[Len(k)] \in Directions
        /\ k = Child(Parent(k), k[Len(k)])
    BY <2>8, ParentFacts
  <2>10. CASE Parent(k) = Root
    <3>1. k \in ChildKeys(key)
      BY <1>5, <2>9, <2>10 DEF ChildKeys
    <3>2. PICK c \in Family : c.key = k
      BY <1>2, <3>1 DEF KeysOf
    <3> QED
      BY <2>1, <2>2, <2>7, <3>2 DEF WrittenInv, Unwritten
  <2>11. CASE Parent(k) \in DOMAIN m_written
    <3>1. Len(k) - 1 \in lengths
      BY <2>9, <2>11
    <3> HIDE DEF lengths
    <3>2. m <= Len(k) - 1
      BY <2>6, <3>1
    <3> QED
      BY <2>7, <2>9, <3>2
  <2>12. CASE \E o \in LiveOctants : o.key = Parent(k) /\ o.mustWrite
    BY <1>4, <2>1, <2>12
  <2>13. \/ Parent(k) \in {Root} \cup DOMAIN m_written
         \/ \E o \in LiveOctants : o.key = Parent(k) /\ o.mustWrite
    BY <2>7, <2>8 DEF WrittenInv, Linked
  <2> QED
    BY <2>10, <2>11, <2>12, <2>13
<1> QED
  BY <1>4, <1>5

\* A family without points makes way for an octant without points.
LEMMA FamilySkipped ==
    ASSUME PyramidAssumption, PyramidInv, runner = "processing",
           Cardinality(Family) = Cardinality(Directions), PointsOf(Family) = 0,
           runner' = "waiting", held' = NoOctant, m_completes' = Completes \ Family,
           m_queue' = Append(m_queue, Octant(Parent(held.key), 0, FALSE)),
           UNCHANGED <<cells, voxels, poolVars, processed, m_written,
                       m_totalPoints, childCounts>>
    PROVE  PyramidInv'
<1> USE DEF PyramidInv
<1> DEFINE key == Parent(held.key)
           o == Octant(key, 0, FALSE)
           rest == LiveOctants \ Family
<1>1. /\ PoppedOctants = {held} /\ held \in LiveOctants
      /\ held.key # Root /\ Working /\ Working' /\ held \in Family
      /\ key \in Seq(Directions) /\ Directions # {} /\ key \in Ancestors(held.key)
      /\ Family \subseteq Completes /\ held.key \in Seq(Directions)
  BY PoppedFacts DEF Working
<1>2. KeysOf(Family) = ChildKeys(key) /\ Family \subseteq LiveOctants
  BY FamilyFacts
<1>3. key # Root /\ \A c \in Family : ~c.mustWrite
  BY EmptyFamily
<1>4. o \in Octants /\ o.key = key /\ o.points = 0 /\ ~o.mustWrite
  BY <1>1 DEF Octant, Octants
<1>5. Antichain(LiveOctants) /\ OctantsApart
  BY DEF OctantInv
<1> HIDE DEF o
<1>6. Antichain(Replaced(LiveOctants, Family, o)) /\ o \notin rest
  BY <1>1, <1>2, <1>4, <1>5, ReplacedChildren
<1>7. /\ QueuedOctants \cup processed \cup GivenOctants \subseteq rest
      /\ Family \subseteq m_completes \cup PoppedOctants
      /\ m_completes' = (m_completes \cup PoppedOctants) \ Family
  BY <1>1, <1>5 DEF Completes, LiveOctants, OctantsApart
<1>8. /\ m_queue' \in Seq(Octants) /\ IsInjective(m_queue')
      /\ QueuedOctants' = QueuedOctants \cup {o}
  <2>1. m_queue \in Seq(Octants) /\ IsInjective(m_queue)
        /\ m_queue' = Append(m_queue, o) /\ o \notin ToSet(m_queue)
    BY <1>6, <1>7 DEF RunnerInv, QueuedOctants, o
  <2>2. /\ Append(m_queue, o) \in Seq(Octants) /\ IsInjective(Append(m_queue, o))
        /\ ToSet(Append(m_queue, o)) = ToSet(m_queue) \cup {o}
    BY ONLY <1>4, <2>1, Joins
  <2> QED
    BY <2>1, <2>2 DEF QueuedOctants
<1>9. /\ PoppedOctants' = {} /\ NoOctant \in Octants /\ Counting' = FALSE
      /\ RootOctants = {} /\ RootOctants' = {} /\ CellPoints' = CellPoints
      /\ GivenOctants' = GivenOctants
  BY DEF PoppedOctants, NoOctant, Octants, Octant, Root, Counting, RootOctants,
         CellPoints, GivenOctants, Unprocessed
<1>10. LiveOctants' = Replaced(LiveOctants, Family, o) /\ OctantsApart'
  <2>1. m_completes' \subseteq rest
    BY <1>7 DEF LiveOctants
  <2>2. OctantsApart'
    BY <1>5, <1>6, <1>7, <1>8, <1>9, <2>1 DEF OctantsApart
  <2>3. LiveOctants' = rest \cup {o}
    BY <1>7, <1>8, <1>9, <2>1 DEF LiveOctants
  <2> QED
    BY <2>2, <2>3 DEF Replaced
<1>11. OctantInv'
  BY <1>1, <1>6, <1>10 DEF OctantInv
<1>12. RunnerInv'
  BY <1>1, <1>7, <1>8, <1>9 DEF RunnerInv
<1>13. VoxelInv'
  BY DEF VoxelInv, poolVars
<1>14. WrittenInv'
  <2>1. ASSUME NEW p \in BelowRoot(LiveOctants')
        PROVE  ({p.key} \cup Ancestors(p.key)) \cap DOMAIN m_written = {}
    <3>1. CASE p \in rest
      BY <2>1, <3>1 DEF WrittenInv, Unwritten, BelowRoot
    <3>2. CASE p = o
      <4>1. {key} \cup Ancestors(key) \subseteq Ancestors(held.key)
        BY <1>1, AboveAbove
      <4>2. Ancestors(held.key) \cap DOMAIN m_written = {}
        BY <1>1 DEF WrittenInv, Unwritten, BelowRoot
      <4> QED
        BY <1>4, <3>2, <4>1, <4>2
    <3> QED
      BY <1>10, <2>1, <3>1, <3>2 DEF Replaced, BelowRoot
  <2>2. \A p \in LiveOctants' : p.key # Root
    <3>1. \A p \in rest : p.key # Root
      BY <1>1, <1>2, <1>5, OthersElsewhere
    <3> QED
      BY <1>3, <1>4, <1>10, <3>1 DEF Replaced
  <2>3. Linked(LiveOctants', m_written)
    BY <1>3, <1>10 DEF Linked, WrittenInv, Replaced
  <2>4. Unwritten(LiveOctants', m_written)
    BY <2>1 DEF Unwritten
  <2>5. RootWritten(LiveOctants' \cup RootOctants', m_written)
    BY <1>9, <2>2 DEF RootWritten
  <2> QED
    BY <2>3, <2>4, <2>5 DEF WrittenInv
<1>15. PointInv'
  <2>1. /\ PointsOf(BelowRoot(LiveOctants)) \in Nat
        /\ PointsOf(BelowRoot(LiveOctants')) + 0 = PointsOf(BelowRoot(LiveOctants)) + 0
    BY <1>1, <1>2, <1>3, <1>4, <1>5, <1>10, ReplacedPoints
  <2>2. PointsOf(BelowRoot(LiveOctants')) \in Nat
    <3>1. IsFiniteSet(LiveOctants') /\ LiveOctants' \subseteq Octants
          /\ BelowRoot(LiveOctants') \subseteq LiveOctants'
      BY <1>6, <1>10 DEF Antichain, BelowRoot
    <3> QED
      BY <3>1, PointsAre
  <2>3. PointsOf(BelowRoot(LiveOctants')) = PointsOf(BelowRoot(LiveOctants))
    BY <2>1, <2>2
  <2> QED
    BY <1>9, <2>3 DEF PointInv
<1> QED
  BY <1>11, <1>12, <1>13, <1>14, <1>15

LEMMA OctantProcessed ==
    PyramidAssumption /\ PyramidInv /\ ProcessOctant => PyramidInv'
<1> SUFFICES ASSUME PyramidAssumption, PyramidInv, ProcessOctant PROVE PyramidInv'
  OBVIOUS
<1>1. /\ runner = "processing" /\ runner' = "waiting" /\ held' = NoOctant
      /\ UNCHANGED <<cells, processed, m_written, m_totalPoints, childCounts>>
  BY DEF ProcessOctant
<1>2. CASE m_completes' = Completes /\ UNCHANGED <<m_queue, voxels, poolVars>>
  BY <1>1, <1>2, OctantWaits
<1>3. CASE /\ Cardinality(Family) = Cardinality(Directions)
           /\ m_completes' = Completes \ Family
           /\ PointsOf(Family) = 0
           /\ m_queue' = Append(m_queue, Octant(Parent(held.key), 0, FALSE))
           /\ UNCHANGED <<voxels, poolVars>>
  BY <1>1, <1>3, FamilySkipped
<1>4. CASE /\ Cardinality(Family) = Cardinality(Directions)
           /\ m_completes' = Completes \ Family
           /\ AddTasks(<<Parent(held.key)>>)
           /\ voxels' = Inserted(voxels, [k \in {Parent(held.key)} |-> Family])
           /\ UNCHANGED m_queue
  BY <1>1, <1>4, FamilyGiven
<1> QED
  BY <1>2, <1>3, <1>4 DEF ProcessOctant, Completes, Family

LEMMA SumInserted ==
    ASSUME NEW f, NEW g, IsFiniteSet(DOMAIN f), IsFiniteSet(DOMAIN g),
           f \in [DOMAIN f -> Nat], g \in [DOMAIN g -> Nat],
           DOMAIN f \cap DOMAIN g = {}
    PROVE  /\ DOMAIN Inserted(f, g) = DOMAIN f \cup DOMAIN g
           /\ IsFiniteSet(DOMAIN Inserted(f, g))
           /\ Inserted(f, g) \in [DOMAIN Inserted(f, g) -> Nat]
           /\ \A x \in DOMAIN f : Inserted(f, g)[x] = f[x]
           /\ \A x \in DOMAIN g : Inserted(f, g)[x] = g[x]
           /\ SumFunction(Inserted(f, g)) = SumFunction(f) + SumFunction(g)
<1> DEFINE h == Inserted(f, g)
           F == DOMAIN f
           G == DOMAIN g
<1>1. DOMAIN h = F \cup G /\ IsFiniteSet(F \cup G) /\ F \cap G = {}
      /\ IsFiniteSet(F) /\ IsFiniteSet(G)
  BY FS_Union DEF Inserted
<1>2. (\A x \in F : h[x] = f[x]) /\ (\A x \in G : h[x] = g[x])
  BY DEF Inserted
<1>3. /\ Counts(h, F) /\ Counts(h, G) /\ Counts(f, F) /\ Counts(g, G)
      /\ h \in [DOMAIN h -> Nat]
  BY <1>2 DEF Counts, Inserted
<1>4. /\ SumFunction(f) = SumFunctionOnSet(f, F)
      /\ SumFunction(g) = SumFunctionOnSet(g, G)
      /\ SumFunction(h) = SumFunctionOnSet(h, F \cup G)
  BY <1>1 DEF SumFunction
<1> HIDE DEF h, F, G
<1>5. SumFunctionOnSet(h, F) = SumFunctionOnSet(f, F)
  BY <1>1, <1>2, <1>3, SumSame
<1>6. SumFunctionOnSet(h, G) = SumFunctionOnSet(g, G)
  BY <1>1, <1>2, <1>3, SumSame
<1>7. SumFunctionOnSet(h, F \cup G) = SumFunctionOnSet(h, F) + SumFunctionOnSet(h, G)
  BY <1>1, <1>3, SumUnion
<1> QED
  BY <1>1, <1>2, <1>3, <1>4, <1>5, <1>6, <1>7 DEF h, F, G

\* The chunks of a family's parts have what was left in the family.
ChunksOf(parts, left) ==
    [k \in {o.key : o \in parts} |-> left[CHOOSE o \in parts : o.key = k]]

LEMMA ChunksSum ==
    ASSUME NEW children, IsFiniteSet(children),
           \A o, p \in children : o.key = p.key => o = p,
           NEW left \in [children -> Nat], NEW parts \in SUBSET children,
           \A o \in children \ parts : left[o] = 0
    PROVE  /\ DOMAIN ChunksOf(parts, left) = KeysOf(parts)
           /\ IsFiniteSet(KeysOf(parts))
           /\ \A o \in parts : ChunksOf(parts, left)[o.key] = left[o]
           /\ ChunksOf(parts, left) \in [KeysOf(parts) -> Nat]
           /\ SumFunction(ChunksOf(parts, left)) = SumFunction(left)
           /\ SumFunction(left) \in Nat
<1> DEFINE chunks == ChunksOf(parts, left)
           m == [o \in parts |-> o.key]
           g == [o \in parts |-> chunks[m[o]]]
           rest == children \ parts
<1>1. DOMAIN chunks = KeysOf(parts)
  BY DEF ChunksOf, KeysOf
<1>2. \A o \in parts : chunks[o.key] = left[o]
  <2> SUFFICES ASSUME NEW o \in parts PROVE chunks[o.key] = left[o]
    OBVIOUS
  <2>1. (CHOOSE p \in parts : p.key = o.key) = o
    OBVIOUS
  <2> QED
    BY <2>1 DEF ChunksOf
<1>3. chunks \in [KeysOf(parts) -> Nat]
  <2>1. \A k \in KeysOf(parts) : chunks[k] \in Nat
    BY <1>2 DEF KeysOf
  <2> QED
    BY <1>1, <2>1 DEF ChunksOf
<1>4. IsFiniteSet(parts) /\ IsFiniteSet(rest) /\ parts \cup rest = children
      /\ parts \cap rest = {}
  BY FS_Subset
<1>5. IsFiniteSet(KeysOf(parts))
  <2>1. m \in Surjection(parts, KeysOf(parts))
    BY DEF Surjection, KeysOf
  <2> HIDE DEF m
  <2> QED
    BY <1>4, <2>1, FS_Surjection
<1>6. /\ \A o, p \in parts : m[o] = m[p] => o = p
      /\ \A o \in parts : chunks[m[o]] = left[o] /\ chunks[m[o]] \in Nat
      /\ {m[o] : o \in parts} = KeysOf(parts)
  BY <1>2 DEF KeysOf
<1>7. \A o \in parts : g[o] = left[o]
  BY <1>2
<1>8. Counts(left, children) /\ Counts(left, parts) /\ Counts(left, rest) /\ Counts(g, parts)
  BY <1>7 DEF Counts
<1>9. SumFunctionOnSet(chunks, KeysOf(parts)) = SumFunctionOnSet(g, parts)
  <2>1. SumFunctionOnSet(chunks, {m[o] : o \in parts})
          = SumFunctionOnSet([o \in parts |-> chunks[m[o]]], parts)
    <3> HIDE DEF chunks, m
    <3> QED
      BY <1>4, <1>6, SumImage
  <2> QED
    BY <1>6, <2>1
<1> HIDE DEF chunks, m, g, rest
<1>10. SumFunctionOnSet(g, parts) = SumFunctionOnSet(left, parts)
  BY <1>4, <1>7, <1>8, SumSame
<1>11. SumFunctionOnSet(left, rest) = 0
  BY <1>4, SumOfZeros DEF rest
<1>12. SumFunctionOnSet(left, children)
         = SumFunctionOnSet(left, parts) + SumFunctionOnSet(left, rest)
  <2>1. SumFunctionOnSet(left, parts \cup rest)
         = SumFunctionOnSet(left, parts) + SumFunctionOnSet(left, rest)
    BY <1>4, <1>8, SumUnion
  <2> QED
    BY <1>4, <2>1
<1>13. SumFunctionOnSet(left, parts) \in Nat /\ SumFunctionOnSet(left, children) \in Nat
  BY <1>4, <1>8, SumNat
<1>14. SumFunction(left) = SumFunctionOnSet(left, children)
       /\ SumFunction(chunks) = SumFunctionOnSet(chunks, KeysOf(parts))
  BY <1>1 DEF SumFunction
<1> QED
  BY <1>1, <1>2, <1>3, <1>5, <1>9, <1>10, <1>11, <1>12, <1>13, <1>14 DEF chunks

\* What a Processor inserts, and the octant it leaves in the place of the family.
AllOf(key, children, left) ==
    IF key = Root
    THEN Inserted(ChunksOf(ToWrite(children, left), left),
                  [k \in {Root} |-> Sampled(children, left)])
    ELSE ChunksOf(ToWrite(children, left), left)
ParentOf(key, children, left) ==
    Octant(key, Sampled(children, left), ToWrite(children, left) # {})

\* Everything is kept in the parent or written.
WrittenAs(key, children, parts, kept, all, o) ==
    /\ o \in Octants /\ o.key = key /\ o.points = kept
    /\ o.mustWrite = (parts # {})
    /\ kept \in Nat /\ kept > 0
    /\ DOMAIN all = KeysOf(parts) \cup (IF key = Root THEN {Root} ELSE {})
    /\ IsFiniteSet(DOMAIN all) /\ all \in [DOMAIN all -> Nat]
    /\ key = Root => all[Root] = kept
    /\ SumFunction(all) + (IF key = Root THEN 0 ELSE kept) = PointsOf(children)
    /\ SumFunction(all) \in Nat

LEMMA WrittenFacts ==
    ASSUME NEW octants, Antichain(octants), NEW children \in SUBSET octants,
           NEW key \in Seq(Directions), KeysOf(children) = ChildKeys(key),
           NEW left \in Leaves(children)
    PROVE  WrittenAs(key, children, ToWrite(children, left), Sampled(children, left),
                     AllOf(key, children, left), ParentOf(key, children, left))
<1> DEFINE parts == ToWrite(children, left)
           kept == Sampled(children, left)
           all == AllOf(key, children, left)
           chunks == ChunksOf(parts, left)
           one == [k \in {Root} |-> kept]
           sum == SumFunction(left)
           total == PointsOf(children)
<1>1. /\ IsFiniteSet(children) /\ children \subseteq Octants
      /\ \A o, p \in children : o.key = p.key => o = p
  BY FS_Subset DEF Antichain
<1>2. total \in Nat
  BY <1>1, PointsAre
<1>3. /\ left \in [children -> Nat] /\ total - sum = kept /\ kept > 0
  BY <1>2 DEF Leaves, Sampled
<1>4. parts \in SUBSET children /\ \A o \in children \ parts : left[o] = 0
  BY <1>3 DEF ToWrite
<1>5. /\ DOMAIN chunks = KeysOf(parts) /\ IsFiniteSet(KeysOf(parts))
      /\ \A o \in parts : chunks[o.key] = left[o]
      /\ chunks \in [KeysOf(parts) -> Nat]
      /\ SumFunction(chunks) = sum /\ sum \in Nat
  <2> HIDE DEF parts
  <2> QED
    BY <1>1, <1>3, <1>4, ChunksSum
<1>6. kept \in Nat /\ kept + sum = total
  <2> HIDE DEF kept, sum, total
  <2> QED
    BY <1>2, <1>3, <1>5
<1>7. ParentOf(key, children, left) \in Octants
  BY <1>6 DEF ParentOf, Octant, Octants
<1>8. /\ ParentOf(key, children, left).key = key
      /\ ParentOf(key, children, left).points = kept
      /\ ParentOf(key, children, left).mustWrite = (parts # {})
  BY DEF ParentOf, Octant
<1> HIDE DEF chunks, kept, sum, total, parts
<1>9. /\ DOMAIN all = KeysOf(parts) \cup (IF key = Root THEN {Root} ELSE {})
      /\ IsFiniteSet(DOMAIN all) /\ all \in [DOMAIN all -> Nat]
      /\ key = Root => all[Root] = kept
      /\ SumFunction(all) + (IF key = Root THEN 0 ELSE kept) = total
      /\ SumFunction(all) \in Nat
  <2>1. CASE key # Root
    <3>1. all = chunks
      BY <2>1 DEF AllOf, chunks, parts
    <3> HIDE DEF all
    <3> QED
      BY <1>2, <1>5, <1>6, <2>1, <3>1
  <2>2. CASE key = Root
    <3>1. all = Inserted(chunks, one)
      BY <2>2 DEF AllOf, chunks, parts, kept
    <3>2. /\ DOMAIN one = {Root} /\ IsFiniteSet({Root}) /\ one[Root] = kept
          /\ one \in [{Root} -> Nat]
      BY <1>6, FS_Singleton
    <3>3. Root \notin KeysOf(parts)
      <4> SUFFICES ASSUME NEW o \in parts PROVE o.key # Root
        BY DEF KeysOf
      <4>1. o.key \in ChildKeys(key)
        BY <1>4 DEF KeysOf
      <4>2. PICK d \in Directions : o.key = Child(key, d)
        BY <4>1 DEF ChildKeys
      <4> QED
        BY <4>2, ChildFacts
    <3>4. SumFunction(one) = kept
      <4>1. Counts(one, {Root}) /\ {Root} \ {Root} = {}
        BY <1>6, <3>2 DEF Counts
      <4> HIDE DEF one
      <4>2. SumFunctionOnSet(one, {Root}) = one[Root] + SumFunctionOnSet(one, {})
        BY <3>2, <4>1, SumWithout
      <4> QED
        BY <1>6, <3>2, <4>2, SumOfNone DEF SumFunction
    <3> HIDE DEF all, one
    <3>5. /\ DOMAIN Inserted(chunks, one) = KeysOf(parts) \cup {Root}
          /\ IsFiniteSet(DOMAIN Inserted(chunks, one))
          /\ Inserted(chunks, one) \in [DOMAIN Inserted(chunks, one) -> Nat]
          /\ \A x \in {Root} : Inserted(chunks, one)[x] = one[x]
          /\ SumFunction(Inserted(chunks, one)) = SumFunction(chunks) + SumFunction(one)
      <4>1. DOMAIN chunks \cap DOMAIN one = {}
        BY <1>5, <3>2, <3>3
      <4>2. chunks \in [DOMAIN chunks -> Nat] /\ one \in [DOMAIN one -> Nat]
            /\ IsFiniteSet(DOMAIN chunks) /\ IsFiniteSet(DOMAIN one)
        BY <1>5, <3>2
      <4>3. /\ DOMAIN Inserted(chunks, one) = DOMAIN chunks \cup DOMAIN one
            /\ IsFiniteSet(DOMAIN Inserted(chunks, one))
            /\ Inserted(chunks, one) \in [DOMAIN Inserted(chunks, one) -> Nat]
            /\ \A x \in DOMAIN one : Inserted(chunks, one)[x] = one[x]
            /\ SumFunction(Inserted(chunks, one)) = SumFunction(chunks) + SumFunction(one)
        BY ONLY <4>1, <4>2, SumInserted
      <4>4. DOMAIN chunks = KeysOf(parts) /\ DOMAIN one = {Root}
        BY <1>5, <3>2
      <4> QED
        BY ONLY <4>3, <4>4
    <3>6. SumFunction(all) = sum + kept
      BY <1>5, <3>1, <3>4, <3>5
    <3>7. SumFunction(all) = total /\ SumFunction(all) \in Nat
      BY <1>2, <1>5, <1>6, <3>6
    <3> QED
      BY <1>2, <2>2, <3>1, <3>2, <3>5, <3>7
  <2> QED
    BY <2>1, <2>2
<1> QED
  BY <1>3, <1>6, <1>7, <1>8, <1>9 DEF kept, total, parts, WrittenAs

\* What is written was not written before.
LEMMA NewlyWritten ==
    ASSUME PyramidInv, NEW key \in Unprocessed, NEW left \in Leaves(voxels[key])
    PROVE  DOMAIN m_written \cap DOMAIN AllOf(key, voxels[key], left) = {}
<1> USE DEF PyramidInv
<1> DEFINE children == voxels[key]
<1>1. /\ key \in Seq(Directions) /\ Directions # {} /\ children \subseteq LiveOctants
      /\ KeysOf(children) = ChildKeys(key)
  BY GivenFacts
<1>2. Antichain(LiveOctants)
  BY DEF OctantInv
<1>3. DOMAIN AllOf(key, children, left) =
         KeysOf(ToWrite(children, left)) \cup (IF key = Root THEN {Root} ELSE {})
  <2>1. WrittenAs(key, children, ToWrite(children, left), Sampled(children, left),
                  AllOf(key, children, left), ParentOf(key, children, left))
    BY <1>1, <1>2, WrittenFacts
  <2> QED
    BY <2>1 DEF WrittenAs
<1>4. \A c \in children : /\ c.key # Root /\ c.key \notin DOMAIN m_written
                          /\ Root \notin DOMAIN m_written
                          /\ ({key} \cup Ancestors(key)) \cap DOMAIN m_written = {}
  <2> SUFFICES ASSUME NEW c \in children
               PROVE  /\ c.key # Root /\ c.key \notin DOMAIN m_written
                      /\ Root \notin DOMAIN m_written
                      /\ ({key} \cup Ancestors(key)) \cap DOMAIN m_written = {}
    OBVIOUS
  <2>1. c.key \in ChildKeys(key)
    BY <1>1 DEF KeysOf
  <2>2. PICK d \in Directions : c.key = Child(key, d)
    BY <2>1 DEF ChildKeys
  <2>3. c.key # Root /\ c.key \in Seq(Directions) /\ Ancestors(c.key) = Ancestors(key) \cup {key}
    BY <1>1, <2>2, ChildFacts, AboveChild
  <2>4. Root \in Ancestors(c.key)
    BY <2>3, RootAbove
  <2>5. ({c.key} \cup Ancestors(c.key)) \cap DOMAIN m_written = {}
    BY <1>1, <2>3 DEF WrittenInv, Unwritten, BelowRoot
  <2> QED
    BY <2>3, <2>4, <2>5
<1>5. \E c \in children : TRUE
  <2>1. PICK d \in Directions : TRUE
    BY <1>1
  <2>2. Child(key, d) \in KeysOf(children)
    BY <1>1 DEF ChildKeys
  <2> QED
    BY <2>2 DEF KeysOf
<1>6. KeysOf(ToWrite(children, left)) \subseteq KeysOf(children)
  BY DEF KeysOf, ToWrite
<1> QED
  BY <1>3, <1>4, <1>5, <1>6 DEF KeysOf

LEMMA VoxelWritten ==
    ASSUME NEW key PROVE PyramidInv /\ WriteVoxel(key) => PyramidInv'
<1> SUFFICES ASSUME PyramidInv, WriteVoxel(key) PROVE PyramidInv'
  OBVIOUS
<1> USE DEF PyramidInv
<1> DEFINE children == voxels[key]
           rest == LiveOctants \ children
<1>1. /\ key \in running /\ (\A p \in processed : p.key # key)
      /\ UNCHANGED <<cells, runner, held, m_queue, m_completes, voxels, poolVars,
                     childCounts>>
  BY DEF WriteVoxel
<1>2. PICK left \in Leaves(children) :
         /\ m_written' = Inserted(m_written, AllOf(key, children, left))
         /\ m_totalPoints' = m_totalPoints + SumFunction(AllOf(key, children, left))
         /\ processed' = processed \cup {ParentOf(key, children, left)}
  BY DEF WriteVoxel, AllOf, ParentOf, ChunksOf
<1> DEFINE all == AllOf(key, children, left)
           o == ParentOf(key, children, left)
           kept == Sampled(children, left)
           parts == ToWrite(children, left)
<1>3. key \in DOMAIN voxels /\ key \in Unprocessed
  BY <1>1 DEF VoxelInv, Unprocessed
<1>4. /\ key \in Seq(Directions) /\ Directions # {}
      /\ children \subseteq GivenOctants /\ children \subseteq LiveOctants
      /\ KeysOf(children) = ChildKeys(key)
      /\ \A other \in Unprocessed \ {key} : voxels[other] \cap children = {}
  BY <1>3, GivenFacts
<1>5. Antichain(LiveOctants) /\ OctantsApart
  BY DEF OctantInv
<1>6. WrittenAs(key, children, parts, kept, all, o)
  BY <1>4, <1>5, WrittenFacts
<1>7. DOMAIN m_written \cap DOMAIN all = {}
  BY <1>3, NewlyWritten
<1>8. parts \subseteq children
  BY DEF ToWrite
<1> HIDE DEF all, o, kept, parts, children, rest
<1>26. /\ o \in Octants /\ o.key = key /\ o.points = kept
       /\ o.mustWrite = (parts # {})
       /\ kept \in Nat /\ kept > 0
       /\ DOMAIN all = KeysOf(parts) \cup (IF key = Root THEN {Root} ELSE {})
       /\ IsFiniteSet(DOMAIN all) /\ all \in [DOMAIN all -> Nat]
       /\ key = Root => all[Root] = kept
       /\ SumFunction(all) + (IF key = Root THEN 0 ELSE kept) = PointsOf(children)
       /\ SumFunction(all) \in Nat
  BY <1>6 DEF WrittenAs
<1>9. /\ IsFiniteSet(DOMAIN m_written) /\ m_written \in [DOMAIN m_written -> Nat]
      /\ m_totalPoints = SumFunction(m_written)
  BY DEF WrittenInv, PointInv
<1>10. /\ DOMAIN m_written' = DOMAIN m_written \cup DOMAIN all
       /\ IsFiniteSet(DOMAIN m_written')
       /\ m_written' \in [DOMAIN m_written' -> Nat]
       /\ \A x \in DOMAIN m_written : m_written'[x] = m_written[x]
       /\ \A x \in DOMAIN all : m_written'[x] = all[x]
       /\ SumFunction(m_written') = SumFunction(m_written) + SumFunction(all)
  <2>1. m_written' = Inserted(m_written, all)
    BY <1>2 DEF all
  <2>2. all \in [DOMAIN all -> Nat] /\ IsFiniteSet(DOMAIN all)
    BY <1>26
  <2>3. /\ DOMAIN Inserted(m_written, all) = DOMAIN m_written \cup DOMAIN all
        /\ IsFiniteSet(DOMAIN Inserted(m_written, all))
        /\ Inserted(m_written, all) \in [DOMAIN Inserted(m_written, all) -> Nat]
        /\ \A x \in DOMAIN m_written : Inserted(m_written, all)[x] = m_written[x]
        /\ \A x \in DOMAIN all : Inserted(m_written, all)[x] = all[x]
        /\ SumFunction(Inserted(m_written, all)) = SumFunction(m_written) + SumFunction(all)
    BY ONLY <1>7, <1>9, <2>2, SumInserted
  <2> QED
    BY ONLY <2>1, <2>3
<1>11. Antichain(Replaced(LiveOctants, children, o)) /\ o \notin rest
  BY <1>4, <1>5, <1>26, ReplacedChildren DEF rest
<1>12. \A p \in rest : /\ p.key # key /\ key \notin Ancestors(p.key)
                       /\ p.key \notin Ancestors(key) /\ p.key # Root /\ key # Root
  BY <1>4, <1>5, OthersElsewhere DEF rest
<1>13. \E c \in children : c \in LiveOctants
  <2>1. PICK d \in Directions : TRUE
    BY <1>4
  <2>2. Child(key, d) \in KeysOf(children)
    BY <1>4 DEF ChildKeys
  <2> QED
    BY <1>4, <2>2 DEF KeysOf
<1>14. /\ runner # "queueing" /\ ~Counting /\ ~Counting' /\ RootOctants = {}
       /\ RootOctants' = {} /\ runner' = runner /\ CellPoints' = CellPoints
  BY <1>1, <1>13 DEF RunnerInv, Counting, RootOctants, CellPoints
<1>15. processed' = processed \cup {o}
  BY <1>2 DEF o
<1>16. Unprocessed' = Unprocessed \ {key}
  BY <1>1, <1>26, <1>15 DEF Unprocessed
<1>17. GivenOctants' = GivenOctants \ children
  <2>1. \A k \in Unprocessed : voxels'[k] = voxels[k]
    BY <1>1
  <2>2. GivenOctants' = UNION {voxels[k] : k \in Unprocessed \ {key}}
    BY <1>16, <2>1 DEF GivenOctants
  <2>3. ASSUME NEW p \in GivenOctants \ children
        PROVE  p \in UNION {voxels[k] : k \in Unprocessed \ {key}}
    <3>1. PICK k \in Unprocessed : p \in voxels[k]
      BY DEF GivenOctants
    <3>2. k # key
      BY <2>3, <3>1 DEF children
    <3> QED
      BY <3>1, <3>2
  <2>4. ASSUME NEW k \in Unprocessed \ {key}, NEW p \in voxels[k]
        PROVE  p \in GivenOctants \ children
    BY <1>4 DEF GivenOctants
  <2>5. UNION {voxels[k] : k \in Unprocessed \ {key}} = GivenOctants \ children
    BY <2>3, <2>4
  <2> QED
    BY <2>2, <2>5
<1>18. PoppedOctants' = PoppedOctants /\ QueuedOctants' = QueuedOctants
       /\ m_completes' = m_completes
  BY <1>1 DEF PoppedOctants, QueuedOctants
<1>19. /\ PoppedOctants \cup QueuedOctants \cup m_completes \cup processed \subseteq rest
       /\ GivenOctants \ children \subseteq rest
  BY <1>4, <1>5 DEF LiveOctants, OctantsApart, rest
<1>20. LiveOctants' = Replaced(LiveOctants, children, o) /\ OctantsApart'
  <2>1. LiveOctants' = rest \cup {o}
    BY <1>15, <1>17, <1>18, <1>19 DEF LiveOctants, rest
  <2>2. OctantsApart'
    BY <1>5, <1>11, <1>15, <1>17, <1>18, <1>19 DEF OctantsApart
  <2> QED
    BY <2>1, <2>2 DEF Replaced, rest
<1>21. OctantInv'
  BY <1>1, <1>11, <1>13, <1>20 DEF OctantInv
<1>22. RunnerInv'
  BY <1>1, <1>14, <1>18 DEF RunnerInv
<1>23. VoxelInv'
  BY <1>1, <1>26, <1>15 DEF VoxelInv, poolVars, KeysOf
<1>24. WrittenInv'
  <2>1. \A x \in DOMAIN all :
           (x = Root /\ key = Root) \/ \E c \in parts : x = c.key
    BY <1>26 DEF KeysOf
  <2>2. \A c \in children : c.key \in Seq(Directions) /\ Parent(c.key) = key
                            /\ Ancestors(c.key) = Ancestors(key) \cup {key}
                            /\ c.key # key /\ c.key # Root
                            /\ c.key \notin Ancestors(key)
    <3> SUFFICES ASSUME NEW c \in children
                 PROVE  c.key \in Seq(Directions) /\ Parent(c.key) = key
                        /\ Ancestors(c.key) = Ancestors(key) \cup {key}
                        /\ c.key # key /\ c.key # Root
                        /\ c.key \notin Ancestors(key)
      OBVIOUS
    <3>1. c.key \in ChildKeys(key)
      BY <1>4 DEF KeysOf
    <3>2. PICK d \in Directions : c.key = Child(key, d)
      BY <3>1 DEF ChildKeys
    <3>3. /\ c.key \in Seq(Directions) /\ Parent(c.key) = key /\ c.key # Root
          /\ Ancestors(c.key) = Ancestors(key) \cup {key}
      BY <1>4, <3>2, ChildFacts, AboveChild
    <3>4. c.key \notin Ancestors(c.key) /\ key \in Ancestors(c.key)
      BY <3>3, AboveFacts
    <3> QED
      BY <3>3, <3>4
  <2>3. DOMAIN m_written' \subseteq Seq(Directions)
    BY <1>4, <1>8, <1>10, <2>1, <2>2 DEF WrittenInv
  <2>4. ASSUME NEW p \in BelowRoot(LiveOctants')
        PROVE  ({p.key} \cup Ancestors(p.key)) \cap DOMAIN m_written' = {}
    <3>1. CASE p \in rest
      <4>1. ({p.key} \cup Ancestors(p.key)) \cap DOMAIN m_written = {}
        BY <2>4, <3>1 DEF WrittenInv, Unwritten, BelowRoot, rest
      <4>2. \A c \in children : c.key # p.key /\ c.key \notin Ancestors(p.key)
        BY <1>4, <1>5, <3>1 DEF Antichain, rest
      <4>3. key # Root
        BY <1>12, <3>1
      <4> QED
        BY <1>8, <1>10, <2>1, <4>1, <4>2, <4>3
    <3>2. CASE p = o
      <4>1. key # Root
        BY <1>26, <2>4, <3>2 DEF BelowRoot
      <4>2. PICK c \in children : c \in LiveOctants
        BY <1>13
      <4>3. ({key} \cup Ancestors(key)) \cap DOMAIN m_written = {}
        BY <2>2, <4>2 DEF WrittenInv, Unwritten, BelowRoot
      <4>4. \A x \in DOMAIN all : x # key /\ x \notin Ancestors(key)
        BY <1>8, <2>1, <2>2, <4>1
      <4>5. ({key} \cup Ancestors(key)) \cap DOMAIN m_written' = {}
        <5>1. DOMAIN m_written' = DOMAIN m_written \cup DOMAIN all
          BY <1>10
        <5> QED
          BY ONLY <4>3, <4>4, <5>1
      <4>6. p.key = key
        BY <1>26, <3>2
      <4> QED
        BY ONLY <4>5, <4>6
    <3> QED
      BY <1>20, <2>4, <3>1, <3>2 DEF Replaced, rest, BelowRoot
  <2>5. Unwritten(LiveOctants', m_written')
    BY <2>4 DEF Unwritten
  <2>6. RootWritten(LiveOctants' \cup RootOctants', m_written')
    <3>1. \A p \in LiveOctants' \cup RootOctants' : p.key = Root => p = o /\ key = Root
      BY <1>26, <1>12, <1>14, <1>20 DEF Replaced, rest
    <3>2. key = Root => Root \in DOMAIN all /\ m_written'[Root] = kept
      BY <1>26, <1>10
    <3> QED
      BY <1>26, <1>10, <3>1, <3>2 DEF RootWritten
  <2>7. ASSUME NEW k \in DOMAIN m_written' \ {Root}
        PROVE  \/ Parent(k) \in {Root} \cup DOMAIN m_written'
               \/ \E p \in LiveOctants' : p.key = Parent(k) /\ p.mustWrite
    <3>1. CASE k \in DOMAIN m_written
      <4>1. CASE Parent(k) \in {Root} \cup DOMAIN m_written
        BY <1>10, <4>1
      <4>2. ASSUME NEW p \in LiveOctants, p.key = Parent(k), p.mustWrite
            PROVE  \/ Parent(k) \in {Root} \cup DOMAIN m_written'
                   \/ \E q \in LiveOctants' : q.key = Parent(k) /\ q.mustWrite
        <5>1. CASE p \in children
          <6>1. p \in parts
            BY <4>2, <5>1 DEF parts, ToWrite
          <6> QED
            BY <1>26, <1>10, <4>2, <6>1 DEF KeysOf
        <5>2. CASE p \notin children
          BY <1>20, <4>2, <5>2 DEF Replaced, rest
        <5> QED
          BY <5>1, <5>2
      <4> QED
        BY <2>7, <3>1, <4>1, <4>2 DEF WrittenInv, Linked
    <3>2. CASE k \in DOMAIN all
      <4>1. PICK c \in parts : k = c.key
        BY <2>1, <2>7, <3>2
      <4>2. Parent(k) = key
        BY <1>8, <2>2, <4>1
      <4>3. o.mustWrite /\ o.key = key /\ o \in LiveOctants'
        BY <1>26, <1>20, <4>1 DEF Replaced, rest
      <4> QED
        BY <4>2, <4>3
    <3> QED
      BY <1>10, <2>7, <3>1, <3>2
  <2>8. Linked(LiveOctants', m_written')
    BY <2>7 DEF Linked
  <2> QED
    BY <1>10, <2>3, <2>5, <2>6, <2>8 DEF WrittenInv
<1>25. PointInv'
  <2> DEFINE before == PointsOf(BelowRoot(LiveOctants))
             after == PointsOf(BelowRoot(LiveOctants'))
             given == PointsOf(children)
             sum == SumFunction(all)
             up == IF key = Root THEN 0 ELSE kept
  <2>1. m_totalPoints' = m_totalPoints + sum
    BY <1>2 DEF all
  <2>2. before \in Nat /\ given \in Nat /\ after + given = before + up
    BY <1>4, <1>5, <1>26, <1>20, ReplacedPoints
  <2>3. before + m_totalPoints = CellPoints
    BY <1>14 DEF PointInv
  <2>4. after \in Nat
    <3>1. IsFiniteSet(LiveOctants') /\ LiveOctants' \subseteq Octants
          /\ BelowRoot(LiveOctants') \subseteq LiveOctants'
      BY <1>11, <1>20 DEF Antichain, BelowRoot
    <3> QED
      BY <3>1, PointsAre
  <2>5. m_totalPoints \in Nat
    <3>1. Counts(m_written, DOMAIN m_written)
      BY <1>9 DEF Counts
    <3>2. SumFunctionOnSet(m_written, DOMAIN m_written) \in Nat
      BY <1>9, <3>1, SumNat
    <3> QED
      BY <1>9, <3>2 DEF SumFunction
  <2>6. sum \in Nat /\ sum + up = given /\ up \in Nat
    BY <1>26
  <2> HIDE DEF before, after, given, sum, up
  <2>7. after + (m_totalPoints + sum) = before + m_totalPoints
    BY ONLY <2>2, <2>4, <2>5, <2>6, SMT
  <2>8. after + m_totalPoints' = CellPoints'
    BY <1>14, <2>1, <2>3, <2>7
  <2>9. m_totalPoints' = SumFunction(m_written')
    BY <1>9, <1>10, <2>1 DEF sum
  <2> QED
    BY <1>1, <1>14, <2>8, <2>9 DEF PointInv, after, Counting
<1> QED
  BY <1>1, <1>21, <1>22, <1>23, <1>24, <1>25

\* An enumeration of a finite set has each member once.
LEMMA Enumerates ==
    ASSUME NEW S, IsFiniteSet(S), NEW f \in [1 .. Cardinality(S) -> S],
           \A i, j \in 1 .. Cardinality(S) : f[i] = f[j] => i = j
    PROVE  /\ f \in Seq(S) /\ Len(f) = Cardinality(S) /\ IsInjective(f)
           /\ ToSet(f) = S
<1> DEFINE n == Cardinality(S)
<1>1. n \in Nat /\ IsFiniteSet(1 .. n) /\ Cardinality(1 .. n) = n
  <2>1. n \in Nat
    BY FS_CardinalityType
  <2>2. IsFiniteSet(1 .. n) /\ Cardinality(1 .. n) = IF 1 > n THEN 0 ELSE n - 1 + 1
    <3> HIDE DEF n
    <3> QED
      BY <2>1, FS_Interval
  <2> QED
    BY <2>1, <2>2
<1>2. f \in Injection(1 .. n, S)
  BY DEF Injection, IsInjective
<1>3. f \in Surjection(1 .. n, S)
  <2> HIDE DEF n
  <2>1. Cardinality(1 .. n) = Cardinality(S)
    BY <1>1 DEF n
  <2> QED
    BY <1>2, <2>1, FS_Injection
<1>4. f \in Seq(S) /\ Len(f) = n
  <2>1. f \in [1 .. n -> S]
    OBVIOUS
  <2> HIDE DEF n
  <2> QED
    BY ONLY <1>1, <2>1
<1>5. ToSet(f) = S
  BY <1>3 DEF Surjection, ToSet
<1> QED
  BY <1>2, <1>4, <1>5 DEF Injection

LEMMA AnyOrder ==
    ASSUME NEW S, IsFiniteSet(S)
    PROVE  SetToSeq(S) \in Seq(S) /\ IsInjective(SetToSeq(S)) /\ ToSet(SetToSeq(S)) = S
<1>1. \E f \in [1 .. Cardinality(S) -> S] : IsInjective(f)
  <2>1. ExistsBijection(1 .. Cardinality(S), S)
    BY FS_CardinalityType
  <2> QED
    BY <2>1 DEF ExistsBijection, Bijection, Injection
<1> DEFINE f == SetToSeq(S)
<1>2. f \in [1 .. Cardinality(S) -> S] /\ IsInjective(f)
  BY <1>1 DEF SetToSeq
<1> HIDE DEF f
<1>3. \A i, j \in 1 .. Cardinality(S) : f[i] = f[j] => i = j
  BY <1>2 DEF IsInjective
<1>4. f \in Seq(S) /\ IsInjective(f) /\ ToSet(f) = S
  BY <1>2, <1>3, Enumerates
<1> QED
  BY <1>4 DEF f

LEMMA OneOfTheOrders ==
    ASSUME NEW S, IsFiniteSet(S), NEW f \in SetToSeqs(S)
    PROVE  f \in Seq(S) /\ IsInjective(f) /\ ToSet(f) = S
<1>1. f \in [1 .. Cardinality(S) -> S]
      /\ \A i, j \in 1 .. Cardinality(S) : f[i] = f[j] => i = j
  BY DEF SetToSeqs
<1> QED
  BY <1>1, Enumerates

\* One queue behind another.
LEMMA Follows ==
    ASSUME NEW S, NEW s \in Seq(S), NEW t \in Seq(S), IsInjective(s), IsInjective(t),
           ToSet(s) \cap ToSet(t) = {}
    PROVE  /\ s \o t \in Seq(S) /\ IsInjective(s \o t)
           /\ ToSet(s \o t) = ToSet(s) \cup ToSet(t)
<1> DEFINE u == s \o t
           m == Len(s)
           n == Len(t)
<1>1. /\ u \in Seq(S) /\ m \in Nat /\ n \in Nat
      /\ DOMAIN u = 1 .. (m + n) /\ DOMAIN s = 1 .. m /\ DOMAIN t = 1 .. n
      /\ \A i \in 1 .. (m + n) : u[i] = IF i <= m THEN s[i] ELSE t[i - m]
  OBVIOUS
<1> HIDE DEF u, m, n
<1>2. \A i \in 1 .. (m + n) : (i \in 1 .. m /\ i <= m) \/ (i - m \in 1 .. n /\ ~(i <= m))
  BY ONLY <1>1, SMT
<1>3. \A i, j \in 1 .. (m + n) : i - m = j - m => i = j
  BY ONLY <1>1, SMT
<1>4. /\ \A i \in 1 .. m : i \in 1 .. (m + n) /\ i <= m
      /\ \A i \in 1 .. n : i + m \in 1 .. (m + n) /\ ~(i + m <= m) /\ (i + m) - m = i
  BY ONLY <1>1, SMT
<1>5. /\ \A i \in 1 .. m : s[i] \in ToSet(s)
      /\ \A i \in 1 .. n : t[i] \in ToSet(t)
  BY <1>1 DEF ToSet
<1>6. \A i \in 1 .. (m + n) :
         (i \in 1 .. m /\ u[i] = s[i]) \/ (i - m \in 1 .. n /\ u[i] = t[i - m])
  BY <1>1, <1>2
<1>7. IsInjective(u)
  <2> SUFFICES ASSUME NEW i \in 1 .. (m + n), NEW j \in 1 .. (m + n), u[i] = u[j]
               PROVE  i = j
    BY <1>1 DEF IsInjective
  <2>1. CASE i \in 1 .. m /\ u[i] = s[i]
    <3>1. j \in 1 .. m /\ u[j] = s[j]
      BY <1>5, <1>6, <2>1
    <3> QED
      BY <1>1, <2>1, <3>1 DEF IsInjective
  <2>2. CASE i - m \in 1 .. n /\ u[i] = t[i - m]
    <3>1. j - m \in 1 .. n /\ u[j] = t[j - m]
      BY <1>5, <1>6, <2>2
    <3>2. i - m = j - m
      BY <1>1, <2>2, <3>1 DEF IsInjective
    <3> QED
      BY <1>3, <3>2
  <2> QED
    BY <1>6, <2>1, <2>2
<1>8. ToSet(u) \subseteq ToSet(s) \cup ToSet(t)
  BY <1>1, <1>5, <1>6 DEF ToSet
<1>9. ASSUME NEW i \in 1 .. m PROVE s[i] \in ToSet(u)
  <2>1. i \in 1 .. (m + n) /\ u[i] = s[i]
    BY <1>1, <1>4
  <2> QED
    BY <1>1, <2>1 DEF ToSet
<1>10. ASSUME NEW i \in 1 .. n PROVE t[i] \in ToSet(u)
  <2>1. i + m \in 1 .. (m + n) /\ u[i + m] = t[i]
    BY <1>1, <1>4
  <2> QED
    BY <1>1, <2>1 DEF ToSet
<1>11. ToSet(s) \subseteq ToSet(u)
  BY <1>1, <1>9 DEF ToSet
<1>12. ToSet(t) \subseteq ToSet(u)
  BY <1>1, <1>10 DEF ToSet
<1> QED
  BY <1>1, <1>7, <1>8, <1>11, <1>12 DEF u

-----------------------------------------------------------------------------
ParentKeys == UNION {Ancestors(key) : key \in DOMAIN cells}
CellOctants == {Octant(key, cells[key], FALSE) : key \in DOMAIN cells}
EmptyOctants == {Octant(key, 0, FALSE) : key \in Needed}

LEMMA AboveFinite ==
    ASSUME NEW key \in Seq(Directions) PROVE IsFiniteSet(Ancestors(key))
<1> DEFINE f == [n \in 0 .. Len(key) - 1 |-> SubSeq(key, 1, n)]
<1>1. f \in Surjection(0 .. Len(key) - 1, Ancestors(key))
  BY DEF Surjection, Ancestors
<1>2. IsFiniteSet(0 .. Len(key) - 1)
  <2>1. Len(key) - 1 \in Int /\ 0 \in Int
    OBVIOUS
  <2> QED
    BY <2>1, FS_Interval
<1> HIDE DEF f
<1> QED
  BY <1>1, <1>2, FS_Surjection

LEMMA NeededFacts ==
    ASSUME PyramidAssumption, cells \in CellSets
    PROVE  /\ IsFiniteSet(Needed)
           /\ \A key \in Needed :
                 /\ key \in Seq(Directions) /\ key # Root
                 /\ key \notin DOMAIN cells /\ key \notin ParentKeys
                 /\ Ancestors(key) \subseteq ParentKeys
           /\ ParentKeys \cap DOMAIN cells = {}
           /\ ParentKeys # {} => DOMAIN cells # {}
<1>1. /\ IsFiniteSet(Directions) /\ IsFiniteSet(DOMAIN cells)
      /\ \A key \in DOMAIN cells : key \in Seq(Directions)
                                   /\ Ancestors(key) \cap DOMAIN cells = {}
  BY DEF PyramidAssumption
<1>2. IsFiniteSet(ParentKeys)
  <2> DEFINE f == [key \in DOMAIN cells |-> Ancestors(key)]
             S == {Ancestors(key) : key \in DOMAIN cells}
  <2>1. f \in Surjection(DOMAIN cells, S)
    BY DEF Surjection
  <2>2. IsFiniteSet(S)
    <3> HIDE DEF f, S
    <3> QED
      BY <1>1, <2>1, FS_Surjection
  <2>3. \A T \in S : IsFiniteSet(T)
    BY <1>1, AboveFinite
  <2> HIDE DEF S
  <2>4. IsFiniteSet(UNION S)
    BY <2>2, <2>3, FS_UNION
  <2> QED
    BY <2>4 DEF S, ParentKeys
<1>3. IsFiniteSet(Needed)
  <2> DEFINE P == ParentKeys \X Directions
             all == {Child(key, d) : key \in ParentKeys, d \in Directions}
             f == [p \in P |-> Child(p[1], p[2])]
  <2>1. IsFiniteSet(P)
    BY <1>1, <1>2, FS_Product
  <2>2. f \in Surjection(P, all)
    <3>1. \A p \in P : f[p] \in all
      OBVIOUS
    <3>2. ASSUME NEW key \in ParentKeys, NEW d \in Directions
          PROVE  \E p \in P : f[p] = Child(key, d)
      <4>1. <<key, d>> \in P /\ f[<<key, d>>] = Child(key, d)
        OBVIOUS
      <4> QED
        BY <4>1
    <3>3. f \in [P -> all]
      BY <3>1
    <3>4. ASSUME NEW k \in all PROVE \E p \in P : f[p] = k
      <4>1. PICK key \in ParentKeys, d \in Directions : k = Child(key, d)
        OBVIOUS
      <4> HIDE DEF f, P
      <4> QED
        BY <3>2, <4>1
    <3> HIDE DEF f, P, all
    <3> QED
      BY <3>3, <3>4 DEF Surjection
  <2>3. IsFiniteSet(all)
    <3> HIDE DEF f, all, P
    <3> QED
      BY <2>1, <2>2, FS_Surjection
  <2>4. Needed \in SUBSET all
    BY DEF Needed, ParentKeys
  <2> HIDE DEF all
  <2> QED
    BY <2>3, <2>4, FS_Subset
<1>4. ASSUME NEW key \in Needed
      PROVE  /\ key \in Seq(Directions) /\ key # Root
             /\ key \notin DOMAIN cells /\ key \notin ParentKeys
             /\ Ancestors(key) \subseteq ParentKeys
  <2>1. PICK above \in ParentKeys, d \in Directions : key = Child(above, d)
    BY DEF Needed, ParentKeys
  <2>2. PICK cell \in DOMAIN cells : above \in Ancestors(cell)
    BY DEF ParentKeys
  <2>3. above \in Seq(Directions) /\ Ancestors(above) \subseteq Ancestors(cell)
    BY <1>1, <2>2, AboveFacts, AboveAbove
  <2>4. key \in Seq(Directions) /\ key # Root
        /\ Ancestors(key) = Ancestors(above) \cup {above}
    BY <2>1, <2>3, ChildFacts, AboveChild
  <2>5. Ancestors(key) \subseteq ParentKeys
    BY <2>2, <2>3, <2>4 DEF ParentKeys
  <2> QED
    BY <2>4, <2>5 DEF Needed, ParentKeys
<1>5. ParentKeys \cap DOMAIN cells = {}
  BY <1>1 DEF ParentKeys
<1>6. ParentKeys # {} => DOMAIN cells # {}
  BY DEF ParentKeys
<1> QED
  BY <1>3, <1>4, <1>5, <1>6

LEMMA WorkQueued == PyramidAssumption /\ PyramidInv /\ QueueWork => PyramidInv'
<1> SUFFICES ASSUME PyramidAssumption, PyramidInv, QueueWork PROVE PyramidInv'
  OBVIOUS
<1> USE DEF PyramidInv
<1>1. /\ runner = "queueing" /\ runner' = "waiting"
      /\ UNCHANGED <<cells, held, m_completes, voxels, processed, m_written,
                     m_totalPoints, childCounts, poolVars>>
  BY DEF QueueWork
<1>2. PICK order \in SetToSeqs(DOMAIN cells) :
         m_queue' = [i \in DOMAIN order |->
                        Octant(order[i], cells[order[i]], FALSE)]
                    \o SetToSeq(EmptyOctants)
  BY DEF QueueWork, EmptyOctants
<1> DEFINE first == [i \in DOMAIN order |-> Octant(order[i], cells[order[i]], FALSE)]
           second == SetToSeq(EmptyOctants)
           all == CellOctants \cup EmptyOctants
<1>3. /\ IsFiniteSet(DOMAIN cells) /\ cells \in [DOMAIN cells -> Nat \ {0}]
      /\ \A key \in DOMAIN cells : /\ key \in Seq(Directions) /\ key # Root
                                   /\ Ancestors(key) \cap DOMAIN cells = {}
  BY DEF PyramidAssumption
<1>4. /\ IsFiniteSet(Needed)
      /\ \A key \in Needed :
            /\ key \in Seq(Directions) /\ key # Root
            /\ key \notin DOMAIN cells /\ key \notin ParentKeys
            /\ Ancestors(key) \subseteq ParentKeys
      /\ ParentKeys \cap DOMAIN cells = {}
      /\ ParentKeys # {} => DOMAIN cells # {}
  BY NeededFacts
<1>5. /\ order \in Seq(DOMAIN cells) /\ IsInjective(order)
      /\ ToSet(order) = DOMAIN cells
  BY <1>3, OneOfTheOrders
<1>6. CellOctants \subseteq Octants /\ EmptyOctants \subseteq Octants
  <2>1. ASSUME NEW key \in Seq(Directions), NEW n \in Nat
        PROVE  Octant(key, n, FALSE) \in Octants
    BY DEF Octants, Octant
  <2>2. \A key \in DOMAIN cells : Octant(key, cells[key], FALSE) \in Octants
    BY <1>3, <2>1
  <2>3. \A key \in Needed : Octant(key, 0, FALSE) \in Octants
    BY <1>4, <2>1
  <2> QED
    BY <2>2, <2>3 DEF CellOctants, EmptyOctants
<1>7. IsFiniteSet(CellOctants) /\ IsFiniteSet(EmptyOctants)
  <2> DEFINE f == [key \in DOMAIN cells |-> Octant(key, cells[key], FALSE)]
             g == [key \in Needed |-> Octant(key, 0, FALSE)]
  <2>1. f \in Surjection(DOMAIN cells, CellOctants)
    BY DEF Surjection, CellOctants
  <2>2. g \in Surjection(Needed, EmptyOctants)
    BY DEF Surjection, EmptyOctants
  <2> HIDE DEF f, g
  <2> QED
    BY <1>3, <1>4, <2>1, <2>2, FS_Surjection
<1>8. /\ \A o \in CellOctants : /\ o.key \in DOMAIN cells /\ o.points = cells[o.key]
                                /\ o = Octant(o.key, cells[o.key], FALSE)
                                /\ ~o.mustWrite
      /\ \A o \in EmptyOctants : /\ o.key \in Needed /\ o.points = 0
                                 /\ o = Octant(o.key, 0, FALSE) /\ ~o.mustWrite
  BY DEF CellOctants, EmptyOctants, Octant
<1>9. CellOctants \cap EmptyOctants = {}
  BY <1>4, <1>8
<1>10. /\ first \in Seq(Octants) /\ IsInjective(first) /\ ToSet(first) = CellOctants
  <2>1. /\ DOMAIN order = 1 .. Len(order) /\ Len(order) \in Nat
        /\ \A i \in DOMAIN order : order[i] \in DOMAIN cells
    BY <1>5
  <2>2. \A i \in DOMAIN order : first[i] \in CellOctants /\ first[i].key = order[i]
    BY <2>1 DEF CellOctants, Octant
  <2>3. DOMAIN first = DOMAIN order
    OBVIOUS
  <2>4. first \in Seq(Octants)
    <3>1. first \in [1 .. Len(order) -> Octants]
      BY <1>6, <2>1, <2>2
    <3> HIDE DEF first
    <3> QED
      BY <2>1, <3>1
  <2>5. IsInjective(first)
    <3>1. ASSUME NEW i \in DOMAIN order, NEW j \in DOMAIN order, first[i] = first[j]
          PROVE  i = j
      <4>1. order[i] = order[j]
        BY <2>2, <3>1
      <4> QED
        BY <1>5, <4>1 DEF IsInjective
    <3> HIDE DEF first
    <3> QED
      BY <2>3, <3>1 DEF IsInjective
  <2>6. ASSUME NEW key \in DOMAIN cells
        PROVE  Octant(key, cells[key], FALSE) \in ToSet(first)
    <3>1. PICK i \in DOMAIN order : order[i] = key
      BY <1>5 DEF ToSet
    <3> QED
      BY <3>1 DEF ToSet
  <2>7. ToSet(first) = CellOctants
    BY <2>2, <2>3, <2>6 DEF ToSet, CellOctants
  <2> QED
    BY <2>4, <2>5, <2>7
<1>11. /\ second \in Seq(Octants) /\ IsInjective(second) /\ ToSet(second) = EmptyOctants
  <2>1. second \in Seq(EmptyOctants) /\ IsInjective(second) /\ ToSet(second) = EmptyOctants
    BY <1>7, AnyOrder
  <2> HIDE DEF second
  <2> QED
    BY <1>6, <2>1
<1>12. /\ m_queue' \in Seq(Octants) /\ IsInjective(m_queue') /\ QueuedOctants' = all
  <2>1. m_queue' = first \o second
    BY <1>2
  <2> HIDE DEF first, second
  <2>2. /\ first \o second \in Seq(Octants) /\ IsInjective(first \o second)
        /\ ToSet(first \o second) = ToSet(first) \cup ToSet(second)
    BY ONLY <1>9, <1>10, <1>11, Follows
  <2> QED
    BY <1>10, <1>11, <2>1, <2>2 DEF QueuedOctants
<1>13. /\ LiveOctants = {} /\ DOMAIN m_written = {}
  BY <1>1 DEF RunnerInv
<1>14. /\ PoppedOctants' = {} /\ m_completes' = {} /\ processed' = {}
       /\ GivenOctants' = {} /\ RootOctants' = {} /\ CellPoints' = CellPoints
       /\ Counting' = FALSE
  BY <1>1, <1>13 DEF PoppedOctants, GivenOctants, Unprocessed, RootOctants,
                     Counting, CellPoints, LiveOctants
<1>15. LiveOctants' = all /\ OctantsApart'
  BY <1>12, <1>14 DEF LiveOctants, OctantsApart
<1> HIDE DEF all, first, second
<1>16. \A o \in all : o.key \in Seq(Directions) /\ o.key # Root /\ ~o.mustWrite
  BY <1>3, <1>4, <1>8 DEF all
<1>17. Antichain(all)
  <2>1. IsFiniteSet(all) /\ all \subseteq Octants
    BY <1>6, <1>7, FS_Union DEF all
  <2>2. \A o, p \in all : o.key = p.key => o = p
    BY <1>4, <1>8 DEF all
  <2>3. ASSUME NEW o \in all, NEW p \in all, o.key \in Ancestors(p.key) PROVE FALSE
    <3>1. o.key \in ParentKeys
      <4>1. CASE p \in CellOctants
        BY <1>8, <2>3, <4>1 DEF ParentKeys
      <4>2. CASE p \in EmptyOctants
        BY <1>4, <1>8, <2>3, <4>2
      <4> QED
        BY <4>1, <4>2 DEF all
    <3> QED
      BY <1>4, <1>8, <3>1 DEF all
  <2> QED
    BY <1>16, <2>1, <2>2, <2>3 DEF Antichain
<1>18. OctantInv'
  <2>1. all # {} => DOMAIN cells # {}
    <3>1. Needed # {} => ParentKeys # {}
      BY DEF Needed, ParentKeys
    <3> QED
      BY <1>4, <1>8, <3>1 DEF all
  <2> QED
    BY <1>1, <1>15, <1>17, <2>1 DEF OctantInv
<1>19. RunnerInv'
  BY <1>1, <1>12, <1>14 DEF RunnerInv
<1>20. VoxelInv'
  BY <1>1 DEF VoxelInv, poolVars
<1>21. WrittenInv'
  <2>1. /\ Unwritten(all, m_written) /\ RootWritten(all, m_written)
        /\ Linked(all, m_written)
    BY <1>13, <1>16 DEF Unwritten, RootWritten, Linked
  <2> QED
    BY <1>1, <1>14, <1>15, <2>1 DEF WrittenInv
<1>22. PointInv'
  <2>1. BelowRoot(all) = CellOctants \cup EmptyOctants
    BY <1>16 DEF BelowRoot, all
  <2>2. PointsOf(CellOctants \cup EmptyOctants) = PointsOf(CellOctants) + PointsOf(EmptyOctants)
    BY <1>6, <1>7, <1>9, PointsJoin
  <2>3. PointsOf(EmptyOctants) = 0
    <3> DEFINE f == [o \in EmptyOctants |-> o.points]
    <3>1. \A o \in EmptyOctants : f[o] = 0
      BY <1>8
    <3>2. PointsOf(EmptyOctants) = SumFunctionOnSet(f, EmptyOctants)
      BY DEF PointsOf, SumFunction
    <3> HIDE DEF f
    <3> QED
      BY <1>7, <3>1, <3>2, SumOfZeros
  <2>4. PointsOf(CellOctants) = CellPoints
    <3> DEFINE f == [o \in CellOctants |-> o.points]
               m == [key \in DOMAIN cells |-> Octant(key, cells[key], FALSE)]
               g == [key \in DOMAIN cells |-> f[m[key]]]
    <3>1. PointsOf(CellOctants) = SumFunctionOnSet(f, CellOctants)
      BY DEF PointsOf, SumFunction
    <3>2. \A key \in DOMAIN cells : m[key] \in CellOctants /\ m[key].key = key
                                    /\ m[key].points = cells[key]
      BY DEF CellOctants, Octant
    <3>3. {m[key] : key \in DOMAIN cells} = CellOctants
      BY DEF CellOctants
    <3>4. \A x \in DOMAIN cells, y \in DOMAIN cells : m[x] = m[y] => x = y
      BY <3>2
    <3>5. \A key \in DOMAIN cells : f[m[key]] = cells[key]
      BY <3>2
    <3>6. \A key \in DOMAIN cells : f[m[key]] \in Nat
      BY <1>3, <3>5
    <3>7. \A key \in DOMAIN cells : g[key] = cells[key]
      BY <3>5
    <3>8. SumFunctionOnSet(f, {m[key] : key \in DOMAIN cells}) = SumFunctionOnSet(g, DOMAIN cells)
      <4>1. SumFunctionOnSet(f, {m[key] : key \in DOMAIN cells})
              = SumFunctionOnSet([key \in DOMAIN cells |-> f[m[key]]], DOMAIN cells)
        <5> HIDE DEF f, m
        <5>1. IsFiniteSet(DOMAIN cells)
          BY <1>3
        <5> QED
          BY ONLY <5>1, <3>4, <3>6, SumImage
      <4> QED
        BY <4>1
    <3>9. SumFunctionOnSet(cells, DOMAIN cells) = SumFunctionOnSet(g, DOMAIN cells)
      <4>1. Counts(cells, DOMAIN cells) /\ \A x \in DOMAIN cells : cells[x] = g[x]
        BY <1>3, <3>7 DEF Counts
      <4> HIDE DEF g
      <4> QED
        BY <1>3, <4>1, SumSame
    <3> HIDE DEF f, m, g
    <3> QED
      BY <3>1, <3>3, <3>8, <3>9 DEF CellPoints, SumFunction
  <2>5. CellPoints \in Nat
    BY CellsCounted
  <2>6. m_totalPoints = 0
    BY <1>13, SumOfNone DEF PointInv, SumFunction
  <2>7. PointsOf(BelowRoot(all)) + m_totalPoints = CellPoints
    BY <2>1, <2>2, <2>3, <2>4, <2>5, <2>6
  <2> QED
    BY <1>1, <1>14, <1>15, <2>7 DEF PointInv
<1> QED
  BY <1>1, <1>18, <1>19, <1>20, <1>21, <1>22

LEMMA PyramidStarts ==
    PyramidAssumption /\ NoTasks(TRUE) /\ PyramidInit => PyramidInv
<1> SUFFICES ASSUME NoTasks(TRUE), PyramidInit PROVE PyramidInv
  OBVIOUS
<1>1. /\ cells \in CellSets /\ runner = "queueing" /\ held = NoOctant
      /\ m_queue = <<>> /\ m_completes = {} /\ voxels = <<>> /\ processed = {}
      /\ m_written = <<>> /\ m_totalPoints = 0 /\ childCounts = {}
      /\ waiting = <<>> /\ running = {}
  BY DEF NoTasks, PyramidInit, PyramidInitAt
<1>2. DOMAIN voxels = {} /\ DOMAIN m_written = {} /\ ToSet(m_queue) = {}
      /\ ToSet(waiting) = {} /\ IsInjective(m_queue) /\ IsInjective(waiting)
  BY <1>1 DEF ToSet, IsInjective
<1>3. /\ PoppedOctants = {} /\ QueuedOctants = {} /\ GivenOctants = {}
      /\ RootOctants = {} /\ LiveOctants = {} /\ OctantsApart
      /\ NoOctant \in Octants
  BY <1>1, <1>2 DEF PoppedOctants, QueuedOctants, GivenOctants, Unprocessed,
     RootOctants, Counting, LiveOctants, OctantsApart, NoOctant, Octant, Octants, Root
<1>4. OctantInv
  BY <1>3, FS_EmptySet DEF OctantInv, Antichain
<1>5. RunnerInv
  BY <1>1, <1>2, <1>3 DEF RunnerInv, Counting
<1>6. VoxelInv
  BY <1>1, <1>2 DEF VoxelInv, KeysOf
<1>7. WrittenInv
  BY <1>1, <1>2, <1>3, FS_EmptySet DEF WrittenInv, Unwritten, RootWritten, Linked,
     BelowRoot
<1>8. PointInv
  BY <1>1, <1>2, SumOfNone DEF PointInv, SumFunction
<1> QED
  BY <1>1, <1>4, <1>5, <1>6, <1>7, <1>8 DEF PyramidInv

LEMMA PyramidSteps ==
    PyramidAssumption /\ PyramidInv /\ [PyramidNext]_pyramidVars => PyramidInv'
<1> SUFFICES ASSUME PyramidAssumption, PyramidInv, [PyramidNext]_pyramidVars
             PROVE  PyramidInv'
  OBVIOUS
<1>1. CASE QueueWork
  BY <1>1, WorkQueued
<1>2. CASE TakeOctant
  BY <1>2, OctantTaken
<1>3. CASE ProcessOctant
  BY <1>3, OctantProcessed
<1>4. CASE Finish
  BY <1>4, RunnerFinishes
<1>5. ASSUME NEW key \in VoxelTasks, VoxelStep(key) PROVE PyramidInv'
  BY <1>5, VoxelStarts, VoxelWritten, VoxelQueued DEF VoxelStep
<1>6. CASE UNCHANGED pyramidVars
  <2>1. UNCHANGED <<cells, runner, held, m_queue, m_completes, voxels, processed,
                    m_written, m_totalPoints, childCounts, waiting, running>>
    BY <1>6 DEF pyramidVars, pyramidState, poolVars
  <2>2. /\ LiveOctants' = LiveOctants /\ OctantsApart' = OctantsApart
        /\ PoppedOctants' = PoppedOctants /\ RootOctants' = RootOctants
        /\ CellPoints' = CellPoints /\ Counting' = Counting
    BY <2>1 DEF LiveOctants, OctantsApart, PoppedOctants, QueuedOctants, GivenOctants,
       Unprocessed, RootOctants, Counting, CellPoints
  <2>3. OctantInv' /\ RunnerInv'
    BY <2>1, <2>2 DEF PyramidInv, OctantInv, RunnerInv
  <2>4. VoxelInv'
    BY <2>1 DEF PyramidInv, VoxelInv
  <2>5. WrittenInv' /\ PointInv'
    BY <2>1, <2>2 DEF PyramidInv, WrittenInv, PointInv
  <2> QED
    BY <2>1, <2>3, <2>4, <2>5 DEF PyramidInv
<1> QED
  BY <1>1, <1>2, <1>3, <1>4, <1>5, <1>6 DEF PyramidNext, RunnerStep, PyramidEnded

\* For all directions and cells: every octant of the pyramid is in one place,
\* what was written is below what was not, and the points add up.
THEOREM PyramidHolds == ASSUME PyramidAssumption PROVE PyramidSpec => []PyramidInv
<1>1. NoTasks(TRUE) /\ PyramidInit => PyramidInv
  BY PyramidStarts
<1>2. PyramidInv /\ [PyramidNext]_pyramidVars => PyramidInv'
  BY PyramidSteps
<1> QED
  BY <1>1, <1>2, PTL DEF PyramidSpec

LEMMA PyramidConnected ==
    ASSUME PyramidAssumption PROVE PyramidInv => NoPointLost /\ ChunksConnected
<1> SUFFICES ASSUME PyramidInv PROVE NoPointLost /\ ChunksConnected
  OBVIOUS
<1> USE DEF PyramidInv
<1>1. ChunksConnected
  BY DEF PointInv, ChunksConnected
<1>2. m_totalPoints = SumFunction(m_written)
  BY DEF PointInv
<1>3. CASE runner \notin {"queueing", "counting", "gone"}
  <2>1. {o \in OctantsHeld : o.key # Root} = BelowRoot(LiveOctants)
    <3>1. runner = "waiting" => held.key = Root
      BY DEF RunnerInv, NoOctant, Octant
    <3>2. runner \in {"waiting", "processing"}
      BY <1>3 DEF RunnerInv
    <3> QED
      BY <3>1, <3>2 DEF OctantsHeld, LiveOctants, BelowRoot, PoppedOctants,
         QueuedOctants, GivenOctants
  <2> QED
    BY <1>1, <1>2, <1>3, <2>1 DEF NoPointLost, PointInv
<1>4. CASE runner \in {"counting", "gone"}
  <2>1. LiveOctants = {} /\ runner # "queueing"
    BY <1>4 DEF RunnerInv, Counting
  <2>2. BelowRoot({}) = {}
    BY DEF BelowRoot
  <2>3. 0 + m_totalPoints = CellPoints
    BY <2>1, <2>2, PointsOfNone DEF PointInv
  <2>4. m_totalPoints \in Nat
    <3>1. IsFiniteSet(DOMAIN m_written) /\ Counts(m_written, DOMAIN m_written)
      BY DEF WrittenInv, Counts
    <3>2. SumFunctionOnSet(m_written, DOMAIN m_written) \in Nat
      BY <3>1, SumNat
    <3> QED
      BY <1>2, <3>2 DEF SumFunction
  <2>5. m_totalPoints = CellPoints
    BY <2>3, <2>4
  <2> QED
    BY <1>1, <1>2, <1>4, <2>5 DEF NoPointLost
<1>5. CASE runner = "queueing"
  BY <1>1, <1>2, <1>5 DEF NoPointLost
<1> QED
  BY <1>3, <1>4, <1>5

-----------------------------------------------------------------------------
(***************************************************************************)
(* One client of the pool, while the others rest.                          *)
(***************************************************************************)
ClientInv ==
    /\ client = "laz" => LazInv
    /\ client = "ept" => EptInv
    /\ client = "las" => LasInv
    /\ client = "page" => PageInv
    /\ client = "copc" => CopcInv
    /\ client = "pyramid" => PyramidInv
    /\ client = "catalog" => CatalogInv

\* A step while one client is chosen is a step of that client.
LEMMA ClientSteps ==
    ASSUME [Next]_clientVars
    PROVE  /\ client' = client
           /\ client = "laz" => [LazNext]_lazVars
           /\ client = "ept" => [EptNext]_eptVars
           /\ client = "las" => [LasNext]_lasVars
           /\ client = "page" => [PageNext]_pageVars
           /\ client = "copc" => [CopcNext]_copcVars
           /\ client = "pyramid" => [PyramidNext]_pyramidVars
           /\ client = "catalog" => [CatalogNext]_catalogVars
<1>1. CASE UNCHANGED clientVars
  BY <1>1 DEF clientVars, lazVars, eptVars, lasVars, pageVars, copcVars, pyramidVars,
              catalogVars
<1>2. CASE Next
  <2>1. \E c \in Clients : Of(c)
    BY <1>2 DEF Next, Clients
  <2>2. client' = client
    BY <2>1 DEF Of
  <2>3. client = "laz" => LazNext
    BY <1>2 DEF Next, Of, LazNext, LazWriterStep, LazTaskStep
  <2>4. client = "las" => LasNext
    BY <1>2 DEF Next, Of, LasNext, LasReaderStep, LasTaskStep
  <2>5. client = "page" => PageNext
    BY <1>2 DEF Next, Of, PageNext, WalkerStep, FetchStep
  <2>6. client = "copc" => CopcNext
    <3>1. Requesters \subseteq Threads
      <4>1. Requests \in Nat \ {0, 1}
        BY ClientsAssumption DEF CopcAssumption
      <4>2. 1 \in 1 .. Requests
        BY <4>1, SMT
      <4> QED
        BY <4>2 DEF Requesters, Threads
    <3> QED
      BY <1>2, <3>1 DEF Next, Of, CopcNext, MainStep, RequestStep, DecodeStep
  <2>7. client = "pyramid" => PyramidNext
    BY <1>2 DEF Next, Of, PyramidNext, RunnerStep, VoxelStep
  <2>8. client = "ept" => EptNext
    BY <1>2 DEF Next, Of, EptNext, EptReaderStep, EptPageStep, EptTileStep
  <2>9. client = "catalog" => CatalogNext
    BY <1>2 DEF Next, Of, CatalogNext, StacReaderStep, LinkStep
  <2> QED
    BY <2>2, <2>3, <2>4, <2>5, <2>6, <2>7, <2>8, <2>9
<1> QED
  BY <1>1, <1>2

\* ClientsHold: whichever client runs, its invariant holds.
THEOREM ClientsHold == Spec => []ClientInv
<1>1. ChunksAssumption /\ LasAssumption /\ PageAssumption /\ CopcAssumption
      /\ PyramidAssumption /\ EptAssumption /\ CatalogAssumption
  BY ClientsAssumption
<1>2. Init => ClientInv
  BY <1>1, InitLaz, InitEpt, LasStarted, InitPage, InitCopc, PyramidStarts, InitCatalog
     DEF Init, ClientInv
<1>3. ClientInv /\ [Next]_clientVars => ClientInv'
  BY <1>1, ClientSteps, LazStep, LasSteps, PageStep, StepKept, PyramidSteps,
     EptSteps, CatalogSteps DEF ClientInv
<1> QED
  BY <1>2, <1>3, PTL DEF Spec

\* InOrder: what pools finish in any order is used in its own: a LAZ file has
\* its chunks as one thread would have written them, the LAS reader and the
\* ordered COPC reader hand out the file's points and tiles as they stand in it.
THEOREM ClientsInOrder == Spec => []InOrder
<1>1. ClientInv => InOrder
  BY ClientsAssumption, FileSerial, PointsOrdered, TilesOrdered DEF ClientInv, InOrder
<1> QED
  BY <1>1, ClientsHold, PTL

\* Bounded: the memory that the LAZ writer and the LAS and COPC readers hold
\* for work in progress has the bound they were given.
THEOREM ClientsBounded == Spec => []Bounded
<1>1. ClientInv => Bounded
  BY ClientsAssumption, MemoryBound, ReadAheadBound, TilesCounted DEF ClientInv, Bounded
<1> QED
  BY <1>1, ClientsHold, PTL

\* FetchedOnce: no page is fetched twice at a time, and an entry of the page
\* cache that has no page has a fetch on its way.
THEOREM ClientsFetchOnce == Spec => []FetchedOnce
<1>1. ClientInv => FetchedOnce
  BY ClientsAssumption, PagesFetched DEF ClientInv, FetchedOnce
<1> QED
  BY <1>1, ClientsHold, PTL

\* TileOnce: no tile of an EPT or COPC reader is lost or read twice.
THEOREM ClientsTileOnce == Spec => []TileOnce
<1>1. ClientInv => TileOnce
  BY ClientsAssumption, EptTilesOne, TilesOne DEF ClientInv, TileOnce
<1> QED
  BY <1>1, ClientsHold, PTL

\* HierarchyConnected: the COPC writer loses no point on the way up, and every
\* chunk it wrote is in the hierarchy.
THEOREM ClientsConnected == Spec => []HierarchyConnected
<1>1. ClientInv => HierarchyConnected
  BY ClientsAssumption, PyramidConnected DEF ClientInv, HierarchyConnected
<1> QED
  BY <1>1, ClientsHold, PTL

\* CatalogComplete: a STAC reader gets every item of its catalogs, or throws
\* what went wrong in any of them.
THEOREM ClientsComplete == Spec => []CatalogComplete
<1>1. ClientInv => CatalogComplete
  BY ClientsAssumption, ItemsRead DEF ClientInv, CatalogComplete
<1> QED
  BY <1>1, ClientsHold, PTL
===============================================================================
