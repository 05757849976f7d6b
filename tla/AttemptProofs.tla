--------------------------- MODULE AttemptProofs ---------------------------
(***************************************************************************)
(* Proofs about the two ways that MCAttempt takes through a pipeline.      *)
(*                                                                         *)
(* CommandLine and the sink it publishes through, for every queue depth,   *)
(* number of blocks and set of commands: that the sink's file is whole     *)
(* when close() says so, that one executor writes the output, and that no  *)
(* temporary stays.                                                        *)
(*                                                                         *)
(* ResidentContext, for every set of planned runs and every number of      *)
(* points: that a run applies each filter once and in order, with the      *)
(* context at rest whenever the host runs a stage, and in which two cases  *)
(* the context refuses an item of a run that the preflight accepted.       *)
(***************************************************************************)
EXTENDS CommandLine, ResidentContext, TileArithmetic, SequenceTheorems, TLAPS

-----------------------------------------------------------------------------
(***************************************************************************)
(* The sink.                                                               *)
(***************************************************************************)
RequestSet == {Requests[i] : i \in 1 .. Blocks + 1}
InHand == IF worker = "writing" THEN 1 ELSE 0

\* How many of the accepted writes have left the hands of the writing thread.
Through == accepted - Len(m_pending) - InHand

\* The types, but for the bound on the free buffers, which BufferInv gives.
SinkTypes ==
    /\ sink \in {"absent", "translating", "taking", "asleep", "copying",
                 "notifying", "stopping", "stopped", "joining"}
    /\ sinkResult \in {"none", "closing", "cudaError", "failed", "written"}
    /\ accepted \in 0 .. Blocks + 1
    /\ m_freeBuffers \in Nat
    /\ m_pending \in Seq(RequestSet)
    /\ m_failure \in BOOLEAN /\ m_stopping \in BOOLEAN
    /\ worker \in {"absent", "checking", "asleep", "writing", "recycling",
                   "recycled", "gone"}
    /\ writing \in RequestSet
    /\ file \in [Places -> {Hole, "torn", "points", "header"}]

\* The queue holds the writes accepted last, in their order, and the writing
\* thread the one before them.
PendingInv ==
    /\ Through >= 0
    /\ \A i \in 1 .. Len(m_pending) :
          m_pending[i] = Requests[Through + InHand + i]
    /\ worker = "writing" => writing = Requests[Through + 1]

\* Every buffer is free, or full and waiting, or in a thread's hands; one that
\* was in the writing thread's when a write failed is lost.
BufferInv ==
    m_freeBuffers + Len(m_pending)
        + (IF worker \in {"writing", "recycling"} THEN 1 ELSE 0)
        + (IF sink = "copying" THEN 1 ELSE 0) <= QueueDepth

Translating == sink \in {"translating", "taking", "asleep", "copying", "notifying"}
Ending == sink \in {"stopping", "stopped", "joining"}

\* What the two threads know of each other: the caller joins a thread that was
\* told to stop, and the thread leaves only when it was told to or failed.
PhaseInv ==
    /\ Translating => sinkResult = "none"
    /\ Ending => sinkResult \in {"closing", "cudaError", "failed"}
    /\ sink = "absent" => /\ sinkResult # "closing"
                          /\ worker \in {"absent", "gone"}
                          /\ sinkResult = "none" => worker = "absent"
    /\ worker = "absent" => sink = "absent" /\ ~m_stopping /\ ~m_failure
    /\ sinkResult = "closing" => accepted = Blocks + 1
    /\ sink \in {"taking", "asleep", "copying"} => accepted <= Blocks
    /\ m_failure => m_stopping
    /\ m_stopping => m_failure \/ sink \in {"stopped", "joining", "absent"}
    /\ worker = "gone" => m_stopping /\ (m_failure \/ m_pending = <<>>)

\* Unless a write failed, what left the writing thread's hands is in the file.
FileInv ==
    /\ ~m_failure =>
          \A i \in 1 .. Through : file[Requests[i].at] = Requests[i].data
    /\ SinkWhole
    /\ sinkResult = "written" => worker = "gone"

SinkInv == SinkTypes /\ PendingInv /\ BufferInv /\ PhaseInv /\ FileInv

-----------------------------------------------------------------------------
(***************************************************************************)
(* The command.                                                            *)
(***************************************************************************)
CommandTypes ==
    /\ command \in CommandCases
    /\ route \in Routes
    /\ step \in {"asked", "executing", "caught", "validating", "mapped",
                 "opening", "sinking", "choosing", "creating", "filling",
                 "linking", "unlinking"}
    /\ status \in {Running, 0, 1, 126, 127}
    /\ committed \in BOOLEAN
    /\ output \in [by : Routes \cup {"other", "nobody"}, whole : BOOLEAN]
    /\ taken \in BOOLEAN
    /\ temporary \in [Publishers -> {"nobody", "ours", "other"}]
    /\ strays \subseteq Publishers
    /\ temporaryOwned \in BOOLEAN /\ filled \in BOOLEAN /\ stuck \in BOOLEAN

\* Which steps an executor has.
RouteInv ==
    /\ route \in {"hybrid", "pdal"} => step = "asked"
    /\ committed => route = "resident" /\ step # "asked"
    /\ step \in {"executing", "validating"} => route = "resident"
    /\ step \in {"mapped", "opening", "sinking", "choosing"} => route = "native"
    /\ route = "resident" \/ step \in {"asked", "mapped", "opening"} =>
          sink = "absent" /\ (sinkResult = "none" \/ route \in {"hybrid", "pdal"})
    /\ step = "sinking" \/ sink = "absent"
    /\ step \in {"linking", "unlinking"} => filled
    /\ route = "resident" /\ step \in {"creating", "filling", "linking", "unlinking"} =>
          command.executor # "writer"
    /\ route = "resident" /\ step # "asked" =>
          committed \/ command.executor = "late"

\* The temporary file is the command's own only while it is at work on it.
TemporaryInv ==
    /\ \A r \in Publishers : r \in strays <=> temporary[r] = "other"
    /\ temporaryOwned =>
          /\ route \in Publishers /\ temporary[route] = "ours"
          /\ step \in {"sinking", "filling", "linking", "unlinking", "caught",
                      "validating"}
    /\ ~stuck => \A r \in Publishers :
          temporary[r] = "ours" => r = route /\ temporaryOwned
    /\ temporaryOwned /\ ~stuck => step # "validating" /\ status = Running
    /\ step \in {"sinking", "filling", "linking"} => temporaryOwned
    /\ step = "unlinking" /\ status = Running => temporaryOwned

\* Who has written the output is still asked, and cannot hand over any more.
OutputInv ==
    /\ output.by = "nobody" => ~taken /\ ~output.whole
    /\ output.by = "resident" =>
          route = "resident" /\ (committed \/ step = "unlinking")
    /\ output.by = "native" => route = "native" /\ step = "unlinking"
    /\ output.by \in {"hybrid", "pdal"} => route = output.by /\ status # Running
    /\ output.by \in Publishers /\ PublishesAtOnce(output.by) =>
          output.whole /\ ~taken
    /\ step = "validating" => output.by = "resident"
    /\ step = "unlinking" => output = File(route, TRUE)
    /\ status = 0 /\ route \in Publishers => output = File(route, TRUE)

CommandInv == CommandTypes /\ RouteInv /\ TemporaryInv /\ OutputInv

IInv == SinkInv /\ CommandInv

-----------------------------------------------------------------------------
\* The requests: a block for each place from 1 on, then the header.
LEMMA RequestFacts ==
    ASSUME SinkAssumption
    PROVE  /\ Len(Requests) = Blocks + 1
           /\ \A i \in 1 .. Blocks + 1 :
                 /\ Requests[i] = IF i = Blocks + 1 THEN Header
                                  ELSE [at |-> i, data |-> "points"]
                 /\ Requests[i] \in RequestSet
           /\ Header \in RequestSet
<1>1. Blocks \in Nat
  BY DEF SinkAssumption
<1> DEFINE R == [b \in 1 .. Blocks |-> [at |-> b, data |-> "points"]]
           S == {[at |-> b, data |-> "points"] : b \in 1 .. Blocks}
<1>2. R \in Seq(S) /\ Len(R) = Blocks
  BY <1>1
<1>3. \A i \in 1 .. Blocks : R[i] = [at |-> i, data |-> "points"]
  OBVIOUS
<1> HIDE DEF R, S
<1>4. /\ Len(Append(R, Header)) = Blocks + 1
      /\ Append(R, Header)[Blocks + 1] = Header
      /\ \A i \in 1 .. Blocks : Append(R, Header)[i] = R[i]
  <2>1. R \in Seq(S \cup {Header})
    BY <1>2
  <2> QED
    BY <1>1, <1>2, <2>1
<1>5. Requests = Append(R, Header)
  BY DEF Requests, R
<1>6. \A i \in 1 .. Blocks + 1 : i = Blocks + 1 \/ i \in 1 .. Blocks
  BY <1>1, SMT
<1>7. Blocks + 1 \in 1 .. Blocks + 1 /\ \A i \in 1 .. Blocks : i # Blocks + 1
  BY <1>1, SMT
<1> HIDE DEF Header
<1> QED
  BY <1>3, <1>4, <1>5, <1>6, <1>7 DEF RequestSet

\* Every write goes to a place of its own.
LEMMA PlacesApart ==
    ASSUME SinkAssumption, NEW i \in 1 .. Blocks + 1, NEW j \in 1 .. Blocks + 1
    PROVE  /\ Requests[i].at \in Places
           /\ Requests[i].data \in {"points", "header"}
           /\ Requests[i].at = Requests[j].at => i = j
           /\ Requests[i].data = Whole[Requests[i].at]
<1>1. Blocks \in Nat
  BY DEF SinkAssumption
<1>2. /\ Requests[i].at = IF i = Blocks + 1 THEN 0 ELSE i
      /\ Requests[j].at = IF j = Blocks + 1 THEN 0 ELSE j
      /\ Requests[i].data = IF i = Blocks + 1 THEN "header" ELSE "points"
  BY RequestFacts DEF Header
<1>3. Requests[i].at \in Places /\ (Requests[i].at = 0 <=> i = Blocks + 1)
  BY <1>1, <1>2, SMT DEF Places
<1>4. Requests[i].at = Requests[j].at => i = j
  BY <1>1, <1>2, SMT
<1>5. Whole[Requests[i].at] = IF Requests[i].at = 0 THEN "header" ELSE "points"
  BY <1>3 DEF Whole
<1> QED
  BY <1>2, <1>3, <1>4, <1>5

\* Who has put every request in its place has written the whole file.
LEMMA FileIsWhole ==
    ASSUME SinkAssumption, file \in [Places -> {Hole, "torn", "points", "header"}],
           \A i \in 1 .. Blocks + 1 : file[Requests[i].at] = Requests[i].data
    PROVE  file = Whole
<1>1. Blocks \in Nat
  BY DEF SinkAssumption
<1>2. ASSUME NEW place \in Places PROVE file[place] = Whole[place]
  <2>1. PICK i \in 1 .. Blocks + 1 : Requests[i].at = place
    <3>1. CASE place = 0
      <4>1. Blocks + 1 \in 1 .. Blocks + 1 /\ Requests[Blocks + 1].at = 0
        BY <1>1, RequestFacts, SMT DEF Header
      <4> QED
        BY <3>1, <4>1
    <3>2. CASE place # 0
      <4>1. place \in 1 .. Blocks + 1 /\ place # Blocks + 1
        BY <1>1, <3>2, SMT DEF Places
      <4>2. Requests[place].at = place
        BY <4>1, RequestFacts
      <4> QED
        BY <4>1, <4>2
    <3> QED
      BY <3>1, <3>2
  <2> QED
    BY <2>1, PlacesApart
<1> QED
  BY <1>2 DEF Whole

\* The sink before it starts.
LEMMA InitSink == ASSUME SinkAssumption, SinkInitAt("absent") PROVE SinkInv
<1>1. Blocks \in Nat /\ QueueDepth \in Nat \ {0}
  BY DEF SinkAssumption
<1>2. /\ m_pending = <<>> /\ m_pending \in Seq(RequestSet) /\ Len(m_pending) = 0
      /\ accepted = 0 /\ InHand = 0
  BY DEF SinkInitAt, InHand
<1>3. Through = 0 /\ 1 .. Through = {} /\ 1 .. Len(m_pending) = {}
  <2>1. Len(m_pending) = 0 /\ accepted = 0 /\ InHand = 0
    BY <1>2
  <2> QED
    BY ONLY <2>1, SMT DEF Through
<1>4. SinkTypes
  <2>1. 0 \in 0 .. Blocks + 1
    BY <1>1, SMT
  <2> QED
    BY <1>1, <1>2, <2>1, RequestFacts DEF SinkInitAt, SinkTypes
<1>5. PendingInv
  BY <1>3 DEF SinkInitAt, PendingInv
<1>6. BufferInv
  <2>1. m_freeBuffers = QueueDepth /\ Len(m_pending) = 0
        /\ worker = "absent" /\ sink = "absent"
    BY <1>2 DEF SinkInitAt
  <2> QED
    BY ONLY <1>1, <2>1, SMT DEF BufferInv
<1>7. PhaseInv
  BY DEF SinkInitAt, PhaseInv, Translating, Ending
<1>8. FileInv
  BY <1>3 DEF SinkInitAt, FileInv, SinkWhole
<1> QED
  BY <1>4, <1>5, <1>6, <1>7, <1>8 DEF SinkInv

\* Steps that leave the queue, the writing thread's hands and the file alone.
LEMMA SinkQuiet ==
    ASSUME SinkInv, UNCHANGED <<accepted, m_pending, writing, file>>,
           worker' = "writing" <=> worker = "writing", m_failure' = m_failure
    PROVE  PendingInv' /\ Through' = Through /\ InHand' = InHand
<1>1. InHand' = InHand /\ Through' = Through
  BY DEF InHand, Through
<1> QED
  BY <1>1 DEF SinkInv, PendingInv

\* Every step of the caller or the writing thread keeps the sink's invariant.
LEMMA SinkStep ==
    ASSUME SinkAssumption, SinkInv,
           \/ SinkStarts /\ sinkResult = "none"
           \/ SinkCallerStep \/ SinkWorkerStep \/ SpuriousWakeup
           \/ UNCHANGED sinkVars
    PROVE  SinkInv'
<1>1. /\ Blocks \in Nat /\ QueueDepth \in Nat \ {0}
      /\ SinkTypes /\ PendingInv /\ BufferInv /\ PhaseInv /\ FileInv
      /\ Len(m_pending) \in Nat /\ Len(Requests) = Blocks + 1
  BY RequestFacts DEF SinkAssumption, SinkInv, SinkTypes
<1>2. CASE SinkStarts /\ sinkResult = "none"
  <2>1. PendingInv' /\ Through' = Through
    BY <1>1, <1>2, SinkQuiet DEF SinkStarts, SinkClosed, PhaseInv
  <2>2. SinkTypes'
    BY <1>1, <1>2 DEF SinkStarts, SinkTypes
  <2>3. BufferInv'
    BY <1>1, <1>2 DEF SinkStarts, SinkClosed, PhaseInv, BufferInv
  <2>4. PhaseInv'
    BY <1>1, <1>2 DEF SinkStarts, SinkClosed, PhaseInv, Translating, Ending
  <2>5. FileInv'
    BY <1>1, <1>2, <2>1 DEF SinkStarts, FileInv, SinkWhole, Whole, Places
  <2> QED
    BY <2>1, <2>2, <2>3, <2>4, <2>5 DEF SinkInv
<1>3. CASE NextWrite \/ Translated \/ WaitForBuffer \/ NotifyWriter
           \/ StopWorker \/ NotifyStop \/ SinkCloses \/ CloseFails
           \/ SpuriousWakeup \/ NotifyFree
  <2> USE DEF NextWrite, Translated, WaitForBuffer, NotifyWriter, StopWorker,
              NotifyStop, SinkCloses, CloseFails, SpuriousWakeup, NotifyFree,
              Leave, Woken, CallerWoken, WriterFailed
  <2>1. PendingInv' /\ Through' = Through
    BY <1>3, SinkQuiet
  <2>2. SinkTypes'
    <3>1. UNCHANGED <<accepted, m_pending, writing, file>>
      BY <1>3
    <3>2. m_freeBuffers' \in Nat
      BY <1>1, <1>3 DEF SinkTypes
    <3>3. m_failure' \in BOOLEAN /\ m_stopping' \in BOOLEAN
      BY <1>1, <1>3 DEF SinkTypes
    <3>4. sink' \in {"absent", "translating", "taking", "asleep", "copying",
                    "notifying", "stopping", "stopped", "joining"}
      BY <1>1, <1>3 DEF SinkTypes
    <3>5. sinkResult' \in {"none", "closing", "cudaError", "failed", "written"}
      BY <1>1, <1>3 DEF SinkTypes
    <3>6. worker' \in {"absent", "checking", "asleep", "writing", "recycling",
                      "recycled", "gone"}
      BY <1>1, <1>3 DEF SinkTypes
    <3> QED
      BY <1>1, <3>1, <3>2, <3>3, <3>4, <3>5, <3>6 DEF SinkTypes
  <2>3. BufferInv'
    BY <1>1, <1>3 DEF BufferInv
  <2>4. PhaseInv'
    BY <1>1, <1>3 DEF PhaseInv, Translating, Ending, SinkTypes
  <2>5. FileInv'
    <3>1. /\ UNCHANGED <<file, m_failure>> /\ Through' = Through
          /\ Requests' = Requests
      BY <1>3, <2>1 DEF Requests, Header
    <3>2. CASE sinkResult' # "written"
      BY <1>1, <3>1, <3>2 DEF FileInv, SinkWhole
    <3>3. CASE sinkResult' = "written" /\ sinkResult = "written"
      BY <1>1, <1>3, <3>1, <3>3 DEF FileInv, SinkWhole, PhaseInv, Whole, Places
    <3>4. CASE sinkResult' = "written" /\ sinkResult # "written"
      <4>1. SinkCloses /\ sinkResult = "closing" /\ ~m_failure
        BY <1>3, <3>4
      <4>2. m_pending = <<>> /\ accepted = Blocks + 1 /\ InHand = 0
        BY <1>1, <4>1 DEF PhaseInv, InHand
      <4>3. Through = Blocks + 1
        <5>1. Len(m_pending) = 0
          BY <4>2
        <5> QED
          BY ONLY <1>1, <4>2, <5>1, SMT DEF Through
      <4>4. \A i \in 1 .. Blocks + 1 : file[Requests[i].at] = Requests[i].data
        BY <1>1, <4>1, <4>3 DEF FileInv
      <4>5. file = Whole
        BY <1>1, <4>4, FileIsWhole DEF SinkTypes
      <4> QED
        BY <1>1, <3>1, <3>4, <4>1, <4>4, <4>3, <4>5
        DEF FileInv, SinkWhole, Whole, Places
    <3> QED
      BY <3>2, <3>3, <3>4
  <2> QED
    BY <2>1, <2>2, <2>3, <2>4, <2>5 DEF SinkInv
<1>4. CASE TakeBuffer \/ CopyFails \/ (QueueBlock /\ m_failure)
  <2>1. /\ UNCHANGED <<accepted, m_pending, m_failure, m_stopping, worker,
                       writing, file>>
        /\ \/ /\ sink = "taking" /\ sink' = "copying" /\ ~m_failure /\ ~m_stopping
              /\ m_freeBuffers > 0 /\ m_freeBuffers' = m_freeBuffers - 1
              /\ sinkResult' = sinkResult
           \/ /\ sink = "taking" /\ sink' = "stopping" /\ sinkResult' = "failed"
              /\ m_freeBuffers' = m_freeBuffers
           \/ /\ sink = "copying" /\ sink' = "stopping" /\ sinkResult' = "failed"
              /\ m_freeBuffers' = m_freeBuffers + 1
    BY <1>4 DEF TakeBuffer, CopyFails, QueueBlock, Leave, BufferOrEnd
  <2>2. PendingInv' /\ Through' = Through
    BY <2>1, SinkQuiet
  <2>3. m_freeBuffers \in Nat /\ m_freeBuffers' \in Nat
    <3>1. m_freeBuffers \in Nat
      BY <1>1 DEF SinkTypes
    <3> QED
      BY ONLY <2>1, <3>1, SMT
  <2>4. SinkTypes'
    BY <1>1, <2>1, <2>3 DEF SinkTypes, RequestSet, Requests, Header, Places
  <2>5. BufferInv'
    <3>1. Len(m_pending') = Len(m_pending) /\ worker' = worker
      BY <2>1
    <3> QED
      BY ONLY <1>1, <2>1, <2>3, <3>1, SMT DEF BufferInv
  <2>6. PhaseInv'
    BY <1>1, <2>1 DEF PhaseInv, Translating, Ending
  <2>7. FileInv'
    <3>1. Requests' = Requests /\ sinkResult' # "written"
      BY <1>1, <2>1 DEF Requests, Header, PhaseInv, Translating
    <3> QED
      BY <1>1, <2>1, <2>2, <3>1 DEF FileInv, SinkWhole
  <2> QED
    BY <2>2, <2>4, <2>5, <2>6, <2>7 DEF SinkInv
<1>5. CASE QueueBlock /\ ~m_failure
  <2> DEFINE request == Requests[accepted + 1]
  <2>1. /\ sink = "copying" /\ sink' = "notifying" /\ accepted' = accepted + 1
        /\ m_pending' = Append(m_pending, request)
        /\ UNCHANGED <<sinkResult, m_freeBuffers, m_failure, m_stopping, worker,
                       writing, file>>
        /\ Requests' = Requests
    BY <1>5 DEF QueueBlock, Requests, Header
  <2>2. accepted \in Nat /\ accepted <= Blocks /\ accepted + 1 \in 1 .. Blocks + 1
    BY <1>1, <2>1, SMT DEF PhaseInv, SinkTypes
  <2>3. request \in RequestSet
    BY <2>2, RequestFacts
  <2>4. /\ m_pending' \in Seq(RequestSet) /\ Len(m_pending') = Len(m_pending) + 1
        /\ m_pending'[Len(m_pending) + 1] = request
        /\ \A i \in 1 .. Len(m_pending) : m_pending'[i] = m_pending[i]
    BY <1>1, <2>1, <2>3, SMT DEF SinkTypes
  <2> HIDE DEF request
  <2>5. /\ InHand' = InHand /\ InHand \in {0, 1} /\ Through' = Through
        /\ Through + InHand + (Len(m_pending) + 1) = accepted + 1
    <3>1. InHand' = InHand /\ InHand \in {0, 1}
      BY <2>1 DEF InHand
    <3>2. Len(m_pending') = Len(m_pending) + 1 /\ accepted' = accepted + 1
      BY <2>1, <2>4
    <3> QED
      BY ONLY <1>1, <2>2, <3>1, <3>2, SMT DEF Through
  <2>6. PendingInv'
    <3>1. ASSUME NEW i \in 1 .. Len(m_pending) + 1
          PROVE  m_pending'[i] = Requests[Through + InHand + i]
      <4>1. CASE i \in 1 .. Len(m_pending)
        BY <1>1, <2>4, <4>1 DEF PendingInv
      <4>2. CASE i = Len(m_pending) + 1
        BY <2>4, <2>5, <4>2 DEF request
      <4> QED
        BY <1>1, <4>1, <4>2, SMT
    <3> QED
      BY <1>1, <2>1, <2>4, <2>5, <3>1 DEF PendingInv
  <2>7. SinkTypes'
    <3>1. accepted' \in 0 .. Blocks + 1
      BY <1>1, <2>1, <2>2, SMT
    <3> QED
      BY <1>1, <2>1, <2>4, <3>1 DEF SinkTypes
  <2>8. BufferInv'
    <3>1. /\ m_freeBuffers' = m_freeBuffers /\ worker' = worker
          /\ sink = "copying" /\ sink' # "copying" /\ m_freeBuffers \in Nat
          /\ Len(m_pending') = Len(m_pending) + 1
      BY <1>1, <2>1, <2>4 DEF SinkTypes
    <3> QED
      BY <1>1, <3>1, SMT DEF BufferInv
  <2>9. PhaseInv'
    BY <1>1, <1>5, <2>1 DEF PhaseInv, Translating, Ending
  <2>10. FileInv'
    BY <1>1, <2>1, <2>5 DEF FileInv, SinkWhole, PhaseInv, Translating
  <2> QED
    BY <2>6, <2>7, <2>8, <2>9, <2>10 DEF SinkInv
<1>6. CASE CheckPending /\ m_pending = <<>>
  <2> USE DEF CheckPending
  <2>1. PendingInv' /\ Through' = Through
    BY <1>6, SinkQuiet
  <2>2. SinkTypes'
    BY <1>1, <1>6 DEF SinkTypes
  <2>3. BufferInv'
    BY <1>1, <1>6 DEF BufferInv
  <2>4. PhaseInv'
    BY <1>1, <1>6 DEF PhaseInv, Translating, Ending
  <2>5. FileInv'
    BY <1>1, <1>6, <2>1 DEF FileInv, SinkWhole, Whole, Places, Requests, Header
  <2> QED
    BY <2>1, <2>2, <2>3, <2>4, <2>5 DEF SinkInv
<1>7. CASE CheckPending /\ m_pending # <<>>
  <2>1. /\ worker = "checking" /\ worker' = "writing" /\ writing' = Head(m_pending)
        /\ m_pending' = Tail(m_pending)
        /\ UNCHANGED <<sink, sinkResult, accepted, m_freeBuffers, m_failure,
                       m_stopping, file>>
        /\ Requests' = Requests
    BY <1>7 DEF CheckPending, Requests, Header
  <2>2. /\ Len(m_pending) >= 1 /\ Head(m_pending) = m_pending[1]
        /\ Head(m_pending) \in RequestSet
        /\ m_pending' \in Seq(RequestSet) /\ Len(m_pending') = Len(m_pending) - 1
        /\ \A i \in 1 .. Len(m_pending) - 1 : m_pending'[i] = m_pending[i + 1]
    BY <1>1, <1>7, <2>1, SMT DEF SinkTypes
  <2>3. InHand = 0 /\ InHand' = 1 /\ Through' = Through /\ Through \in Nat
    <3>1. InHand = 0 /\ InHand' = 1 /\ accepted' = accepted /\ accepted \in Nat
          /\ Len(m_pending') = Len(m_pending) - 1 /\ Through >= 0
      BY <1>1, <2>1, <2>2 DEF InHand, SinkTypes, PendingInv
    <3> QED
      BY ONLY <1>1, <3>1, SMT DEF Through
  <2>4. PendingInv'
    <3>1. writing' = Requests[Through + 1]
      BY <1>1, <2>1, <2>2, <2>3, SMT DEF PendingInv
    <3>2. ASSUME NEW i \in 1 .. Len(m_pending) - 1
          PROVE  m_pending'[i] = Requests[Through + 1 + i]
      <4>1. i + 1 \in 1 .. Len(m_pending) /\ Through + 0 + (i + 1) = Through + 1 + i
        BY <1>1, <2>3, SMT
      <4>2. m_pending[i + 1] = Requests[Through + 0 + (i + 1)]
        BY <1>1, <2>3, <4>1 DEF PendingInv
      <4> QED
        BY <2>2, <4>1, <4>2
    <3> QED
      BY <1>1, <2>1, <2>2, <2>3, <3>1, <3>2 DEF PendingInv
  <2>5. SinkTypes'
    BY <1>1, <2>1, <2>2 DEF SinkTypes
  <2>6. BufferInv'
    <3>1. /\ m_freeBuffers' = m_freeBuffers /\ sink' = sink /\ worker = "checking"
          /\ worker' = "writing" /\ Len(m_pending') = Len(m_pending) - 1
          /\ m_freeBuffers \in Nat
      BY <1>1, <2>1, <2>2 DEF SinkTypes
    <3> QED
      BY <1>1, <3>1, SMT DEF BufferInv
  <2>7. PhaseInv'
    BY <1>1, <1>7, <2>1 DEF PhaseInv, Translating, Ending
  <2>8. FileInv'
    BY <1>1, <2>1, <2>3 DEF FileInv, SinkWhole, PhaseInv
  <2> QED
    BY <2>4, <2>5, <2>6, <2>7, <2>8 DEF SinkInv
<1>8. CASE WriteDirect
  <2>1. /\ worker = "writing" /\ worker' = "recycling"
        /\ file' = [file EXCEPT ![writing.at] = writing.data]
        /\ UNCHANGED <<sink, sinkResult, accepted, m_freeBuffers, m_pending,
                       m_failure, m_stopping, writing>>
        /\ Requests' = Requests
    BY <1>8 DEF WriteDirect, Requests, Header
  <2>2. /\ InHand = 1 /\ InHand' = 0 /\ Through' = Through + 1
        /\ Through \in Nat /\ Through + 1 \in 1 .. Blocks + 1
    <3>1. InHand = 1 /\ InHand' = 0 /\ accepted' = accepted
          /\ Len(m_pending') = Len(m_pending) /\ Through >= 0
          /\ accepted \in 0 .. Blocks + 1
      BY <1>1, <2>1 DEF InHand, SinkTypes, PendingInv
    <3> QED
      BY ONLY <1>1, <3>1, SMT DEF Through
  <2>3. writing = Requests[Through + 1]
    BY <1>1, <2>1 DEF PendingInv
  <2>4. PendingInv'
    <3>1. \A i \in 1 .. Len(m_pending) :
             m_pending[i] = Requests[Through + 1 + 0 + i]
      BY <1>1, <2>2 DEF PendingInv
    <3> QED
      BY <2>1, <2>2, <3>1 DEF PendingInv
  <2>5. SinkTypes'
    <3>1. writing.at \in Places /\ writing.data \in {"points", "header"}
      BY <2>2, <2>3, PlacesApart
    <3> QED
      BY <1>1, <2>1, <3>1 DEF SinkTypes
  <2>6. BufferInv'
    BY <1>1, <2>1 DEF BufferInv
  <2>7. PhaseInv'
    BY <1>1, <2>1 DEF PhaseInv, Translating, Ending
  <2>8. FileInv'
    <3>1. sinkResult # "written"
      BY <1>1, <2>1 DEF FileInv
    <3>2. ASSUME ~m_failure, NEW i \in 1 .. Through + 1
          PROVE  file'[Requests[i].at] = Requests[i].data
      <4>1. i \in 1 .. Blocks + 1
        BY <1>1, <2>2, SMT
      <4>2. Requests[i].at \in Places
        BY <4>1, PlacesApart
      <4>3. CASE i = Through + 1
        BY <1>1, <2>1, <2>3, <4>2, <4>3 DEF SinkTypes
      <4>4. CASE i # Through + 1
        <5>1. i \in 1 .. Through
          BY <2>2, <4>4, SMT
        <5>2. Requests[i].at # writing.at
          BY <2>2, <2>3, <4>1, <4>4, PlacesApart
        <5> QED
          BY <1>1, <2>1, <3>2, <4>2, <5>1, <5>2 DEF FileInv, SinkTypes
      <4> QED
        BY <4>3, <4>4
    <3> QED
      BY <2>1, <2>2, <3>1, <3>2 DEF FileInv, SinkWhole
  <2> QED
    BY <2>4, <2>5, <2>6, <2>7, <2>8 DEF SinkInv
<1>9. CASE WriteFails
  <2>1. /\ worker = "writing" /\ worker' = "gone" /\ m_failure' = TRUE
        /\ m_stopping' = TRUE /\ sink' = CallerWoken
        /\ file' \in {file, [file EXCEPT ![writing.at] = "torn"]}
        /\ UNCHANGED <<sinkResult, accepted, m_freeBuffers, m_pending, writing>>
        /\ Requests' = Requests
    BY <1>9 DEF WriteFails, Requests, Header
  <2>2. /\ InHand = 1 /\ InHand' = 0 /\ Through' = Through + 1 /\ Through \in Nat
    <3>1. InHand = 1 /\ InHand' = 0 /\ accepted' = accepted
          /\ Len(m_pending') = Len(m_pending) /\ Through >= 0
          /\ accepted \in 0 .. Blocks + 1
      BY <1>1, <2>1 DEF InHand, SinkTypes, PendingInv
    <3> QED
      BY ONLY <1>1, <3>1, SMT DEF Through
  <2>3. PendingInv'
    <3>1. \A i \in 1 .. Len(m_pending) :
             m_pending[i] = Requests[Through + 1 + 0 + i]
      BY <1>1, <2>2 DEF PendingInv
    <3> QED
      BY <2>1, <2>2, <3>1 DEF PendingInv
  <2>4. SinkTypes'
    BY <1>1, <2>1 DEF SinkTypes, CallerWoken
  <2>5. BufferInv'
    <3>1. /\ m_freeBuffers' = m_freeBuffers /\ m_pending' = m_pending
          /\ (sink' = "copying" <=> sink = "copying") /\ m_freeBuffers \in Nat
          /\ worker = "writing" /\ worker' = "gone" /\ QueueDepth \in Nat
      BY <1>1, <2>1 DEF SinkTypes, CallerWoken
    <3> QED
      BY <1>1, <3>1, SMT DEF BufferInv
  <2>6. PhaseInv'
    BY <1>1, <2>1 DEF PhaseInv, Translating, Ending, CallerWoken
  <2>7. FileInv'
    BY <1>1, <2>1 DEF FileInv, SinkWhole
  <2> QED
    BY <2>3, <2>4, <2>5, <2>6, <2>7 DEF SinkInv
<1>10. CASE Recycle
  <2> USE DEF Recycle
  <2>1. PendingInv' /\ Through' = Through
    BY <1>10, SinkQuiet
  <2>2. SinkTypes'
    BY <1>1, <1>10, SMT DEF SinkTypes
  <2>3. BufferInv'
    <3>1. /\ m_freeBuffers' = m_freeBuffers + 1 /\ m_pending' = m_pending
          /\ sink' = sink /\ m_freeBuffers \in Nat
          /\ worker = "recycling" /\ worker' = "recycled"
      BY <1>1, <1>10 DEF SinkTypes
    <3> QED
      BY <1>1, <3>1, SMT DEF BufferInv
  <2>4. PhaseInv'
    BY <1>1, <1>10 DEF PhaseInv, Translating, Ending
  <2>5. FileInv'
    BY <1>1, <1>10, <2>1 DEF FileInv, SinkWhole, Requests, Header
  <2> QED
    BY <2>1, <2>2, <2>3, <2>4, <2>5 DEF SinkInv
<1>11. CASE UNCHANGED sinkVars
  <2>1. SinkTypes'
    BY <1>1, <1>11 DEF sinkVars, SinkTypes
  <2>2. PendingInv' /\ BufferInv'
    BY <1>1, <1>11 DEF sinkVars, PendingInv, BufferInv, Through, InHand
  <2>3. PhaseInv' /\ FileInv'
    BY <1>1, <1>11 DEF sinkVars, PhaseInv, FileInv, Through, InHand, Translating,
       Ending, SinkWhole
  <2> QED
    BY <2>1, <2>2, <2>3 DEF SinkInv
<1>12. CASE SinkCallerStep
  <2>1. QueueBlock => \/ QueueBlock /\ m_failure
                      \/ QueueBlock /\ ~m_failure
    OBVIOUS
  <2> QED
    BY <1>3, <1>4, <1>5, <1>12, <2>1 DEF SinkCallerStep
<1>13. CASE SinkWorkerStep
  <2>1. CheckPending => \/ CheckPending /\ m_pending = <<>>
                        \/ CheckPending /\ m_pending # <<>>
    OBVIOUS
  <2> QED
    BY <1>3, <1>6, <1>7, <1>8, <1>9, <1>10, <1>13, <2>1 DEF SinkWorkerStep
<1> QED
  BY <1>2, <1>3, <1>11, <1>12, <1>13

-----------------------------------------------------------------------------
\* The command before any executor was asked.
LEMMA InitCommand == ASSUME CommandAssumption, CommandInit PROVE IInv
<1>1. SinkInv
  BY InitSink DEF CommandAssumption, CommandInit, CommandInitAt
<1> USE DEF CommandInit, CommandInitAt, SinkInitAt, NoFile, File, Running,
            Routes, Publishers
<1>2. CommandTypes
  BY DEF CommandTypes
<1>3. RouteInv
  BY DEF RouteInv
<1>4. TemporaryInv
  <2>1. \A r \in Publishers : temporary[r] = "nobody"
    OBVIOUS
  <2> QED
    BY <2>1 DEF TemporaryInv
<1>5. OutputInv
  BY DEF OutputInv
<1> QED
  BY <1>1, <1>2, <1>3, <1>4, <1>5 DEF IInv, CommandInv

\* Every step of an executor or of another program keeps the command's
\* invariant; what the sink did is known from sinkResult alone.
LEMMA CommandKept ==
    ASSUME CommandAssumption, IInv,
           CommandStep \/ OtherCreates \/ StrayTemporary
    PROVE  CommandInv'
<1>1. /\ SinkInv /\ CommandTypes /\ RouteInv /\ TemporaryInv /\ OutputInv
      /\ command' = command
  BY DEF IInv, CommandInv, CommandStep, ResidentDeclines, ResidentAccepts, ResidentThrows, ResidentWrites, ResidentInspects, Validate, NativeDeclines, NativeMaps, NativeAccepts, TranslatesOnDevice, OpenSink, Sunk, DeviceFailed, ChoosesHost, CreateTemporary, FillTemporary, Link, Unlink, Caught, HybridDeclines, WriterRuns, OracleMissing, OtherCreates, StrayTemporary
<1> USE DEF Goto, Ask, At, Returns, Files, Running, File, NoFile, Publishers,
            Routes
<1>2. CASE ResidentDeclines
  <2> USE DEF ResidentDeclines
  <2>1. CommandTypes'
    BY <1>1, <1>2 DEF CommandTypes
  <2>2. RouteInv'
    BY <1>1, <1>2 DEF RouteInv, CommandTypes, sinkVars
  <2>3. TemporaryInv'
    BY <1>1, <1>2 DEF TemporaryInv, CommandTypes, RouteInv
  <2>4. OutputInv'
    BY <1>1, <1>2 DEF OutputInv, CommandTypes, RouteInv, PublishesAtOnce
  <2> QED
    BY <2>1, <2>2, <2>3, <2>4 DEF CommandInv
<1>3. CASE ResidentAccepts
  <2> USE DEF ResidentAccepts, CommitsEarly
  <2>1. CommandTypes'
    BY <1>1, <1>3 DEF CommandTypes
  <2>2. RouteInv'
    BY <1>1, <1>3 DEF RouteInv, CommandTypes, sinkVars
  <2>3. TemporaryInv'
    BY <1>1, <1>3 DEF TemporaryInv, CommandTypes, RouteInv
  <2>4. OutputInv'
    BY <1>1, <1>3 DEF OutputInv, CommandTypes, RouteInv, PublishesAtOnce
  <2> QED
    BY <2>1, <2>2, <2>3, <2>4 DEF CommandInv
<1>4. CASE ResidentThrows
  <2> USE DEF ResidentThrows, Throws
  <2>1. CommandTypes'
    BY <1>1, <1>4 DEF CommandTypes
  <2>2. RouteInv'
    BY <1>1, <1>4 DEF RouteInv, CommandTypes, sinkVars
  <2>3. TemporaryInv'
    BY <1>1, <1>4 DEF TemporaryInv, CommandTypes, RouteInv
  <2>4. OutputInv'
    BY <1>1, <1>4 DEF OutputInv, CommandTypes, RouteInv, PublishesAtOnce
  <2> QED
    BY <2>1, <2>2, <2>3, <2>4 DEF CommandInv
<1>5. CASE ResidentWrites
  <2> USE DEF ResidentWrites
  <2>1. CommandTypes'
    BY <1>1, <1>5 DEF CommandTypes
  <2>2. RouteInv'
    BY <1>1, <1>5 DEF RouteInv, CommandTypes, sinkVars
  <2>3. TemporaryInv'
    BY <1>1, <1>5 DEF TemporaryInv, CommandTypes, RouteInv
  <2>4. OutputInv'
    BY <1>1, <1>5 DEF OutputInv, CommandTypes, RouteInv, PublishesAtOnce
  <2> QED
    BY <2>1, <2>2, <2>3, <2>4 DEF CommandInv
<1>6. CASE ResidentInspects
  <2> USE DEF ResidentInspects, Throws
  <2>1. CommandTypes'
    BY <1>1, <1>6 DEF CommandTypes
  <2>2. RouteInv'
    BY <1>1, <1>6 DEF RouteInv, CommandTypes, sinkVars
  <2>3. TemporaryInv'
    BY <1>1, <1>6 DEF TemporaryInv, CommandTypes, RouteInv
  <2>4. OutputInv'
    BY <1>1, <1>6 DEF OutputInv, CommandTypes, RouteInv, PublishesAtOnce
  <2> QED
    BY <2>1, <2>2, <2>3, <2>4 DEF CommandInv
<1>7. CASE Validate
  <2> USE DEF Validate, PublishedWhole, Throws
  <2>1. CommandTypes'
    BY <1>1, <1>7 DEF CommandTypes
  <2>2. RouteInv'
    BY <1>1, <1>7 DEF RouteInv, CommandTypes, sinkVars
  <2>3. TemporaryInv'
    BY <1>1, <1>7 DEF TemporaryInv, CommandTypes, RouteInv
  <2>4. OutputInv'
    BY <1>1, <1>7 DEF OutputInv, CommandTypes, RouteInv, PublishesAtOnce
  <2> QED
    BY <2>1, <2>2, <2>3, <2>4 DEF CommandInv
<1>8. CASE NativeDeclines
  <2> USE DEF NativeDeclines
  <2>1. CommandTypes'
    BY <1>1, <1>8 DEF CommandTypes
  <2>2. RouteInv'
    BY <1>1, <1>8 DEF RouteInv, CommandTypes, sinkVars
  <2>3. TemporaryInv'
    BY <1>1, <1>8 DEF TemporaryInv, CommandTypes, RouteInv
  <2>4. OutputInv'
    BY <1>1, <1>8 DEF OutputInv, CommandTypes, RouteInv, PublishesAtOnce
  <2> QED
    BY <2>1, <2>2, <2>3, <2>4 DEF CommandInv
<1>9. CASE NativeMaps
  <2> USE DEF NativeMaps
  <2>1. CommandTypes'
    BY <1>1, <1>9 DEF CommandTypes
  <2>2. RouteInv'
    BY <1>1, <1>9 DEF RouteInv, CommandTypes, sinkVars
  <2>3. TemporaryInv'
    BY <1>1, <1>9 DEF TemporaryInv, CommandTypes, RouteInv
  <2>4. OutputInv'
    BY <1>1, <1>9 DEF OutputInv, CommandTypes, RouteInv, PublishesAtOnce
  <2> QED
    BY <2>1, <2>2, <2>3, <2>4 DEF CommandInv
<1>10. CASE NativeAccepts
  <2> USE DEF NativeAccepts
  <2>1. CommandTypes'
    BY <1>1, <1>10 DEF CommandTypes
  <2>2. RouteInv'
    BY <1>1, <1>10 DEF RouteInv, CommandTypes, sinkVars
  <2>3. TemporaryInv'
    BY <1>1, <1>10 DEF TemporaryInv, CommandTypes, RouteInv
  <2>4. OutputInv'
    BY <1>1, <1>10 DEF OutputInv, CommandTypes, RouteInv, PublishesAtOnce
  <2> QED
    BY <2>1, <2>2, <2>3, <2>4 DEF CommandInv
<1>11. CASE TranslatesOnDevice
  <2> USE DEF TranslatesOnDevice
  <2>1. CommandTypes'
    BY <1>1, <1>11 DEF CommandTypes
  <2>2. RouteInv'
    BY <1>1, <1>11 DEF RouteInv, CommandTypes, sinkVars
  <2>3. TemporaryInv'
    BY <1>1, <1>11 DEF TemporaryInv, CommandTypes, RouteInv
  <2>4. OutputInv'
    BY <1>1, <1>11 DEF OutputInv, CommandTypes, RouteInv, PublishesAtOnce
  <2> QED
    BY <2>1, <2>2, <2>3, <2>4 DEF CommandInv
<1>12. CASE OpenSink
  <2>1. /\ route = "native" /\ route' = route /\ step = "opening"
        /\ status = Running /\ status' = status /\ strays' = strays
        /\ UNCHANGED <<command, committed, output, taken, filled, stuck>>
        /\ \/ /\ temporary["native"] = "nobody" /\ temporaryOwned' = TRUE
              /\ temporary' = [temporary EXCEPT !["native"] = "ours"]
              /\ step' = "sinking"
           \/ /\ temporary["native"] # "nobody" /\ temporaryOwned' = FALSE
              /\ temporary' = temporary
              /\ step' = "caught" /\ UNCHANGED sinkVars
    BY <1>12 DEF OpenSink, OwnedIfMade, Throws
  <2>2. CommandTypes'
    <3>1. temporary' \in [Publishers -> {"nobody", "ours", "other"}]
      BY <1>1, <2>1 DEF CommandTypes
    <3>2. temporaryOwned' \in BOOLEAN /\ step' \in {"sinking", "caught"}
      BY <2>1
    <3> QED
      BY <1>1, <2>1, <3>1, <3>2 DEF CommandTypes
  <2>3. RouteInv'
    BY <1>1, <2>1 DEF RouteInv, CommandTypes, sinkVars
  <2>4. TemporaryInv'
    BY <1>1, <2>1 DEF TemporaryInv, CommandTypes, RouteInv
  <2>5. OutputInv'
    BY <1>1, <2>1 DEF OutputInv, CommandTypes, RouteInv, PublishesAtOnce
  <2> QED
    BY <2>2, <2>3, <2>4, <2>5 DEF CommandInv
<1>13. CASE Sunk
  <2>1. filled' \in BOOLEAN /\ (step' = "linking" => filled' = TRUE)
    <3>1. (filled' = (file = Whole) /\ sinkResult = "written") \/ filled' = filled
      BY <1>13 DEF Sunk
    <3>2. step' = "linking" => filled' = (file = Whole) /\ sinkResult = "written"
      BY <1>13 DEF Sunk, Throws
    <3>3. sinkResult = "written" => file = Whole
      BY <1>1 DEF SinkInv, FileInv, SinkWhole
    <3>4. filled \in BOOLEAN
      BY <1>1 DEF CommandTypes
    <3> QED
      BY <3>1, <3>2, <3>3, <3>4
  <2>2. /\ route = "native" /\ step = "sinking" /\ status = Running
        /\ sink = "absent"
        /\ UNCHANGED <<sinkVars, command, route, status, committed, output, taken,
                       temporary, strays, temporaryOwned, stuck>>
        /\ step' \in {"linking", "caught"}
    BY <1>13 DEF Sunk, SinkEnded, SinkClosed, Throws
  <2>3. CommandTypes'
    <3>1. committed \in BOOLEAN /\ temporaryOwned \in BOOLEAN /\ stuck \in BOOLEAN
      BY <1>1, <2>2 DEF CommandTypes
    <3> QED
      BY <1>1, <2>1, <2>2, <3>1 DEF CommandTypes
  <2>4. RouteInv'
    BY <1>1, <2>1, <2>2 DEF RouteInv, CommandTypes, sinkVars
  <2>5. TemporaryInv'
    BY <1>1, <2>2 DEF TemporaryInv, CommandTypes, RouteInv
  <2>6. OutputInv'
    BY <1>1, <2>2 DEF OutputInv, CommandTypes, RouteInv, PublishesAtOnce
  <2> QED
    BY <2>3, <2>4, <2>5, <2>6 DEF CommandInv
<1>14. CASE DeviceFailed
  <2>1. /\ route = "native" /\ step = "sinking" /\ status = Running
        /\ sink = "absent" /\ temporaryOwned /\ temporary["native"] = "ours"
        /\ UNCHANGED <<sinkVars, command, route, status, committed, output, taken,
                       strays, filled>>
        /\ \/ /\ temporary' = [temporary EXCEPT !["native"] = "nobody"]
              /\ temporaryOwned' = FALSE
              /\ step' = "choosing" /\ stuck' = stuck
           \/ /\ stuck' = TRUE /\ step' = "caught"
              /\ UNCHANGED <<temporary, temporaryOwned>>
    BY <1>1, <1>14 DEF DeviceFailed, SinkEnded, SinkClosed, Throws, TemporaryInv
  <2>2. CommandTypes'
    <3>1. temporary' \in [Publishers -> {"nobody", "ours", "other"}]
      <4>1. temporary \in [Publishers -> {"nobody", "ours", "other"}]
        BY <1>1 DEF CommandTypes
      <4>2. \/ temporary' = temporary
            \/ temporary' = [temporary EXCEPT !["native"] = "nobody"]
        BY <2>1
      <4> QED
        BY ONLY <4>1, <4>2
    <3>2. temporaryOwned' \in BOOLEAN
      BY <1>1, <2>1 DEF CommandTypes
    <3>3. stuck' \in BOOLEAN
      BY <1>1, <2>1 DEF CommandTypes
    <3>4. step' \in {"choosing", "caught"}
      BY <1>1, <2>1 DEF CommandTypes
    <3> QED
      BY <1>1, <2>1, <3>1, <3>2, <3>3, <3>4 DEF CommandTypes
  <2>3. RouteInv'
    BY <1>1, <2>1 DEF RouteInv, CommandTypes, sinkVars
  <2>4. TemporaryInv'
    <3>1. CASE step' = "choosing"
      BY <1>1, <2>1, <3>1 DEF TemporaryInv, CommandTypes
    <3>2. CASE step' = "caught"
      BY <1>1, <2>1, <3>2 DEF TemporaryInv, CommandTypes
    <3> QED
      BY <2>1, <3>1, <3>2
  <2>5. OutputInv'
    BY <1>1, <2>1 DEF OutputInv, CommandTypes, RouteInv, PublishesAtOnce
  <2> QED
    BY <2>2, <2>3, <2>4, <2>5 DEF CommandInv
<1>15. CASE ChoosesHost
  <2> USE DEF ChoosesHost
  <2>1. CommandTypes'
    BY <1>1, <1>15 DEF CommandTypes
  <2>2. RouteInv'
    BY <1>1, <1>15 DEF RouteInv, CommandTypes, sinkVars
  <2>3. TemporaryInv'
    BY <1>1, <1>15 DEF TemporaryInv, CommandTypes, RouteInv
  <2>4. OutputInv'
    BY <1>1, <1>15 DEF OutputInv, CommandTypes, RouteInv, PublishesAtOnce
  <2> QED
    BY <2>1, <2>2, <2>3, <2>4 DEF CommandInv
<1>16. CASE CreateTemporary
  <2>1. /\ route \in Publishers /\ step = "creating" /\ status = Running
        /\ UNCHANGED <<sinkVars, command, route, status, committed, output, taken,
                       strays, stuck>>
        /\ filled' = FALSE
        /\ \/ /\ temporary[route] = "nobody" /\ temporaryOwned' = TRUE
              /\ temporary' = [temporary EXCEPT ![route] = "ours"]
              /\ step' = "filling"
           \/ /\ temporary[route] # "nobody" /\ temporaryOwned' = FALSE
              /\ temporary' = temporary /\ step' = "caught"
    BY <1>16 DEF CreateTemporary, Publishing, OwnedIfMade, Throws
  <2>2. CommandTypes'
    <3>1. temporary' \in [Publishers -> {"nobody", "ours", "other"}]
      BY <1>1, <2>1 DEF CommandTypes
    <3>2. temporaryOwned' \in BOOLEAN
      BY <1>1, <2>1 DEF CommandTypes
    <3>3. step' \in {"filling", "caught"} /\ filled' \in BOOLEAN
      BY <2>1
    <3> QED
      BY <1>1, <2>1, <3>1, <3>2, <3>3 DEF CommandTypes
  <2>3. RouteInv'
    BY <1>1, <2>1 DEF RouteInv, CommandTypes, sinkVars
  <2>4. TemporaryInv'
    BY <1>1, <2>1 DEF TemporaryInv, CommandTypes, RouteInv
  <2>5. OutputInv'
    BY <1>1, <2>1 DEF OutputInv, CommandTypes, RouteInv, PublishesAtOnce
  <2> QED
    BY <2>2, <2>3, <2>4, <2>5 DEF CommandInv
<1>17. CASE FillTemporary
  <2>1. /\ route \in Publishers /\ step = "filling" /\ status = Running
        /\ UNCHANGED <<sinkVars, command, route, status, committed, output, taken,
                       temporary, strays, temporaryOwned, stuck>>
        /\ \/ filled' = TRUE /\ step' = "linking"
           \/ filled' = filled /\ step' = "caught"
    BY <1>17 DEF FillTemporary, Publishing, Throws
  <2>2. CommandTypes'
    <3>1. filled' \in BOOLEAN
      BY <1>1, <2>1 DEF CommandTypes
    <3>2. step' \in {"linking", "caught"}
      BY <1>1, <2>1 DEF CommandTypes
    <3> QED
      BY <1>1, <2>1, <3>1, <3>2 DEF CommandTypes
  <2>3. RouteInv'
    BY <1>1, <2>1 DEF RouteInv, CommandTypes, sinkVars
  <2>4. TemporaryInv'
    BY <1>1, <2>1 DEF TemporaryInv, CommandTypes, RouteInv
  <2>5. OutputInv'
    BY <1>1, <2>1 DEF OutputInv, CommandTypes, RouteInv, PublishesAtOnce
  <2> QED
    BY <2>2, <2>3, <2>4, <2>5 DEF CommandInv
<1>18. CASE Link
  <2>1. /\ route \in Publishers /\ step = "linking" /\ status = Running
        /\ UNCHANGED <<sinkVars, command, route, status, committed, taken,
                       temporary, strays, temporaryOwned, filled, stuck>>
        /\ \/ /\ output = NoFile /\ output' = File(route, TRUE)
              /\ step' = "unlinking"
           \/ output' = output /\ step' = "caught"
    <3>1. filled = TRUE \/ step # "linking"
      BY <1>1 DEF CommandTypes, RouteInv
    <3> QED
      BY <1>18, <3>1 DEF Link, Publishing, NameFree, Throws
  <2>2. CommandTypes'
    <3>1. output' \in [by : Routes \cup {"other", "nobody"}, whole : BOOLEAN]
      <4>1. File(route, TRUE) \in [by : Routes \cup {"other", "nobody"}, whole : BOOLEAN]
        BY <2>1
      <4> QED
        BY <1>1, <2>1, <4>1 DEF CommandTypes
    <3>2. step' \in {"unlinking", "caught"}
      BY <1>1, <2>1 DEF CommandTypes
    <3> QED
      BY <1>1, <2>1, <3>1, <3>2 DEF CommandTypes
  <2>3. RouteInv'
    BY <1>1, <2>1 DEF RouteInv, CommandTypes, sinkVars
  <2>4. TemporaryInv'
    BY <1>1, <2>1 DEF TemporaryInv, CommandTypes, RouteInv
  <2>5. OutputInv'
    BY <1>1, <2>1 DEF OutputInv, CommandTypes, RouteInv, PublishesAtOnce
  <2> QED
    BY <2>2, <2>3, <2>4, <2>5 DEF CommandInv
<1>19. CASE Unlink
  <2>1. /\ route \in Publishers /\ step = "unlinking" /\ status = Running
        /\ temporaryOwned /\ temporary[route] = "ours"
        /\ UNCHANGED <<sinkVars, command, route, output, taken, strays, filled>>
        /\ \/ /\ temporary' = [temporary EXCEPT ![route] = "nobody"]
              /\ temporaryOwned' = FALSE /\ stuck' = stuck
           \/ stuck' = TRUE /\ UNCHANGED <<temporary, temporaryOwned>>
        /\ \/ /\ route = "resident" /\ committed' = TRUE
              /\ step' = "validating" /\ status' = status
           \/ /\ route = "native" /\ committed' = committed
              /\ step' = step /\ status' = 0
    BY <1>1, <1>19 DEF Unlink, Publishing, TemporaryInv
  <2>2. CommandTypes'
    <3>1. temporary' \in [Publishers -> {"nobody", "ours", "other"}]
      <4>1. temporary' = [temporary EXCEPT ![route] = "nobody"] \/ temporary' = temporary
        BY <2>1
      <4> QED
        BY <1>1, <2>1, <4>1 DEF CommandTypes
    <3>2. temporaryOwned' \in BOOLEAN
      BY <1>1, <2>1 DEF CommandTypes
    <3>3. stuck' \in BOOLEAN
      BY <1>1, <2>1 DEF CommandTypes
    <3>4. committed' \in BOOLEAN
      BY <1>1, <2>1 DEF CommandTypes
    <3>5. step' \in {"validating", "unlinking"} /\ status' \in {Running, 0}
      BY <1>1, <2>1 DEF CommandTypes
    <3> QED
      BY <1>1, <2>1, <3>1, <3>2, <3>3, <3>4, <3>5 DEF CommandTypes
  <2>3. RouteInv'
    BY <1>1, <2>1 DEF RouteInv, CommandTypes, sinkVars
  <2>4. TemporaryInv'
    <3>1. CASE stuck' = TRUE /\ UNCHANGED <<temporary, temporaryOwned>>
      <4>1. \A r \in Publishers : temporary'[r] = "other" <=> temporary[r] = "other"
        BY <1>1, <2>1 DEF CommandTypes
      <4>2. temporaryOwned' => temporary'[route'] = "ours"
        BY <2>1
      <4> QED
        BY <1>1, <2>1, <3>1, <4>1, <4>2 DEF TemporaryInv
    <3>2. CASE /\ temporary' = [temporary EXCEPT ![route] = "nobody"]
              /\ temporaryOwned' = FALSE /\ stuck' = stuck
      BY <1>1, <2>1, <3>2 DEF TemporaryInv, CommandTypes
    <3> QED
      BY <2>1, <3>1, <3>2
  <2>5. OutputInv'
    BY <1>1, <2>1 DEF OutputInv, CommandTypes, RouteInv, PublishesAtOnce
  <2> QED
    BY <2>2, <2>3, <2>4, <2>5 DEF CommandInv
<1>20. CASE Caught
  <2>1. /\ route \in Publishers /\ step = "caught" /\ status = Running
        /\ temporaryOwned => temporary[route] = "ours"
        /\ UNCHANGED <<sinkVars, command, committed, output, taken, strays, filled>>
        /\ \/ /\ temporaryOwned /\ stuck' = stuck
              /\ temporary' = [temporary EXCEPT ![route] = "nobody"]
           \/ temporaryOwned /\ stuck' = TRUE /\ UNCHANGED temporary
           \/ ~temporaryOwned /\ UNCHANGED <<temporary, stuck>>
        /\ temporaryOwned' = FALSE
        /\ \/ /\ route = "native" /\ route' = "hybrid" /\ step' = "asked"
              /\ status' = status
           \/ /\ route = "resident" /\ committed /\ route' = route
              /\ step' = step /\ status' = 1
           \/ /\ route = "resident" /\ ~committed /\ route' = "native"
              /\ step' = "asked" /\ status' = status
    <3>1. temporaryOwned => temporary[route] = "ours"
      BY <1>1 DEF TemporaryInv
    <3>2. /\ route \in Publishers /\ step = "caught" /\ status = Running
          /\ UNCHANGED <<sinkVars, command, committed, output, taken, strays, filled>>
          /\ temporaryOwned' = FALSE
      BY <1>20 DEF Caught, Publishing
    <3>3. \/ /\ temporaryOwned /\ stuck' = stuck
             /\ temporary' = [temporary EXCEPT ![route] = "nobody"]
          \/ temporaryOwned /\ stuck' = TRUE /\ UNCHANGED temporary
          \/ ~temporaryOwned /\ UNCHANGED <<temporary, stuck>>
      BY <1>20 DEF Caught, Removed
    <3>4. CASE route = "native"
      <4>1. ~committed
        BY <1>1, <3>4 DEF RouteInv
      <4>2. Ask("hybrid")
        BY <1>20, <3>4, <4>1 DEF Caught
      <4> QED
        BY <3>1, <3>2, <3>3, <3>4, <4>2
    <3>5. CASE route # "native" /\ committed
      <4>1. Returns(1)
        BY <1>20, <3>5 DEF Caught
      <4> QED
        BY <3>1, <3>2, <3>3, <3>5, <4>1
    <3>6. CASE route # "native" /\ ~committed
      <4>1. Ask("native")
        BY <1>20, <3>6 DEF Caught
      <4> QED
        BY <3>1, <3>2, <3>3, <3>6, <4>1
    <3> QED
      BY <3>4, <3>5, <3>6
  <2>2. CommandTypes'
    <3>1. temporary' \in [Publishers -> {"nobody", "ours", "other"}]
      BY <1>1, <2>1 DEF CommandTypes
    <3>2. stuck' \in BOOLEAN
      BY <1>1, <2>1 DEF CommandTypes
    <3>3. route' \in Routes /\ step' \in {"asked", "caught"} /\ status' \in {Running, 1}
      BY <1>1, <2>1 DEF CommandTypes
    <3>4. /\ committed' \in BOOLEAN /\ taken' \in BOOLEAN /\ filled' \in BOOLEAN
          /\ temporaryOwned' \in BOOLEAN
      BY <1>1, <2>1 DEF CommandTypes
    <3>5. /\ command' \in CommandCases /\ strays' \subseteq Publishers
          /\ output' \in [by : Routes \cup {"other", "nobody"}, whole : BOOLEAN]
      BY <1>1, <2>1 DEF CommandTypes
    <3> QED
      BY <3>1, <3>2, <3>3, <3>4, <3>5 DEF CommandTypes
  <2>3. RouteInv'
    BY <1>1, <2>1 DEF RouteInv, CommandTypes, sinkVars
  <2>4. TemporaryInv'
    BY <1>1, <2>1 DEF TemporaryInv, CommandTypes, RouteInv
  <2>5. OutputInv'
    BY <1>1, <2>1 DEF OutputInv, CommandTypes, RouteInv, PublishesAtOnce
  <2> QED
    BY <2>2, <2>3, <2>4, <2>5 DEF CommandInv
<1>21. CASE HybridDeclines
  <2> USE DEF HybridDeclines
  <2>1. CommandTypes'
    BY <1>1, <1>21 DEF CommandTypes
  <2>2. RouteInv'
    BY <1>1, <1>21 DEF RouteInv, CommandTypes, sinkVars
  <2>3. TemporaryInv'
    BY <1>1, <1>21 DEF TemporaryInv, CommandTypes, RouteInv
  <2>4. OutputInv'
    BY <1>1, <1>21 DEF OutputInv, CommandTypes, RouteInv, PublishesAtOnce
  <2> QED
    BY <2>1, <2>2, <2>3, <2>4 DEF CommandInv
<1>22. CASE WriterRuns
  <2> USE DEF WriterRuns
  <2>1. CommandTypes'
    BY <1>1, <1>22 DEF CommandTypes
  <2>2. RouteInv'
    BY <1>1, <1>22 DEF RouteInv, CommandTypes, sinkVars
  <2>3. TemporaryInv'
    BY <1>1, <1>22 DEF TemporaryInv, CommandTypes, RouteInv
  <2>4. OutputInv'
    BY <1>1, <1>22 DEF OutputInv, CommandTypes, RouteInv, PublishesAtOnce
  <2> QED
    BY <2>1, <2>2, <2>3, <2>4 DEF CommandInv
<1>23. CASE OracleMissing
  <2> USE DEF OracleMissing
  <2>1. CommandTypes'
    BY <1>1, <1>23 DEF CommandTypes
  <2>2. RouteInv'
    BY <1>1, <1>23 DEF RouteInv, CommandTypes, sinkVars
  <2>3. TemporaryInv'
    BY <1>1, <1>23 DEF TemporaryInv, CommandTypes, RouteInv
  <2>4. OutputInv'
    BY <1>1, <1>23 DEF OutputInv, CommandTypes, RouteInv, PublishesAtOnce
  <2> QED
    BY <2>1, <2>2, <2>3, <2>4 DEF CommandInv
<1>24. CASE OtherCreates
  <2> USE DEF OtherCreates
  <2>1. CommandTypes'
    BY <1>1, <1>24 DEF CommandTypes
  <2>2. RouteInv'
    BY <1>1, <1>24 DEF RouteInv, CommandTypes, sinkVars
  <2>3. TemporaryInv'
    BY <1>1, <1>24 DEF TemporaryInv, CommandTypes, RouteInv
  <2>4. OutputInv'
    BY <1>1, <1>24 DEF OutputInv, CommandTypes, RouteInv, PublishesAtOnce
  <2> QED
    BY <2>1, <2>2, <2>3, <2>4 DEF CommandInv
<1>25. CASE StrayTemporary
  <2> USE DEF StrayTemporary
  <2>1. CommandTypes'
    BY <1>1, <1>25 DEF CommandTypes
  <2>2. RouteInv'
    BY <1>1, <1>25 DEF RouteInv, CommandTypes, sinkVars
  <2>3. TemporaryInv'
    BY <1>1, <1>25 DEF TemporaryInv, CommandTypes, RouteInv
  <2>4. OutputInv'
    BY <1>1, <1>25 DEF OutputInv, CommandTypes, RouteInv, PublishesAtOnce
  <2> QED
    BY <2>1, <2>2, <2>3, <2>4 DEF CommandInv
<1> QED
  BY <1>2, <1>3, <1>4, <1>5, <1>6, <1>7, <1>8, <1>9, <1>10, <1>11, <1>12, <1>13, <1>14, <1>15, <1>16, <1>17, <1>18, <1>19, <1>20, <1>21, <1>22, <1>23, <1>24, <1>25 DEF CommandStep

\* While the sink works, the command waits for it.
LEMMA CommandWaits ==
    ASSUME CommandInv,
           \/ UNCHANGED <<sinkVars, commandVars>>
           \/ step = "sinking" /\ UNCHANGED commandVars
    PROVE  CommandInv'
<1>1. UNCHANGED commandVars
      /\ CommandTypes /\ RouteInv /\ TemporaryInv /\ OutputInv
  BY DEF CommandInv
<1>2. CommandTypes' /\ TemporaryInv' /\ OutputInv'
  BY <1>1 DEF commandVars, CommandTypes, TemporaryInv, OutputInv, PublishesAtOnce,
     File, Running, Routes, Publishers
<1>3. RouteInv'
  BY <1>1 DEF commandVars, sinkVars, RouteInv
<1> QED
  BY <1>2, <1>3 DEF CommandInv

\* One step of the program, the sink's or the command's.
LEMMA CommandNextKeeps ==
    ASSUME CommandAssumption, IInv, [CommandNext]_<<sinkVars, commandVars>>
    PROVE  IInv'
<1>1. SinkAssumption /\ SinkInv /\ CommandInv /\ RouteInv
  BY DEF CommandAssumption, IInv, CommandInv
<1>2. CASE CommandStep \/ OtherCreates \/ StrayTemporary
  <2>1. CASE OpenSink
    <3>1. sinkResult = "none"
      BY <1>1, <2>1 DEF OpenSink, At, RouteInv
    <3>2. SinkStarts \/ UNCHANGED sinkVars
      BY <2>1 DEF OpenSink
    <3> QED
      BY <1>1, <1>2, <3>1, <3>2, SinkStep, CommandKept DEF IInv
  <2>2. CASE ~OpenSink
    <3>1. UNCHANGED sinkVars
      BY <1>2, <2>2 DEF CommandStep, ResidentDeclines, ResidentAccepts, ResidentThrows, ResidentWrites,
         ResidentInspects, Validate, NativeDeclines, NativeMaps, NativeAccepts,
         TranslatesOnDevice, Sunk, DeviceFailed, ChoosesHost, CreateTemporary,
         FillTemporary, Link, Unlink, Caught, HybridDeclines, WriterRuns,
         OracleMissing, OtherCreates, StrayTemporary
    <3> QED
      BY <1>1, <1>2, <3>1, SinkStep, CommandKept DEF IInv
  <2> QED
    BY <2>1, <2>2
<1>3. CASE Sinking /\ (SinkCallerStep \/ SinkWorkerStep \/ SpuriousWakeup)
  BY <1>1, <1>3, SinkStep, CommandWaits DEF Sinking, IInv
<1>4. CASE Exited \/ UNCHANGED <<sinkVars, commandVars>>
  BY <1>1, <1>4, SinkStep, CommandWaits DEF Exited, IInv
<1> QED
  BY <1>2, <1>3, <1>4 DEF CommandNext

\* CommandHolds: the sink's queue, buffers and file and the command's files agree
\* with who is asked.
THEOREM CommandHolds ==
    ASSUME CommandAssumption
    PROVE  CommandSpec => []IInv
<1>1. CommandInit => IInv
  BY InitCommand
<1>2. IInv /\ [CommandNext]_<<sinkVars, commandVars>> => IInv'
  BY CommandNextKeeps
<1> QED
  BY <1>1, <1>2, PTL DEF CommandSpec

\* What IInv says of the types.
LEMMA CommandTypesSuffice ==
    ASSUME CommandAssumption, IInv
    PROVE  CommandTypeOK
<1>1. /\ Blocks \in Nat /\ QueueDepth \in Nat \ {0} /\ Len(Requests) = Blocks + 1
      /\ SinkTypes /\ BufferInv /\ Len(m_pending) \in Nat
  BY RequestFacts DEF CommandAssumption, SinkAssumption, IInv, SinkInv, SinkTypes
<1>2. m_freeBuffers \in 0 .. QueueDepth
  BY <1>1, SMT DEF SinkTypes, BufferInv
<1>3. RequestSet \subseteq Range(Requests)
  <2>1. DOMAIN Requests = 1 .. Blocks + 1
    BY <1>1 DEF Requests
  <2> QED
    BY <2>1 DEF RequestSet, Range
<1>4. \A i \in DOMAIN m_pending : m_pending[i] \in Range(Requests)
  BY <1>1, <1>3 DEF SinkTypes
<1>5. SinkTypeOK
  BY <1>1, <1>2, <1>4 DEF SinkTypes, SinkTypeOK
<1> QED
  BY <1>5 DEF IInv, CommandInv, CommandTypes, CommandTypeOK

\* What IInv says of the output.
LEMMA OutputSound ==
    ASSUME IInv
    PROVE  OneOutput
<1>1. SinkWhole /\ CommandTypes /\ OutputInv
  BY DEF IInv, SinkInv, FileInv, CommandInv
<1>2. output.by \in Routes => output.by = route
  BY <1>1 DEF OutputInv, Routes, Publishers
<1>3. output.by \in Routes /\ PublishesAtOnce(output.by) =>
         output.whole /\ ~taken
  BY <1>1 DEF OutputInv, PublishesAtOnce
<1> QED
  BY <1>1, <1>2, <1>3 DEF OutputInv, OneOutput

\* What IInv says of the temporary files.
LEMMA TemporariesSound ==
    ASSUME IInv
    PROVE  NoLeftovers
  BY DEF IInv, CommandInv, CommandTypes, TemporaryInv, NoLeftovers, Publishers

\* CommandTyped: the type invariant; no buffer is taken or returned twice.
THEOREM CommandTyped ==
    ASSUME CommandAssumption
    PROVE  CommandSpec => []CommandTypeOK
<1>1. IInv => CommandTypeOK
  BY CommandTypesSuffice
<1> QED
  BY <1>1, CommandHolds, PTL

\* OutputFromOne: only the executor that is asked has written the output, what
\* is published is whole, and success means the whole output.
THEOREM OutputFromOne ==
    ASSUME CommandAssumption
    PROVE  CommandSpec => []OneOutput
<1>1. IInv => OneOutput
  BY OutputSound
<1> QED
  BY <1>1, CommandHolds, PTL

\* TemporaryRemoved: a run leaves no temporary of its own, unless one could not
\* be removed, and removes none that is another program's.
THEOREM TemporaryRemoved ==
    ASSUME CommandAssumption
    PROVE  CommandSpec => []NoLeftovers
<1>1. IInv => NoLeftovers
  BY TemporariesSound
<1> QED
  BY <1>1, CommandHolds, PTL

-----------------------------------------------------------------------------
(***************************************************************************)
(* The items of a planned run: what each is, and which one comes after it. *)
(* Every item other than the writer has a next one, whose kind and stage   *)
(* follow from its own (NextItem), and that is all that the two theorems   *)
(* below know of the order of the items.                                   *)
(***************************************************************************)
\* The kinds that stand for stages of a region.
Standing == {"tiled", "wrapper", "bridge"}

\* What there is to know of an item from its kind.
Shape(p, sel, x) ==
    /\ x.at \in 1 .. Len(p)
    /\ \/ /\ x.kind = "spill" /\ x.at \in Spilling(p, sel)
          /\ x = Item(x.at, "spill", p[x.at - 1].region, x.at - 1)
       \/ /\ x.kind = "upload" /\ x.at \in Uploading(p, sel)
          /\ x = Item(x.at, "upload", p[x.at].region, x.at - 1)
       \/ /\ x.kind \in Standing \cup {"host"}
          /\ HasItem(p, sel, x.at) /\ x = StandIn(p, sel, x.at)

\* A region has the stages from the one it is named by to its last.
LEMMA RegionStagesAre ==
    ASSUME NEW r, RunPlanned(r), NEW q \in r.selected
    PROVE  /\ Len(r.stages) \in Nat
           /\ q \in 2 .. Len(r.stages) - 1
           /\ EndOf(r.stages, q) \in q .. Len(r.stages) - 1
           /\ StagesOf(r.stages, q) = q .. EndOf(r.stages, q)
<1> DEFINE p == r.stages
           n == Len(p)
<1>1. n \in Nat /\ q \in Stages(p) /\ Stages(p) = 1 .. n /\ p[q].region = q
  BY DEF RunPlanned
<1>2. q # None
  BY <1>1, SMT DEF None
<1>3. q \in 2 .. q
  BY <1>1, <1>2 DEF RunPlanned
<1>4. PICK e \in q .. n - 1 : StagesOf(p, q) = q .. e
  BY <1>1, <1>2 DEF RunPlanned
<1> HIDE DEF p, n
<1>5. \A x \in q .. e : e >= x
  BY <1>1, <1>3, <1>4, SMT
<1>6. e \in q .. e
  BY <1>1, <1>3, <1>4, SMT
<1>7. EndOf(p, q) = e
  <2>1. \A x : x \in q .. e /\ (\A y \in q .. e : x >= y) => x = e
    BY <1>1, <1>3, <1>4, <1>6, SMT
  <2>2. EndOf(p, q) = CHOOSE x \in q .. e : \A y \in q .. e : x >= y
    BY <1>4 DEF EndOf, Max
  <2> QED
    BY <1>5, <1>6, <2>1, <2>2
<1>8. q \in 2 .. n - 1
  BY <1>1, <1>3, <1>4, SMT
<1> QED
  BY <1>1, <1>4, <1>7, <1>8 DEF p, n

\* Every item of a rewritten pipeline has the shape of its kind.
LEMMA ItemShapes ==
    ASSUME NEW r, RunPlanned(r), NEW sel, NEW x \in Rewritten(r.stages, sel)
    PROVE  Shape(r.stages, sel, x)
<1> DEFINE p == r.stages
<1>1. Stages(p) = 1 .. Len(p)
  BY DEF RunPlanned
<1> HIDE DEF p
<1>2. CASE \E i \in Spilling(p, sel) : x = Item(i, "spill", p[i - 1].region, i - 1)
  <2>1. PICK i \in Spilling(p, sel) : x = Item(i, "spill", p[i - 1].region, i - 1)
    BY <1>2
  <2>2. x.at = i /\ x.kind = "spill"
    BY <2>1 DEF Item
  <2>3. x.at \in Spilling(p, sel) /\ x = Item(x.at, "spill", p[x.at - 1].region, x.at - 1)
    BY <2>1, <2>2
  <2>4. x.at \in 1 .. Len(p)
    BY <1>1, <2>3 DEF Spilling
  <2>5. Shape(p, sel, x)
    BY ONLY <2>2, <2>3, <2>4 DEF Shape
  <2> QED
    BY <2>5 DEF p
<1>3. CASE \E i \in Uploading(p, sel) : x = Item(i, "upload", p[i].region, i - 1)
  <2>1. PICK i \in Uploading(p, sel) : x = Item(i, "upload", p[i].region, i - 1)
    BY <1>3
  <2>2. x.at = i /\ x.kind = "upload"
    BY <2>1 DEF Item
  <2>3. x.at \in Uploading(p, sel) /\ x = Item(x.at, "upload", p[x.at].region, x.at - 1)
    BY <2>1, <2>2
  <2>4. x.at \in 1 .. Len(p)
    BY <1>1, <2>3 DEF Uploading
  <2>5. Shape(p, sel, x)
    BY ONLY <2>2, <2>3, <2>4 DEF Shape
  <2> QED
    BY <2>5 DEF p
<1>4. CASE \E i \in Stages(p) : HasItem(p, sel, i) /\ x = StandIn(p, sel, i)
  <2>1. PICK i \in Stages(p) : HasItem(p, sel, i) /\ x = StandIn(p, sel, i)
    BY <1>4
  <2>2. x.at = i /\ x.kind \in Standing \cup {"host"}
    BY <2>1 DEF StandIn, Item, Standing
  <2>3. HasItem(p, sel, x.at) /\ x = StandIn(p, sel, x.at) /\ x.at \in 1 .. Len(p)
    BY <1>1, <2>1, <2>2
  <2>5. Shape(p, sel, x)
    BY ONLY <2>2, <2>3 DEF Shape
  <2> QED
    BY <2>5 DEF p
<1> QED
  BY <1>2, <1>3, <1>4 DEF Rewritten, Markers, p

\* Every marker and every stand-in that is asked for is an item.
LEMMA ItemsThere ==
    ASSUME NEW p, NEW sel, NEW i \in Stages(p)
    PROVE  /\ i \in Spilling(p, sel) =>
                 Item(i, "spill", p[i - 1].region, i - 1) \in Rewritten(p, sel)
           /\ i \in Uploading(p, sel) =>
                 Item(i, "upload", p[i].region, i - 1) \in Rewritten(p, sel)
           /\ HasItem(p, sel, i) => StandIn(p, sel, i) \in Rewritten(p, sel)
  BY DEF Rewritten, Markers

\* The order of the kinds at one stage.
LEMMA Ranks ==
    /\ Rank("spill") = 1 /\ Rank("upload") = 2
    /\ \A kind \in Standing \cup {"host"} : Rank(kind) = 3
  BY DEF Rank, Standing

\* No two items stand at one place.
LEMMA OnePlace ==
    ASSUME NEW r, RunPlanned(r), NEW sel,
           NEW x \in Rewritten(r.stages, sel), NEW y \in Rewritten(r.stages, sel),
           ~Before(x, y), ~Before(y, x)
    PROVE  x = y
<1>1. Shape(r.stages, sel, x) /\ Shape(r.stages, sel, y) /\ Len(r.stages) \in Nat
  BY ItemShapes DEF RunPlanned
<1>2. x.at = y.at
  BY <1>1, SMT DEF Before, Shape
<1>3. Rank(x.kind) \in {1, 2, 3} /\ Rank(y.kind) \in {1, 2, 3}
  BY <1>1, Ranks DEF Shape
<1>4. Rank(x.kind) = Rank(y.kind)
  BY <1>2, <1>3, SMT DEF Before
<1> QED
  BY <1>1, <1>2, <1>4, Ranks DEF Shape

\* An item with nothing between is the one that is next.
LEMMA Successor ==
    ASSUME NEW r, RunPlanned(r), NEW sel, NEW s \in SUBSET Rewritten(r.stages, sel),
           NEW c \in s, \A z \in s : ~Before(z, c), NEW y \in Earliest(s)
    PROVE  y = c
<1>1. y \in s /\ ~Before(c, y) /\ ~Before(y, c)
  BY DEF Earliest
<1> QED
  BY <1>1, OnePlace

Later(p, sel, x) == {z \in Rewritten(p, sel) : Before(x, z)}

\* What the next item is, from what this one is.
Follows(p, x, y) ==
    /\ x.kind = "upload" =>
          y.at = x.at /\ y.kind \in Standing /\ y.region = x.region /\ y.at = y.region
    /\ x.kind = "spill" => y.at = x.at /\ y.kind \in {"host", "upload"}
    /\ x.kind = "host" => y.at = x.at + 1 /\ y.kind \in {"host", "upload"}
    /\ x.kind \in Standing =>
          /\ y.at = x.until + 1 /\ y.region = x.region /\ y.at # y.region
          /\ IF x.until = EndOf(p, x.region) THEN y.kind = "spill"
             ELSE /\ y.kind \in Standing
                  /\ y.kind = "bridge" => x.kind = "wrapper" /\ ~OverGrid(p, x.region)

\* Kinds and places of the stand-ins.
LEMMA StandIns ==
    ASSUME NEW p, NEW sel, NEW i
    PROVE  LET x == StandIn(p, sel, i)
           IN  /\ x.at = i
               /\ ~Selected(p, sel, i) =>
                     x.kind = "host" /\ x.until = i /\ x.region = None
               /\ Selected(p, sel, i) =>
                     /\ x.kind \in Standing /\ x.region = p[i].region
                     /\ x.kind = "wrapper" => x.until = i
                     /\ x.kind = "wrapper" <=> Wrapped(p, i)
                     /\ x.kind = "bridge" =>
                           Neighborly(p, x.region) /\ x.until = Max(Bridged(p, x.region, i))
                     /\ x.kind = "tiled" =>
                           ~Neighborly(p, x.region) /\ x.until = EndOf(p, x.region)
<1> DEFINE x == StandIn(p, sel, i)
           q == p[i].region
<1>1. CASE ~Selected(p, sel, i)
  <2>1. x = Item(i, "host", None, i)
    BY <1>1 DEF StandIn
  <2> HIDE DEF x
  <2>2. x.at = i /\ x.kind = "host" /\ x.region = None /\ x.until = i
    BY <2>1 DEF Item
  <2> QED
    BY <1>1, <2>2 DEF x
<1>2. CASE Selected(p, sel, i) /\ Wrapped(p, i)
  <2>1. x = Item(i, "wrapper", q, i)
    BY <1>2 DEF StandIn
  <2> HIDE DEF x
  <2>2. x.at = i /\ x.kind = "wrapper" /\ x.region = q /\ x.until = i
    BY <2>1 DEF Item
  <2>3. x.kind \in Standing /\ x.kind # "bridge" /\ x.kind # "tiled"
    BY <2>2 DEF Standing
  <2> QED
    BY <1>2, <2>2, <2>3 DEF x
<1>3. CASE Selected(p, sel, i) /\ ~Wrapped(p, i) /\ Neighborly(p, q)
  <2>1. x = Item(i, "bridge", q, Max(Bridged(p, q, i)))
    BY <1>3 DEF StandIn
  <2> HIDE DEF x
  <2>2. /\ x.at = i /\ x.kind = "bridge" /\ x.region = q
        /\ x.until = Max(Bridged(p, q, i))
    BY <2>1 DEF Item
  <2>3. x.kind \in Standing /\ x.kind # "wrapper" /\ x.kind # "tiled"
    BY <2>2 DEF Standing
  <2> QED
    BY <1>3, <2>2, <2>3 DEF x
<1>4. CASE Selected(p, sel, i) /\ ~Wrapped(p, i) /\ ~Neighborly(p, q)
  <2>1. x = Item(i, "tiled", q, EndOf(p, q))
    BY <1>4 DEF StandIn
  <2> HIDE DEF x
  <2>2. x.at = i /\ x.kind = "tiled" /\ x.region = q /\ x.until = EndOf(p, q)
    BY <2>1 DEF Item
  <2>3. x.kind \in Standing /\ x.kind # "wrapper" /\ x.kind # "bridge"
    BY <2>2 DEF Standing
  <2> QED
    BY <1>4, <2>2, <2>3 DEF x
<1> QED
  BY <1>1, <1>2, <1>3, <1>4

\* A selected region has all the stages from its first to its last, and no other.
WholeRegion(p, sel, q) ==
    /\ \A j \in q .. EndOf(p, q) : Selected(p, sel, j) /\ p[j].region = q
    /\ \A j \in Stages(p) : j \notin q .. EndOf(p, q) => p[j].region # q

\* Where a selected stage is: in its region, between the first and the last.
LEMMA Inside ==
    ASSUME NEW r, RunPlanned(r), NEW sel \in SUBSET r.selected, NEW i,
           Selected(r.stages, sel, i)
    PROVE  LET q == r.stages[i].region
               e == EndOf(r.stages, q)
           IN  /\ q \in sel /\ q \in r.selected
               /\ Len(r.stages) \in Nat /\ q \in 2 .. Len(r.stages) - 1
               /\ e \in q .. Len(r.stages) - 1 /\ i \in q .. e
               /\ StagesOf(r.stages, q) = q .. e
               /\ WholeRegion(r.stages, sel, q)
<1> DEFINE p == r.stages
           q == p[i].region
           e == EndOf(p, q)
<1>1. q \in sel /\ q \in r.selected /\ i \in Stages(p)
  BY DEF Selected
<1>2. /\ Len(p) \in Nat /\ q \in 2 .. Len(p) - 1 /\ e \in q .. Len(p) - 1
      /\ StagesOf(p, q) = q .. e
  BY <1>1, RegionStagesAre
<1>3. \A j : j \in q .. e <=> j \in Stages(p) /\ p[j].region = q
  BY <1>2 DEF StagesOf
<1> HIDE DEF e
<1>4. WholeRegion(p, sel, q)
  BY <1>1, <1>3 DEF Selected, WholeRegion, e
<1> QED
  BY <1>1, <1>2, <1>3, <1>4 DEF e

\* A bridge stands for stages of its region up to the next producer.
LEMMA Bridges ==
    ASSUME NEW r, RunPlanned(r), NEW sel \in SUBSET r.selected, NEW i,
           Selected(r.stages, sel, i), ~Producer(r.stages, i)
    PROVE  LET q == r.stages[i].region
               e == EndOf(r.stages, q)
               u == Max(Bridged(r.stages, q, i))
           IN  /\ u \in i .. e
               /\ \A k \in i .. u : ~Producer(r.stages, k)
               /\ u # e => Producer(r.stages, u + 1)
<1> DEFINE p == r.stages
           q == p[i].region
           e == EndOf(p, q)
           stop == {k \in (i + 1) .. (e + 1) : k = e + 1 \/ Producer(p, k)}
<1>1. /\ q \in Nat /\ e \in Nat /\ i \in q .. e /\ StagesOf(p, q) = q .. e
  <2>1. /\ Len(p) \in Nat /\ q \in 2 .. Len(p) - 1 /\ e \in q .. Len(p) - 1
        /\ i \in q .. e /\ StagesOf(p, q) = q .. e
    BY Inside
  <2> HIDE DEF p, q, e
  <2> QED
    BY <2>1, SMT
<1>2. ~Producer(p, i)
  OBVIOUS
<1>3. Bridged(p, q, i) = {j \in q .. e : j >= i /\ \A k \in i .. j : ~Producer(p, k)}
  BY <1>1 DEF Bridged
<1> HIDE DEF p, q, e
<1>4. PICK m \in stop : \A k \in stop : m <= k
  <2>1. e + 1 \in stop /\ stop \in SUBSET Nat
    BY <1>1, SMT
  <2> HIDE DEF stop
  <2> QED
    BY <2>1, LeastMember
<1> DEFINE u == m - 1
<1>5. /\ u \in i .. e /\ m = u + 1 /\ (u # e => Producer(p, u + 1))
  BY <1>1, <1>4, SMT
<1>6. \A k \in i .. u : ~Producer(p, k)
  <2> SUFFICES ASSUME NEW k \in i .. u, Producer(p, k) PROVE FALSE
    OBVIOUS
  <2>1. k # i
    BY <1>2
  <2>2. k \in (i + 1) .. (e + 1) /\ ~(m <= k)
    BY <1>1, <1>4, <1>5, <2>1, SMT
  <2> QED
    BY <1>4, <2>2
<1> HIDE DEF u, stop
<1>7. u \in Bridged(p, q, i)
  BY <1>1, <1>3, <1>5, <1>6, SMT
<1>8. \A j \in Bridged(p, q, i) : u >= j
  <2> SUFFICES ASSUME NEW j \in q .. e, j >= i, \A k \in i .. j : ~Producer(p, k), ~(u >= j)
               PROVE  FALSE
    BY <1>3
  <2>1. u + 1 \in i .. j /\ u # e
    BY <1>1, <1>5, SMT
  <2> QED
    BY <1>5, <2>1
<1>9. \A x \in Bridged(p, q, i) : (\A y \in Bridged(p, q, i) : x >= y) => x = u
  <2> SUFFICES ASSUME NEW x \in Bridged(p, q, i), x >= u, u >= x PROVE x = u
    BY <1>7, <1>8
  <2>1. x \in q .. e
    BY <1>3
  <2> QED
    BY <1>1, <1>5, <2>1, SMT
<1>10. Max(Bridged(p, q, i)) = u
  BY <1>7, <1>8, <1>9 DEF Max
<1> QED
  BY <1>5, <1>6, <1>10 DEF p, q, e

\* What the rank of an item tells.
LEMMA ItemPlaces ==
    ASSUME NEW r, RunPlanned(r), NEW sel, NEW z \in Rewritten(r.stages, sel)
    PROVE  /\ z.at \in 1 .. Len(r.stages) /\ z.at \in Stages(r.stages)
           /\ Rank(z.kind) \in {1, 2, 3}
           /\ Rank(z.kind) = 1 => z.kind = "spill" /\ z.at \in Spilling(r.stages, sel)
           /\ Rank(z.kind) = 2 => z.kind = "upload" /\ z.at \in Uploading(r.stages, sel)
           /\ Rank(z.kind) = 3 => HasItem(r.stages, sel, z.at) /\ z = StandIn(r.stages, sel, z.at)
<1>1. Shape(r.stages, sel, z) /\ Stages(r.stages) = 1 .. Len(r.stages)
  BY ItemShapes DEF RunPlanned
<1>2. z.kind \in Standing \cup {"host"} => Rank(z.kind) = 3
  BY Ranks
<1> QED
  BY <1>1, <1>2, Ranks DEF Shape

\* What stands for stages of a region stands for stages of it alone, and none
\* of them has another item.
LEMMA Standings ==
    ASSUME NEW r, RunPlanned(r), NEW sel \in SUBSET r.selected,
           NEW x \in Rewritten(r.stages, sel), x.kind \in Standing
    PROVE  LET p == r.stages
               q == x.region
               e == EndOf(p, q)
           IN  /\ Selected(p, sel, x.at) /\ q = p[x.at].region
               /\ x.until \in x.at .. e
               /\ x.kind = "wrapper" => x.until = x.at /\ Wrapped(p, x.at)
               /\ x.kind # "wrapper" => ~Wrapped(p, x.at)
               /\ x.kind = "tiled" => ~Neighborly(p, q) /\ x.at = q /\ x.until = e
               /\ x.kind = "bridge" =>
                     /\ Neighborly(p, q)
                     /\ \A k \in x.at .. x.until : ~Producer(p, k)
                     /\ x.until # e => Producer(p, x.until + 1)
<1> DEFINE p == r.stages
           q == x.region
           e == EndOf(p, q)
           i == x.at
<1>1. HasItem(p, sel, i) /\ x = StandIn(p, sel, i)
  <2>1. Rank(x.kind) = 3
    BY Ranks
  <2> QED
    BY <2>1, ItemPlaces
<1>2. Selected(p, sel, i)
  <2>1. ~Selected(p, sel, i) => x.kind = "host"
    BY <1>1, StandIns
  <2> QED
    BY <2>1 DEF Standing
<1>3. /\ q = p[i].region
      /\ x.kind = "wrapper" => x.until = i
      /\ x.kind = "wrapper" <=> Wrapped(p, i)
      /\ x.kind = "bridge" => Neighborly(p, q) /\ x.until = Max(Bridged(p, q, i))
      /\ x.kind = "tiled" => ~Neighborly(p, q) /\ x.until = e
  BY <1>1, <1>2, StandIns
<1>4. /\ Len(p) \in Nat /\ q \in 2 .. Len(p) - 1
      /\ e \in q .. Len(p) - 1 /\ i \in q .. e
  <2>1. RunPlanned(r) /\ sel \in SUBSET r.selected /\ Selected(r.stages, sel, i)
    BY <1>2
  <2> HIDE DEF i
  <2>2. LET s == r.stages[i].region
            f == EndOf(r.stages, s)
        IN  /\ Len(r.stages) \in Nat /\ s \in 2 .. Len(r.stages) - 1
            /\ f \in s .. Len(r.stages) - 1 /\ i \in s .. f
    BY ONLY <2>1, Inside
  <2> QED
    BY <1>3, <2>2
<1> HIDE DEF p, q, e, i
<1>5. i \in i .. e /\ e \in i .. e
  BY <1>4, SMT
<1>6. CASE x.kind = "wrapper"
  BY <1>2, <1>3, <1>5, <1>6 DEF p, q, e, i
<1>7. CASE x.kind = "tiled"
  <2>1. i = q
    BY <1>1, <1>2, <1>3, <1>7 DEF HasItem
  <2> QED
    BY <1>2, <1>3, <1>5, <1>7, <2>1 DEF p, q, e, i
<1>8. CASE x.kind = "bridge"
  <2>1. ~Wrapped(p, i) /\ ~Producer(p, i)
    BY <1>3, <1>8 DEF Wrapped
  <2>2. /\ Max(Bridged(p, q, i)) \in i .. e
        /\ \A k \in i .. Max(Bridged(p, q, i)) : ~Producer(p, k)
        /\ Max(Bridged(p, q, i)) # e => Producer(p, Max(Bridged(p, q, i)) + 1)
    BY <1>2, <1>3, <2>1, Bridges DEF p, q, e, i
  <2> QED
    BY <1>2, <1>3, <1>8, <2>1, <2>2 DEF p, q, e, i
<1> QED
  BY <1>6, <1>7, <1>8 DEF Standing

\* The stages of a region, but for its first, have no marker.
LEMMA NotCrossed ==
    ASSUME NEW r, RunPlanned(r), NEW sel \in SUBSET r.selected, NEW i,
           Selected(r.stages, sel, i),
           NEW j \in r.stages[i].region + 1 .. EndOf(r.stages, r.stages[i].region)
    PROVE  ~Crossed(r.stages, j)
<1> DEFINE p == r.stages
           q == p[i].region
           e == EndOf(p, q)
<1>1. /\ Len(p) \in Nat /\ q \in 2 .. Len(p) - 1 /\ e \in q .. Len(p) - 1
      /\ WholeRegion(p, sel, q)
  BY ONLY RunPlanned(r), sel \in SUBSET r.selected, Selected(r.stages, sel, i), Inside
<1> HIDE DEF p, q, e
<1>2. j \in q + 1 .. e
  BY DEF p, q, e
<1>3. j \in q .. e /\ j - 1 \in q .. e
  BY <1>1, <1>2, SMT
<1>4. p[j].region = p[j - 1].region
  BY <1>1, <1>3 DEF WholeRegion, e
<1> QED
  BY <1>4 DEF Crossed, p

\* A region is uploaded at its first stage.
LEMMA UploadsFirst ==
    ASSUME NEW r, RunPlanned(r), NEW sel \in SUBSET r.selected,
           NEW i \in Uploading(r.stages, sel)
    PROVE  r.stages[i].region = i /\ i \in sel
<1> DEFINE p == r.stages
           q == p[i].region
<1>1. Selected(p, sel, i) /\ Crossed(p, i)
  BY DEF Uploading
<1>2. /\ q \in 2 .. Len(p) - 1 /\ EndOf(p, q) \in q .. Len(p) - 1
      /\ i \in q .. EndOf(p, q) /\ Len(p) \in Nat
  BY <1>1, Inside
<1>3. i # q => i \in q + 1 .. EndOf(p, q)
  <2> HIDE DEF p, q
  <2> QED
    BY <1>2, SMT
<1>4. i = q
  BY <1>1, <1>3, NotCrossed
<1> QED
  BY <1>1, <1>4 DEF Selected

\* None of the stages that an item stands for, but for its own, has an item.
LEMMA NoneWithin ==
    ASSUME NEW r, RunPlanned(r), NEW sel \in SUBSET r.selected,
           NEW x \in Rewritten(r.stages, sel), x.kind \in Standing,
           NEW z \in Rewritten(r.stages, sel), z.at \in x.at + 1 .. x.until
    PROVE  FALSE
<1> DEFINE p == r.stages
           q == x.region
           e == EndOf(p, q)
           i == x.at
           j == z.at
<1>1. /\ Selected(p, sel, i) /\ q = p[i].region
      /\ x.until \in i .. e
      /\ x.kind = "wrapper" => x.until = i
      /\ x.kind # "wrapper" => ~Wrapped(p, i)
      /\ x.kind = "tiled" => ~Neighborly(p, q)
      /\ x.kind = "bridge" => \A k \in i .. x.until : ~Producer(p, k)
      /\ x.kind = "bridge" => Neighborly(p, q)
  BY Standings
<1>2. /\ Len(p) \in Nat /\ q \in 2 .. Len(p) - 1
      /\ e \in q .. Len(p) - 1 /\ i \in q .. e
      /\ StagesOf(p, q) = q .. e
      /\ WholeRegion(p, sel, q)
  <2>1. RunPlanned(r) /\ sel \in SUBSET r.selected /\ Selected(r.stages, sel, i)
    BY <1>1
  <2> HIDE DEF i
  <2>2. LET s == r.stages[i].region
            f == EndOf(r.stages, s)
        IN  /\ Len(r.stages) \in Nat /\ s \in 2 .. Len(r.stages) - 1
            /\ f \in s .. Len(r.stages) - 1 /\ i \in s .. f
            /\ StagesOf(r.stages, s) = s .. f
            /\ WholeRegion(r.stages, sel, s)
    BY ONLY <2>1, Inside
  <2> QED
    BY <1>1, <2>2
<1> HIDE DEF p, q, e, i, j
<1>3. j \in i + 1 .. x.until
  BY DEF i, j
<1>4. /\ j \in q + 1 .. e /\ j \in q .. e /\ j # q /\ x.until # i
      /\ j \in i .. x.until /\ j - 1 \in i .. x.until
  BY <1>1, <1>2, <1>3, SMT
<1>5. ~Crossed(p, j)
  BY <1>1, <1>4, NotCrossed DEF p, q, e
<1>6. Rank(z.kind) = 3 /\ HasItem(p, sel, j)
  <2>1. /\ Rank(z.kind) \in {1, 2, 3}
        /\ Rank(z.kind) = 1 => j \in Spilling(p, sel)
        /\ Rank(z.kind) = 2 => j \in Uploading(p, sel)
        /\ Rank(z.kind) = 3 => HasItem(p, sel, j)
    BY ItemPlaces DEF p, j
  <2> QED
    BY <1>5, <2>1 DEF Spilling, Uploading
<1>7. Selected(p, sel, j) /\ p[j].region = q
  BY <1>2, <1>4 DEF WholeRegion, e
<1>8. x.kind # "wrapper" /\ ~OverGrid(p, q)
  BY <1>1, <1>4 DEF Wrapped
<1>9. CASE x.kind = "tiled"
  <2>1. ~Producer(p, j)
    BY <1>1, <1>2, <1>4, <1>9 DEF Neighborly
  <2> QED
    BY <1>1, <1>4, <1>6, <1>7, <1>8, <1>9, <2>1 DEF HasItem, Wrapped
<1>10. CASE x.kind = "bridge"
  <2>1. ~Producer(p, j) /\ ~Producer(p, j - 1)
    BY <1>1, <1>4, <1>10
  <2>2. BridgeStarts(p, q, j)
    BY <1>1, <1>6, <1>7, <1>8, <1>10, <2>1 DEF HasItem, Wrapped
  <2> QED
    BY <1>4, <2>1, <2>2 DEF BridgeStarts
<1> QED
  BY <1>8, <1>9, <1>10 DEF Standing

\* The item c comes after x, and none comes between them.
ComesNext(p, sel, x, c) ==
    /\ c \in Rewritten(p, sel) /\ Before(x, c)
    /\ \A z \in Rewritten(p, sel) : Before(x, z) => ~Before(z, c)

\* After an upload comes what stands for the first stage of the region.
LEMMA AfterUpload ==
    ASSUME NEW r, RunPlanned(r), NEW sel \in SUBSET r.selected,
           NEW x \in Rewritten(r.stages, sel), x.kind = "upload"
    PROVE  \E c : ComesNext(r.stages, sel, x, c) /\ Follows(r.stages, x, c)
<1> DEFINE p == r.stages
           i == x.at
           q == p[i].region
           c == StandIn(p, sel, i)
<1>1. /\ i \in Stages(p) /\ i \in Nat /\ Rank(x.kind) = 2 /\ i \in Uploading(p, sel)
      /\ x = Item(i, "upload", q, i - 1)
  <2>1. Shape(p, sel, x) /\ i \in 1 .. Len(p) /\ i \in Stages(p) /\ Len(p) \in Nat
    BY ItemShapes, ItemPlaces DEF RunPlanned
  <2> QED
    BY <2>1, Ranks DEF Shape, Standing
<1>2. Selected(p, sel, i) /\ Crossed(p, i)
  BY <1>1 DEF Uploading
<1>3. i = q
  <2>1. RunPlanned(r) /\ sel \in SUBSET r.selected /\ i \in Uploading(r.stages, sel)
    BY <1>1
  <2>2. r.stages[i].region = i
    BY ONLY <2>1, UploadsFirst
  <2> QED
    BY <2>2
<1>4. HasItem(p, sel, i)
  BY <1>3 DEF HasItem, BridgeStarts
<1>5. c \in Rewritten(p, sel)
  BY <1>1, <1>4, ItemsThere
<1>6. c.at = i /\ c.kind \in Standing /\ c.region = q
  BY <1>2, StandIns
<1>7. x.region = q
  BY <1>1 DEF Item
<1> HIDE DEF c
<1>8. Rank(c.kind) = 3
  BY <1>6, Ranks
<1>9. Before(x, c)
  BY <1>1, <1>6, <1>8, SMT DEF Before
<1>10. ASSUME NEW z \in Rewritten(p, sel), Before(x, z), Before(z, c) PROVE FALSE
  <2>1. z.at \in 1 .. Len(p) /\ Rank(z.kind) \in {1, 2, 3}
    BY ItemPlaces
  <2> QED
    BY <1>1, <1>6, <1>8, <1>10, <2>1, SMT DEF Before
<1> QED
  BY <1>3, <1>5, <1>6, <1>7, <1>9, <1>10 DEF ComesNext, Follows, Standing

\* After a spill comes the host's stage, or the upload of the next region.
LEMMA AfterSpill ==
    ASSUME NEW r, RunPlanned(r), NEW sel \in SUBSET r.selected,
           NEW x \in Rewritten(r.stages, sel), x.kind = "spill"
    PROVE  \E c : ComesNext(r.stages, sel, x, c) /\ Follows(r.stages, x, c)
<1> DEFINE p == r.stages
           i == x.at
<1>1. i \in Stages(p) /\ i \in Nat /\ Rank(x.kind) = 1 /\ i \in Spilling(p, sel)
  <2>1. Shape(p, sel, x) /\ i \in 1 .. Len(p) /\ i \in Stages(p) /\ Len(p) \in Nat
    BY ItemShapes, ItemPlaces DEF RunPlanned
  <2> QED
    BY <2>1, Ranks DEF Shape, Standing
<1>2. Crossed(p, i)
  BY <1>1 DEF Spilling
<1>3. ASSUME NEW z \in Rewritten(p, sel), Before(x, z)
      PROVE  /\ z.at \in Nat /\ Rank(z.kind) \in {1, 2, 3}
             /\ z.at > i \/ (z.at = i /\ Rank(z.kind) \in {2, 3})
             /\ Rank(z.kind) = 2 => z.at \in Uploading(p, sel)
  <2>1. /\ z.at \in 1 .. Len(p) /\ Rank(z.kind) \in {1, 2, 3}
        /\ Rank(z.kind) = 2 => z.at \in Uploading(p, sel)
    BY ItemPlaces
  <2>2. /\ z.at \in Nat
        /\ z.at > i \/ (z.at = i /\ Rank(z.kind) \in {2, 3})
    <3>1. z.at \in Nat
      BY <2>1, SMT
    <3>2. x.at \in Nat /\ Rank(x.kind) = 1 /\ Rank(z.kind) \in {1, 2, 3}
      BY <1>1, <2>1
    <3>3. x.at < z.at \/ (x.at = z.at /\ Rank(x.kind) < Rank(z.kind))
      BY <1>3 DEF Before
    <3>4. z.at > x.at \/ (z.at = x.at /\ Rank(z.kind) \in {2, 3})
      BY ONLY <3>1, <3>2, <3>3, SMT
    <3> QED
      BY <3>1, <3>4
  <2> QED
    BY <2>1, <2>2
<1>4. CASE Selected(p, sel, i)
  <2> DEFINE c == Item(i, "upload", p[i].region, i - 1)
  <2>1. i \in Uploading(p, sel)
    BY <1>1, <1>2, <1>4 DEF Uploading
  <2>2. c \in Rewritten(p, sel)
    BY <1>1, <2>1, ItemsThere
  <2>3. c.at = i /\ c.kind = "upload" /\ Rank(c.kind) = 2
    BY Ranks DEF Item
  <2> HIDE DEF c
  <2>4. Before(x, c)
    BY <1>1, <2>3, SMT DEF Before
  <2>5. ASSUME NEW z \in Rewritten(p, sel), Before(x, z), Before(z, c) PROVE FALSE
    BY <1>1, <1>3, <2>3, <2>5, SMT DEF Before
  <2> QED
    BY <2>2, <2>3, <2>4, <2>5 DEF ComesNext, Follows, Standing
<1>5. CASE ~Selected(p, sel, i)
  <2> DEFINE c == StandIn(p, sel, i)
  <2>1. HasItem(p, sel, i)
    BY <1>5 DEF HasItem
  <2>2. c \in Rewritten(p, sel)
    BY <1>1, <2>1, ItemsThere
  <2>3. c.at = i /\ c.kind = "host"
    BY <1>5, StandIns
  <2> HIDE DEF c
  <2>4. Rank(c.kind) = 3
    BY <2>3, Ranks
  <2>5. Before(x, c)
    BY <1>1, <2>3, <2>4, SMT DEF Before
  <2>6. ASSUME NEW z \in Rewritten(p, sel), Before(x, z), Before(z, c) PROVE FALSE
    <3>1. z.at = i /\ Rank(z.kind) = 2
      BY <1>1, <1>3, <2>3, <2>4, <2>6, SMT DEF Before
    <3> QED
      BY <1>3, <1>5, <2>6, <3>1 DEF Uploading
  <2> QED
    BY <2>2, <2>3, <2>5, <2>6 DEF ComesNext, Follows, Standing
<1> QED
  BY <1>4, <1>5

\* After a host's stage comes the next one, or the upload of a region.
LEMMA AfterHost ==
    ASSUME NEW r, RunPlanned(r), NEW sel \in SUBSET r.selected,
           NEW x \in Rewritten(r.stages, sel), x.kind = "host", x.at # Len(r.stages)
    PROVE  \E c : ComesNext(r.stages, sel, x, c) /\ Follows(r.stages, x, c)
<1> DEFINE p == r.stages
           i == x.at
           j == i + 1
<1>1. /\ i \in Nat /\ i \in Stages(p) /\ Rank(x.kind) = 3 /\ x = StandIn(p, sel, i)
      /\ j \in Stages(p) /\ j > 1
  <2>1. Shape(p, sel, x) /\ i \in 1 .. Len(p) /\ i \in Stages(p) /\ Len(p) \in Nat
    BY ItemShapes, ItemPlaces DEF RunPlanned
  <2>2. Stages(p) = 1 .. Len(p)
    BY DEF RunPlanned
  <2>3. Rank(x.kind) = 3
    BY Ranks
  <2>4. x = StandIn(p, sel, i)
    BY <2>3, ItemPlaces
  <2> HIDE DEF p
  <2>5. i \in Nat /\ j \in 1 .. Len(p) /\ j > 1
    BY <2>1, SMT DEF p
  <2> QED
    BY <2>1, <2>2, <2>3, <2>4, <2>5
<1>2. ~Selected(p, sel, i)
  <2>1. Selected(p, sel, i) => x.kind \in Standing
    BY <1>1, StandIns
  <2> QED
    BY <2>1 DEF Standing
<1>3. j \notin Spilling(p, sel)
  <2>1. j - 1 = i
    BY <1>1, SMT
  <2> QED
    BY <1>2, <2>1 DEF Spilling
<1>4. ASSUME NEW z \in Rewritten(p, sel), Before(x, z)
      PROVE  /\ z.at \in Nat /\ z.at >= j /\ Rank(z.kind) \in {1, 2, 3}
             /\ z.at = j => Rank(z.kind) \in {2, 3}
             /\ Rank(z.kind) = 2 => z.at \in Uploading(p, sel)
  <2>1. /\ z.at \in 1 .. Len(p) /\ Rank(z.kind) \in {1, 2, 3}
        /\ Rank(z.kind) = 1 => z.at \in Spilling(p, sel)
        /\ Rank(z.kind) = 2 => z.at \in Uploading(p, sel)
    BY ItemPlaces
  <2>2. z.at \in Nat /\ z.at >= j
    BY <1>1, <1>4, <2>1, SMT DEF Before
  <2> QED
    BY <1>3, <2>1, <2>2
<1>5. CASE Selected(p, sel, j)
  <2> DEFINE c == Item(j, "upload", p[j].region, j - 1)
  <2>1. p[j - 1].region # p[j].region
    <3>1. j - 1 = i
      BY <1>1, SMT
    <3> QED
      BY <1>1, <1>2, <1>5, <3>1 DEF Selected
  <2>2. j \in Uploading(p, sel)
    BY <1>1, <1>5, <2>1 DEF Uploading, Crossed
  <2>3. c \in Rewritten(p, sel)
    BY <1>1, <2>2, ItemsThere
  <2>4. c.at = j /\ c.kind = "upload" /\ Rank(c.kind) = 2
    BY Ranks DEF Item
  <2> HIDE DEF c
  <2>5. Before(x, c)
    BY <1>1, <2>4, SMT DEF Before
  <2>6. ASSUME NEW z \in Rewritten(p, sel), Before(x, z), Before(z, c) PROVE FALSE
    BY <1>1, <1>4, <2>4, <2>6, SMT DEF Before
  <2> QED
    BY <2>3, <2>4, <2>5, <2>6 DEF ComesNext, Follows, Standing
<1>6. CASE ~Selected(p, sel, j)
  <2> DEFINE c == StandIn(p, sel, j)
  <2>1. HasItem(p, sel, j)
    BY <1>6 DEF HasItem
  <2>2. c \in Rewritten(p, sel)
    BY <1>1, <2>1, ItemsThere
  <2>3. c.at = j /\ c.kind = "host"
    BY <1>6, StandIns
  <2> HIDE DEF c
  <2>4. Rank(c.kind) = 3
    BY <2>3, Ranks
  <2>5. Before(x, c)
    BY <1>1, <2>3, <2>4, SMT DEF Before
  <2>6. ASSUME NEW z \in Rewritten(p, sel), Before(x, z), Before(z, c) PROVE FALSE
    <3>1. z.at = j /\ Rank(z.kind) = 2
      BY <1>1, <1>4, <2>3, <2>4, <2>6, SMT DEF Before
    <3> QED
      BY <1>4, <1>6, <2>6, <3>1 DEF Uploading
  <2> QED
    BY <2>2, <2>3, <2>5, <2>6 DEF ComesNext, Follows, Standing
<1> QED
  BY <1>5, <1>6

\* After a stand-in comes the next of its region, or the region's spill.
LEMMA AfterStanding ==
    ASSUME NEW r, RunPlanned(r), NEW sel \in SUBSET r.selected,
           NEW x \in Rewritten(r.stages, sel), x.kind \in Standing
    PROVE  \E c : ComesNext(r.stages, sel, x, c) /\ Follows(r.stages, x, c)
<1> DEFINE p == r.stages
           q == x.region
           e == EndOf(p, q)
           i == x.at
           u == x.until
           j == u + 1
<1>1. /\ Selected(p, sel, i) /\ q = p[i].region
      /\ u \in i .. e
      /\ x.kind = "wrapper" => u = i /\ Wrapped(p, i)
      /\ x.kind # "wrapper" => ~Wrapped(p, i)
      /\ x.kind = "tiled" => u = e
      /\ x.kind = "bridge" => (u # e => Producer(p, j))
  BY Standings
<1>2. /\ Len(p) \in Nat /\ q \in 2 .. Len(p) - 1
      /\ e \in q .. Len(p) - 1 /\ i \in q .. e
      /\ WholeRegion(p, sel, q)
  <2>1. RunPlanned(r) /\ sel \in SUBSET r.selected /\ Selected(r.stages, sel, i)
    BY <1>1
  <2> HIDE DEF i
  <2>2. LET s == r.stages[i].region
            f == EndOf(r.stages, s)
        IN  /\ Len(r.stages) \in Nat /\ s \in 2 .. Len(r.stages) - 1
            /\ f \in s .. Len(r.stages) - 1 /\ i \in s .. f
            /\ WholeRegion(r.stages, sel, s)
    BY ONLY <2>1, Inside
  <2> QED
    BY <1>1, <2>2
<1>3. Rank(x.kind) = 3
  BY Ranks
<1>4. ASSUME NEW z \in Rewritten(p, sel), Before(x, z)
      PROVE  z.at \in Nat /\ z.at >= j /\ Rank(z.kind) \in {1, 2, 3}
  <2>1. z.at \in 1 .. Len(p) /\ Rank(z.kind) \in {1, 2, 3}
    BY ItemPlaces
  <2>2. z.at \notin i + 1 .. u
    BY NoneWithin
  <2>3. x.at < z.at \/ (x.at = z.at /\ Rank(x.kind) < Rank(z.kind))
    BY <1>4 DEF Before
  <2> HIDE DEF p, q, e, u
  <2> QED
    BY <1>1, <1>2, <1>3, <2>1, <2>2, <2>3, SMT
<1>5. /\ i \in Nat /\ u \in Nat /\ u \in q .. e /\ j \in 1 .. Len(p) /\ j > i /\ j > 1
      /\ j # q /\ j - 1 = u /\ (u # e => j \in q + 1 .. e /\ j \in q .. e)
      /\ (u = e => j \notin q .. e)
  <2> HIDE DEF p, q, e, i, u
  <2> QED
    BY <1>1, <1>2, SMT
<1>6. Stages(p) = 1 .. Len(p)
  BY DEF RunPlanned
<1>7. j \in Stages(p) /\ Selected(p, sel, u) /\ p[u].region = q
  BY <1>2, <1>5, <1>6 DEF WholeRegion
<1>8. CASE u = e
  <2> DEFINE c == Item(j, "spill", p[j - 1].region, j - 1)
  <2>1. p[j].region # q
    BY <1>2, <1>5, <1>7, <1>8 DEF WholeRegion
  <2>2. j \in Spilling(p, sel)
    BY <1>5, <1>7, <2>1 DEF Spilling, Crossed
  <2>3. c \in Rewritten(p, sel)
    BY <1>7, <2>2, ItemsThere
  <2>4. c.at = j /\ c.kind = "spill" /\ Rank(c.kind) = 1 /\ c.region = q
    BY <1>5, <1>7, Ranks DEF Item
  <2> HIDE DEF c
  <2>5. Before(x, c)
    <3> HIDE DEF j, i
    <3> QED
      BY <1>5, <2>4, SMT DEF Before, i
  <2>6. ASSUME NEW z \in Rewritten(p, sel), Before(x, z), Before(z, c) PROVE FALSE
    BY <1>4, <1>5, <2>4, <2>6, SMT DEF Before
  <2> QED
    BY <1>5, <1>8, <2>3, <2>4, <2>5, <2>6 DEF ComesNext, Follows, Standing
<1>9. CASE u # e
  <2> DEFINE c == StandIn(p, sel, j)
  <2>1. Selected(p, sel, j) /\ p[j].region = q
    BY <1>2, <1>5, <1>9 DEF WholeRegion
  <2>2. HasItem(p, sel, j) /\ (~Wrapped(p, j) => x.kind = "wrapper" /\ ~OverGrid(p, q))
    <3>1. x.kind \in {"wrapper", "bridge"}
      BY <1>1, <1>9 DEF Standing
    <3>2. CASE Wrapped(p, j)
      BY <3>2 DEF HasItem
    <3>3. CASE ~Wrapped(p, j)
      <4>1. ~OverGrid(p, q) /\ ~Producer(p, j)
        BY <2>1, <3>3 DEF Wrapped
      <4>2. x.kind = "wrapper" /\ Producer(p, i) /\ u = i
        BY <1>1, <1>9, <3>1, <4>1 DEF Wrapped
      <4>3. Producer(p, j - 1)
        BY <1>5, <4>2
      <4>4. Neighborly(p, q)
        BY <1>1, <4>2 DEF Neighborly, StagesOf, Selected
      <4> QED
        BY <2>1, <4>1, <4>2, <4>3, <4>4 DEF HasItem, BridgeStarts
    <3> QED
      BY <3>2, <3>3
  <2>3. c \in Rewritten(p, sel)
    BY <1>7, <2>2, ItemsThere
  <2>4. c.at = j /\ c.kind \in Standing /\ c.region = q
        /\ (c.kind = "wrapper" <=> Wrapped(p, j))
    BY <2>1, StandIns
  <2> HIDE DEF c
  <2>5. Rank(c.kind) = 3
    BY <2>4, Ranks
  <2>6. Before(x, c)
    <3> HIDE DEF j, i
    <3> QED
      BY <1>5, <2>4, SMT DEF Before, i
  <2>7. ASSUME NEW z \in Rewritten(p, sel), Before(x, z), Before(z, c) PROVE FALSE
    <3>1. /\ Rank(z.kind) \in {1, 2, 3} /\ z.at \in Stages(p)
          /\ Rank(z.kind) = 1 => z.at \in Spilling(p, sel)
          /\ Rank(z.kind) = 2 => z.at \in Uploading(p, sel)
      BY ItemPlaces
    <3>2. z.at = j /\ Rank(z.kind) \in {1, 2}
      BY <1>4, <1>5, <2>4, <2>5, <2>7, SMT DEF Before
    <3>3. Crossed(p, j)
      BY <3>1, <3>2 DEF Spilling, Uploading
    <3> QED
      BY <1>5, <1>7, <2>1, <3>3 DEF Crossed
  <2>8. c.kind = "bridge" => x.kind = "wrapper" /\ ~OverGrid(p, q)
    BY <2>2, <2>4
  <2> QED
    BY <1>5, <1>9, <2>3, <2>4, <2>6, <2>7, <2>8 DEF ComesNext, Follows, Standing
<1> QED
  BY <1>8, <1>9

\* What comes after an item: nothing after the writer, and after every other
\* item the one that its kind asks for.
LEMMA NextItem ==
    ASSUME NEW r, RunPlanned(r), NEW sel \in SUBSET r.selected,
           NEW x \in Rewritten(r.stages, sel),
           NEW later, later = {z \in Rewritten(r.stages, sel) : Before(x, z)}
    PROVE  /\ later = {} => x.kind = "host" /\ x.at = Len(r.stages)
           /\ \A y \in Earliest(later) : Follows(r.stages, x, y)
<1> DEFINE p == r.stages
<1>1. x.kind \in Standing \cup {"host", "upload", "spill"}
  BY ItemShapes DEF Shape
<1>6. CASE x.kind = "host" /\ x.at = Len(p)
  <2>1. Rank(x.kind) = 3 /\ Len(p) \in Nat
    BY <1>6, Ranks DEF RunPlanned
  <2>2. ASSUME NEW z \in Rewritten(p, sel), Before(x, z) PROVE FALSE
    <3>1. z.at \in 1 .. Len(p) /\ Rank(z.kind) \in {1, 2, 3}
      BY ItemPlaces
    <3>2. x.at < z.at \/ (x.at = z.at /\ Rank(x.kind) < Rank(z.kind))
      BY <2>2 DEF Before
    <3> HIDE DEF p
    <3> QED
      BY <1>6, <2>1, <3>1, <3>2, SMT
  <2>3. later = {}
    BY <2>2
  <2> QED
    BY <1>6, <2>3 DEF Earliest
<1> SUFFICES ASSUME ~(x.kind = "host" /\ x.at = Len(p))
             PROVE  later # {} /\ \A y \in Earliest(later) : Follows(p, x, y)
  BY <1>6
<1>2. PICK c : ComesNext(p, sel, x, c) /\ Follows(p, x, c)
  BY <1>1, AfterHost, AfterUpload, AfterSpill, AfterStanding
<1>3. c \in later /\ \A z \in later : ~Before(z, c)
  BY <1>2 DEF ComesNext
<1>4. RunPlanned(r) /\ later \in SUBSET Rewritten(r.stages, sel)
  OBVIOUS
<1>5. ASSUME NEW y \in Earliest(later) PROVE y = c
  BY ONLY <1>3, <1>4, <1>5, Successor
<1> QED
  BY <1>2, <1>3, <1>5

\* The reader is the first.
LEMMA FirstItem ==
    ASSUME NEW r, RunPlanned(r), NEW sel \in SUBSET r.selected,
           NEW y \in Earliest(Rewritten(r.stages, sel))
    PROVE  y.at = 1 /\ y.kind = "host"
<1> DEFINE p == r.stages
           c == StandIn(p, sel, 1)
<1>1. 1 \in Stages(p) /\ p[1].region = None
  <2>1. Len(p) \in Nat \ {0, 1} /\ Stages(p) = 1 .. Len(p) /\ p[1].region = None
    BY DEF RunPlanned
  <2> QED
    BY <2>1, SMT
<1>2. ~Selected(p, sel, 1)
  <2>1. \A q \in sel : q \in 2 .. Len(p) - 1 /\ Len(p) \in Nat
    BY RegionStagesAre
  <2>2. None \notin sel
    BY <2>1, SMT DEF None
  <2> QED
    BY <1>1, <2>2 DEF Selected
<1>3. c \in Rewritten(p, sel)
  BY <1>1, <1>2, ItemsThere DEF HasItem
<1>4. c.at = 1 /\ c.kind = "host"
  BY <1>2, StandIns
<1> HIDE DEF c
<1>5. Rank(c.kind) = 3
  BY <1>4, Ranks
<1>6. ASSUME NEW z \in Rewritten(p, sel), Before(z, c) PROVE FALSE
  <2>1. /\ z.at \in 1 .. Len(p) /\ Rank(z.kind) \in {1, 2, 3}
        /\ Rank(z.kind) = 1 => z.at \in Spilling(p, sel)
        /\ Rank(z.kind) = 2 => z.at \in Uploading(p, sel)
    BY ItemPlaces
  <2>2. z.at = 1 /\ Rank(z.kind) \in {1, 2}
    BY <1>4, <1>5, <1>6, <2>1, SMT DEF Before
  <2>3. Crossed(p, 1)
    BY <2>1, <2>2 DEF Spilling, Uploading
  <2> QED
    BY <2>3, SMT DEF Crossed
<1>7. y = c
  <2>1. RunPlanned(r) /\ y \in Earliest(Rewritten(p, sel))
        /\ c \in Rewritten(p, sel) /\ \A z \in Rewritten(p, sel) : ~Before(z, c)
    BY <1>3, <1>6
  <2> QED
    BY ONLY <2>1, Successor
<1> QED
  BY <1>4, <1>7

\* The pipeline as it was given is the one with no region selected.
LEMMA OriginalIs ==
    ASSUME NEW p
    PROVE  Original(p) = Rewritten(p, {})
<1>1. \A i : ~Selected(p, {}, i)
  BY DEF Selected
<1>2. Markers(p, {}) = {}
  BY <1>1 DEF Markers, Spilling, Uploading
<1>3. \A i : HasItem(p, {}, i) /\ StandIn(p, {}, i) = Item(i, "host", None, i)
  BY <1>1 DEF HasItem, StandIn
<1> QED
  BY <1>2, <1>3 DEF Original, Rewritten

\* The effects of the filters before stage i.
AppliedTo(i) == [k \in 1 .. i - 2 |-> k + 1]

\* The effects up to a stage, and those of the stages that an item stands for.
LEMMA Effects ==
    ASSUME NEW i \in Nat, i >= 2, NEW u \in Nat, u >= i
    PROVE  AppliedTo(i) \o [k \in 1 .. u - i + 1 |-> i + k - 1] = AppliedTo(u + 1)
<1> DEFINE s == AppliedTo(i)
           t == [k \in 1 .. u - i + 1 |-> i + k - 1]
<1>1. s \in Seq(Nat) /\ Len(s) = i - 2 /\ \A k \in 1 .. i - 2 : s[k] = k + 1
  BY SMT DEF AppliedTo
<1>2. t \in Seq(Nat) /\ Len(t) = (u - i) + 1 /\ \A k \in 1 .. (u - i) + 1 : t[k] = i + (k - 1)
  BY SMT
<1>3. /\ AppliedTo(u + 1) \in Seq(Nat) /\ Len(AppliedTo(u + 1)) = u - 1
      /\ \A k \in 1 .. u - 1 : AppliedTo(u + 1)[k] = k + 1
  BY SMT DEF AppliedTo
<1> HIDE DEF s, t
<1>4. /\ s \o t \in Seq(Nat) /\ Len(s \o t) = Len(s) + Len(t)
      /\ \A k \in 1 .. Len(s) + Len(t) :
            (s \o t)[k] = IF k <= Len(s) THEN s[k] ELSE t[k - Len(s)]
  BY <1>1, <1>2, ConcatProperties
<1>5. Len(s) + Len(t) = u - 1
  BY <1>1, <1>2, SMT
<1>6. \A k \in 1 .. u - 1 : (s \o t)[k] = k + 1
  <2> TAKE k \in 1 .. u - 1
  <2>1. CASE k <= i - 2
    BY <1>1, <1>4, <1>5, <2>1, SMT
  <2>2. CASE ~(k <= i - 2)
    <3>1. k - (i - 2) \in 1 .. (u - i) + 1 /\ i + ((k - (i - 2)) - 1) = k + 1
      BY <2>2, SMT
    <3>2. (s \o t)[k] = t[k - (i - 2)]
      BY <1>1, <1>4, <1>5, <2>2
    <3> QED
      BY <1>2, <3>1, <3>2
  <2> QED
    BY <2>1, <2>2
<1>7. s \o t = AppliedTo(u + 1)
  BY <1>3, <1>4, <1>5, <1>6, SeqEqual
<1> QED
  BY <1>7 DEF s, t

\* What an item stands for.
LEMMA KnownItem ==
    ASSUME NEW r, RunPlanned(r), NEW sel \in SUBSET r.selected,
           NEW x \in Rewritten(r.stages, sel)
    PROVE  /\ Len(r.stages) \in Nat /\ x.at \in 1 .. Len(r.stages)
           /\ x.kind \in Standing \cup {"host", "upload", "spill"}
           /\ x.kind = "host" => x.until = x.at
           /\ x.kind \in Standing =>
                 /\ x.at >= 2 /\ x.until \in Nat /\ x.until >= x.at
                 /\ x.region # None
<1> DEFINE p == r.stages
<1>1. /\ Len(p) \in Nat /\ x.at \in 1 .. Len(p)
      /\ x.kind \in Standing \cup {"host", "upload", "spill"}
  <2>1. Shape(p, sel, x)
    BY ItemShapes
  <2>2. Len(p) \in Nat
    BY DEF RunPlanned
  <2> QED
    BY <2>1, <2>2 DEF Shape
<1>2. ASSUME x.kind = "host" PROVE x.until = x.at
  <2>1. x = StandIn(p, sel, x.at)
    BY <1>2, ItemPlaces, Ranks
  <2>2. Selected(p, sel, x.at) => x.kind \in Standing
    BY <2>1, StandIns
  <2>3. ~Selected(p, sel, x.at)
    BY <1>2, <2>2 DEF Standing
  <2> QED
    BY <2>1, <2>3, StandIns
<1>3. ASSUME x.kind \in Standing
      PROVE  /\ x.at >= 2 /\ x.until \in Nat /\ x.until >= x.at
             /\ x.region # None
  <2> DEFINE i == x.at
             q == p[i].region
             e == EndOf(p, q)
  <2>1. Selected(p, sel, i) /\ x.region = q /\ x.until \in i .. e
    BY <1>3, Standings
  <2>2. RunPlanned(r) /\ sel \in SUBSET r.selected /\ Selected(r.stages, sel, i)
    BY <2>1
  <2> HIDE DEF i
  <2>3. LET s == r.stages[i].region
            f == EndOf(r.stages, s)
        IN  /\ Len(r.stages) \in Nat /\ s \in 2 .. Len(r.stages) - 1
            /\ f \in s .. Len(r.stages) - 1 /\ i \in s .. f
    BY ONLY <2>2, Inside
  <2>4. /\ Len(p) \in Nat /\ q \in 2 .. Len(p) - 1
        /\ e \in q .. Len(p) - 1 /\ i \in q .. e
    BY <2>3
  <2> HIDE DEF p, q, e
  <2>5. i >= 2 /\ x.until \in Nat /\ x.until >= i /\ q # None
    BY <2>1, <2>4, SMT DEF None
  <2> QED
    BY <2>1, <2>5 DEF i
<1> QED
  BY <1>1, <1>2, <1>3

-----------------------------------------------------------------------------
(***************************************************************************)
(* RunsThePlan.                                                            *)
(***************************************************************************)
\* Before the items are chosen nothing has happened; afterwards they are those
\* of the regions that the context was given, perhaps none.
ControlInv ==
    /\ run \in Runs
    /\ runner \in {"rewriting", "checking", "running", "done", "failed"}
    /\ runner \in {"rewriting", "checking"} =>
          /\ applied = <<>> /\ product = None /\ m_rasterGridProduct = None
          /\ m_state = "Empty" /\ m_selectedRegions = {}
    /\ runner = "checking" => items = Rewritten(run.stages, run.selected)
    /\ runner \in {"running", "done", "failed"} =>
          /\ m_selectedRegions \in {{}, run.selected}
          /\ items = Rewritten(run.stages, m_selectedRegions)
          /\ item \in items

\* What the next item finds: the effects of all stages before it, ...
ProgressInv ==
    /\ runner = "running" => applied = AppliedTo(item.at)
    /\ runner = "done" =>
          applied = AppliedTo(Len(run.stages)) /\ m_rasterGridProduct = None

\* ... and the context in the state that its kind needs.
StateInv ==
    runner = "running" =>
        /\ item.kind \in {"host", "upload"} =>
              m_state \in {"Empty", "HostMaterialized"}
        /\ item.kind = "spill" => m_state = "RegionComplete"
        /\ item.kind \in Standing =>
              m_state = IF item.at = item.region THEN "AwaitingRegion"
                                                 ELSE "RegionActive"
        /\ item.kind \notin {"host", "upload"} => m_activeRegion = item.region
        /\ item.kind \in {"host", "upload"} \/ item.at = item.region =>
              m_rasterGridProduct = None
        /\ item.kind \notin Standing \/ item.at = item.region => product = None
        /\ product \in {None, item.region}

RunInv == ControlInv /\ ProgressInv /\ StateInv

\* The item is done: the next one is the one that its kind asks for.
Moved ==
    \/ /\ runner' = "done" /\ item.kind = "host" /\ item.at = Len(run.stages)
    \/ /\ runner' = "running" /\ Follows(run.stages, item, item')

\* Done goes to the item that NextItem names.
LEMMA Moves ==
    ASSUME RunPlanned(run), ControlInv, runner = "running", Done,
           m_selectedRegions' = m_selectedRegions
    PROVE  ControlInv' /\ Moved
<1> DEFINE later == {x \in items : Before(item, x)}
<1>1. /\ m_selectedRegions \in SUBSET run.selected
      /\ items = Rewritten(run.stages, m_selectedRegions)
      /\ item \in Rewritten(run.stages, m_selectedRegions)
      /\ run' = run /\ items' = items
  BY DEF ControlInv, Done
<1>2. /\ later = {} => item.kind = "host" /\ item.at = Len(run.stages)
      /\ \A y \in Earliest(later) : Follows(run.stages, item, y)
  BY <1>1, NextItem
<1>3. /\ later = {} => runner' = "done" /\ item' = item
      /\ later # {} => runner' = "running" /\ item' \in Earliest(later)
  BY DEF Done
<1>4. runner' \in {"running", "done"} /\ item' \in items
  BY <1>1, <1>3 DEF Earliest
<1>5. ControlInv'
  BY <1>1, <1>4 DEF ControlInv
<1>6. Moved
  BY <1>2, <1>3 DEF Moved
<1> QED
  BY <1>5, <1>6

\* What is known of the item that is next.
LEMMA NextKnown ==
    ASSUME RunsAssumption, ControlInv, runner = "running"
    PROVE  /\ RunPlanned(run) /\ m_selectedRegions \in SUBSET run.selected
           /\ item \in Rewritten(run.stages, m_selectedRegions)
           /\ Len(run.stages) \in Nat /\ item.at \in 1 .. Len(run.stages)
           /\ item.kind \in Standing \cup {"host", "upload", "spill"}
           /\ item.kind = "host" => item.until = item.at
           /\ item.kind \in Standing =>
                 /\ item.at >= 2 /\ item.until \in Nat /\ item.until >= item.at
                 /\ item.region # None
<1>1. /\ RunPlanned(run) /\ m_selectedRegions \in SUBSET run.selected
      /\ item \in Rewritten(run.stages, m_selectedRegions)
  BY DEF ControlInv, RunsAssumption
<1> QED
  BY <1>1, KnownItem

\* Each action keeps RunInv.  The rewrite starts with the reader.
LEMMA RewriteKeeps ==
    ASSUME RunsAssumption, RunInv, Rewrite
    PROVE  RunInv'
<1>1. /\ run \in Runs /\ run' = run /\ RunPlanned(run)
      /\ applied = <<>> /\ product = None /\ m_rasterGridProduct = None
      /\ m_state = "Empty" /\ m_selectedRegions = {}
      /\ applied' = applied /\ product' = product /\ m_state' = m_state
      /\ m_rasterGridProduct' = m_rasterGridProduct
      /\ m_selectedRegions' = m_selectedRegions
  BY DEF RunInv, ControlInv, RunsAssumption, Rewrite, contextVars
<1>2. CASE /\ items' = Original(run.stages) /\ item' \in Earliest(items')
           /\ runner' = "running"
  <2>1. items' = Rewritten(run.stages, {})
    BY <1>2, OriginalIs
  <2>2. item'.at = 1 /\ item'.kind = "host" /\ item' \in items'
    BY <1>1, <1>2, <2>1, FirstItem DEF Earliest
  <2>3. ControlInv'
    BY <1>1, <1>2, <2>1, <2>2 DEF ControlInv
  <2>4. AppliedTo(1) = <<>>
    BY SMT DEF AppliedTo
  <2>5. ProgressInv'
    BY <1>1, <1>2, <2>2, <2>4 DEF ProgressInv
  <2>6. StateInv'
    BY <1>1, <2>2 DEF StateInv, Standing
  <2> QED
    BY <2>3, <2>5, <2>6 DEF RunInv
<1>3. CASE items' = Rewritten(run.stages, run.selected) /\ runner' = "checking"
  <2>1. ControlInv'
    BY <1>1, <1>3 DEF ControlInv
  <2> QED
    BY <1>3, <2>1 DEF RunInv, ProgressInv, StateInv
<1> QED
  BY <1>2, <1>3 DEF Rewrite

\* A rejected pipeline runs as it was given: it has the items of no region.
LEMMA PreflightKeeps ==
    ASSUME RunsAssumption, RunInv, Accept \/ Reject
    PROVE  RunInv'
<1>1. /\ run \in Runs /\ run' = run /\ RunPlanned(run)
      /\ applied = <<>> /\ product = None /\ m_rasterGridProduct = None
      /\ m_state = "Empty" /\ m_selectedRegions = {}
      /\ applied' = applied /\ product' = product /\ m_state' = m_state
      /\ m_rasterGridProduct' = m_rasterGridProduct
      /\ items = Rewritten(run.stages, run.selected) /\ runner' = "running"
  BY DEF RunInv, ControlInv, RunsAssumption, Accept, Reject, contextVars
<1>2. /\ m_selectedRegions' \in {{}, run.selected}
      /\ items' = Rewritten(run.stages, m_selectedRegions')
      /\ item' \in Earliest(items')
  <2>1. CASE Accept
    BY <1>1, <2>1 DEF Accept
  <2>2. CASE Reject
    BY <1>1, <2>2, OriginalIs DEF Reject, contextVars
  <2> QED
    BY <2>1, <2>2
<1>3. item'.at = 1 /\ item'.kind = "host" /\ item' \in items'
  BY <1>1, <1>2, FirstItem DEF Earliest
<1>4. ControlInv'
  BY <1>1, <1>2, <1>3 DEF ControlInv
<1>5. AppliedTo(1) = <<>>
  BY SMT DEF AppliedTo
<1>6. ProgressInv'
  BY <1>1, <1>3, <1>5 DEF ProgressInv
<1>7. StateInv'
  BY <1>1, <1>3 DEF StateInv, Standing
<1> QED
  BY <1>4, <1>6, <1>7 DEF RunInv

\* An upload begins the region that the next item asks for.
LEMMA UploadKeeps ==
    ASSUME RunsAssumption, RunInv, Upload
    PROVE  RunInv'
<1>1. runner = "running" /\ item.kind = "upload" /\ Done /\ RunPlanned(run)
  BY NextKnown DEF Upload, Turn, RunInv
<1>2. ControlInv' /\ runner' = "running" /\ Follows(run.stages, item, item')
  BY <1>1, Moves DEF Upload, RunInv, Moved
<1>3. ProgressInv'
  BY <1>1, <1>2 DEF RunInv, ProgressInv, Follows, Upload
<1>4. StateInv'
  BY <1>1, <1>2 DEF RunInv, StateInv, Follows, Upload, Standing
<1> QED
  BY <1>2, <1>3, <1>4 DEF RunInv

\* A spill leaves the rows and the context to the host.
LEMMA SpillKeeps ==
    ASSUME RunsAssumption, RunInv, Spill
    PROVE  RunInv'
<1>1. runner = "running" /\ item.kind = "spill" /\ Done /\ RunPlanned(run)
  BY NextKnown DEF Spill, Turn, RunInv
<1>2. ControlInv' /\ runner' = "running" /\ Follows(run.stages, item, item')
  BY <1>1, Moves DEF Spill, RunInv, Moved
<1>3. ProgressInv'
  BY <1>1, <1>2 DEF RunInv, ProgressInv, Follows, Spill
<1>4. StateInv'
  BY <1>1, <1>2 DEF RunInv, StateInv, Follows, Spill, Standing
<1> QED
  BY <1>2, <1>3, <1>4 DEF RunInv

\* An item that stands for stages of a region.
LEMMA StandingApplies ==
    ASSUME RunsAssumption, RunInv, runner = "running", item.kind \in Standing,
           Done, m_selectedRegions' = m_selectedRegions, applied' = Applied
    PROVE  /\ ControlInv' /\ ProgressInv'
           /\ runner' = "running" /\ Follows(run.stages, item, item')
<1>1. /\ ControlInv /\ RunPlanned(run)
      /\ item.at \in Nat /\ item.at >= 2 /\ item.until \in Nat /\ item.until >= item.at
  <2>1. /\ ControlInv /\ RunPlanned(run) /\ Len(run.stages) \in Nat
        /\ item.at \in 1 .. Len(run.stages)
        /\ item.at >= 2 /\ item.until \in Nat /\ item.until >= item.at
    BY NextKnown DEF RunInv
  <2> QED
    BY <2>1, SMT
<1>2. ControlInv' /\ runner' = "running" /\ Follows(run.stages, item, item')
  BY <1>1, Moves DEF Moved, Standing
<1>3. applied' = AppliedTo(item.until + 1)
  BY <1>1, Effects DEF RunInv, ProgressInv, Applied
<1>4. ProgressInv'
  BY <1>2, <1>3 DEF ProgressInv, Follows
<1> QED
  BY <1>2, <1>4

\* The tiles of a region end it.
LEMMA TiledKeeps ==
    ASSUME RunsAssumption, RunInv, Tiled
    PROVE  RunInv'
<1>1. /\ runner = "running" /\ item.kind = "tiled" /\ item.kind \in Standing /\ Done
      /\ m_selectedRegions' = m_selectedRegions /\ applied' = Applied
  BY DEF Tiled, Turn, Standing
<1>2. /\ ControlInv' /\ ProgressInv'
      /\ runner' = "running" /\ Follows(run.stages, item, item')
  BY <1>1, StandingApplies
<1>3. item.until = EndOf(run.stages, item.region)
  BY <1>1, NextKnown, Standings DEF RunInv
<1>4. StateInv'
  BY <1>1, <1>2, <1>3 DEF RunInv, StateInv, Follows, Tiled, Standing
<1> QED
  BY <1>2, <1>4 DEF RunInv

\* A wrapper ends its region, or leaves it to the next stand-in.
LEMMA WrapperKeeps ==
    ASSUME RunsAssumption, RunInv, Wrapper
    PROVE  RunInv'
<1>1. /\ runner = "running" /\ item.kind = "wrapper" /\ item.kind \in Standing /\ Done
      /\ m_selectedRegions' = m_selectedRegions /\ applied' = Applied
  BY DEF Wrapper, Turn, Standing
<1>2. /\ ControlInv' /\ ProgressInv'
      /\ runner' = "running" /\ Follows(run.stages, item, item')
  BY <1>1, StandingApplies
<1>3. StateInv'
  BY <1>1, <1>2 DEF RunInv, StateInv, Follows, Wrapper, Standing, Ended, EndsRegion
<1> QED
  BY <1>2, <1>3 DEF RunInv

\* A bridge that runs has a product of its region, so it is not the first.
LEMMA BridgeKeeps ==
    ASSUME RunsAssumption, RunInv, Bridge
    PROVE  RunInv'
<1>1. /\ runner = "running" /\ item.kind = "bridge" /\ item.kind \in Standing /\ Done
      /\ m_selectedRegions' = m_selectedRegions /\ applied' = Applied
      /\ product = item.region
  BY DEF Bridge, Turn, Standing, Admitted
<1>2. /\ ControlInv' /\ ProgressInv'
      /\ runner' = "running" /\ Follows(run.stages, item, item')
  BY <1>1, StandingApplies
<1>3. item.at # item.region /\ item.region # None
  BY <1>1, NextKnown DEF RunInv, StateInv
<1>4. StateInv'
  BY <1>1, <1>2, <1>3 DEF RunInv, StateInv, Follows, Bridge, Standing, EndsRegion
<1> QED
  BY <1>2, <1>4 DEF RunInv

\* A filter of the host has its effect; the reader and the writer have none.
LEMMA HostKeeps ==
    ASSUME RunsAssumption, RunInv, HostItem
    PROVE  RunInv'
<1> DEFINE n == Len(run.stages)
           i == item.at
           filter == run.stages[i].role = "filter"
<1>1. /\ runner = "running" /\ item.kind = "host" /\ Done /\ RunPlanned(run)
      /\ run' = run
      /\ n \in Nat /\ i \in 1 .. n /\ item.until = i /\ ControlInv
  BY NextKnown DEF HostItem, Turn, RunInv, Done
<1>2. /\ m_selectedRegions' = m_selectedRegions /\ m_state' = m_state
      /\ m_rasterGridProduct' = m_rasterGridProduct
  BY DEF HostItem, contextVars
<1>3. ControlInv' /\ Moved
  BY <1>1, <1>2, Moves
<1>4. /\ filter <=> i \in 2 .. n - 1
      /\ n \in Nat \ {0, 1}
  <2>1. Stages(run.stages) = 1 .. n
    BY <1>1 DEF RunPlanned
  <2> QED
    BY <1>1, <2>1 DEF RunPlanned
<1>5. applied = AppliedTo(i) /\ product = None /\ m_rasterGridProduct = None
  BY <1>1 DEF RunInv, ProgressInv, StateInv, Standing
<1>6. product' = None /\ applied' = IF filter THEN Applied ELSE applied
  BY <1>5 DEF HostItem
<1>7. applied' = AppliedTo(IF i = n THEN n ELSE i + 1)
  <2>1. CASE filter
    <3>1. i \in Nat /\ i >= 2 /\ i # n
      <4> HIDE DEF n, i, filter
      <4> QED
        BY <1>1, <1>4, <2>1, SMT
    <3>2. i >= i
      BY <3>1, SMT
    <3>3. AppliedTo(i) \o [k \in 1 .. i - i + 1 |-> i + k - 1] = AppliedTo(i + 1)
      BY ONLY <3>1, <3>2, Effects
    <3>4. Applied = AppliedTo(i + 1)
      BY <1>1, <1>5, <3>3 DEF Applied
    <3> QED
      BY <1>6, <2>1, <3>1, <3>4
  <2>2. CASE ~filter
    <3>1. i = 1 \/ i = n
      <4> HIDE DEF n, i, filter
      <4> QED
        BY <1>1, <1>4, <2>2, SMT
    <3>2. AppliedTo(1) = AppliedTo(2)
      BY SMT DEF AppliedTo
    <3>3. n # 1 /\ 1 + 1 = 2
      BY <1>4, SMT
    <3> HIDE DEF n, i, filter
    <3>4. CASE i = n
      BY <1>5, <1>6, <2>2, <3>4
    <3>5. CASE i # n
      BY <1>5, <1>6, <2>2, <3>1, <3>2, <3>3, <3>5
    <3> QED
      BY <3>4, <3>5
  <2> QED
    BY <2>1, <2>2
<1>8. runner' = "running" => i # n /\ Follows(run.stages, item, item')
  <2> SUFFICES ASSUME runner' = "running" PROVE i # n /\ Follows(run.stages, item, item')
    OBVIOUS
  <2>1. Follows(run.stages, item, item') /\ item'.at = i + 1
    BY <1>1, <1>3 DEF Moved, Follows
  <2>2. Len(run.stages) \in Nat /\ item'.at \in 1 .. n
    <3>1. /\ RunPlanned(run) /\ m_selectedRegions \in SUBSET run.selected
          /\ item' \in Rewritten(run.stages, m_selectedRegions)
      <4>1. runner' = "running" /\ ControlInv' /\ run' = run
        BY <1>1, <1>3
      <4> QED
        BY <1>1, <1>2, <4>1 DEF ControlInv
    <3> QED
      BY <3>1, KnownItem
  <2>3. i + 1 \in 1 .. n
    BY <2>1, <2>2
  <2>4. i # n
    <3> HIDE DEF n, i
    <3> QED
      BY <1>1, <2>3, SMT
  <2> QED
    BY <2>1, <2>4
<1>9. ProgressInv'
  <2>1. CASE runner' = "running"
    <3>1. item'.at = i + 1 /\ i # n
      BY <1>1, <1>8, <2>1 DEF Follows
    <3> QED
      BY <1>7, <2>1, <3>1 DEF ProgressInv
  <2>2. CASE runner' = "done" /\ i = n
    <3>1. applied' = AppliedTo(n)
      BY <1>7, <2>2
    <3> QED
      BY <1>1, <1>2, <1>5, <2>2, <3>1 DEF ProgressInv
  <2> QED
    BY <1>3, <2>1, <2>2 DEF Moved
<1>10. StateInv'
  <2> SUFFICES ASSUME runner' = "running" PROVE StateInv'
    BY DEF StateInv
  <2>1. item'.kind \in {"host", "upload"}
    BY <1>1, <1>8 DEF Follows
  <2>2. m_state \in {"Empty", "HostMaterialized"}
    BY <1>1 DEF RunInv, StateInv
  <2> QED
    BY <1>2, <1>5, <1>6, <2>1, <2>2 DEF StateInv, Standing
<1> QED
  BY <1>3, <1>9, <1>10 DEF RunInv

\* A failure leaves all but the runner and the reason.
LEMMA FailureKeeps ==
    ASSUME RunInv, ItemFails
    PROVE  RunInv'
<1>1. ControlInv'
  BY DEF RunInv, ControlInv, ItemFails, contextVars
<1>2. ProgressInv' /\ StateInv'
  BY DEF ProgressInv, StateInv, ItemFails
<1> QED
  BY <1>1, <1>2 DEF RunInv

\* So does a step of nothing.
LEMMA RunStutters ==
    ASSUME RunInv, UNCHANGED runVars
    PROVE  RunInv'
<1>1. ControlInv'
  BY DEF RunInv, ControlInv, runVars, contextVars
<1>2. ProgressInv' /\ StateInv'
  BY DEF RunInv, ProgressInv, StateInv, runVars, contextVars
<1> QED
  BY <1>1, <1>2 DEF RunInv

\* Every step of a run keeps RunInv.
LEMMA RunKeeps ==
    ASSUME RunsAssumption, RunInv, [RunStep \/ RunEnded]_runVars
    PROVE  RunInv'
  BY RewriteKeeps, PreflightKeeps, UploadKeeps, SpillKeeps, TiledKeeps,
     WrapperKeeps, BridgeKeeps, HostKeeps, FailureKeeps, RunStutters
     DEF RunStep, RunEnded

\* The invariant of every run.
THEOREM RunHolds ==
    ASSUME RunsAssumption
    PROVE  RunSpec => []RunInv
<1>1. RunInit => RunInv
  BY DEF RunInit, StartsOver, RunInv, ControlInv, ProgressInv, StateInv
<1>2. RunInv /\ [RunStep \/ RunEnded]_runVars => RunInv'
  BY RunKeeps
<1> QED
  BY <1>1, <1>2, PTL DEF RunSpec

\* What RunInv says of the effects.
LEMMA PlanSuffices ==
    ASSUME RunInv
    PROVE  RunsThePlan
<1>1. AppliedTo(Len(run.stages)) = [i \in 1 .. Len(run.stages) - 2 |-> i + 1]
  BY DEF AppliedTo
<1> QED
  BY <1>1 DEF RunInv, ProgressInv, StateInv, RunsThePlan

\* RunsThePlan: whichever regions the context takes, and whether it takes any,
\* the writer gets the effect of every filter once and in order, and a stage of
\* the host finds no region with results that the rows do not have.
THEOREM PlanIsRun ==
    ASSUME RunsAssumption
    PROVE  RunSpec => []RunsThePlan
<1>1. RunInv => RunsThePlan
  BY PlanSuffices
<1> QED
  BY <1>1, RunHolds, PTL

-----------------------------------------------------------------------------
(***************************************************************************)
(* RefusedAtBoundary.                                                      *)
(***************************************************************************)
\* What the preflight has found of the regions that the context was given.
AcceptInv ==
    /\ runner \in {"rewriting", "checking"} =>
          /\ view.count = PointCount /\ m_pointCount = PointCount
          /\ m_view = None /\ ~m_delegatedPlan /\ ~m_cardinalityChanged
    /\ runner = "checking" =>
          run.selected # {} /\ ~Unavailable(run.stages, run.selected)
    /\ runner = "running" =>
          /\ m_delegatedPlan <=> \E q \in m_selectedRegions : Delegated(run.stages, q)
          /\ m_selectedRegions # {} => /\ ~Unavailable(run.stages, run.selected)
                                       /\ MayAccept(run.stages, run.selected)

\* No stage before the next item drops points, here or on the device.
Clean == \A i \in 1 .. item.at - 1 : ~run.stages[i].predicate

\* The view is whole before the first predicate and within every region that
\* has begun, the context knows whether it is, and a view is bound only there.
ViewInv ==
    runner = "running" =>
        /\ Clean => view.count = PointCount /\ ~m_cardinalityChanged
        /\ ~m_cardinalityChanged => m_pointCount = PointCount
        /\ item.kind \in Standing =>
              /\ view.count = PointCount /\ m_pointCount = PointCount
              /\ ~m_cardinalityChanged
        /\ item.kind \in Standing \cup {"spill"} => Ensured
        /\ item.kind \in {"host", "upload"} => m_view = None
        /\ item.kind = "wrapper" => GridAgrees
        /\ item.kind = "bridge" /\ item.at # item.region => product = item.region

\* The greatest of some naturals below a bound.
LEMMA Maximum ==
    ASSUME NEW n \in Nat, NEW S \in SUBSET (0 .. n), S # {}
    PROVE  Max(S) \in S /\ \A i \in S : Max(S) >= i
<1>1. PICK m \in S : \A i \in S : i <= m
  BY GreatestMember
<1>2. \A i \in S : m >= i
  BY <1>1, SMT
<1> QED
  BY <1>1, <1>2 DEF Max

\* What the preflight has found when the context has a region.
LEMMA PreflightFound ==
    ASSUME RunsAssumption, RunInv, AcceptInv, runner = "running",
           NEW q \in m_selectedRegions
    PROVE  /\ RunPlanned(run) /\ q \in run.selected
           /\ ~Unavailable(run.stages, run.selected)
           /\ MayAccept(run.stages, run.selected)
           /\ m_selectedRegions = run.selected
  BY DEF RunsAssumption, RunInv, ControlInv, AcceptInv

\* A region in front of which points may be gone: the preflight accepts a region
\* that drops points only if the last one does so, too.
LEMMA GoneBefore ==
    ASSUME RunsAssumption, RunInv, AcceptInv, runner = "running",
           item.kind = "upload", ~Clean
    PROVE  PointsMayBeGone(run.stages, run.selected, item.at)
<1> DEFINE p == run.stages
           sel == run.selected
           C == Changing(p, sel)
           n == Len(p)
<1>1. /\ RunPlanned(run) /\ m_selectedRegions \in SUBSET run.selected
      /\ item \in Rewritten(p, m_selectedRegions)
  BY NextKnown DEF RunInv
<1>2. item.at \in m_selectedRegions
  <2>1. Rank(item.kind) = 2
    BY Ranks
  <2>2. item.at \in Uploading(p, m_selectedRegions)
    BY <1>1, <2>1, ItemPlaces
  <2> QED
    BY <1>1, <2>2, UploadsFirst
<1>3. item.at \in sel /\ MayAccept(p, sel) /\ m_selectedRegions = sel
  BY <1>2, PreflightFound
<1>4. PICK i \in 1 .. item.at - 1 : p[i].predicate
  BY DEF Clean
<1>5. CASE ~Selected(p, sel, i)
  BY <1>4, <1>5 DEF PointsMayBeGone
<1>6. CASE Selected(p, sel, i)
  <2>1. p[i].region \in C
    BY <1>4, <1>6 DEF Selected, Changing, Predicates, StagesOf
  <2>2. Max(C) = Max(sel)
    BY <1>3, <2>1 DEF MayAccept, ChangeIsLast
  <2>3. n \in Nat /\ sel \in SUBSET (0 .. n) /\ C \in SUBSET (0 .. n)
    <3>1. n \in Nat /\ \A q \in sel : q \in 2 .. n - 1
      BY <1>1, RegionStagesAre DEF RunPlanned
    <3> HIDE DEF n
    <3>2. sel \in SUBSET (0 .. n)
      BY <3>1, SMT
    <3> QED
      BY <3>1, <3>2 DEF Changing
  <2>4. Max(sel) >= item.at
    BY <1>3, <2>3, Maximum
  <2>5. Max(C) \in C
    BY <2>1, <2>3, Maximum
  <2> QED
    BY <1>4, <2>2, <2>4, <2>5 DEF PointsMayBeGone
<1> QED
  BY <1>5, <1>6

\* The context takes what comes, but for two cases.
LEMMA AdmittedOrNot ==
    ASSUME RunsAssumption, RunInv, AcceptInv, ViewInv, runner = "running"
    PROVE  \/ Admitted
           \/ item.kind = "upload" /\ ~Clean
           \/ item.kind = "bridge" /\ item.at = item.region
<1> DEFINE p == run.stages
           i == item.at
           q == item.region
<1>1. /\ RunPlanned(run) /\ m_selectedRegions \in SUBSET run.selected
      /\ item \in Rewritten(p, m_selectedRegions)
      /\ item.kind \in Standing \cup {"host", "upload", "spill"}
  BY NextKnown DEF RunInv
<1>2. CASE item.kind = "host"
  BY <1>2 DEF Admitted
<1>3. CASE item.kind = "upload"
  BY <1>3 DEF Admitted, RunInv, StateInv, ViewInv, Ensured
<1>4. CASE item.kind = "spill"
  BY <1>4 DEF Admitted, RunInv, StateInv, ViewInv, InState
<1>5. CASE item.kind \in Standing
  <2>1. /\ Selected(p, m_selectedRegions, i) /\ q = p[i].region
        /\ item.kind = "wrapper" => Wrapped(p, i)
        /\ item.kind # "wrapper" => ~Wrapped(p, i)
        /\ item.kind = "tiled" => ~Neighborly(p, q) /\ i = q
        /\ item.kind = "bridge" =>
              /\ Neighborly(p, q)
              /\ \A k \in i .. item.until : ~Producer(p, k)
    BY <1>1, <1>5, Standings
  <2>2. q \in m_selectedRegions /\ i \in StagesOf(p, q)
    BY <2>1 DEF Selected, StagesOf
  <2>3. OneKind(p, m_selectedRegions)
    BY <2>2, PreflightFound DEF MayAccept
  <2>4. Ensured
    BY <1>5 DEF ViewInv
  <2>5. /\ i = q => InState("AwaitingRegion")
        /\ i # q => InState("RegionActive")
    BY <1>5 DEF RunInv, StateInv, Standing, InState
  <2>6. Delegated(p, q) => m_delegatedPlan
    BY <2>2 DEF AcceptInv
  <2>7. CASE item.kind = "tiled"
    <3>1. ~Delegated(p, q)
      BY <2>1, <2>7 DEF Delegated, Wrapped
    <3>2. ~m_delegatedPlan
      BY <2>2, <2>3, <3>1 DEF OneKind, AcceptInv
    <3> QED
      BY <2>1, <2>2, <2>4, <2>5, <2>7, <3>2 DEF Admitted
  <2>8. CASE item.kind = "wrapper"
    <3>1. Delegated(p, q)
      BY <2>1, <2>2, <2>8 DEF Delegated, Wrapped, Neighborly
    <3>2. GridAgrees
      BY <2>8 DEF ViewInv
    <3> QED
      BY <2>2, <2>4, <2>5, <2>6, <2>8, <3>1, <3>2 DEF Admitted
  <2>9. CASE item.kind = "bridge" /\ i # q
    <3>1. Delegated(p, q)
      BY <2>1, <2>9 DEF Delegated
    <3>2. product = q
      BY <2>9 DEF ViewInv
    <3> QED
      BY <2>4, <2>5, <2>6, <2>9, <3>1, <3>2 DEF Admitted
  <2> QED
    BY <1>5, <2>7, <2>8, <2>9 DEF Standing
<1> QED
  BY <1>1, <1>2, <1>3, <1>4, <1>5

\* A step of an item that leaves what the preflight found.
LEMMA Onwards ==
    ASSUME RunsAssumption, RunInv, AcceptInv, runner = "running", Done,
           m_selectedRegions' = m_selectedRegions, m_delegatedPlan' = m_delegatedPlan
    PROVE  /\ AcceptInv'
           /\ runner' = "running" =>
                 /\ Follows(run.stages, item, item') /\ item.at \in Nat
                 /\ run' = run /\ RunPlanned(run)
                 /\ item' \in Rewritten(run.stages, m_selectedRegions)
                 /\ item'.at \in Stages(run.stages)
                 /\ item'.at \in Nat /\ item'.at >= item.at
                 /\ item.kind = "host" => item'.at > item.at
                 /\ item.kind \in Standing => item'.at > item.until /\ item.until \in Nat
                 /\ item'.kind \in {"upload", "spill", "host"} \cup Standing
<1>1. /\ RunPlanned(run) /\ m_selectedRegions \in SUBSET run.selected
      /\ item \in Rewritten(run.stages, m_selectedRegions)
      /\ Len(run.stages) \in Nat /\ item.at \in 1 .. Len(run.stages)
      /\ item.kind \in Standing \cup {"host", "upload", "spill"}
      /\ item.kind \in Standing => item.until \in Nat /\ item.until >= item.at
  BY NextKnown DEF RunInv
<1>2. ControlInv' /\ Moved /\ run' = run
  BY <1>1, Moves DEF RunInv, Done
<1>3. AcceptInv'
  BY <1>2 DEF AcceptInv, Moved
<1>4. ASSUME runner' = "running"
      PROVE  /\ Follows(run.stages, item, item')
             /\ item' \in Rewritten(run.stages, m_selectedRegions)
             /\ item'.at \in Stages(run.stages) /\ item'.at \in 1 .. Len(run.stages)
             /\ item'.kind \in {"upload", "spill", "host"} \cup Standing
  <2>1. Follows(run.stages, item, item')
    BY <1>2, <1>4 DEF Moved
  <2>2. item' \in Rewritten(run.stages, m_selectedRegions)
    BY <1>2, <1>4 DEF ControlInv
  <2> QED
    BY <1>1, <2>1, <2>2, KnownItem, ItemPlaces
<1>5. ASSUME runner' = "running"
      PROVE  /\ item.at \in Nat /\ item'.at \in Nat /\ item'.at >= item.at
             /\ item.kind = "host" => item'.at > item.at
             /\ item.kind \in Standing => item'.at > item.until /\ item.until \in Nat
  <2>1. /\ item.kind \in {"upload", "spill"} => item'.at = item.at
        /\ item.kind = "host" => item'.at = item.at + 1
        /\ item.kind \in Standing => item'.at = item.until + 1
    BY <1>4, <1>5 DEF Follows
  <2>2. item'.at \in Nat /\ item.at \in Nat
    BY <1>1, <1>4, <1>5, SMT
  <2> QED
    BY <1>1, <2>1, <2>2, SMT
<1> QED
  BY <1>1, <1>2, <1>3, <1>4, <1>5

\* With no predicate before the next item there was none before this one, nor is
\* this one a predicate of the host.
LEMMA StillClean ==
    ASSUME run' = run, item.at \in Nat, item'.at \in Nat, item'.at >= item.at, Clean'
    PROVE  /\ Clean
           /\ item.at \in 1 .. item'.at - 1 => ~run.stages[item.at].predicate
<1>1. \A i \in 1 .. item.at - 1 : i \in 1 .. item'.at - 1
  BY SMT
<1> QED
  BY <1>1 DEF Clean

\* Each action keeps AcceptInv and ViewInv.  An upload binds the whole view.
LEMMA UploadView ==
    ASSUME RunsAssumption, RunInv, AcceptInv, ViewInv, Upload
    PROVE  AcceptInv' /\ ViewInv'
<1>1. /\ runner = "running" /\ item.kind = "upload" /\ Done /\ Admitted
      /\ m_selectedRegions' = m_selectedRegions /\ m_delegatedPlan' = m_delegatedPlan
      /\ m_pointCount' = m_pointCount /\ m_cardinalityChanged' = m_cardinalityChanged
      /\ m_view' = view.id /\ m_rasterGridProduct' = m_rasterGridProduct
  BY DEF Upload, Turn
<1>2. AcceptInv'
  BY <1>1, Onwards
<1> SUFFICES ASSUME runner' = "running" PROVE ViewInv'
  BY <1>2 DEF ViewInv
<1>3. /\ Follows(run.stages, item, item') /\ run' = run /\ RunPlanned(run)
      /\ item' \in Rewritten(run.stages, m_selectedRegions)
      /\ m_selectedRegions \in SUBSET run.selected
  BY <1>1, Onwards, NextKnown DEF RunInv
<1>4. item'.kind \in Standing /\ item'.at = item'.region
  BY <1>1, <1>3 DEF Follows
<1>5. /\ view.count = PointCount /\ m_pointCount = PointCount
      /\ ~m_cardinalityChanged /\ m_rasterGridProduct = None
  BY <1>1 DEF ViewInv, RunInv, StateInv, Admitted, Ensured
<1>6. view' = view
  <2>1. view.count # 0
    BY <1>5 DEF RunsAssumption
  <2> QED
    BY <2>1 DEF Upload, Passed
<1>7. /\ Selected(run.stages, m_selectedRegions, item'.at)
      /\ item'.region = run.stages[item'.at].region
      /\ item'.region # None
  BY <1>3, <1>4, Standings, KnownItem DEF Standing
<1>8. GridAgrees'
  BY <1>1, <1>3, <1>4, <1>5, <1>7 DEF GridAgrees
<1>9. Ensured'
  BY <1>1, <1>5, <1>6 DEF Ensured
<1> QED
  BY <1>1, <1>4, <1>5, <1>6, <1>8, <1>9 DEF ViewInv, Standing

\* A spill passes on the view as it is.
LEMMA SpillView ==
    ASSUME RunsAssumption, RunInv, AcceptInv, ViewInv, Spill
    PROVE  AcceptInv' /\ ViewInv'
<1>1. /\ runner = "running" /\ item.kind = "spill" /\ Done /\ Ensured
      /\ m_selectedRegions' = m_selectedRegions /\ m_delegatedPlan' = m_delegatedPlan
      /\ m_pointCount' = m_pointCount /\ m_cardinalityChanged' = m_cardinalityChanged
      /\ m_view' = None /\ view' = Passed
  BY DEF Spill, Turn, Admitted, Unbound
<1>2. AcceptInv'
  BY <1>1, Onwards
<1> SUFFICES ASSUME runner' = "running" PROVE ViewInv'
  BY <1>2 DEF ViewInv
<1>3. /\ Follows(run.stages, item, item') /\ run' = run /\ RunPlanned(run)
      /\ item' \in Rewritten(run.stages, m_selectedRegions)
      /\ m_selectedRegions \in SUBSET run.selected
      /\ item.at \in Nat /\ item'.at \in Nat /\ item'.at >= item.at
  BY <1>1, Onwards, NextKnown DEF RunInv
<1>4. item'.kind \in {"host", "upload"} /\ item'.at = item.at
  BY <1>1, <1>3 DEF Follows
<1>5. view'.count = view.count
  BY <1>1 DEF Passed, Fresh
<1>6. Ensured'
  BY <1>1, <1>5 DEF Ensured
<1>7. Clean' => Clean
  BY <1>3, StillClean
<1> QED
  BY <1>1, <1>4, <1>5, <1>6, <1>7 DEF ViewInv, Standing

\* An item that stands for stages of a region, and its region.
LEMMA StandingNext ==
    ASSUME RunsAssumption, RunInv, AcceptInv, runner = "running",
           item.kind \in Standing
    PROVE  LET p == run.stages
               q == item.region
           IN  /\ q \in m_selectedRegions /\ q = p[item.at].region
               /\ item.at \in StagesOf(p, q)
               /\ StagesOf(p, q) = q .. EndOf(p, q) /\ EndOf(p, q) \in Nat /\ q \in Nat
               /\ q >= 1
               /\ item.kind = "tiled" => item.until = EndOf(p, q)
               /\ item.kind = "wrapper" => Wrapped(p, item.at)
               /\ item.kind # "wrapper" => ~Wrapped(p, item.at)
<1> DEFINE p == run.stages
           q == item.region
<1>1. /\ RunPlanned(run) /\ m_selectedRegions \in SUBSET run.selected
      /\ item \in Rewritten(p, m_selectedRegions)
  BY NextKnown DEF RunInv
<1>2. /\ Selected(p, m_selectedRegions, item.at) /\ q = p[item.at].region
      /\ item.kind = "tiled" => item.until = EndOf(p, q)
      /\ item.kind = "wrapper" => Wrapped(p, item.at)
      /\ item.kind # "wrapper" => ~Wrapped(p, item.at)
  BY <1>1, Standings
<1>3. /\ q \in m_selectedRegions /\ item.at \in StagesOf(p, q)
      /\ q \in run.selected
  BY <1>1, <1>2 DEF Selected, StagesOf
<1>4. /\ Len(p) \in Nat /\ q \in 2 .. Len(p) - 1
      /\ EndOf(p, q) \in q .. Len(p) - 1 /\ StagesOf(p, q) = q .. EndOf(p, q)
  BY <1>1, <1>3, RegionStagesAre
<1>5. EndOf(p, q) \in Nat /\ q \in Nat /\ q >= 1
  <2> HIDE DEF p, q
  <2> QED
    BY <1>4, SMT
<1> QED
  BY <1>2, <1>3, <1>4, <1>5

\* The points a predicate dropped are gone for what comes after its region.
LEMMA TiledView ==
    ASSUME RunsAssumption, RunInv, AcceptInv, ViewInv, Tiled
    PROVE  AcceptInv' /\ ViewInv'
<1> DEFINE p == run.stages
           q == item.region
<1>1. /\ runner = "running" /\ item.kind = "tiled" /\ Done /\ item.kind \in Standing
      /\ m_selectedRegions' = m_selectedRegions /\ m_delegatedPlan' = m_delegatedPlan
  BY DEF Tiled, Turn, Standing
<1>2. AcceptInv'
  BY <1>1, Onwards
<1> SUFFICES ASSUME runner' = "running" PROVE ViewInv'
  BY <1>2 DEF ViewInv
<1>3. /\ Follows(p, item, item')
      /\ item.at \in Nat /\ item'.at \in Nat /\ item'.at > item.until
  BY <1>1, Onwards
<1>4. /\ q \in m_selectedRegions /\ StagesOf(p, q) = q .. EndOf(p, q)
      /\ EndOf(p, q) \in Nat /\ q \in Nat /\ item.until = EndOf(p, q) /\ q >= 1
  BY <1>1, StandingNext
<1>5. item'.kind = "spill"
  BY <1>1, <1>3, <1>4 DEF Follows
<1>6. view.count = PointCount /\ m_pointCount = PointCount /\ ~m_cardinalityChanged
  BY <1>1 DEF ViewInv
<1>7. CASE Predicates(p, q) # {}
  <2>1. PICK survivors \in 0 .. view.count :
           view' = Fresh(survivors) /\ m_view' = view.id + 1 /\ m_pointCount' = survivors
    BY <1>7 DEF Tiled
  <2>2. Ensured'
    BY <2>1 DEF Ensured, Fresh
  <2>3. m_cardinalityChanged' = TRUE
    BY <1>7 DEF Tiled
  <2>4. ~Clean'
    <3>1. PICK j \in StagesOf(p, q) : p[j].predicate
      BY <1>7 DEF Predicates
    <3>2. j \in q .. EndOf(p, q)
      BY <1>4, <3>1
    <3>3. j \in 1 .. item'.at - 1
      <4> HIDE DEF p, q
      <4> QED
        BY <1>3, <1>4, <3>2, SMT
    <3> QED
      BY <1>1, <3>1, <3>3 DEF Clean, Tiled, Done
  <2> QED
    BY <1>5, <2>2, <2>3, <2>4 DEF ViewInv, Standing
<1>8. CASE Predicates(p, q) = {}
  <2>1. /\ m_view' = view.id /\ view' = view /\ m_pointCount' = m_pointCount
        /\ m_cardinalityChanged' = m_cardinalityChanged
    BY <1>8 DEF Tiled
  <2>2. Ensured'
    BY <1>6, <2>1 DEF Ensured
  <2> QED
    BY <1>5, <1>6, <2>1, <2>2 DEF ViewInv, Standing
<1> QED
  BY <1>7, <1>8

\* The raster of a grid region is there from its first stage on.
LEMMA WrapperView ==
    ASSUME RunsAssumption, RunInv, AcceptInv, ViewInv, Wrapper
    PROVE  AcceptInv' /\ ViewInv'
<1> DEFINE p == run.stages
           q == item.region
<1>1. /\ runner = "running" /\ item.kind = "wrapper" /\ Done /\ item.kind \in Standing
      /\ m_selectedRegions' = m_selectedRegions /\ m_delegatedPlan' = m_delegatedPlan
      /\ m_pointCount' = m_pointCount /\ m_cardinalityChanged' = m_cardinalityChanged
      /\ view' = view /\ m_view' = view.id
      /\ m_rasterGridProduct' = IF p[item.at].executor = "pmf" THEN q ELSE m_rasterGridProduct
      /\ product' = IF OverGrid(p, q) \/ EndsRegion THEN None ELSE q
  BY DEF Wrapper, Turn, Standing
<1>2. AcceptInv'
  BY <1>1, Onwards
<1> SUFFICES ASSUME runner' = "running" PROVE ViewInv'
  BY <1>2 DEF ViewInv
<1>3. /\ Follows(p, item, item') /\ run' = run /\ RunPlanned(run)
      /\ item' \in Rewritten(p, m_selectedRegions)
      /\ m_selectedRegions \in SUBSET run.selected
      /\ item'.kind \in {"upload", "spill", "host"} \cup Standing
  BY <1>1, Onwards, NextKnown DEF RunInv
<1>4. /\ q \in m_selectedRegions /\ item.at \in StagesOf(p, q)
      /\ StagesOf(p, q) = q .. EndOf(p, q)
      /\ EndOf(p, q) \in Nat /\ q \in Nat
  BY <1>1, StandingNext
<1>5. view.count = PointCount /\ m_pointCount = PointCount /\ ~m_cardinalityChanged
  BY <1>1 DEF ViewInv
<1>6. Ensured'
  BY <1>1, <1>5 DEF Ensured
<1>7. item'.kind \notin {"host", "upload"} /\ item'.region = q /\ item'.at # q
  BY <1>1, <1>3 DEF Follows, Standing
<1>8. item'.kind = "bridge" => product' = q
  BY <1>1, <1>3 DEF Follows, EndsRegion, Standing
<1>9. ASSUME item'.kind = "wrapper", p[item'.at].executor = "pmf"
      PROVE  m_rasterGridProduct' = q
  <2>1. /\ Wrapped(p, item'.at) /\ Selected(p, m_selectedRegions, item'.at)
        /\ q = p[item'.at].region
    BY <1>3, <1>7, <1>9, Standings DEF Standing
  <2>2. OverGrid(p, q)
    BY <1>9, <2>1 DEF Wrapped, Producer
  <2>3. EndOf(p, q) # q
    <3>1. item'.at \in q .. EndOf(p, q)
      BY <1>4, <2>1 DEF Selected, StagesOf
    <3> HIDE DEF p, q
    <3> QED
      BY <1>4, <1>7, <3>1, SMT
  <2>4. ~Unavailable(p, run.selected) /\ q \in run.selected
    BY <1>1, <1>4, PreflightFound
  <2>5. p[item.at].executor = "pmf"
    BY <1>4, <2>2, <2>3, <2>4 DEF Unavailable
  <2> QED
    BY <1>1, <2>5
<1>10. item'.kind = "wrapper" => GridAgrees'
  BY <1>3, <1>7, <1>9 DEF GridAgrees
<1> QED
  BY <1>1, <1>5, <1>6, <1>7, <1>8, <1>10 DEF ViewInv

\* A bridge is followed by a producer, which has no raster.
LEMMA BridgeView ==
    ASSUME RunsAssumption, RunInv, AcceptInv, ViewInv, Bridge
    PROVE  AcceptInv' /\ ViewInv'
<1> DEFINE p == run.stages
           q == item.region
<1>1. /\ runner = "running" /\ item.kind = "bridge" /\ Done /\ item.kind \in Standing
      /\ m_selectedRegions' = m_selectedRegions /\ m_delegatedPlan' = m_delegatedPlan
      /\ m_pointCount' = m_pointCount /\ m_cardinalityChanged' = m_cardinalityChanged
      /\ view' = view /\ m_view' = m_view
  BY DEF Bridge, Turn, Standing
<1>2. AcceptInv'
  BY <1>1, Onwards
<1> SUFFICES ASSUME runner' = "running" PROVE ViewInv'
  BY <1>2 DEF ViewInv
<1>3. /\ Follows(p, item, item') /\ run' = run /\ RunPlanned(run)
      /\ item' \in Rewritten(p, m_selectedRegions)
      /\ m_selectedRegions \in SUBSET run.selected
  BY <1>1, Onwards, NextKnown DEF RunInv
<1>4. /\ q = p[item.at].region /\ ~Wrapped(p, item.at)
  BY <1>1, StandingNext
<1>5. /\ view.count = PointCount /\ m_pointCount = PointCount /\ ~m_cardinalityChanged
      /\ Ensured
  BY <1>1 DEF ViewInv
<1>6. Ensured'
  BY <1>1, <1>5 DEF Ensured
<1>7. item'.kind \notin {"host", "upload", "bridge"} /\ item'.region = q
  BY <1>1, <1>3 DEF Follows, Standing
<1>8. ASSUME item'.kind = "wrapper" PROVE p[item'.at].executor # "pmf"
  <2>1. Wrapped(p, item'.at) /\ q = p[item'.at].region
    BY <1>3, <1>7, <1>8, Standings DEF Standing
  <2> QED
    BY <1>4, <2>1 DEF Wrapped, Producer
<1>9. item'.kind = "wrapper" => GridAgrees'
  BY <1>3, <1>8 DEF GridAgrees
<1> QED
  BY <1>1, <1>5, <1>6, <1>7, <1>9 DEF ViewInv

\* A predicate of the host may drop points; its other stages keep them.
LEMMA HostView ==
    ASSUME RunsAssumption, RunInv, AcceptInv, ViewInv, HostItem
    PROVE  AcceptInv' /\ ViewInv'
<1> DEFINE stage == run.stages[item.at]
<1>1. /\ runner = "running" /\ item.kind = "host" /\ Done
      /\ m_selectedRegions' = m_selectedRegions /\ m_delegatedPlan' = m_delegatedPlan
      /\ m_pointCount' = m_pointCount /\ m_cardinalityChanged' = m_cardinalityChanged
      /\ m_view' = m_view
  BY DEF HostItem, Turn, contextVars
<1>2. AcceptInv'
  BY <1>1, Onwards
<1> SUFFICES ASSUME runner' = "running" PROVE ViewInv'
  BY <1>2 DEF ViewInv
<1>3. /\ Follows(run.stages, item, item') /\ run' = run /\ RunPlanned(run)
      /\ item' \in Rewritten(run.stages, m_selectedRegions)
      /\ m_selectedRegions \in SUBSET run.selected
      /\ item.at \in Nat /\ item'.at \in Nat /\ item'.at >= item.at
      /\ item'.at > item.at /\ item.at \in Stages(run.stages)
  BY <1>1, Onwards, NextKnown, ItemPlaces DEF RunInv
<1>4. item'.kind \in {"host", "upload"}
  BY <1>1, <1>3 DEF Follows
<1>5. ASSUME Clean'
      PROVE  view'.count = PointCount /\ ~m_cardinalityChanged
  <2>1. item.at \in 1 .. item'.at - 1
    <3>1. Len(run.stages) \in Nat /\ item.at \in 1 .. Len(run.stages)
      BY <1>1, NextKnown DEF RunInv
    <3> QED
      BY <1>3, <3>1, SMT
  <2>2. Clean /\ ~stage.predicate
    BY <1>3, <1>5, <2>1, StillClean
  <2>3. view.count = PointCount /\ ~m_cardinalityChanged
    BY <1>1, <2>2 DEF ViewInv
  <2>4. view.count # 0
    BY <2>3 DEF RunsAssumption
  <2>5. view' = view \/ view' = Fresh(view.count)
    BY <2>2, <2>4 DEF HostItem, Passed
  <2>6. view'.count = view.count
    BY <2>5 DEF Fresh
  <2> QED
    BY <2>3, <2>6
<1>6. m_view = None
  BY <1>1 DEF ViewInv
<1> QED
  BY <1>1, <1>4, <1>5, <1>6 DEF ViewInv, Standing

\* The rewrite gives the context nothing.
LEMMA RewriteView ==
    ASSUME RunsAssumption, RunInv, AcceptInv, Rewrite
    PROVE  AcceptInv' /\ ViewInv'
<1>1. /\ runner = "rewriting" /\ run \in Runs /\ run' = run /\ m_selectedRegions = {}
      /\ view.count = PointCount /\ m_pointCount = PointCount
      /\ m_view = None /\ ~m_delegatedPlan /\ ~m_cardinalityChanged
      /\ view' = view /\ m_pointCount' = m_pointCount /\ m_view' = m_view
      /\ m_delegatedPlan' = m_delegatedPlan /\ m_selectedRegions' = m_selectedRegions
      /\ m_cardinalityChanged' = m_cardinalityChanged
  BY DEF Rewrite, RunInv, ControlInv, AcceptInv, contextVars
<1>2. CASE /\ items' = Original(run.stages) /\ item' \in Earliest(items')
           /\ runner' = "running"
  <2>1. AcceptInv'
    BY <1>1, <1>2 DEF AcceptInv
  <2>2. RunPlanned(run) /\ items' = Rewritten(run.stages, {})
    BY <1>1, <1>2, OriginalIs DEF RunsAssumption
  <2>3. item'.kind = "host"
    BY <1>2, <2>2, FirstItem
  <2>4. ViewInv'
    BY <1>1, <2>3 DEF ViewInv, Standing
  <2> QED
    BY <2>1, <2>4
<1>3. CASE /\ ~(run.selected = {} \/ Unavailable(run.stages, run.selected))
           /\ runner' = "checking"
  BY <1>1, <1>3 DEF AcceptInv, ViewInv
<1> QED
  BY <1>2, <1>3 DEF Rewrite

\* Acceptance records what AcceptInv says of the regions.
LEMMA PreflightView ==
    ASSUME RunsAssumption, RunInv, AcceptInv, Accept \/ Reject
    PROVE  AcceptInv' /\ ViewInv'
<1>1. /\ runner = "checking" /\ run \in Runs /\ run' = run /\ RunPlanned(run)
      /\ m_selectedRegions = {} /\ ~Unavailable(run.stages, run.selected)
      /\ view.count = PointCount /\ m_pointCount = PointCount
      /\ m_view = None /\ ~m_delegatedPlan /\ ~m_cardinalityChanged
      /\ view' = view /\ m_pointCount' = m_pointCount /\ m_view' = m_view
      /\ m_cardinalityChanged' = m_cardinalityChanged
      /\ items = Rewritten(run.stages, run.selected) /\ runner' = "running"
  BY DEF Accept, Reject, RunInv, ControlInv, AcceptInv, contextVars, RunsAssumption
<1>2. AcceptInv'
  <2>1. CASE Accept
    BY <1>1, <2>1 DEF Accept, AcceptInv
  <2>2. CASE Reject
    BY <1>1, <2>2 DEF Reject, AcceptInv, contextVars
  <2> QED
    BY <2>1, <2>2
<1>3. item'.kind = "host"
  <2>1. CASE Accept
    BY <1>1, <2>1, FirstItem DEF Accept
  <2>2. CASE Reject
    <3>1. item' \in Earliest(Rewritten(run.stages, {}))
      BY <2>2, OriginalIs DEF Reject
    <3> QED
      BY <1>1, <3>1, FirstItem
  <2> QED
    BY <2>1, <2>2
<1>4. ViewInv'
  BY <1>1, <1>3 DEF ViewInv, Standing
<1> QED
  BY <1>2, <1>4

\* A failed run has no next item.
LEMMA StoppedView ==
    ASSUME AcceptInv, ViewInv, ItemFails \/ UNCHANGED runVars
    PROVE  AcceptInv' /\ ViewInv'
<1>1. CASE ItemFails
  BY <1>1 DEF ItemFails, AcceptInv, ViewInv, contextVars
<1>2. CASE UNCHANGED runVars
  BY <1>2 DEF runVars, contextVars, AcceptInv, ViewInv, Clean, Ensured, GridAgrees
<1> QED
  BY <1>1, <1>2

\* A refused run has failed, and where RefusedAtBoundary says.
RefusalInv == /\ thrown = "refused" => runner = "failed"
              /\ RefusedAtBoundary

\* A run starts with the whole view and nothing refused, ...
LEMMA RefusalStart ==
    ASSUME RunInit
    PROVE  RunInv /\ AcceptInv /\ ViewInv /\ RefusalInv
  BY DEF RunInit, StartsOver, RunInv, ControlInv, ProgressInv, StateInv,
         AcceptInv, ViewInv, RefusalInv, RefusedAtBoundary

\* ... an item that the context refuses is one of two and has done nothing, ...
LEMMA RefusalOf ==
    ASSUME RunsAssumption, RunInv, AcceptInv, ViewInv, RefusalInv, ItemFails
    PROVE  RefusalInv'
<1>1. /\ runner = "running" /\ runner' = "failed"
      /\ run' = run /\ item' = item /\ applied' = applied /\ m_state' = m_state
  BY DEF ItemFails, contextVars
<1> SUFFICES ASSUME thrown' = "refused"
             PROVE  RefusedAtBoundary'
  BY <1>1 DEF RefusalInv, RefusedAtBoundary
<1>2. ~Admitted
  BY DEF ItemFails
<1>3. applied = [k \in 1 .. item.at - 2 |-> k + 1]
  BY <1>1 DEF RunInv, ProgressInv, AppliedTo
<1>4. CASE item.kind = "upload" /\ ~Clean
  <2>1. PointsMayBeGone(run.stages, run.selected, item.at)
    BY <1>1, <1>4, GoneBefore
  <2>2. m_state \in {"Empty", "HostMaterialized"}
    BY <1>1, <1>4 DEF RunInv, StateInv
  <2> QED
    BY <1>1, <1>3, <1>4, <2>1, <2>2 DEF RefusedAtBoundary
<1>5. CASE item.kind = "bridge" /\ item.at = item.region
  <2>1. m_state = "AwaitingRegion"
    BY <1>1, <1>5 DEF RunInv, StateInv, Standing
  <2> QED
    BY <1>1, <1>3, <1>5, <2>1 DEF RefusedAtBoundary
<1> QED
  BY <1>1, <1>2, <1>4, <1>5, AdmittedOrNot

\* ... and no other step refuses any.
LEMMA RefusalKeeps ==
    ASSUME RunsAssumption, RunInv, AcceptInv, ViewInv, RefusalInv,
           [RunStep \/ RunEnded]_runVars
    PROVE  RunInv' /\ AcceptInv' /\ ViewInv' /\ RefusalInv'
<1>1. RunInv'
  BY RunKeeps
<1>2. AcceptInv' /\ ViewInv'
  BY RewriteView, PreflightView, UploadView, SpillView, TiledView,
     WrapperView, BridgeView, HostView, StoppedView
     DEF RunStep, RunEnded
<1>3. RefusalInv'
  <2>1. CASE ItemFails
    BY <2>1, RefusalOf
  <2>2. CASE UNCHANGED runVars
    BY <2>2 DEF runVars, contextVars, RefusalInv, RefusedAtBoundary
  <2>3. CASE RunStep /\ ~ItemFails
    <3>1. runner \in {"rewriting", "checking", "running"} /\ thrown' = thrown
      BY <2>3 DEF RunStep, Rewrite, Accept, Reject, Upload, Spill, Tiled,
         Wrapper, Bridge, HostItem, Turn, Done
    <3>2. thrown' # "refused"
      BY <3>1 DEF RefusalInv
    <3> QED
      BY <3>2 DEF RefusalInv, RefusedAtBoundary
  <2> QED
    BY <2>1, <2>2, <2>3 DEF RunEnded
<1> QED
  BY <1>1, <1>2, <1>3

\* RefusedAtBoundary: whatever the pipeline and whichever of its regions are
\* selected, what the preflight accepted the context refuses only in front of a
\* region, where points may be gone or a point program comes first, and the rows
\* have the effects of the stages before it and no others.
THEOREM RefusedBeforeRegions ==
    ASSUME RunsAssumption
    PROVE  RunSpec => []RefusedAtBoundary
<1> DEFINE Inv == RunInv /\ AcceptInv /\ ViewInv /\ RefusalInv
<1>1. RunInit => Inv
  BY RefusalStart
<1>2. Inv /\ [RunStep \/ RunEnded]_runVars => Inv'
  BY RefusalKeeps
<1>3. Inv => RefusedAtBoundary
  BY DEF RefusalInv
<1> QED
  BY <1>1, <1>2, <1>3, PTL DEF RunSpec

-----------------------------------------------------------------------------
(***************************************************************************)
(* The types of a run.                                                     *)
(***************************************************************************)
\* The counters stay within the points there are, and the context and the view
\* name only stages of the pipeline.
RunTypes ==
    /\ view.count \in 0 .. PointCount /\ m_pointCount \in 0 .. PointCount
    /\ thrown \in {"nothing", "refused", "device"}
    /\ m_state \in {"Empty", "AwaitingRegion", "RegionActive",
                    "RegionComplete", "HostMaterialized"}
    /\ product \in {None} \cup Stages(run.stages)
    /\ m_activeRegion \in {None} \cup Stages(run.stages)
    /\ m_rasterGridProduct \in {None} \cup Stages(run.stages)
    /\ m_delegatedPlan \in BOOLEAN /\ m_cardinalityChanged \in BOOLEAN
    /\ \A i \in DOMAIN applied : applied[i] \in Stages(run.stages)

\* The effects of the filters before a stage are effects of stages.
LEMMA EffectsOfStages ==
    ASSUME NEW r, RunPlanned(r), NEW i \in 1 .. Len(r.stages) + 1
    PROVE  \A k \in DOMAIN AppliedTo(i) : AppliedTo(i)[k] \in Stages(r.stages)
<1>1. Stages(r.stages) = 1 .. Len(r.stages) /\ Len(r.stages) \in Nat
  BY DEF RunPlanned
<1> DEFINE n == Len(r.stages)
<1> HIDE DEF n
<1>2. i \in 1 .. n + 1 /\ n \in Nat
  BY <1>1 DEF n
<1>3. \A k \in 1 .. i - 2 : k + 1 \in 1 .. n
  BY <1>2, SMT
<1> QED
  BY <1>1, <1>3 DEF AppliedTo, n

\* The region of an item is a stage, or there is none.
LEMMA ItemRegion ==
    ASSUME NEW r, RunPlanned(r), NEW sel \in SUBSET r.selected,
           NEW x \in Rewritten(r.stages, sel), x.kind \in Standing \cup {"upload"}
    PROVE  x.region \in Stages(r.stages)
<1> DEFINE p == r.stages
<1>1. \A q \in sel : q \in Stages(p)
  BY DEF RunPlanned
<1>2. x.kind = "upload" => x.region \in sel
  <2> SUFFICES ASSUME x.kind = "upload" PROVE x.region \in sel
    OBVIOUS
  <2>1. Shape(p, sel, x) /\ "upload" \notin Standing
    BY ItemShapes DEF Standing
  <2>2. x.at \in Uploading(p, sel) /\ x = Item(x.at, "upload", p[x.at].region, x.at - 1)
    BY <2>1 DEF Shape
  <2> DEFINE c == Item(x.at, "upload", p[x.at].region, x.at - 1)
  <2>3. x.region = p[x.at].region
    <3>1. c.region = p[x.at].region
      BY DEF Item
    <3> QED
      BY ONLY <2>2, <3>1, Zenon
  <2> QED
    BY <2>2, <2>3 DEF Uploading, Selected
<1>3. x.kind \in Standing => x.region \in sel
  BY Standings DEF Selected
<1> QED
  BY <1>1, <1>2, <1>3

\* What the first steps of a run leave alone.
LEMMA EarlyTypes ==
    ASSUME RunsAssumption, RunInv, RunTypes,
           Rewrite \/ Accept \/ Reject \/ ItemFails \/ UNCHANGED runVars
    PROVE  RunTypes'
<1>1. /\ run' = run /\ view' = view /\ m_pointCount' = m_pointCount
      /\ m_state' = m_state /\ product' = product
      /\ m_activeRegion' = m_activeRegion
      /\ m_rasterGridProduct' = m_rasterGridProduct
      /\ m_cardinalityChanged' = m_cardinalityChanged /\ applied' = applied
  BY DEF Rewrite, Accept, Reject, ItemFails, runVars, contextVars
<1>2. thrown' \in {"nothing", "refused", "device"}
  BY DEF RunTypes, Rewrite, Accept, Reject, ItemFails, runVars
<1>3. m_delegatedPlan' \in BOOLEAN
  BY DEF RunTypes, Rewrite, Accept, Reject, ItemFails, runVars, contextVars
<1> QED
  BY <1>1, <1>2, <1>3 DEF RunTypes

\* An item of a running run keeps the types.
LEMMA ItemTypes ==
    ASSUME RunsAssumption, RunInv, RunInv', RunTypes,
           Upload \/ Spill \/ Tiled \/ Wrapper \/ Bridge \/ HostItem
    PROVE  RunTypes'
<1>1. /\ RunPlanned(run) /\ runner = "running" /\ run' = run /\ thrown' = thrown
      /\ runner' \in {"running", "done"}
  BY NextKnown DEF RunInv, Upload, Spill, Tiled, Wrapper, Bridge, HostItem, Turn, Done
<1>2. \A i \in DOMAIN applied' : applied'[i] \in Stages(run.stages)
  <2>1. /\ runner' = "running" => applied' = AppliedTo(item'.at)
        /\ runner' = "done" => applied' = AppliedTo(Len(run.stages))
    BY <1>1 DEF RunInv, ProgressInv
  <2>2. Len(run.stages) \in Nat \ {0, 1}
    BY <1>1 DEF RunPlanned
  <2>3. ASSUME runner' = "running"
        PROVE  item'.at \in 1 .. Len(run.stages)
    <3>1. /\ m_selectedRegions' \in SUBSET run.selected
          /\ item' \in Rewritten(run.stages, m_selectedRegions')
      BY <1>1, <2>3 DEF RunInv, ControlInv
    <3> QED
      BY ONLY <1>1, <3>1, KnownItem
  <2> DEFINE n == Len(run.stages)
  <2>4. n \in 1 .. n + 1 /\ \A i \in 1 .. n : i \in 1 .. n + 1
    <3> HIDE DEF n
    <3>1. n \in Nat \ {0, 1}
      BY <2>2 DEF n
    <3> QED
      BY <3>1, SMT
  <2>5. CASE runner' = "running"
    <3>1. item'.at \in 1 .. Len(run.stages) + 1
      BY <2>3, <2>4, <2>5
    <3>2. \A k \in DOMAIN AppliedTo(item'.at) :
             AppliedTo(item'.at)[k] \in Stages(run.stages)
      BY ONLY <1>1, <3>1, EffectsOfStages
    <3> QED
      BY <2>1, <2>5, <3>2
  <2>6. CASE runner' = "done"
    <3>1. \A k \in DOMAIN AppliedTo(n) : AppliedTo(n)[k] \in Stages(run.stages)
      BY <1>1, <2>4, EffectsOfStages
    <3> QED
      BY <2>1, <2>6, <3>1
  <2> QED
    BY <1>1, <2>5, <2>6
<1>3. item.kind \in Standing \cup {"upload"} => item.region \in Stages(run.stages)
  <2> SUFFICES ASSUME item.kind \in Standing \cup {"upload"}
               PROVE  item.region \in Stages(run.stages)
    OBVIOUS
  <2>1. /\ m_selectedRegions \in SUBSET run.selected
        /\ item \in Rewritten(run.stages, m_selectedRegions)
    BY <1>1, NextKnown DEF RunInv
  <2> QED
    BY ONLY <1>1, <2>1, item.kind \in Standing \cup {"upload"}, ItemRegion
<1>4. PointCount \in Nat
  BY DEF RunsAssumption
<1>5. CASE Upload
  <2>1. item.region \in Stages(run.stages) /\ view'.count = view.count
    BY <1>3, <1>5 DEF Upload, Turn, Passed, Fresh
  <2> QED
    BY <1>1, <1>2, <1>5, <2>1 DEF RunTypes, Upload
<1>6. CASE Spill
  <2>1. view'.count = view.count
    BY <1>6 DEF Spill, Passed, Fresh
  <2> QED
    BY <1>1, <1>2, <1>6, <2>1 DEF RunTypes, Spill
<1>7. CASE Tiled
  <2>1. /\ view'.count \in 0 .. PointCount /\ m_pointCount' \in 0 .. PointCount
        /\ m_cardinalityChanged' \in BOOLEAN
    <3>1. CASE Predicates(run.stages, item.region) # {}
      <4>1. PICK survivors \in 0 .. view.count :
               /\ view' = Fresh(survivors) /\ m_pointCount' = survivors
               /\ m_cardinalityChanged' = TRUE
        BY <1>7, <3>1 DEF Tiled
      <4>2. view'.count = survivors
        BY <4>1 DEF Fresh
      <4>3. survivors \in 0 .. PointCount
        <5>1. view.count \in 0 .. PointCount
          BY DEF RunTypes
        <5> QED
          BY <1>4, <5>1, SMT
      <4> QED
        BY <4>1, <4>2, <4>3
    <3>2. CASE ~(Predicates(run.stages, item.region) # {})
      BY <1>7, <3>2 DEF Tiled, RunTypes
    <3> QED
      BY <3>1, <3>2
  <2> QED
    BY <1>1, <1>2, <1>7, <2>1 DEF RunTypes, Tiled
<1>8. CASE Wrapper
  <2>1. item.region \in Stages(run.stages)
    BY <1>3, <1>8 DEF Wrapper, Turn, Standing
  <2> QED
    BY <1>1, <1>2, <1>8, <2>1 DEF RunTypes, Wrapper, Ended
<1>9. CASE Bridge
  BY <1>1, <1>2, <1>9 DEF RunTypes, Bridge
<1>10. CASE HostItem
  <2>1. view'.count \in 0 .. PointCount
    <3>1. view.count \in 0 .. PointCount
      BY DEF RunTypes
    <3>2. \A n \in 0 .. view.count : n \in 0 .. PointCount
      BY <1>4, <3>1, SMT
    <3>3. Fresh(view.count).count = view.count /\ Passed.count = view.count
          /\ \A n : Fresh(n).count = n
      BY DEF Fresh, Passed
    <3> QED
      BY <1>10, <3>1, <3>2, <3>3 DEF HostItem
  <2>2. product' \in {None, product}
    BY <1>10 DEF HostItem
  <2> QED
    BY <1>1, <1>2, <1>10, <2>1, <2>2 DEF RunTypes, HostItem, contextVars
<1> QED
  BY <1>5, <1>6, <1>7, <1>8, <1>9, <1>10

\* Every step of a run keeps the types.
LEMMA RunTypesKeep ==
    ASSUME RunsAssumption, RunInv, RunTypes, [RunStep \/ RunEnded]_runVars
    PROVE  RunTypes'
<1>1. RunInv'
  BY RunKeeps
<1> QED
  BY <1>1, EarlyTypes, ItemTypes DEF RunStep, RunEnded

\* A run starts with all its points and without regions.
LEMMA RunTypesStart ==
    ASSUME PointCount \in Nat, StartsOver
    PROVE  RunTypes
<1>1. PointCount \in 0 .. PointCount
  BY SMT
<1>2. view.count = PointCount /\ m_pointCount = PointCount
  BY DEF StartsOver
<1>3. \A i \in DOMAIN applied : applied[i] \in Stages(run.stages)
  BY DEF StartsOver
<1> QED
  BY <1>1, <1>2, <1>3 DEF StartsOver, RunTypes

\* Together with RunInv that is RunTypeOK.
LEMMA RunTypesSuffice ==
    ASSUME RunsAssumption, RunInv, RunTypes
    PROVE  RunTypeOK
<1>1. RunPlanned(run)
  BY DEF RunInv, ControlInv, RunsAssumption
<1>2. run.selected \subseteq Stages(run.stages)
  BY <1>1 DEF RunPlanned
<1>3. m_selectedRegions \in {{}, run.selected}
  BY DEF RunInv, ControlInv
<1>4. Range(applied) \subseteq Stages(run.stages)
  BY DEF RunTypes, Range
<1> QED
  BY <1>2, <1>3, <1>4 DEF RunTypes, RunTypeOK, RunInv, ControlInv

\* RunTypeOK: through every rewrite, refusal and failure the counters stay
\* within the points, and context and view name only stages of the pipeline.
THEOREM RunTyped ==
    ASSUME RunsAssumption
    PROVE  RunSpec => []RunTypeOK
<1>1. RunInit => RunInv /\ RunTypes
  <2>1. RunInit => RunInv
    BY DEF RunInit, StartsOver, RunInv, ControlInv, ProgressInv, StateInv
  <2> QED
    BY <2>1, RunTypesStart DEF RunInit, RunsAssumption
<1>2. RunInv /\ RunTypes /\ [RunStep \/ RunEnded]_runVars => (RunInv /\ RunTypes)'
  BY RunKeeps, RunTypesKeep
<1>3. RunInv /\ RunTypes => RunTypeOK
  BY RunTypesSuffice
<1> QED
  BY <1>1, <1>2, <1>3, PTL DEF RunSpec
=============================================================================
