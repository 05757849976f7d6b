-------------------------- MODULE TranslationLanes --------------------------
(***************************************************************************)
(* The translation of a LAS file on the device                             *)
(* (src/src/io/las/LasTranslateKernels.cu): the points are cut into chunks *)
(* and a ring of lanes takes one after another.  The plain form keeps      *)
(* every point and knows where in the file a chunk goes; the ordered form  *)
(* carries out an OrderedProgram, and a chunk goes behind what has come    *)
(* out of the chunks before it.                                            *)
(*                                                                         *)
(* The calling thread queues copies and kernels on a lane's stream and     *)
(* waits for the stream when it compacts a batch, before it takes the      *)
(* results and before it frees the lane.  A record is the index of the     *)
(* point it was made from; a summary is the points that were counted.      *)
(***************************************************************************)
EXTENDS OrderedProgram, FiniteSets

CONSTANT Translations   \* the translations to carry out

Operations ==
    [kind : {"predicate", "decimation", "head", "tail"}, keep : SUBSET Nat,
     step : Nat, offset : Nat, limit : Nat, count : Nat, invert : BOOLEAN]

TranslationsAssumption ==
    /\ Translations # {}
    /\ \A t \in Translations :
          /\ t.ordered \in BOOLEAN
          /\ t.operations \in Seq(Operations)
          /\ t.points \in Nat
          /\ t.chunkPoints \in Nat
          /\ t.points > 0 => t.chunkPoints > 0
          /\ t.schedulerLanes \in Nat

Schedule == INSTANCE TiledSchedule WITH SizeMax <- Unlimited

TranslationOf(ordered, operations, mode, points, chunkPoints, lanes) ==
    [ordered |-> ordered, operations |-> operations, mode |-> mode,
     points |-> points, chunkPoints |-> Least(chunkPoints, points),
     schedulerLanes |-> lanes]

\* makeTiledSchedule is asked without a budget: that only lowers the lanes.
RequestOf(t) ==
    [itemCount |-> t.points, tileItems |-> t.chunkPoints,
     requestedLanes |-> t.schedulerLanes,
     serialDependency |-> \E i \in DOMAIN t.operations :
                             IsOrdinal(t.operations[i]),
     bytesPerLane |-> 0, memoryBudgetBytes |-> 0]

VARIABLES
    translation,
    caller,             \* what the calling thread does
    sequence,           \* the chunk that is next, or in its hands
    operation,          \* the operation that is next
    ordinalStates,
    pending,            \* the lanes whose results have not been taken
    laneSequence,       \* the chunk in each lane
    laneCount,          \* the records of its result
    pinned,             \* the pinned buffers of each lane
    device,             \* its device buffers
    stream,             \* the work queued on it
    lanesAlive,
    hostSummary, emittedPointCount,
    sunk,               \* what the sink has got, by place
    headerSunk          \* the header's count and summary

callerVars == <<caller, sequence, operation, ordinalStates>>
laneVars == <<pending, laneSequence, laneCount>>
sunkVars == <<hostSummary, emittedPointCount, sunk, headerSunk>>
translationVars == <<translation, callerVars, laneVars, pinned, device, stream,
                     lanesAlive, sunkVars>>

ChunksOf(t) == Schedule!TileCountOf(RequestOf(t))
ChunkCount == ChunksOf(translation)
LanesOf(t) == 0 .. Schedule!ActiveLanes(RequestOf(t)) - 1
TheLane == Schedule!LaneFor(sequence, Cardinality(LanesOf(translation)))
FirstOf(chunk) == Schedule!TileFirst(chunk, translation.chunkPoints)
ChunkOf(t, n) ==
    [i \in 1 .. Schedule!TileSize(n, t.points, t.chunkPoints)
        |-> Schedule!TileFirst(n, t.chunkPoints) + i - 1]
Chunk(n) == ChunkOf(translation, n)

Unwritten == -1
Garbage == <<Unwritten>>
RecordIn(buffer, i) == IF i \in DOMAIN buffer THEN buffer[i] ELSE Unwritten
InitialSummary == <<>>
NoHeader == [count |-> Unwritten, summary |-> Garbage]

TranslationStart(t, state) ==
    /\ translation = t
    /\ caller = state
    /\ sequence = 0
    /\ operation = 1
    /\ ordinalStates = OrdinalStates(t.operations, t.mode, t.points)
    /\ pending = {}
    /\ laneSequence = [l \in LanesOf(t) |-> 0]
    /\ laneCount = laneSequence
    /\ pinned = [l \in LanesOf(t) |->
          [input |-> Garbage, output |-> Garbage, summary |-> Garbage]]
    /\ device = [l \in LanesOf(t) |->
          [input |-> Garbage, output |-> Garbage, filtered |-> Garbage,
           batch |-> Garbage, summary |-> Garbage]]
    /\ stream = [l \in LanesOf(t) |-> <<>>]
    /\ lanesAlive = LanesOf(t)
    /\ hostSummary = InitialSummary
    /\ emittedPointCount = 0
    /\ sunk = [place \in 0 .. t.points - 1 |-> Unwritten]
    /\ headerSunk = NoHeader

SomeTranslation == CHOOSE t \in Translations : TRUE
TranslationIdle == TranslationStart(SomeTranslation, "idle")
TranslationInit == \E t \in Translations : TranslationStart(t, "filling")

-----------------------------------------------------------------------------
(***************************************************************************)
(* The calling thread.  An upload remembers what it is meant to copy.      *)
(***************************************************************************)
Work(kind) == [kind |-> kind, meant |-> <<>>]
UploadInput(chunk) == [kind |-> "input", meant |-> chunk]
UploadSummary == [kind |-> "reset", meant |-> InitialSummary]

Download == <<Work("results"), Work("summary")>>

\* Fault: results are taken as soon as they are asked for.
TakesAtOnce(l) == TRUE

\* cudaStreamSynchronize.
Synchronized(l) == stream[l] = <<>>

\* Fault: the ordered form, too, puts a chunk where it would be unfiltered.
PlaceOfChunk(l) == FirstOf(laneSequence[l])

PlaceFor(l) == IF translation.ordered THEN emittedPointCount
                                      ELSE FirstOf(laneSequence[l])

\* finish: the sink copies the records before it returns.
Finish(l) ==
    /\ l \in pending
    /\ Synchronized(l)
    /\ sunk' = [place \in DOMAIN sunk |->
          LET i == place - PlaceFor(l) + 1
          IN  IF i \in 1 .. laneCount[l] THEN RecordIn(pinned[l].output, i)
                                         ELSE sunk[place]]
    /\ hostSummary' = hostSummary \o pinned[l].summary
    /\ emittedPointCount' = emittedPointCount + laneCount[l]
    /\ pending' = pending \ {l}
    /\ UNCHANGED <<translation, callerVars, laneSequence, laneCount, pinned,
                   device, stream, lanesAlive, headerSunk>>

FinishLane ==
    /\ caller = "filling"
    /\ sequence < ChunkCount
    /\ Finish(TheLane)

InLane(l, count) ==
    /\ pending' = pending \cup {l}
    /\ laneSequence' = [laneSequence EXCEPT ![l] = sequence]
    /\ laneCount' = [laneCount EXCEPT ![l] = count]
    /\ sequence' = sequence + 1

UploadOf(chunk) ==
    <<UploadInput(chunk), UploadSummary, Work("translate")>>
    \o (IF translation.ordered THEN <<Work("decode")>> ELSE Download)

\* The pinned buffers are filled when the lane's results have been taken.
Filling ==
    /\ caller = "filling"
    /\ sequence < ChunkCount
    /\ TheLane \notin pending
    /\ pinned' = [pinned EXCEPT ![TheLane].input = Chunk(sequence),
                                ![TheLane].summary = InitialSummary]

FillLane ==
    /\ Filling
    /\ stream' = [stream EXCEPT ![TheLane] = @ \o UploadOf(Chunk(sequence))]
    /\ IF translation.ordered
       THEN /\ caller' = "operating"
            /\ operation' = 1
            /\ UNCHANGED <<sequence, laneVars>>
       ELSE /\ InLane(TheLane, Len(Chunk(sequence)))
            /\ UNCHANGED <<caller, operation>>
    /\ UNCHANGED <<translation, ordinalStates, device, lanesAlive, sunkVars>>

\* The mask of one operation is made and the batch compacted by it, which waits
\* for the number of points that are left.
Operate ==
    LET l == TheLane
        op == translation.operations[operation]
        state == ordinalStates[operation]
    IN  /\ caller = "operating"
        /\ operation <= Len(translation.operations)
        /\ Synchronized(l)
        /\ device' = [device EXCEPT ![l].batch = Survivors(op, state, @)]
        /\ ordinalStates' = [ordinalStates EXCEPT ![operation] =
              StateAfter(op, @, device[l].batch)]
        /\ operation' = operation + 1
        /\ UNCHANGED <<translation, caller, sequence, laneVars, pinned, stream,
                       lanesAlive, sunkVars>>

\* active->size()
Left == IF operation = 1 THEN Len(Chunk(sequence))
                         ELSE Len(device[TheLane].batch)

\* Fault: the points counted before the operations stay counted.
ResultsAlone ==
    IF Left = 0 THEN <<Work("summary")>>
    ELSE <<Work("gather"), Work("summarize")>> \o Download

ResultsOf ==
    IF Left = 0 THEN <<UploadSummary, Work("summary")>>
    ELSE <<Work("gather"), UploadSummary, Work("summarize")>> \o Download

\* The initial summary is written to the pinned buffer a second time.
Queueing ==
    /\ caller = "operating"
    /\ operation > Len(translation.operations)
    /\ pinned' = [pinned EXCEPT ![TheLane].summary = InitialSummary]

QueueResults ==
    /\ Queueing
    /\ stream' = [stream EXCEPT ![TheLane] = @ \o ResultsOf]
    /\ InLane(TheLane, Left)
    /\ caller' = "filling"
    /\ UNCHANGED <<translation, operation, ordinalStates, device, lanesAlive,
                   sunkVars>>

\* Fault: the lanes are finished as they stand.
ByLane(l) == \A other \in pending : l <= other

\* Which of the pending lanes is finished next when every chunk is queued.
NextToFinish(l) ==
    \A other \in pending :
        IF translation.ordered THEN laneSequence[l] <= laneSequence[other]
                               ELSE l <= other

FinishPending ==
    /\ caller = "filling"
    /\ sequence = ChunkCount
    /\ \E l \in pending : NextToFinish(l) /\ Finish(l)

WriteHeader ==
    /\ caller = "filling"
    /\ sequence = ChunkCount
    /\ pending = {}
    /\ headerSunk' =
          [count |-> IF translation.ordered THEN emittedPointCount
                                            ELSE translation.points,
           summary |-> hostSummary]
    /\ caller' = "returning"
    /\ UNCHANGED <<translation, sequence, operation, ordinalStates, laneVars,
                   pinned, device, stream, lanesAlive, hostSummary,
                   emittedPointCount, sunk>>

\* A copy or a kernel is refused with some of the work before it queued.
QueueFails ==
    /\ \/ /\ Filling
          /\ \E n \in 0 .. Len(UploadOf(Chunk(sequence))) - 1 :
                stream' = [stream EXCEPT ![TheLane] =
                              @ \o SubSeq(UploadOf(Chunk(sequence)), 1, n)]
       \/ /\ Queueing
          /\ \E n \in 0 .. Len(ResultsOf) - 1 :
                stream' = [stream EXCEPT ![TheLane] = @ \o SubSeq(ResultsOf, 1, n)]
    /\ caller' = "throwing"
    /\ UNCHANGED <<translation, sequence, operation, ordinalStates, laneVars,
                   device, lanesAlive, sunkVars>>

\* The device reports an error, the sink fails, or there is no memory.
TranslationFails ==
    /\ caller \in {"filling", "operating"}
    /\ caller' = "throwing"
    /\ UNCHANGED <<translation, sequence, operation, ordinalStates, laneVars,
                   pinned, device, stream, lanesAlive, sunkVars>>

\* Fault: the pinned buffers go before the device resource has waited.
FreesAtOnce(l) == TRUE

\* The members of a lane are destroyed from the last on: the resource that owns
\* the stream waits for it before the pinned buffers are freed.
MayFreeLane(l) == stream[l] = <<>>

DestroyLane ==
    /\ caller \in {"returning", "throwing"}
    /\ \E l \in lanesAlive : MayFreeLane(l) /\ lanesAlive' = lanesAlive \ {l}
    /\ UNCHANGED <<translation, callerVars, laneVars, pinned, device, stream,
                   sunkVars>>

TranslationReturns ==
    /\ caller \in {"returning", "throwing"}
    /\ lanesAlive = {}
    /\ caller' = IF caller = "returning" THEN "returned" ELSE "threw"
    /\ UNCHANGED <<translation, sequence, operation, ordinalStates, laneVars,
                   pinned, device, stream, lanesAlive, sunkVars>>

TranslationOver == caller \in {"returned", "threw"} /\ UNCHANGED translationVars

-----------------------------------------------------------------------------
(***************************************************************************)
(* The device carries out the first work of a stream.                      *)
(***************************************************************************)
IsWork(l, kind) == stream[l][1].kind = kind

OnDevice(l) ==
    LET d == device[l]
    IN  CASE IsWork(l, "input") -> [d EXCEPT !.input = pinned[l].input]
          [] IsWork(l, "reset") -> [d EXCEPT !.summary = pinned[l].summary]
          [] IsWork(l, "translate") -> [d EXCEPT !.output = d.input,
                                               !.summary = @ \o d.input]
          [] IsWork(l, "decode") -> [d EXCEPT !.batch = d.output]
          [] IsWork(l, "gather") -> [d EXCEPT !.filtered = d.batch]
          [] IsWork(l, "summarize") -> [d EXCEPT !.summary = @ \o d.filtered]
          [] OTHER -> d

InPinned(l) ==
    CASE IsWork(l, "results") ->
            [pinned[l] EXCEPT !.output = IF translation.ordered
                                         THEN device[l].filtered
                                         ELSE device[l].output]
      [] IsWork(l, "summary") -> [pinned[l] EXCEPT !.summary = device[l].summary]
      [] OTHER -> pinned[l]

DeviceWorks ==
    \E l \in LanesOf(translation) :
        /\ stream[l] # <<>>
        /\ device' = [device EXCEPT ![l] = OnDevice(l)]
        /\ pinned' = [pinned EXCEPT ![l] = InPinned(l)]
        /\ stream' = [stream EXCEPT ![l] = Tail(@)]
        /\ UNCHANGED <<translation, callerVars, laneVars, lanesAlive, sunkVars>>

-----------------------------------------------------------------------------
TranslationCallerStep ==
    FinishLane \/ FillLane \/ Operate \/ QueueResults \/ FinishPending
    \/ WriteHeader \/ QueueFails \/ TranslationFails \/ DestroyLane
    \/ TranslationReturns

\* The state of the call has its type.
TranslationTypeOK ==
    /\ caller \in {"idle", "filling", "operating", "returning", "throwing",
                   "returned", "threw"}
    /\ sequence \in 0 .. ChunkCount
    /\ pending \subseteq LanesOf(translation)
    /\ lanesAlive \subseteq LanesOf(translation)
    /\ emittedPointCount \in 0 .. translation.points
    /\ \A place \in DOMAIN sunk :
          sunk[place] \in Unwritten .. translation.points - 1

\* The records of the file, as PDAL's filters leave them.
Expected ==
    IF translation.ordered
    THEN Reference(translation.operations, translation.mode,
                   FirstPoints(translation.points))
    ELSE FirstPoints(translation.points)

\* TranslatedWhole: what the sink has got is in its place at all times, whatever
\* fails; when the call returns the file is whole, and its header counts each of
\* its records, and nothing else, once.
TranslatedWhole ==
    /\ \A place \in DOMAIN sunk : sunk[place] # Unwritten =>
          place < Len(Expected) /\ sunk[place] = Expected[place + 1]
    /\ caller = "returned" =>
          /\ \A place \in 0 .. Len(Expected) - 1 : sunk[place] # Unwritten
          /\ headerSunk.count = Len(Expected)
          /\ Len(headerSunk.summary) = Len(Expected)
          /\ ToSet(headerSunk.summary) = ToSet(Expected)

\* BuffersIntact: a queued copy finds in the pinned buffer what it was queued
\* for, and the buffers of a lane are there as long as there is work on its
\* stream.
BuffersIntact ==
    \A l \in LanesOf(translation) :
        /\ \A i \in DOMAIN stream[l] :
              /\ stream[l][i].kind = "input" =>
                    pinned[l].input = stream[l][i].meant
              /\ stream[l][i].kind = "reset" =>
                    pinned[l].summary = stream[l][i].meant
        /\ l \notin lanesAlive => stream[l] = <<>>

-----------------------------------------------------------------------------
(***************************************************************************)
(* What the ordered form makes of the chunks when it takes them one after  *)
(* another, without lanes.                                                 *)
(***************************************************************************)
\* What is left of chunk at[1] when operation at[2] is next, and that
\* operation's state then.
Progress(t) ==
    LET done[at \in (0 .. ChunksOf(t)) \X (1 .. Len(t.operations) + 1)] ==
            [batch |-> IF at[2] = 1 THEN ChunkOf(t, at[1])
                       ELSE Survivors(t.operations[at[2] - 1],
                                      done[<<at[1], at[2] - 1>>].state,
                                      done[<<at[1], at[2] - 1>>].batch),
             state |-> IF at[2] > Len(t.operations) THEN Unwritten
                       ELSE IF at[1] = 0
                       THEN OrdinalStates(t.operations, t.mode, t.points)[at[2]]
                       ELSE StateAfter(t.operations[at[2]],
                                       done[<<at[1] - 1, at[2]>>].state,
                                       done[<<at[1] - 1, at[2]>>].batch)]
    IN  done

\* What is left of chunk n in the end.
LeftOf(t, n) == Progress(t)[<<n, Len(t.operations) + 1>>].batch

\* Where the records of chunk n go: behind those of the chunks before it.
PlacesOf(t) ==
    LET place[n \in 0 .. ChunksOf(t)] ==
            IF n = 0 THEN 0 ELSE place[n - 1] + Len(LeftOf(t, n - 1))
    IN  place

\* ChunksCarried: chunk after chunk, the operations leave what PDAL's filters
\* leave of the whole input, in its order.
ChunksCarried(t) ==
    LET chunks == 0 .. ChunksOf(t) - 1
        progress == Progress(t)
        places == PlacesOf(t)
        reference == Reference(t.operations, t.mode, FirstPoints(t.points))
    IN  /\ \A i \in DOMAIN t.operations :
              /\ progress[<<0, i>>].state =
                    OrdinalStates(t.operations, t.mode, t.points)[i]
              /\ \A n \in chunks :
                    /\ progress[<<n, i + 1>>].batch =
                          Survivors(t.operations[i], progress[<<n, i>>].state,
                                    progress[<<n, i>>].batch)
                    /\ progress[<<n + 1, i>>].state =
                          StateAfter(t.operations[i], progress[<<n, i>>].state,
                                     progress[<<n, i>>].batch)
        /\ \A n \in chunks :
              /\ progress[<<n, 1>>].batch = ChunkOf(t, n)
              /\ LeftOf(t, n) \in Seq(Nat)
              /\ places[n + 1] = places[n] + Len(LeftOf(t, n))
              /\ \A i \in DOMAIN LeftOf(t, n) :
                    reference[places[n] + i] = LeftOf(t, n)[i]
        /\ places \in [0 .. ChunksOf(t) -> 0 .. t.points]
        /\ places[0] = 0
        /\ places[ChunksOf(t)] = Len(reference)
        /\ reference \in Seq(0 .. t.points - 1)

CarriedAssumption ==
    \A t \in Translations : t.ordered => ChunksCarried(t)
=============================================================================
