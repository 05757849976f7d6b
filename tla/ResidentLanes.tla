--------------------------- MODULE ResidentLanes ---------------------------
(***************************************************************************)
(* One tiled region of a ResidentExecutionContext running on its lanes     *)
(* (src/src/pdal/PdgResidentContext.cpp: class Lane and the tile calls of  *)
(* Impl).  The view is cut into tiles; tile t is served by lane            *)
(* t % LaneCount.  A lane owns one pinned host buffer, one packed device   *)
(* buffer, a keep mask, the device columns of its PointBatch and one CUDA  *)
(* stream.  The host only ENQUEUES device work: it happens later, in the   *)
(* order of the lane's stream and in any order with the other lanes and    *)
(* with the host.                                                          *)
(*                                                                         *)
(* A point is its position in the view.  A value remembers the cells it    *)
(* was computed from (src) and the stages that took part in it (via), so a *)
(* result that mixes tiles, misses a stage or reads a retired column       *)
(* differs from the right one.                                             *)
(***************************************************************************)
EXTENDS ViewOrder, RegionPlan

CONSTANTS
    PointCount,         \* m_pointCount, fixed by preflight
    TilePointCapacity,  \* m_tilePointCapacity
    LaneCount,          \* m_lanes.size()
    StageIds,           \* identifiers of planned stages
    Regions             \* the regions the context may be asked to run

ASSUME LanesAssumption ==
    /\ PointCount \in Nat \ {0}
    /\ TilePointCapacity \in Nat \ {0}
    /\ LaneCount \in Nat \ {0}

Schedule == INSTANCE TiledSchedule WITH SizeMax <- PointCount

Capacity  == Schedule!Smaller(TilePointCapacity, PointCount)
TileCount == Schedule!TilesFor(PointCount, Capacity)
Positions == 0 .. PointCount - 1
Lanes     == 0 .. LaneCount - 1
Tiles     == 0 .. TileCount - 1
LaneOf(tile) == Schedule!LaneFor(tile, LaneCount)

\* The points of a tile: m_offset and the m_count that Lane::acquire takes.
TilePoints(tile) == Schedule!TileItems(tile, PointCount, Capacity)

-----------------------------------------------------------------------------
Value == [src : SUBSET (Positions \X Dims), via : SUBSET StageIds]

\* Uninitialized memory: no computation of the program has this value.
Junk == [src |-> {}, via |-> {}]

Original == [p \in Positions |-> [d \in Dims |-> [src |-> {<<p, d>>},
                                                  via |-> {}]]]

(***************************************************************************)
(* A planned stage as the executor uses it.  An assignment computes every  *)
(* dimension of "writes" from the dimensions of "reads"; a predicate       *)
(* writes the keep mask instead.                                           *)
(***************************************************************************)
PlannedStage ==
    [id : StageIds, predicate : BOOLEAN,
     reads : SUBSET Dims, writes : SUBSET Dims,
     deviceLiveBefore : SUBSET Dims, deviceMaterialize : SUBSET Dims,
     deviceRelease : SUBSET Dims]

\* releaseDimensions: retired by the spill boundary.  liveAfter: what the rest
\* of the pipeline reads.  deviceColumns: the planner's peak of resident
\* columns.  keep: the points the region's predicate is true of.
Region ==
    [stages : Seq(PlannedStage), releaseDimensions : SUBSET Dims,
     liveAfter : SUBSET Dims, deviceColumns : Nat, compacts : BOOLEAN,
     keep : SUBSET Positions]

ASSUME RegionsAssumption == Regions \subseteq Region

Computed(stage, record) ==
    [src |-> UNION {record[d].src : d \in stage.reads},
     via |-> {stage.id} \cup UNION {record[d].via : d \in stage.reads}]

\* executeAssign on one point.
Assign(stage, record) ==
    [d \in Dims |-> IF d \in stage.writes THEN Computed(stage, record)
                                          ELSE record[d]]

\* evaluatePredicate on one point.
Keeps(region, stage, record) ==
    \A cell \in UNION {record[d].src : d \in stage.reads} :
        cell[1] \in region.keep

-----------------------------------------------------------------------------
Slots == 0 .. Capacity - 1
SlotsOf(tile) == 0 .. Schedule!TileSize(tile, PointCount, Capacity) - 1
PointAt(tile, slot) == Schedule!TileFirst(tile, Capacity) + slot

\* A tile-sized buffer of records, packed or as columns.
Buffer == [Slots -> [Dims -> Value]]

\* Work a lane has queued on its stream and the device has not done yet.
Op == [kind : {"upload", "unpack", "compute", "repack", "spill", "spillMask"},
       tile : Tiles, dims : SUBSET Dims, stage : Nat]

VARIABLES
    \* Impl
    m_state,            \* where the context is in the life of a region
    region,             \* the active region (m_activeStages, m_activeOutput)
    view,               \* the rows of the PointView, by position
    output,             \* the points appended to the compaction output
    m_nextTile,
    m_submittedTiles,
    phase,              \* how far the caller is with the current stage
    error,              \* the exception that is unwinding the context
    \* Lane, host side
    m_pending, m_acquired, m_maskValid, m_workQueued,
    m_pendingTileIndex, m_nextStage,
    m_writtenColumns,
    has,                \* the columns the lane's PointBatch holds
    alive,              \* the lane has not been destroyed
    \* Lane, device side
    stream, m_hostPacked, m_devicePacked, columns, m_hostMask, m_deviceMask,
    \* history
    start,              \* the view when the region began
    drained             \* how many tiles have been published

hostVars   == <<m_pending, m_acquired, m_maskValid, m_workQueued,
                m_pendingTileIndex, m_nextStage, m_writtenColumns, has>>
deviceVars == <<m_devicePacked, columns, m_deviceMask>>
spillVars  == <<m_hostPacked, m_hostMask>>
viewVars   == <<view, output, drained>>
tileVars   == <<m_nextTile, m_submittedTiles, phase>>
regionVars == <<m_state, region, start>>
vars == <<hostVars, deviceVars, spillVars, viewVars, tileVars, regionVars,
          stream, alive, error>>

States == {"Empty", "AwaitingRegion", "RegionActive", "RegionComplete",
           "HostMaterialized"}

\* What a lane's stream may hold in the active region.
QueuedOp == {op \in Op : op.kind = "compute" =>
                              op.stage \in DOMAIN region.stages}

ControlTypes ==
    /\ m_state \in States
    /\ region \in Region
    /\ m_nextTile \in 0 .. TileCount
    /\ m_submittedTiles \in 0 .. TileCount
    /\ drained \in 0 .. TileCount
    /\ phase \in {"idle", "begun", "ran"}
    /\ error \in {"none", "environment", "plan", "caller"}
    /\ m_pending \in [Lanes -> BOOLEAN]
    /\ m_acquired \in [Lanes -> BOOLEAN]
    /\ m_maskValid \in [Lanes -> BOOLEAN]
    /\ m_workQueued \in [Lanes -> BOOLEAN]
    /\ alive \in [Lanes -> BOOLEAN]
    /\ m_pendingTileIndex \in [Lanes -> Nat]
    /\ m_nextStage \in [Lanes -> Nat]
    /\ m_writtenColumns \in [Lanes -> SUBSET Dims]
    /\ has \in [Lanes -> SUBSET Dims]
    /\ stream \in [Lanes -> Seq(QueuedOp)]

DataTypes ==
    /\ view \in [Positions -> [Dims -> Value]]
    /\ start \in [Positions -> [Dims -> Value]]
    /\ output \in Seq(Positions)
    /\ m_hostPacked \in [Lanes -> Buffer]
    /\ m_devicePacked \in [Lanes -> Buffer]
    /\ columns \in [Lanes -> Buffer]
    /\ m_hostMask \in [Lanes -> [Slots -> BOOLEAN]]
    /\ m_deviceMask \in [Lanes -> [Slots -> BOOLEAN]]

TypeOK == ControlTypes /\ DataTypes

\* Lanes as initializeLanes and probeAllocations leave them: empty, idle.
FreshLanes ==
    /\ m_pending = [l \in Lanes |-> FALSE]
    /\ m_acquired = [l \in Lanes |-> FALSE]
    /\ m_maskValid = [l \in Lanes |-> FALSE]
    /\ m_workQueued = [l \in Lanes |-> FALSE]
    /\ m_pendingTileIndex = [l \in Lanes |-> 0]
    /\ m_nextStage = [l \in Lanes |-> 0]
    /\ m_writtenColumns = [l \in Lanes |-> {}]
    /\ has = [l \in Lanes |-> {}]
    /\ alive = [l \in Lanes |-> TRUE]
    /\ stream = [l \in Lanes |-> <<>>]
    /\ m_hostPacked = [l \in Lanes |-> [s \in Slots |-> [d \in Dims |-> Junk]]]
    /\ m_devicePacked = m_hostPacked
    /\ columns = m_hostPacked
    /\ m_hostMask = [l \in Lanes |-> [s \in Slots |-> FALSE]]
    /\ m_deviceMask = m_hostMask

\* A region has just begun on a fresh view.
Init ==
    /\ FreshLanes
    /\ m_state = "RegionActive"
    /\ region \in Regions
    /\ view = Original
    /\ start = Original
    /\ output = <<>>
    /\ m_nextTile = 0
    /\ m_submittedTiles = 0
    /\ drained = 0
    /\ phase = "idle"
    /\ error = "none"

-----------------------------------------------------------------------------
\* The host may call: no exception is unwinding the context.
Running == error = "none" /\ m_state = "RegionActive"

Enqueue(l, ops) == stream' = [stream EXCEPT ![l] = @ \o ops]

Queued(kind, tile, dims, stage) ==
    [kind |-> kind, tile |-> tile, dims |-> dims, stage |-> stage]

\* Fault: the event recorded before the mask copy.
EventBeforeMask(l) ==
    \A i \in DOMAIN stream[l] : stream[l][i].kind = "spillMask"

\* cudaEventSynchronize(m_completion): the event is recorded after the last
\* operation of the tile, so it is complete when the stream is empty.
Synchronized(l) == stream[l] = <<>>

\* Fault: drain ignores the keep mask.
EverySlot(l) == SlotsOf(m_pendingTileIndex[l])

\* The slots of the pending tile of lane l that drain publishes.
KeptSlots(l) ==
    {s \in SlotsOf(m_pendingTileIndex[l]) : m_maskValid[l] => m_hostMask[l][s]}

PublishedRecord(l, point, slot) ==
    [d \in Dims |-> IF d \in m_writtenColumns[l] THEN m_hostPacked[l][slot][d]
                                                 ELSE view[point][d]]

\* The view and the output after Lane::drain of lane l.
DrainedView(l) ==
    [p \in Positions |->
        LET slot == p - PointAt(m_pendingTileIndex[l], 0)
        IN  IF m_pending[l] /\ slot \in KeptSlots(l)
            THEN PublishedRecord(l, p, slot)
            ELSE view[p]]

DrainedOutput(l) ==
    IF m_pending[l] /\ region.compacts
    THEN output \o InSourceOrder({PointAt(m_pendingTileIndex[l], slot) :
                                     slot \in KeptSlots(l)})
    ELSE output

\* Fault: an idle lane counts as drained.
AlwaysCounted(l) == drained + 1

DrainedTiles(l) == IF m_pending[l] THEN drained + 1 ELSE drained

(***************************************************************************)
(* Impl::acquireTile: drain the lane's previous tile, retire its spilled   *)
(* columns, then Lane::acquire packs the next tile and queues its upload.  *)
(***************************************************************************)
Acquiring(l) ==
    /\ Running
    /\ m_nextTile < TileCount
    /\ l = LaneOf(m_nextTile)
    /\ m_pending[l] => Synchronized(l)
    /\ ~m_acquired[l]

\* What the call does before it queues the upload.
Refill(l) ==
    /\ view' = DrainedView(l)
    /\ output' = DrainedOutput(l)
    /\ drained' = DrainedTiles(l)
    /\ m_hostPacked' = [m_hostPacked EXCEPT ![l] =
          [s \in Slots |-> IF s \in SlotsOf(m_nextTile)
                           THEN DrainedView(l)[PointAt(m_nextTile, s)]
                           ELSE @[s]]]
    /\ has' = [has EXCEPT ![l] = @ \ region.releaseDimensions]
    /\ m_pending' = [m_pending EXCEPT ![l] = FALSE]
    /\ m_maskValid' = [m_maskValid EXCEPT ![l] = FALSE]
    /\ m_pendingTileIndex' = [m_pendingTileIndex EXCEPT ![l] = m_nextTile]
    /\ m_writtenColumns' = [m_writtenColumns EXCEPT ![l] = {}]

AcquireTile ==
    \E l \in Lanes :
        /\ Acquiring(l)
        /\ Refill(l)
        /\ Enqueue(l, <<Queued("upload", m_nextTile, {}, 0)>>)
        /\ m_acquired' = [m_acquired EXCEPT ![l] = TRUE]
        /\ m_workQueued' = [m_workQueued EXCEPT ![l] = TRUE]
        /\ m_nextStage' = [m_nextStage EXCEPT ![l] = 0]
        /\ m_nextTile' = m_nextTile + 1
        /\ UNCHANGED <<m_submittedTiles, phase, error, alive, m_hostMask,
                       deviceVars, regionVars>>

\* The upload cannot be queued: the previous tile has been published, and the
\* lane has neither tile.
AcquireFails ==
    \E l \in Lanes :
        /\ Acquiring(l)
        /\ Refill(l)
        /\ error' = "environment"
        /\ UNCHANGED <<m_acquired, m_workQueued, m_nextStage, tileVars, alive,
                       stream, m_hostMask, deviceVars, regionVars>>

\* A caller that acquires ahead of every lane is refused, but only after the
\* call has retired the lane's spilled columns under its unfinished tile.
RefuseAcquire ==
    LET l == LaneOf(m_nextTile)
    IN  /\ Running
        /\ m_nextTile < TileCount
        /\ m_acquired[l]
        /\ has' = [has EXCEPT ![l] = @ \ region.releaseDimensions]
        /\ error' = "caller"
        /\ UNCHANGED <<m_pending, m_acquired, m_maskValid, m_workQueued,
                       m_pendingTileIndex, m_nextStage, m_writtenColumns,
                       tileVars, alive, stream,
                       deviceVars, spillVars, viewVars, regionVars>>

-----------------------------------------------------------------------------
\* Fault: any acquired lane is taken for the one of the tile.
AnyAcquired(l) == Running /\ m_submittedTiles < m_nextTile /\ m_acquired[l]

(***************************************************************************)
(* The tile being computed is m_submittedTiles: every stage and submit     *)
(* call names it, and the context refuses any other.                       *)
(***************************************************************************)
Computing(l) ==
    /\ Running
    /\ m_submittedTiles < m_nextTile
    /\ l = LaneOf(m_submittedTiles)
    /\ m_acquired[l]

CurrentStage(l) == region.stages[m_nextStage[l] + 1]

\* Lane::beginStage unpacks the columns the PointBatch does not hold yet, and
\* the two checks it and Impl make: the plan's live inputs are there, and the
\* lane holds no more than the planner estimated.
BeginStage ==
    \E l \in Lanes :
        /\ Computing(l)
        /\ phase = "idle"
        /\ m_nextStage[l] < Len(region.stages)
        /\ LET stage    == CurrentStage(l)
               missing  == stage.deviceMaterialize \ has[l]
               held     == has[l] \cup stage.deviceMaterialize
               accepted == /\ stage.deviceLiveBefore \subseteq held
                           /\ Cardinality(held) <= region.deviceColumns
           IN  /\ has' = [has EXCEPT ![l] = held]
               /\ Enqueue(l, IF missing = {} THEN <<>>
                             ELSE <<Queued("unpack", m_submittedTiles,
                                           missing, 0)>>)
               /\ phase' = IF accepted THEN "begun" ELSE phase
               /\ error' = IF accepted THEN error ELSE "plan"
        /\ UNCHANGED <<m_pending, m_acquired, m_maskValid, m_workQueued,
                       m_pendingTileIndex, m_nextStage, m_writtenColumns,
                       m_nextTile, m_submittedTiles, alive,
                       deviceVars, spillVars, viewVars, regionVars>>

\* executeAssign or evaluatePredicate between beginStage and endStage.
RunStage ==
    \E l \in Lanes :
        /\ Computing(l)
        /\ phase = "begun"
        /\ Enqueue(l, <<Queued("compute", m_submittedTiles, {},
                               m_nextStage[l] + 1)>>)
        /\ phase' = "ran"
        /\ UNCHANGED <<m_nextTile, m_submittedTiles, error, alive, hostVars,
                       deviceVars, spillVars, viewVars, regionVars>>

EndStage ==
    \E l \in Lanes :
        /\ Computing(l)
        /\ phase = "ran"
        /\ has' = [has EXCEPT ![l] = @ \ CurrentStage(l).deviceRelease]
        /\ m_nextStage' = [m_nextStage EXCEPT ![l] = @ + 1]
        /\ phase' = "idle"
        /\ UNCHANGED <<m_pending, m_acquired, m_maskValid, m_workQueued,
                       m_pendingTileIndex, m_writtenColumns,
                       m_nextTile, m_submittedTiles, error, alive, stream,
                       deviceVars, spillVars, viewVars, regionVars>>

(***************************************************************************)
(* Impl::submitTile: the written columns that are still on the device are  *)
(* repacked and the packed tile, with its mask, is copied to the pinned    *)
(* buffers; the completion event follows them.                             *)
(***************************************************************************)
Submitting(l) ==
    /\ Computing(l)
    /\ phase = "idle"
    /\ m_nextStage[l] = Len(region.stages)

WrittenBack(l) == WrittenDims(region) \cap has[l]

SubmitOps(l) ==
    <<Queued("repack", m_submittedTiles, WrittenBack(l), 0),
      Queued("spill", m_submittedTiles, {}, 0)>>
    \o (IF region.compacts
        THEN <<Queued("spillMask", m_submittedTiles, {}, 0)>> ELSE <<>>)

SubmitTile ==
    \E l \in Lanes :
        /\ Submitting(l)
        /\ Enqueue(l, SubmitOps(l))
        /\ m_writtenColumns' = [m_writtenColumns EXCEPT ![l] = WrittenBack(l)]
        /\ m_maskValid' = [m_maskValid EXCEPT ![l] = region.compacts]
        /\ m_pending' = [m_pending EXCEPT ![l] = TRUE]
        /\ m_acquired' = [m_acquired EXCEPT ![l] = FALSE]
        /\ m_submittedTiles' = m_submittedTiles + 1
        /\ UNCHANGED <<m_workQueued, m_pendingTileIndex, m_nextStage, has,
                       m_nextTile, phase, error, alive,
                       deviceVars, spillVars, viewVars, regionVars>>

\* A copy or the event is refused after some of the work was queued: the lane
\* keeps the tile and never gets its completion event.
SubmitFails ==
    \E l \in Lanes :
        /\ Submitting(l)
        /\ \E n \in DOMAIN SubmitOps(l) :
              Enqueue(l, SubSeq(SubmitOps(l), 1, n))
        /\ error' = "environment"
        /\ UNCHANGED <<hostVars, tileVars, alive, deviceVars, spillVars,
                       viewVars, regionVars>>

-----------------------------------------------------------------------------
\* Impl::endRegion, once every tile is submitted.
Ending == /\ Running
          /\ m_nextTile = TileCount
          /\ m_submittedTiles = TileCount

\* Faults: the sort is dropped; its comparison is strict.
AnyPending(l) == m_pending[l]
StrictlyOldest(l) ==
    m_pending[l] /\ \A k \in Lanes :
        m_pending[k] => m_pendingTileIndex[l] < m_pendingTileIndex[k]

\* The pending lanes are drained in the order of their tiles.
OldestPending(l) ==
    /\ m_pending[l]
    /\ \A k \in Lanes :
          m_pending[k] => m_pendingTileIndex[l] <= m_pendingTileIndex[k]

DrainPending ==
    \E l \in Lanes :
        /\ Ending
        /\ OldestPending(l)
        /\ Synchronized(l)
        /\ view' = DrainedView(l)
        /\ output' = DrainedOutput(l)
        /\ drained' = DrainedTiles(l)
        /\ m_pending' = [m_pending EXCEPT ![l] = FALSE]
        /\ m_maskValid' = [m_maskValid EXCEPT ![l] = FALSE]
        /\ m_writtenColumns' = [m_writtenColumns EXCEPT ![l] = {}]
        /\ UNCHANGED <<m_acquired, m_workQueued, m_pendingTileIndex,
                       m_nextStage, has, tileVars, error, alive, stream,
                       deviceVars, spillVars, regionVars>>

\* Fault: the sweep over the lanes misses the first one.
LaterLanesDrained == \A l \in Lanes \ {0} : ~m_pending[l]

AllDrained == \A l \in Lanes : ~m_pending[l]

EndRegion ==
    /\ Ending
    /\ AllDrained
    /\ has' = [l \in Lanes |-> has[l] \ region.releaseDimensions]
    /\ m_state' = "RegionComplete"
    /\ UNCHANGED <<m_pending, m_acquired, m_maskValid, m_workQueued,
                   m_pendingTileIndex, m_nextStage, m_writtenColumns,
                   region, start, tileVars, error, alive, stream,
                   deviceVars, spillVars, viewVars>>

\* Anything else fails between two steps: a CUDA call, an allocation, a kernel
\* launch, another stage of the pipeline; the exception unwinds the scope.
Throw ==
    /\ error = "none"
    /\ error' = "environment"
    /\ UNCHANGED <<hostVars, deviceVars, spillVars, viewVars, tileVars,
                   regionVars, stream, alive>>

\* Faults: the wait looks at m_pending; the destructor waits for a drain.
WaitsIfPending(l) == m_pending[l] => stream[l] = <<>>
WaitsForDrain(l) == ~m_pending[l]

\* ~Lane waits for the stream if anything was ever queued on it, then frees.
MayFree(l) == m_workQueued[l] => stream[l] = <<>>

DestroyLane(l) ==
    /\ alive[l]
    /\ MayFree(l)
    /\ alive' = [alive EXCEPT ![l] = FALSE]
    /\ UNCHANGED <<hostVars, deviceVars, spillVars, viewVars, tileVars,
                   regionVars, stream, error>>

-----------------------------------------------------------------------------
(***************************************************************************)
(* The device executes the head of a stream.                               *)
(***************************************************************************)
NextOp(l, kind) == stream[l] # <<>> /\ Head(stream[l]).kind = kind

OnSlots(l, old, new(_)) ==
    [s \in Slots |-> IF s \in SlotsOf(Head(stream[l]).tile) THEN new(s)
                                                            ELSE old[s]]

Executed(l) ==
    /\ stream' = [stream EXCEPT ![l] = Tail(@)]
    /\ UNCHANGED <<hostVars, viewVars, tileVars, regionVars, alive, error>>

\* cudaMemcpyAsync, host to device.
Upload(l) ==
    /\ NextOp(l, "upload")
    /\ m_devicePacked' = [m_devicePacked EXCEPT ![l] =
            OnSlots(l, @, LAMBDA s : m_hostPacked[l][s])]
    /\ Executed(l)
    /\ UNCHANGED <<columns, m_deviceMask, spillVars>>

\* unpackPackedPointBatchDevice
Unpack(l) ==
    /\ NextOp(l, "unpack")
    /\ columns' = [columns EXCEPT ![l] =
            OnSlots(l, @, LAMBDA s :
                [d \in Dims |-> IF d \in Head(stream[l]).dims
                                THEN m_devicePacked[l][s][d]
                                ELSE columns[l][s][d]])]
    /\ Executed(l)
    /\ UNCHANGED <<m_devicePacked, m_deviceMask, spillVars>>

\* The assignment or the predicate of a stage, over the lane's columns.
Compute(l) ==
    LET stage == region.stages[Head(stream[l]).stage]
    IN  /\ NextOp(l, "compute")
        /\ IF stage.predicate
           THEN /\ m_deviceMask' = [m_deviceMask EXCEPT ![l] =
                        OnSlots(l, @, LAMBDA s :
                            Keeps(region, stage, columns[l][s]))]
                /\ UNCHANGED columns
           ELSE /\ columns' = [columns EXCEPT ![l] =
                        OnSlots(l, @, LAMBDA s :
                            Assign(stage, columns[l][s]))]
                /\ UNCHANGED m_deviceMask
        /\ Executed(l)
        /\ UNCHANGED <<m_devicePacked, spillVars>>

\* repackPackedPointBatchDevice
Repack(l) ==
    /\ NextOp(l, "repack")
    /\ m_devicePacked' = [m_devicePacked EXCEPT ![l] =
            OnSlots(l, @, LAMBDA s :
                [d \in Dims |-> IF d \in Head(stream[l]).dims
                                THEN columns[l][s][d]
                                ELSE m_devicePacked[l][s][d]])]
    /\ Executed(l)
    /\ UNCHANGED <<columns, m_deviceMask, spillVars>>

\* cudaMemcpyAsync, device to host: the packed tile.
Spill(l) ==
    /\ NextOp(l, "spill")
    /\ m_hostPacked' = [m_hostPacked EXCEPT ![l] =
            OnSlots(l, @, LAMBDA s : m_devicePacked[l][s])]
    /\ Executed(l)
    /\ UNCHANGED <<m_hostMask, deviceVars>>

\* cudaMemcpyAsync, device to host: the keep mask.
SpillMask(l) ==
    /\ NextOp(l, "spillMask")
    /\ m_hostMask' = [m_hostMask EXCEPT ![l] =
            OnSlots(l, @, LAMBDA s : m_deviceMask[l][s])]
    /\ Executed(l)
    /\ UNCHANGED <<m_hostPacked, deviceVars>>

-----------------------------------------------------------------------------
HostStep == AcquireTile \/ BeginStage \/ RunStage \/ EndStage \/ SubmitTile
            \/ DrainPending \/ EndRegion

DeviceStep(l) == Upload(l) \/ Unpack(l) \/ Compute(l) \/ Repack(l)
                 \/ Spill(l) \/ SpillMask(l)

\* The scope is left: normally once the region is complete, or by exception.
ScopeLeft == error # "none" \/ m_state = "RegionComplete"

Teardown(l) == ScopeLeft /\ DestroyLane(l)

\* Nothing is left to do but to destroy the lanes, which LanesDestroyed checks.
Terminated ==
    /\ ScopeLeft
    /\ \A l \in Lanes : stream[l] = <<>>
    /\ UNCHANGED vars

Next == \/ HostStep
        \/ RefuseAcquire
        \/ AcquireFails \/ SubmitFails
        \/ Throw
        \/ \E l \in Lanes : DeviceStep(l) \/ Teardown(l)
        \/ Terminated

\* The host thread keeps running and every stream keeps draining; nothing
\* obliges an exception to happen.
Fairness ==
    /\ WF_vars(HostStep)
    /\ \A l \in Lanes : WF_vars(DeviceStep(l)) /\ WF_vars(Teardown(l))

Spec == Init /\ [][Next]_vars /\ Fairness

-----------------------------------------------------------------------------
\* IdleLaneQuiet: a lane with work on its stream is never taken for an idle
\* one, so neither Lane::acquire nor the lane's destructor can overlook queued
\* work.
IdleLaneQuiet ==
    \A l \in Lanes : stream[l] # <<>> => m_acquired[l] \/ m_pending[l]

\* NoUseAfterFree: ~Lane never frees buffers that queued device work still
\* uses, whatever exception unwinds the context and however far the lane was.
NoUseAfterFree == \A l \in Lanes : stream[l] # <<>> => alive[l]

\* LaneWindow: the tiles in flight are at most as many as the lanes, and each
\* lane's flags and tile index say exactly which tile it serves: submitted and
\* not yet published tiles are pending, later acquired ones are computing.
LaneWindow ==
    /\ drained <= m_submittedTiles
    /\ m_submittedTiles <= m_nextTile
    /\ m_nextTile - drained <= LaneCount
    /\ \A t \in drained .. m_submittedTiles - 1 :
          m_pending[LaneOf(t)] /\ m_pendingTileIndex[LaneOf(t)] = t
    /\ \A t \in m_submittedTiles .. m_nextTile - 1 :
          m_acquired[LaneOf(t)] /\ m_pendingTileIndex[LaneOf(t)] = t
    /\ \A l \in Lanes :
          m_pending[l] =>
              /\ m_pendingTileIndex[l] \in drained .. m_submittedTiles - 1
              /\ LaneOf(m_pendingTileIndex[l]) = l
    /\ \A l \in Lanes :
          m_acquired[l] =>
              /\ m_pendingTileIndex[l] \in m_submittedTiles .. m_nextTile - 1
              /\ LaneOf(m_pendingTileIndex[l]) = l

\* PublishedInOrder: tiles reach the view, and their survivors the output, in
\* source order, whichever lanes they ran on: acquireTile meets the oldest
\* pending tile and endRegion sorts the rest.
PublishedInOrder ==
    [][\A l \in Lanes :
          m_pending[l] /\ ~m_pending'[l] => m_pendingTileIndex[l] = drained]_vars

\* NothingUnpublished: endRegion never reports a region complete while a tile
\* is still waiting on a lane.
NothingUnpublished ==
    m_state = "RegionComplete" => drained = TileCount

\* PlanAccepted: the planner's column lifetimes and its peak pass the checks
\* that beginStage makes, so a planned region is never refused half way.
PlanAccepted == error # "plan"

\* NoColumnLeft: every device column is retired by a stage or by the spill
\* boundary when endRegion returns.
NoColumnLeft == m_state = "RegionComplete" => \A l \in Lanes : has[l] = {}

\* RegionEnds: without an exception the host and the streams between them
\* bring the region to its end; no tile waits for a lane for ever.
RegionEnds == <>(m_state = "RegionComplete" \/ error # "none")

\* LanesDestroyed: when the scope is left every lane gets destroyed, even one
\* that holds a tile nobody will drain.
LanesDestroyed == []<>(\A l \in Lanes : ~alive[l])

-----------------------------------------------------------------------------
(***************************************************************************)
(* The result a region must have: its stages applied to each point by      *)
(* itself, one after another, on the rows the region began with.           *)
(***************************************************************************)
RecordAfter(point, n) ==
    LET record[k \in 0 .. n] ==
            IF k = 0 THEN start[point]
            ELSE IF region.stages[k].predicate THEN record[k - 1]
            ELSE Assign(region.stages[k], record[k - 1])
    IN  record[n]

\* What the host is to see of it: the written dimensions that something after
\* the region reads.  A dead one keeps its old value on the host.
Published(point) ==
    LET result == RecordAfter(point, Len(region.stages))
    IN  [d \in Dims |-> IF d \in WrittenDims(region) \cap region.liveAfter
                        THEN result[d] ELSE start[point][d]]

Survivor(point) ==
    \A s \in DOMAIN region.stages :
        region.stages[s].predicate =>
            Keeps(region, region.stages[s], RecordAfter(point, s - 1))

PublishedPoints == Schedule!Smaller(drained * Capacity, PointCount)

Promise == INSTANCE StableRegion WITH
    program <- [compacts  |-> region.compacts,
                survivors |-> {p \in Positions : Survivor(p)},
                before    |-> start,
                after     |-> [p \in Positions |-> Published(p)]],
    taken   <- PublishedPoints,
    outcome <- IF error # "none" THEN "aborted"
               ELSE IF m_state = "RegionComplete" THEN "complete"
               ELSE "active"

\* KeepsPromise: however tiles, lanes and streams interleave, the region does
\* to the view and to the output what StableRegion promises.
KeepsPromise == Promise!Spec
=============================================================================
