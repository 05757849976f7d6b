------------------------ MODULE ResidentLanesProofs ------------------------
(***************************************************************************)
(* The lane protocol for every number of points, tiles and lanes, every    *)
(* planned region and every interleaving: what a lane's flags say of the   *)
(* tile it serves, that no lane is idle and no buffer freed under queued   *)
(* device work, that tiles are published once each and in source order,    *)
(* and that what is published is what StableRegion promises.               *)
(***************************************************************************)
EXTENDS ResidentLanes, TileArithmetic, SequenceTheorems

\* A destroyed lane's stream is empty and the scope has been left, so nothing
\* can be queued on it any more; work on a stream is known to the destructor.
FreedQuiet ==
    \A l \in Lanes :
        /\ ~alive[l] => ScopeLeft /\ stream[l] = <<>>
        /\ m_acquired[l] \/ stream[l] # <<>> => m_workQueued[l]

\* A stage that has begun is one of the region's.
StageInRange ==
    phase # "idle" =>
        /\ m_submittedTiles < m_nextTile
        /\ m_nextStage[LaneOf(m_submittedTiles)] < Len(region.stages)

\* The inductive invariant.
IInv ==
    /\ ControlTypes
    /\ LaneWindow
    /\ StageInRange
    /\ IdleLaneQuiet
    /\ FreedQuiet
    /\ NothingUnpublished

-----------------------------------------------------------------------------
\* Tiles are counted by a number, and each has a lane.
LEMMA TilesAndLanes ==
    /\ Capacity \in Nat \ {0}
    /\ TileCount \in Nat
    /\ LaneCount \in Nat \ {0}
    /\ Lanes = 0 .. LaneCount - 1
    /\ \A t \in Nat : LaneOf(t) \in Lanes
<1>1. LaneCount \in Nat \ {0} /\ PointCount \in Nat \ {0}
      /\ TilePointCapacity \in Nat \ {0}
  BY LanesAssumption
<1>2. Capacity \in Nat \ {0}
  BY <1>1, SMT DEF Capacity, Schedule!Smaller
<1>3. TileCount \in Nat
  <2>1. PointCount \div Capacity \in Nat
    BY <1>1, <1>2, DivMod
  <2> QED
    BY <2>1, SMT DEF TileCount, Schedule!TilesFor
<1>4. ASSUME NEW t \in Nat
      PROVE  LaneOf(t) \in Lanes
  BY <1>1, DivMod DEF LaneOf, Lanes, Schedule!LaneFor
<1> QED
  BY <1>1, <1>2, <1>3, <1>4 DEF Lanes

\* The initial states satisfy the invariant.
LEMMA InitInvariant == Init => IInv
<1> SUFFICES ASSUME Init PROVE IInv
  OBVIOUS
<1> USE TilesAndLanes DEF Init, FreshLanes
<1>1. ControlTypes
  <2>1. region \in Region
    BY RegionsAssumption
  <2>2. stream \in [Lanes -> Seq(QueuedOp)]
    BY SMT
  <2> QED
    BY <2>1, <2>2, SMT DEF ControlTypes, States
<1>2. LaneWindow
  BY SMT DEF LaneWindow
<1>3. StageInRange
  BY DEF StageInRange
<1>4. IdleLaneQuiet
  BY DEF IdleLaneQuiet
<1>5. FreedQuiet
  BY DEF FreedQuiet
<1>6. NothingUnpublished
  BY DEF NothingUnpublished
<1> QED
  BY <1>1, <1>2, <1>3, <1>4, <1>5, <1>6 DEF IInv

-----------------------------------------------------------------------------
\* What every host call that queues work does to the streams.
LEMMA EnqueueTypes ==
    ASSUME stream \in [Lanes -> Seq(QueuedOp)], NEW l \in Lanes,
           NEW ops \in Seq(QueuedOp), Enqueue(l, ops), region' = region
    PROVE  stream' \in [Lanes -> Seq(QueuedOp')]
<1>1. QueuedOp' = QueuedOp
  BY DEF QueuedOp, Op
<1>2. stream[l] \o ops \in Seq(QueuedOp)
  BY SMT
<1> QED
  BY <1>1, <1>2 DEF Enqueue

\* A queued operation that names a tile, some columns and, if it computes, a
\* stage of the region.
LEMMA QueuedTypes ==
    ASSUME NEW kind \in {"upload", "unpack", "compute", "repack", "spill",
                         "spillMask"},
           NEW tile \in Tiles, NEW dims \in SUBSET Dims, NEW stage \in Nat,
           kind = "compute" => stage \in DOMAIN region.stages
    PROVE  Queued(kind, tile, dims, stage) \in QueuedOp
<1>1. Queued(kind, tile, dims, stage) \in Op
  BY DEF Queued, Op
<1> QED
  BY <1>1 DEF Queued, QueuedOp

\* The device takes the head of a stream.
LEMMA ExecutedTypes ==
    ASSUME ControlTypes, NEW l \in Lanes, stream[l] # <<>>, Executed(l)
    PROVE  ControlTypes'
<1>1. QueuedOp' = QueuedOp
  BY DEF QueuedOp, Op, Executed, regionVars
<1>2. Tail(stream[l]) \in Seq(QueuedOp)
  BY SMT DEF ControlTypes
<1>3. stream' \in [Lanes -> Seq(QueuedOp')]
  BY <1>1, <1>2 DEF Executed, ControlTypes
<1> QED
  BY <1>3 DEF Executed, ControlTypes, hostVars, viewVars, tileVars, regionVars

\* A drained tile is one of the submitted ones.
LEMMA DrainedTypes ==
    ASSUME ControlTypes, LaneWindow, NEW l \in Lanes
    PROVE  DrainedTiles(l) \in 0 .. TileCount
<1>1. CASE m_pending[l]
  <2>1. m_pendingTileIndex[l] \in drained .. m_submittedTiles - 1
    BY <1>1 DEF LaneWindow
  <2>2. /\ TileCount \in Nat /\ drained \in 0 .. TileCount
        /\ m_submittedTiles \in 0 .. TileCount
    BY TilesAndLanes DEF ControlTypes
  <2>3. drained + 1 \in 0 .. TileCount
    BY <2>1, <2>2, SMT
  <2> QED
    BY <1>1, <2>3 DEF DrainedTiles
<1>2. CASE ~m_pending[l]
  BY <1>2 DEF DrainedTiles, ControlTypes
<1> QED
  BY <1>1, <1>2

\* The tile being computed is one of the view's.
LEMMA ComputingTile ==
    ASSUME ControlTypes, NEW l \in Lanes, Computing(l)
    PROVE  m_submittedTiles \in Tiles /\ m_submittedTiles + 1 \in 0 .. TileCount
<1>1. /\ m_submittedTiles < m_nextTile /\ TileCount \in Nat
      /\ m_submittedTiles \in 0 .. TileCount /\ m_nextTile \in 0 .. TileCount
  BY TilesAndLanes DEF Computing, ControlTypes
<1> QED
  BY ONLY <1>1, SMT DEF Tiles

\* What submitTile queues, whole or cut off by a failing call.
LEMMA SubmitOpsTypes ==
    ASSUME ControlTypes, NEW l \in Lanes, Computing(l)
    PROVE  /\ SubmitOps(l) \in Seq(QueuedOp)
           /\ \A n \in DOMAIN SubmitOps(l) :
                 SubSeq(SubmitOps(l), 1, n) \in Seq(QueuedOp)
<1>1. m_submittedTiles \in Tiles /\ WrittenBack(l) \in SUBSET Dims
  BY ComputingTile DEF WrittenBack, ControlTypes
<1>2. /\ Queued("repack", m_submittedTiles, WrittenBack(l), 0) \in QueuedOp
      /\ Queued("spill", m_submittedTiles, {}, 0) \in QueuedOp
      /\ Queued("spillMask", m_submittedTiles, {}, 0) \in QueuedOp
  BY <1>1, QueuedTypes
<1>3. SubmitOps(l) \in Seq(QueuedOp)
  BY <1>2, SMT DEF SubmitOps
<1>4. ASSUME NEW n \in DOMAIN SubmitOps(l)
      PROVE  SubSeq(SubmitOps(l), 1, n) \in Seq(QueuedOp)
  BY <1>3, <1>4, SMT
<1> QED
  BY <1>3, <1>4

\* The stage a lane is at is a planned one.
LEMMA StageTypes ==
    ASSUME ControlTypes, NEW l \in Lanes, m_nextStage[l] < Len(region.stages)
    PROVE  CurrentStage(l).deviceMaterialize \subseteq Dims
<1>1. region.stages \in Seq(PlannedStage) /\ m_nextStage[l] \in Nat
  BY DEF ControlTypes, Region
<1>2. m_nextStage[l] + 1 \in 1 .. Len(region.stages)
  BY <1>1, SMT
<1>3. CurrentStage(l) \in PlannedStage
  BY <1>1, <1>2, SMT DEF CurrentStage
<1> QED
  BY <1>3 DEF PlannedStage

\* Every step of the context keeps the types of its control state.
LEMMA TypesStep ==
    ASSUME ControlTypes, LaneWindow, StageInRange, [Next]_vars
    PROVE  ControlTypes'
<1> USE TilesAndLanes DEF ControlTypes
<1>1. CASE AcquireTile
  <2> DEFINE l == LaneOf(m_nextTile)
             op == Queued("upload", m_nextTile, {}, 0)
  <2>1. /\ m_nextTile < TileCount /\ m_nextTile' = m_nextTile + 1
        /\ drained' = DrainedTiles(l)
        /\ has' = [has EXCEPT ![l] = @ \ region.releaseDimensions]
        /\ Enqueue(l, <<op>>)
        /\ m_pending' = [m_pending EXCEPT ![l] = FALSE]
        /\ m_acquired' = [m_acquired EXCEPT ![l] = TRUE]
        /\ m_maskValid' = [m_maskValid EXCEPT ![l] = FALSE]
        /\ m_workQueued' = [m_workQueued EXCEPT ![l] = TRUE]
        /\ m_pendingTileIndex' = [m_pendingTileIndex EXCEPT ![l] = m_nextTile]
        /\ m_nextStage' = [m_nextStage EXCEPT ![l] = 0]
        /\ m_writtenColumns' = [m_writtenColumns EXCEPT ![l] = {}]
        /\ UNCHANGED <<m_submittedTiles, phase, error, alive, m_state, region>>
    BY <1>1 DEF AcquireTile, Acquiring, Refill, regionVars
  <2>2. l \in Lanes /\ m_nextTile \in Tiles /\ m_nextTile' \in 0 .. TileCount
    <3>1. m_nextTile \in 0 .. TileCount /\ TileCount \in Nat
      OBVIOUS
    <3>2. m_nextTile \in Tiles /\ m_nextTile' \in 0 .. TileCount
      BY ONLY <2>1, <3>1, SMT DEF Tiles
    <3> QED
      BY <3>1, <3>2
  <2>3. stream' \in [Lanes -> Seq(QueuedOp')]
    <3>1. <<op>> \in Seq(QueuedOp)
      BY <2>2, QueuedTypes
    <3> QED
      BY <2>1, <2>2, <3>1, EnqueueTypes
  <2>4. drained' \in 0 .. TileCount
    BY <2>1, <2>2, DrainedTypes
  <2> HIDE DEF l, op
  <2>5. /\ m_pendingTileIndex' \in [Lanes -> Nat]
        /\ m_nextStage' \in [Lanes -> Nat]
    <3>1. m_nextTile \in Nat /\ 0 \in Nat
      BY <2>2, SMT DEF Tiles
    <3> QED
      BY <2>1, <2>2, <3>1
  <2>6. /\ m_writtenColumns' \in [Lanes -> SUBSET Dims]
        /\ has' \in [Lanes -> SUBSET Dims]
    BY <2>1, <2>2
  <2>7. /\ m_pending' \in [Lanes -> BOOLEAN]
        /\ m_acquired' \in [Lanes -> BOOLEAN]
        /\ m_maskValid' \in [Lanes -> BOOLEAN]
        /\ m_workQueued' \in [Lanes -> BOOLEAN]
    BY <2>1, <2>2
  <2> QED
    BY <2>1, <2>2, <2>3, <2>4, <2>5, <2>6, <2>7
<1>2. CASE RefuseAcquire
  BY <1>2 DEF RefuseAcquire, regionVars, tileVars, viewVars, QueuedOp
<1>3. CASE BeginStage
  <2> DEFINE missing(l) == CurrentStage(l).deviceMaterialize \ has[l]
             held(l) == has[l] \cup CurrentStage(l).deviceMaterialize
             queued(l) == IF missing(l) = {} THEN <<>>
                          ELSE <<Queued("unpack", m_submittedTiles,
                                        missing(l), 0)>>
  <2>1. PICK l \in Lanes :
           /\ Computing(l) /\ m_nextStage[l] < Len(region.stages)
           /\ has' = [has EXCEPT ![l] = held(l)]
           /\ Enqueue(l, queued(l))
           /\ phase' \in {phase, "begun"} /\ error' \in {error, "plan"}
           /\ UNCHANGED <<m_pending, m_acquired, m_maskValid, m_workQueued,
                          m_pendingTileIndex, m_nextStage, m_writtenColumns,
                          m_nextTile, m_submittedTiles, drained, alive,
                          m_state, region>>
    BY <1>3 DEF BeginStage, regionVars, viewVars
  <2>2. CurrentStage(l).deviceMaterialize \subseteq Dims
    BY <2>1, StageTypes
  <2>3. has' \in [Lanes -> SUBSET Dims]
    BY <2>1, <2>2
  <2>4. queued(l) \in Seq(QueuedOp)
    <3>1. m_submittedTiles \in Tiles /\ missing(l) \in SUBSET Dims
      BY <2>1, <2>2, ComputingTile
    <3> HIDE DEF missing
    <3>2. Queued("unpack", m_submittedTiles, missing(l), 0) \in QueuedOp
      BY <3>1, QueuedTypes
    <3> QED
      BY <3>2
  <2>5. stream' \in [Lanes -> Seq(QueuedOp')]
    BY <2>1, <2>4, EnqueueTypes
  <2> HIDE DEF queued, held
  <2> QED
    BY <2>1, <2>3, <2>5
<1>4. CASE RunStage
  <2> DEFINE op(l) == Queued("compute", m_submittedTiles, {},
                             m_nextStage[l] + 1)
  <2>1. PICK l \in Lanes :
           /\ Computing(l) /\ phase = "begun"
           /\ Enqueue(l, <<op(l)>>)
           /\ phase' = "ran"
           /\ UNCHANGED <<m_pending, m_acquired, m_maskValid, m_workQueued,
                          m_pendingTileIndex, m_nextStage, m_writtenColumns,
                          has, m_nextTile, m_submittedTiles, drained, alive,
                          error, m_state, region>>
    BY <1>4 DEF RunStage, regionVars, viewVars, hostVars
  <2>2. <<op(l)>> \in Seq(QueuedOp)
    <3>1. m_submittedTiles \in Tiles
      BY <2>1, ComputingTile
    <3>2. /\ m_nextStage[l] \in Nat /\ m_nextStage[l] < Len(region.stages)
          /\ region.stages \in Seq(PlannedStage)
      BY <2>1 DEF StageInRange, Computing, Region
    <3>3. m_nextStage[l] + 1 \in DOMAIN region.stages /\ m_nextStage[l] + 1 \in Nat
      BY ONLY <3>2, SMT
    <3>4. op(l) \in QueuedOp
      BY <3>1, <3>3, QueuedTypes
    <3> QED
      BY <3>4
  <2>3. stream' \in [Lanes -> Seq(QueuedOp')]
    BY <2>1, <2>2, EnqueueTypes
  <2> HIDE DEF op
  <2> QED
    BY <2>1, <2>3
<1>5. CASE EndStage
  <2>1. PICK l \in Lanes :
           /\ has' = [has EXCEPT ![l] = @ \ CurrentStage(l).deviceRelease]
           /\ m_nextStage' = [m_nextStage EXCEPT ![l] = @ + 1]
           /\ phase' = "idle"
           /\ UNCHANGED <<m_pending, m_acquired, m_maskValid, m_workQueued,
                          m_pendingTileIndex, m_writtenColumns, m_nextTile,
                          m_submittedTiles, error, alive, stream, drained,
                          m_state, region>>
    BY <1>5 DEF EndStage, regionVars, viewVars
  <2>2. m_nextStage' \in [Lanes -> Nat]
    <3>1. m_nextStage \in [Lanes -> Nat] /\ m_nextStage[l] \in Nat
      OBVIOUS
    <3>2. m_nextStage[l] + 1 \in Nat
      BY ONLY <3>1, SMT
    <3> QED
      BY <2>1, <3>1, <3>2
  <2>3. has' \in [Lanes -> SUBSET Dims]
    BY <2>1
  <2> QED
    BY <2>1, <2>2, <2>3 DEF QueuedOp
<1>6. CASE SubmitTile
  <2>1. PICK l \in Lanes :
           /\ Computing(l)
           /\ m_writtenColumns' = [m_writtenColumns EXCEPT ![l] = WrittenBack(l)]
           /\ Enqueue(l, SubmitOps(l))
           /\ m_maskValid' = [m_maskValid EXCEPT ![l] = region.compacts]
           /\ m_pending' = [m_pending EXCEPT ![l] = TRUE]
           /\ m_acquired' = [m_acquired EXCEPT ![l] = FALSE]
           /\ m_submittedTiles' = m_submittedTiles + 1
           /\ UNCHANGED <<m_workQueued, m_pendingTileIndex, m_nextStage, has,
                          m_nextTile, phase, error, alive, drained,
                          m_state, region>>
    BY <1>6 DEF SubmitTile, Submitting, regionVars, viewVars
  <2>2. m_submittedTiles \in Tiles /\ m_submittedTiles' \in 0 .. TileCount
    BY <2>1, ComputingTile
  <2>3. WrittenBack(l) \in SUBSET Dims
    BY DEF WrittenBack
  <2>4. m_writtenColumns' \in [Lanes -> SUBSET Dims]
    BY <2>1, <2>3
  <2>5. region.compacts \in BOOLEAN
    BY DEF Region
  <2>6. SubmitOps(l) \in Seq(QueuedOp)
    BY <2>1, SubmitOpsTypes
  <2>7. stream' \in [Lanes -> Seq(QueuedOp')]
    BY <2>1, <2>6, EnqueueTypes
  <2>8. /\ m_pending' \in [Lanes -> BOOLEAN]
        /\ m_acquired' \in [Lanes -> BOOLEAN]
        /\ m_maskValid' \in [Lanes -> BOOLEAN]
    BY <2>1, <2>5
  <2> QED
    BY <2>1, <2>2, <2>4, <2>7, <2>8
<1>7. CASE DrainPending
  <2>1. PICK l \in Lanes :
           /\ drained' = DrainedTiles(l)
           /\ m_pending' = [m_pending EXCEPT ![l] = FALSE]
           /\ m_maskValid' = [m_maskValid EXCEPT ![l] = FALSE]
           /\ m_writtenColumns' = [m_writtenColumns EXCEPT ![l] = {}]
           /\ UNCHANGED <<m_acquired, m_workQueued, m_pendingTileIndex,
                          m_nextStage, has, m_nextTile, m_submittedTiles,
                          phase, error, alive, stream, m_state, region>>
    BY <1>7 DEF DrainPending, tileVars, regionVars
  <2>2. drained' \in 0 .. TileCount
    BY <2>1, DrainedTypes
  <2> QED
    BY <2>1, <2>2 DEF QueuedOp
<1>8. CASE EndRegion
  BY <1>8 DEF EndRegion, tileVars, viewVars, QueuedOp, States
<1>9. CASE Throw
  BY <1>9 DEF Throw, hostVars, tileVars, viewVars, regionVars, QueuedOp
<1>10. ASSUME NEW l \in Lanes, DeviceStep(l)
       PROVE  ControlTypes'
  BY <1>10, ExecutedTypes
  DEF DeviceStep, Upload, Unpack, Compute, Repack, Spill, SpillMask, NextOp
<1>11. ASSUME NEW l \in Lanes, Teardown(l)
       PROVE  ControlTypes'
  BY <1>11 DEF Teardown, DestroyLane, hostVars, tileVars, viewVars, regionVars,
               QueuedOp
<1>12. CASE UNCHANGED vars
  BY <1>12 DEF vars, hostVars, tileVars, viewVars, regionVars, QueuedOp
<1>13. CASE AcquireFails
  <2>1. PICK l \in Lanes :
           /\ drained' = DrainedTiles(l)
           /\ has' = [has EXCEPT ![l] = @ \ region.releaseDimensions]
           /\ m_pending' = [m_pending EXCEPT ![l] = FALSE]
           /\ m_maskValid' = [m_maskValid EXCEPT ![l] = FALSE]
           /\ m_pendingTileIndex' = [m_pendingTileIndex EXCEPT ![l] = m_nextTile]
           /\ m_writtenColumns' = [m_writtenColumns EXCEPT ![l] = {}]
           /\ error' = "environment"
           /\ UNCHANGED <<m_acquired, m_workQueued, m_nextStage, m_nextTile,
                          m_submittedTiles, phase, alive, stream, m_state,
                          region>>
    BY <1>13 DEF AcquireFails, Acquiring, Refill, tileVars, regionVars
  <2>2. drained' \in 0 .. TileCount
    BY <2>1, DrainedTypes
  <2>3. m_pendingTileIndex' \in [Lanes -> Nat]
    <3>1. m_nextTile \in 0 .. TileCount /\ TileCount \in Nat
      OBVIOUS
    <3>2. m_nextTile \in Nat
      BY ONLY <3>1, SMT
    <3> QED
      BY <2>1, <3>2
  <2>4. /\ has' \in [Lanes -> SUBSET Dims]
        /\ m_writtenColumns' \in [Lanes -> SUBSET Dims]
        /\ m_pending' \in [Lanes -> BOOLEAN]
        /\ m_maskValid' \in [Lanes -> BOOLEAN]
    BY <2>1
  <2>5. QueuedOp' = QueuedOp
    BY <2>1 DEF QueuedOp, Op
  <2> QED
    BY <2>1, <2>2, <2>3, <2>4, <2>5
<1>14. CASE SubmitFails
  <2>1. PICK l \in Lanes :
           /\ Computing(l)
           /\ \E n \in DOMAIN SubmitOps(l) :
                 Enqueue(l, SubSeq(SubmitOps(l), 1, n))
           /\ error' = "environment"
           /\ UNCHANGED <<hostVars, tileVars, alive, drained, m_state, region>>
    BY <1>14 DEF SubmitFails, Submitting, viewVars, regionVars
  <2>2. PICK n \in DOMAIN SubmitOps(l) : Enqueue(l, SubSeq(SubmitOps(l), 1, n))
    BY <2>1
  <2>3. stream' \in [Lanes -> Seq(QueuedOp')]
    <3>1. SubSeq(SubmitOps(l), 1, n) \in Seq(QueuedOp)
      BY <2>1, SubmitOpsTypes
    <3> QED
      BY <2>1, <2>2, <3>1, EnqueueTypes
  <2> QED
    BY <2>1, <2>3 DEF hostVars, tileVars
<1> QED
  BY <1>1, <1>2, <1>3, <1>4, <1>5, <1>6, <1>7, <1>8, <1>9, <1>10, <1>11, <1>12,
     <1>13, <1>14
  DEF Next, HostStep, Terminated

-----------------------------------------------------------------------------
\* The counters as numbers.
LEMMA Counters ==
    ASSUME ControlTypes, LaneWindow
    PROVE  /\ drained \in Nat /\ m_submittedTiles \in Nat /\ m_nextTile \in Nat
           /\ drained <= m_submittedTiles /\ m_submittedTiles <= m_nextTile
           /\ m_nextTile - drained <= LaneCount
           /\ LaneCount \in Nat \ {0}
<1>1. /\ TileCount \in Nat /\ LaneCount \in Nat \ {0}
      /\ drained \in 0 .. TileCount /\ m_submittedTiles \in 0 .. TileCount
      /\ m_nextTile \in 0 .. TileCount
      /\ drained <= m_submittedTiles /\ m_submittedTiles <= m_nextTile
      /\ m_nextTile - drained <= LaneCount
  BY TilesAndLanes DEF ControlTypes, LaneWindow
<1> QED
  BY ONLY <1>1, SMT

\* The lane that the next tile needs either is free, and then fewer tiles than
\* lanes are in flight, or holds the oldest tile, which is pending.
LEMMA LaneOfNextTile ==
    ASSUME ControlTypes, LaneWindow, NEW l \in Lanes, l = LaneOf(m_nextTile),
           ~m_acquired[l]
    PROVE  /\ m_pending[l] => m_pendingTileIndex[l] = drained
           /\ ~m_pending[l] => m_nextTile - drained < LaneCount
<1>1. /\ drained \in Nat /\ m_submittedTiles \in Nat /\ m_nextTile \in Nat
      /\ drained <= m_submittedTiles /\ m_submittedTiles <= m_nextTile
      /\ m_nextTile - drained <= LaneCount
      /\ LaneCount \in Nat \ {0}
  BY Counters
<1>2. ASSUME m_pending[l] PROVE m_pendingTileIndex[l] = drained
  <2> DEFINE t == m_pendingTileIndex[l]
  <2>1. t \in drained .. m_submittedTiles - 1 /\ LaneOf(t) = LaneOf(m_nextTile)
    BY <1>2 DEF LaneWindow
  <2> HIDE DEF t
  <2>2. t \in Nat /\ t < m_nextTile /\ drained <= t
    BY ONLY <1>1, <2>1, SMT
  <2>3. (t % LaneCount) = (m_nextTile % LaneCount)
    BY <2>1 DEF LaneOf, Schedule!LaneFor
  <2>4. ~(m_nextTile - t < LaneCount)
    BY <1>1, <2>2, <2>3, ModUnique
  <2>5. t = drained
    BY ONLY <1>1, <2>2, <2>4, SMT
  <2> QED
    BY <2>5 DEF t
<1>3. ASSUME ~m_pending[l] PROVE m_nextTile - drained < LaneCount
  <2>1. CASE m_nextTile - drained = LaneCount
    <3>1. m_nextTile = drained + LaneCount
      BY ONLY <1>1, <2>1, SMT
    <3>2. LaneOf(drained) = l
      BY <1>1, <3>1, ModNext DEF LaneOf, Schedule!LaneFor
    <3>3. \/ drained \in drained .. m_submittedTiles - 1
          \/ drained \in m_submittedTiles .. m_nextTile - 1
      BY ONLY <1>1, <2>1, SMT
    <3>4. m_pending[LaneOf(drained)] \/ m_acquired[LaneOf(drained)]
      BY <3>3 DEF LaneWindow
    <3> QED
      BY <3>2, <3>4, <1>3
  <2> QED
    BY ONLY <1>1, <2>1, SMT
<1> QED
  BY <1>2, <1>3

\* The lane that endRegion drains first holds the oldest tile.
LEMMA OldestIsDrained ==
    ASSUME ControlTypes, LaneWindow, NEW l \in Lanes, OldestPending(l)
    PROVE  m_pendingTileIndex[l] = drained
<1>1. /\ drained \in Nat /\ m_submittedTiles \in Nat
  BY Counters
<1>2. m_pendingTileIndex[l] \in drained .. m_submittedTiles - 1
  BY DEF OldestPending, LaneWindow
<1>3. drained \in drained .. m_submittedTiles - 1
  BY ONLY <1>1, <1>2, SMT
<1>4. /\ LaneOf(drained) \in Lanes /\ m_pending[LaneOf(drained)]
      /\ m_pendingTileIndex[LaneOf(drained)] = drained
  BY <1>1, <1>3, TilesAndLanes DEF LaneWindow
<1>5. m_pendingTileIndex[l] <= drained
  BY <1>4 DEF OldestPending
<1> QED
  BY ONLY <1>1, <1>2, <1>5, SMT

\* acquireTile moves the window: it publishes the oldest tile if the lane
\* holds one, and takes the lane for the next tile.
LEMMA AcquireKeepsWindow ==
    ASSUME ControlTypes, LaneWindow, AcquireTile
    PROVE  LaneWindow'
<1> DEFINE l == LaneOf(m_nextTile)
<1>1. /\ drained \in Nat /\ m_submittedTiles \in Nat /\ m_nextTile \in Nat
      /\ drained <= m_submittedTiles /\ m_submittedTiles <= m_nextTile
      /\ m_nextTile - drained <= LaneCount
      /\ LaneCount \in Nat \ {0}
  BY Counters
<1>2. /\ ~m_acquired[l]
      /\ m_nextTile' = m_nextTile + 1
      /\ drained' = (IF m_pending[l] THEN drained + 1 ELSE drained)
      /\ m_pending' = [m_pending EXCEPT ![l] = FALSE]
      /\ m_acquired' = [m_acquired EXCEPT ![l] = TRUE]
      /\ m_pendingTileIndex' = [m_pendingTileIndex EXCEPT ![l] = m_nextTile]
      /\ m_submittedTiles' = m_submittedTiles
  BY DEF AcquireTile, Acquiring, Refill, DrainedTiles
<1>3. /\ l \in Lanes
      /\ m_pending \in [Lanes -> BOOLEAN] /\ m_acquired \in [Lanes -> BOOLEAN]
      /\ m_pendingTileIndex \in [Lanes -> Nat]
      /\ \A t \in Nat : LaneOf(t) \in Lanes
  BY <1>1, TilesAndLanes DEF ControlTypes
<1>4. /\ m_pending[l] => m_pendingTileIndex[l] = drained
      /\ ~m_pending[l] => m_nextTile - drained < LaneCount
  BY <1>2, <1>3, LaneOfNextTile
<1>5. m_pending[l] => drained < m_submittedTiles
  <2>1. m_pending[l] => drained \in drained .. m_submittedTiles - 1
    BY <1>3, <1>4 DEF LaneWindow
  <2> QED
    BY ONLY <2>1, <1>1, SMT
<1> HIDE DEF l
<1>6. /\ drained' \in Nat /\ drained <= drained'
      /\ drained' <= m_submittedTiles' /\ m_submittedTiles' <= m_nextTile'
      /\ m_nextTile' - drained' <= LaneCount
  BY ONLY <1>1, <1>2, <1>4, <1>5, SMT
<1>7. ASSUME NEW t \in drained' .. m_submittedTiles' - 1
      PROVE  m_pending'[LaneOf(t)] /\ m_pendingTileIndex'[LaneOf(t)] = t
  <2>1. t \in Nat /\ t \in drained .. m_submittedTiles - 1
    BY ONLY <1>1, <1>2, <1>6, <1>7, SMT
  <2>2. m_pending[LaneOf(t)] /\ m_pendingTileIndex[LaneOf(t)] = t
    BY <2>1 DEF LaneWindow
  <2>3. LaneOf(t) # l
    <3>1. CASE LaneOf(t) = l
      <4>1. m_pending[l] /\ t = drained /\ drained' = drained + 1
        BY <3>1, <2>2, <1>2, <1>4
      <4> QED
        BY ONLY <4>1, <1>1, <1>7, SMT
    <3> QED
      BY <3>1
  <2> QED
    BY <1>2, <1>3, <2>1, <2>2, <2>3
<1>8. ASSUME NEW t \in m_submittedTiles' .. m_nextTile' - 1
      PROVE  m_acquired'[LaneOf(t)] /\ m_pendingTileIndex'[LaneOf(t)] = t
  <2>1. t \in Nat /\ (t = m_nextTile \/ t \in m_submittedTiles .. m_nextTile - 1)
    BY ONLY <1>1, <1>2, <1>8, SMT
  <2>2. CASE t = m_nextTile
    BY <1>2, <1>3, <2>2 DEF l
  <2>3. CASE t \in m_submittedTiles .. m_nextTile - 1
    <3>1. m_acquired[LaneOf(t)] /\ m_pendingTileIndex[LaneOf(t)] = t
      BY <2>3 DEF LaneWindow
    <3> QED
      BY <1>2, <1>3, <2>1, <3>1
  <2> QED
    BY <2>1, <2>2, <2>3
<1>9. ASSUME NEW k \in Lanes, m_pending'[k]
      PROVE  /\ m_pendingTileIndex'[k] \in drained' .. m_submittedTiles' - 1
             /\ LaneOf(m_pendingTileIndex'[k]) = k
  <2>1. k # l /\ m_pending[k] /\ m_pendingTileIndex'[k] = m_pendingTileIndex[k]
    BY <1>2, <1>3, <1>9
  <2>2. /\ m_pendingTileIndex[k] \in drained .. m_submittedTiles - 1
        /\ LaneOf(m_pendingTileIndex[k]) = k
    BY <2>1 DEF LaneWindow
  <2>3. m_pending[l] => m_pendingTileIndex[k] # drained
    <3>1. m_pending[l] => LaneOf(drained) = l
      BY <1>3, <1>4 DEF LaneWindow
    <3> QED
      BY <3>1, <2>1, <2>2
  <2>4. m_pendingTileIndex[k] \in drained' .. m_submittedTiles' - 1
    BY ONLY <1>1, <1>2, <2>2, <2>3, SMT
  <2> QED
    BY <2>1, <2>2, <2>4
<1>10. ASSUME NEW k \in Lanes, m_acquired'[k]
       PROVE  /\ m_pendingTileIndex'[k] \in m_submittedTiles' .. m_nextTile' - 1
              /\ LaneOf(m_pendingTileIndex'[k]) = k
  <2>1. CASE k = l
    <3>1. m_pendingTileIndex'[k] = m_nextTile
      BY <1>2, <1>3, <2>1
    <3>2. m_nextTile \in m_submittedTiles' .. m_nextTile' - 1
      BY ONLY <1>1, <1>2, SMT
    <3> QED
      BY <2>1, <3>1, <3>2 DEF l
  <2>2. CASE k # l
    <3>1. m_acquired[k] /\ m_pendingTileIndex'[k] = m_pendingTileIndex[k]
      BY <1>2, <1>3, <1>10, <2>2
    <3>2. /\ m_pendingTileIndex[k] \in m_submittedTiles .. m_nextTile - 1
          /\ LaneOf(m_pendingTileIndex[k]) = k
      BY <3>1 DEF LaneWindow
    <3>3. m_pendingTileIndex[k] \in m_submittedTiles' .. m_nextTile' - 1
      BY ONLY <1>1, <1>2, <3>2, SMT
    <3> QED
      BY <3>1, <3>2, <3>3
  <2> QED
    BY <2>1, <2>2
<1> QED
  BY <1>6, <1>7, <1>8, <1>9, <1>10 DEF LaneWindow, LaneOf

\* submitTile turns the computing tile into a pending one, on the same lane.
LEMMA SubmitKeepsWindow ==
    ASSUME ControlTypes, LaneWindow, SubmitTile
    PROVE  LaneWindow'
<1>1. /\ drained \in Nat /\ m_submittedTiles \in Nat /\ m_nextTile \in Nat
      /\ drained <= m_submittedTiles /\ m_nextTile - drained <= LaneCount
  BY Counters
<1>2. PICK l \in Lanes :
         /\ m_submittedTiles < m_nextTile /\ l = LaneOf(m_submittedTiles)
         /\ m_pending' = [m_pending EXCEPT ![l] = TRUE]
         /\ m_acquired' = [m_acquired EXCEPT ![l] = FALSE]
         /\ m_submittedTiles' = m_submittedTiles + 1
         /\ UNCHANGED <<m_pendingTileIndex, m_nextTile, drained>>
  BY DEF SubmitTile, Submitting, Computing, viewVars
<1>3. /\ m_pending \in [Lanes -> BOOLEAN] /\ m_acquired \in [Lanes -> BOOLEAN]
      /\ \A t \in Nat : LaneOf(t) \in Lanes
  BY TilesAndLanes DEF ControlTypes
<1>4. m_pendingTileIndex[l] = m_submittedTiles
  <2>1. m_submittedTiles \in m_submittedTiles .. m_nextTile - 1
    BY ONLY <1>1, <1>2, SMT
  <2> QED
    BY <2>1, <1>2 DEF LaneWindow
<1>5. /\ drained' <= m_submittedTiles' /\ m_submittedTiles' <= m_nextTile'
      /\ m_nextTile' - drained' <= LaneCount
  BY ONLY <1>1, <1>2, SMT
<1>6. ASSUME NEW t \in drained' .. m_submittedTiles' - 1
      PROVE  m_pending'[LaneOf(t)] /\ m_pendingTileIndex'[LaneOf(t)] = t
  <2>1. /\ t \in Nat
        /\ t = m_submittedTiles \/ t \in drained .. m_submittedTiles - 1
    BY ONLY <1>1, <1>2, <1>6, SMT
  <2>2. CASE t = m_submittedTiles
    BY <1>2, <1>3, <1>4, <2>2
  <2>3. CASE t \in drained .. m_submittedTiles - 1
    <3>1. m_pending[LaneOf(t)] /\ m_pendingTileIndex[LaneOf(t)] = t
      BY <2>3 DEF LaneWindow
    <3> QED
      BY <1>2, <1>3, <2>1, <3>1
  <2> QED
    BY <2>1, <2>2, <2>3
<1>7. ASSUME NEW t \in m_submittedTiles' .. m_nextTile' - 1
      PROVE  m_acquired'[LaneOf(t)] /\ m_pendingTileIndex'[LaneOf(t)] = t
  <2>1. /\ t \in Nat /\ t # m_submittedTiles
        /\ t \in m_submittedTiles .. m_nextTile - 1
    BY ONLY <1>1, <1>2, <1>7, SMT
  <2>2. m_acquired[LaneOf(t)] /\ m_pendingTileIndex[LaneOf(t)] = t
    BY <2>1 DEF LaneWindow
  <2>3. LaneOf(t) # l
    BY <1>4, <2>1, <2>2
  <2> QED
    BY <1>2, <1>3, <2>1, <2>2, <2>3
<1>8. ASSUME NEW k \in Lanes, m_pending'[k]
      PROVE  /\ m_pendingTileIndex'[k] \in drained' .. m_submittedTiles' - 1
             /\ LaneOf(m_pendingTileIndex'[k]) = k
  <2>1. CASE k = l
    <3>1. m_submittedTiles \in drained' .. m_submittedTiles' - 1
      BY ONLY <1>1, <1>2, SMT
    <3> QED
      BY <1>2, <1>4, <2>1, <3>1
  <2>2. CASE k # l
    <3>1. m_pending[k]
      BY <1>2, <1>3, <1>8, <2>2
    <3>2. /\ m_pendingTileIndex[k] \in drained .. m_submittedTiles - 1
          /\ LaneOf(m_pendingTileIndex[k]) = k
      BY <3>1 DEF LaneWindow
    <3>3. m_pendingTileIndex[k] \in drained' .. m_submittedTiles' - 1
      BY ONLY <1>1, <1>2, <3>2, SMT
    <3> QED
      BY <1>2, <3>2, <3>3
  <2> QED
    BY <2>1, <2>2
<1>9. ASSUME NEW k \in Lanes, m_acquired'[k]
      PROVE  /\ m_pendingTileIndex'[k] \in m_submittedTiles' .. m_nextTile' - 1
             /\ LaneOf(m_pendingTileIndex'[k]) = k
  <2>1. k # l /\ m_acquired[k]
    BY <1>2, <1>3, <1>9
  <2>2. /\ m_pendingTileIndex[k] \in m_submittedTiles .. m_nextTile - 1
        /\ LaneOf(m_pendingTileIndex[k]) = k
    BY <2>1 DEF LaneWindow
  <2>3. m_pendingTileIndex[k] # m_submittedTiles
    BY <1>2, <2>1, <2>2
  <2>4. m_pendingTileIndex[k] \in m_submittedTiles' .. m_nextTile' - 1
    BY ONLY <1>1, <1>2, <2>2, <2>3, SMT
  <2> QED
    BY <1>2, <2>2, <2>4
<1> QED
  BY <1>5, <1>6, <1>7, <1>8, <1>9 DEF LaneWindow, LaneOf

\* endRegion publishes the oldest tile and frees its lane.
LEMMA DrainKeepsWindow ==
    ASSUME ControlTypes, LaneWindow, DrainPending
    PROVE  LaneWindow'
<1>1. /\ drained \in Nat /\ m_submittedTiles \in Nat /\ m_nextTile \in Nat
      /\ m_submittedTiles <= m_nextTile
      /\ m_nextTile - drained <= LaneCount /\ LaneCount \in Nat \ {0}
  BY Counters
<1>2. PICK l \in Lanes :
         /\ OldestPending(l) /\ m_pending[l]
         /\ drained' = drained + 1
         /\ m_pending' = [m_pending EXCEPT ![l] = FALSE]
         /\ UNCHANGED <<m_acquired, m_pendingTileIndex, m_nextTile,
                        m_submittedTiles>>
  BY DEF DrainPending, DrainedTiles, OldestPending, tileVars
<1>3. /\ m_pending \in [Lanes -> BOOLEAN]
      /\ \A t \in Nat : LaneOf(t) \in Lanes
  BY TilesAndLanes DEF ControlTypes
<1>4. m_pendingTileIndex[l] = drained
  BY <1>2, OldestIsDrained
<1>5. drained \in drained .. m_submittedTiles - 1 /\ LaneOf(drained) = l
  BY <1>2, <1>4 DEF LaneWindow
<1>6. /\ drained' <= m_submittedTiles' /\ m_submittedTiles' <= m_nextTile'
      /\ m_nextTile' - drained' <= LaneCount
  BY ONLY <1>1, <1>2, <1>5, SMT
<1>7. ASSUME NEW t \in drained' .. m_submittedTiles' - 1
      PROVE  m_pending'[LaneOf(t)] /\ m_pendingTileIndex'[LaneOf(t)] = t
  <2>1. /\ t \in Nat /\ t # drained
        /\ t \in drained .. m_submittedTiles - 1
    BY ONLY <1>1, <1>2, <1>7, SMT
  <2>2. m_pending[LaneOf(t)] /\ m_pendingTileIndex[LaneOf(t)] = t
    BY <2>1 DEF LaneWindow
  <2>3. LaneOf(t) # l
    BY <1>4, <2>1, <2>2
  <2> QED
    BY <1>2, <1>3, <2>1, <2>2, <2>3
<1>8. ASSUME NEW k \in Lanes, m_pending'[k]
      PROVE  /\ m_pendingTileIndex'[k] \in drained' .. m_submittedTiles' - 1
             /\ LaneOf(m_pendingTileIndex'[k]) = k
  <2>1. k # l /\ m_pending[k]
    BY <1>2, <1>3, <1>8
  <2>2. /\ m_pendingTileIndex[k] \in drained .. m_submittedTiles - 1
        /\ LaneOf(m_pendingTileIndex[k]) = k
    BY <2>1 DEF LaneWindow
  <2>3. m_pendingTileIndex[k] # drained
    BY <1>5, <2>1, <2>2
  <2>4. m_pendingTileIndex[k] \in drained' .. m_submittedTiles' - 1
    BY ONLY <1>1, <1>2, <2>2, <2>3, SMT
  <2> QED
    BY <1>2, <2>2, <2>4
<1> QED
  BY <1>2, <1>6, <1>7, <1>8 DEF LaneWindow, LaneOf

\* An acquireTile that fails has published the lane's tile all the same.
LEMMA FailedAcquireKeepsWindow ==
    ASSUME ControlTypes, LaneWindow, AcquireFails
    PROVE  LaneWindow'
<1>1. /\ drained \in Nat /\ m_submittedTiles \in Nat /\ m_nextTile \in Nat
      /\ drained <= m_submittedTiles /\ m_submittedTiles <= m_nextTile
      /\ m_nextTile - drained <= LaneCount
      /\ LaneCount \in Nat \ {0}
  BY Counters
<1>2. PICK l \in Lanes :
         /\ l = LaneOf(m_nextTile) /\ ~m_acquired[l]
         /\ drained' = (IF m_pending[l] THEN drained + 1 ELSE drained)
         /\ m_pending' = [m_pending EXCEPT ![l] = FALSE]
         /\ m_pendingTileIndex' = [m_pendingTileIndex EXCEPT ![l] = m_nextTile]
         /\ UNCHANGED <<m_acquired, m_submittedTiles, m_nextTile>>
  BY DEF AcquireFails, Acquiring, Refill, DrainedTiles, tileVars
<1>3. /\ m_pending \in [Lanes -> BOOLEAN]
      /\ m_pendingTileIndex \in [Lanes -> Nat]
      /\ \A t \in Nat : LaneOf(t) \in Lanes
  BY TilesAndLanes DEF ControlTypes
<1>4. m_pending[l] => m_pendingTileIndex[l] = drained
  BY <1>2, LaneOfNextTile
<1>5. m_pending[l] => /\ drained \in drained .. m_submittedTiles - 1
                      /\ LaneOf(drained) = l
  BY <1>4 DEF LaneWindow
<1>6. /\ drained' \in Nat /\ drained <= drained'
      /\ drained' <= m_submittedTiles' /\ m_submittedTiles' <= m_nextTile'
      /\ m_nextTile' - drained' <= LaneCount
  BY ONLY <1>1, <1>2, <1>5, SMT
<1>7. ASSUME NEW t \in drained' .. m_submittedTiles' - 1
      PROVE  m_pending'[LaneOf(t)] /\ m_pendingTileIndex'[LaneOf(t)] = t
  <2>1. /\ t \in Nat /\ t \in drained .. m_submittedTiles - 1
        /\ m_pending[l] => t # drained
    BY ONLY <1>1, <1>2, <1>6, <1>7, SMT
  <2>2. m_pending[LaneOf(t)] /\ m_pendingTileIndex[LaneOf(t)] = t
    BY <2>1 DEF LaneWindow
  <2>3. LaneOf(t) # l
    BY <1>4, <2>1, <2>2
  <2> QED
    BY <1>2, <1>3, <2>1, <2>2, <2>3
<1>8. ASSUME NEW t \in m_submittedTiles' .. m_nextTile' - 1
      PROVE  m_acquired'[LaneOf(t)] /\ m_pendingTileIndex'[LaneOf(t)] = t
  <2>1. t \in Nat
    BY ONLY <1>1, <1>2, <1>8, SMT
  <2>2. m_acquired[LaneOf(t)] /\ m_pendingTileIndex[LaneOf(t)] = t
    BY <1>2, <1>8 DEF LaneWindow
  <2> QED
    BY <1>2, <1>3, <2>1, <2>2
<1>9. ASSUME NEW k \in Lanes, m_pending'[k]
      PROVE  /\ m_pendingTileIndex'[k] \in drained' .. m_submittedTiles' - 1
             /\ LaneOf(m_pendingTileIndex'[k]) = k
  <2>1. k # l /\ m_pending[k] /\ m_pendingTileIndex'[k] = m_pendingTileIndex[k]
    BY <1>2, <1>3, <1>9
  <2>2. /\ m_pendingTileIndex[k] \in drained .. m_submittedTiles - 1
        /\ LaneOf(m_pendingTileIndex[k]) = k
    BY <2>1 DEF LaneWindow
  <2>3. m_pending[l] => m_pendingTileIndex[k] # drained
    BY <1>5, <2>1, <2>2
  <2>4. m_pendingTileIndex[k] \in drained' .. m_submittedTiles' - 1
    BY ONLY <1>1, <1>2, <2>2, <2>3, SMT
  <2> QED
    BY <2>1, <2>2, <2>4
<1>10. ASSUME NEW k \in Lanes, m_acquired'[k]
       PROVE  /\ m_pendingTileIndex'[k] \in m_submittedTiles' .. m_nextTile' - 1
              /\ LaneOf(m_pendingTileIndex'[k]) = k
  <2>1. k # l /\ m_acquired[k]
    BY <1>2, <1>10
  <2> QED
    BY <1>2, <1>3, <2>1 DEF LaneWindow
<1> QED
  BY <1>6, <1>7, <1>8, <1>9, <1>10 DEF LaneWindow, LaneOf

\* No other step touches the window.
LEMMA WindowStep ==
    ASSUME ControlTypes, LaneWindow, [Next]_vars
    PROVE  LaneWindow'
<1> DEFINE windowVars == <<drained, m_submittedTiles, m_nextTile, m_pending,
                           m_acquired, m_pendingTileIndex>>
<1>1. ASSUME UNCHANGED windowVars
      PROVE  LaneWindow'
  BY <1>1 DEF LaneWindow, LaneOf
<1> USE DEF viewVars, tileVars, hostVars
<1>2. CASE AcquireTile
  BY <1>2, AcquireKeepsWindow
<1>3. CASE SubmitTile
  BY <1>3, SubmitKeepsWindow
<1>4. CASE DrainPending
  BY <1>4, DrainKeepsWindow
<1>5. CASE RefuseAcquire
  BY <1>1, <1>5 DEF RefuseAcquire
<1>6. CASE BeginStage \/ RunStage \/ EndStage
  BY <1>1, <1>6 DEF BeginStage, RunStage, EndStage
<1>7. CASE EndRegion
  BY <1>1, <1>7 DEF EndRegion
<1>8. CASE Throw
  BY <1>1, <1>8 DEF Throw
<1>9. ASSUME NEW l \in Lanes, DeviceStep(l)
      PROVE  LaneWindow'
  BY <1>1, <1>9 DEF DeviceStep, Upload, Unpack, Compute, Repack, Spill,
                    SpillMask, Executed
<1>10. ASSUME NEW l \in Lanes, Teardown(l)
       PROVE  LaneWindow'
  BY <1>1, <1>10 DEF Teardown, DestroyLane
<1>11. CASE UNCHANGED vars
  BY <1>1, <1>11 DEF vars
<1>12. CASE AcquireFails
  BY <1>12, FailedAcquireKeepsWindow
<1>13. CASE SubmitFails
  BY <1>1, <1>13 DEF SubmitFails
<1> QED
  BY <1>2, <1>3, <1>4, <1>5, <1>6, <1>7, <1>8, <1>9, <1>10, <1>11, <1>12, <1>13
  DEF Next, HostStep, Terminated

-----------------------------------------------------------------------------
\* The stage in hand stays one of the region's: acquireTile, the only call that
\* resets a lane's stage, takes another lane than the computing one.
LEMMA StageStep ==
    ASSUME ControlTypes, LaneWindow, StageInRange, [Next]_vars
    PROVE  StageInRange'
<1> DEFINE stageVars == <<phase, m_submittedTiles, m_nextTile, m_nextStage,
                          region>>
<1>1. ASSUME UNCHANGED stageVars
      PROVE  StageInRange'
  BY <1>1 DEF StageInRange, LaneOf
<1>2. ASSUME phase' = "idle"
      PROVE  StageInRange'
  BY <1>2 DEF StageInRange
<1> USE DEF viewVars, tileVars, hostVars, regionVars
<1>3. CASE AcquireTile
  <2> DEFINE l == LaneOf(m_nextTile)
             k == LaneOf(m_submittedTiles)
  <2>1. /\ ~m_acquired[l] /\ m_nextTile' = m_nextTile + 1
        /\ m_nextStage' = [m_nextStage EXCEPT ![l] = 0]
        /\ UNCHANGED <<phase, m_submittedTiles, region>>
    BY <1>3 DEF AcquireTile, Acquiring, Refill
  <2>2. CASE phase = "idle"
    BY <1>2, <2>1, <2>2
  <2>3. CASE phase # "idle"
    <3>1. /\ m_submittedTiles < m_nextTile /\ m_nextTile \in Nat
          /\ m_submittedTiles \in Nat
          /\ m_nextStage[k] < Len(region.stages)
      BY <2>3, Counters DEF StageInRange
    <3>2. /\ m_submittedTiles \in m_submittedTiles .. m_nextTile - 1
          /\ m_submittedTiles < m_nextTile'
      BY ONLY <2>1, <3>1, SMT
    <3>3. m_acquired[k] /\ k \in Lanes
      BY <3>1, <3>2, TilesAndLanes DEF LaneWindow
    <3>4. m_nextStage'[k] = m_nextStage[k]
      BY <2>1, <3>3 DEF ControlTypes
    <3> QED
      BY <2>1, <3>1, <3>2, <3>4 DEF StageInRange, LaneOf
  <2> QED
    BY <2>2, <2>3
<1>4. CASE BeginStage
  <2>1. /\ \E l \in Lanes : Computing(l) /\ m_nextStage[l] < Len(region.stages)
        /\ UNCHANGED <<m_submittedTiles, m_nextTile, m_nextStage, region>>
    BY <1>4 DEF BeginStage
  <2> QED
    BY <2>1 DEF StageInRange, Computing, LaneOf
<1>5. CASE RunStage
  <2>1. /\ phase = "begun"
        /\ UNCHANGED <<m_submittedTiles, m_nextTile, m_nextStage, region>>
    BY <1>5 DEF RunStage
  <2> QED
    BY <2>1 DEF StageInRange, LaneOf
<1>6. CASE EndStage
  BY <1>2, <1>6 DEF EndStage
<1>7. CASE SubmitTile
  BY <1>2, <1>7 DEF SubmitTile, Submitting
<1>8. CASE DrainPending \/ EndRegion \/ RefuseAcquire \/ AcquireFails
           \/ SubmitFails \/ Throw
  BY <1>1, <1>8 DEF DrainPending, EndRegion, RefuseAcquire, AcquireFails,
                    SubmitFails, Throw
<1>9. ASSUME NEW l \in Lanes, DeviceStep(l)
      PROVE  StageInRange'
  BY <1>1, <1>9 DEF DeviceStep, Upload, Unpack, Compute, Repack, Spill,
                    SpillMask, Executed
<1>10. ASSUME NEW l \in Lanes, Teardown(l)
       PROVE  StageInRange'
  BY <1>1, <1>10 DEF Teardown, DestroyLane
<1>11. CASE UNCHANGED vars
  BY <1>1, <1>11 DEF vars
<1> QED
  BY <1>3, <1>4, <1>5, <1>6, <1>7, <1>8, <1>9, <1>10, <1>11
  DEF Next, HostStep, Terminated

\* Work is queued only on the lane being acquired or computing, and a lane is
\* drained only when its stream is empty.
LEMMA QuietStep ==
    ASSUME ControlTypes, IdleLaneQuiet, [Next]_vars
    PROVE  IdleLaneQuiet'
<1> DEFINE quietVars == <<stream, m_acquired, m_pending>>
<1>1. ASSUME UNCHANGED quietVars
      PROVE  IdleLaneQuiet'
  BY <1>1 DEF IdleLaneQuiet
<1>2. ASSUME NEW l \in Lanes, NEW ops, Enqueue(l, ops),
             m_acquired' \in [Lanes -> BOOLEAN], m_pending' \in [Lanes -> BOOLEAN],
             m_acquired'[l] \/ m_pending'[l],
             \A k \in Lanes \ {l} : /\ m_acquired'[k] = m_acquired[k]
                                   /\ m_pending'[k] = m_pending[k]
      PROVE  IdleLaneQuiet'
  <2> SUFFICES ASSUME NEW k \in Lanes, stream'[k] # <<>>
               PROVE  m_acquired'[k] \/ m_pending'[k]
    BY DEF IdleLaneQuiet
  <2>1. CASE k = l
    BY <1>2, <2>1
  <2>2. CASE k # l
    BY <1>2, <2>2 DEF Enqueue, IdleLaneQuiet, ControlTypes
  <2> QED
    BY <2>1, <2>2
<1> USE DEF viewVars, tileVars, hostVars, regionVars
<1>3. CASE AcquireTile
  <2> DEFINE l == LaneOf(m_nextTile)
  <2>1. /\ Enqueue(l, <<Queued("upload", m_nextTile, {}, 0)>>)
        /\ m_pending' = [m_pending EXCEPT ![l] = FALSE]
        /\ m_acquired' = [m_acquired EXCEPT ![l] = TRUE]
    BY <1>3 DEF AcquireTile, Acquiring, Refill
  <2>2. l \in Lanes
    <3>1. m_nextTile \in 0 .. TileCount /\ TileCount \in Nat
      BY TilesAndLanes DEF ControlTypes
    <3>2. m_nextTile \in Nat
      BY ONLY <3>1, SMT
    <3> QED
      BY <3>2, TilesAndLanes
  <2> HIDE DEF l
  <2> QED
    BY <1>2, <2>1, <2>2 DEF ControlTypes
<1>4. CASE BeginStage
  <2> DEFINE missing(l) == CurrentStage(l).deviceMaterialize \ has[l]
             ops(l) == IF missing(l) = {} THEN <<>>
                       ELSE <<Queued("unpack", m_submittedTiles,
                                     missing(l), 0)>>
  <2>1. PICK l \in Lanes :
           /\ Enqueue(l, ops(l)) /\ m_acquired[l]
           /\ UNCHANGED <<m_pending, m_acquired>>
    BY <1>4 DEF BeginStage, Computing
  <2> HIDE DEF ops
  <2> QED
    BY <1>2, <2>1 DEF ControlTypes
<1>5. CASE RunStage
  <2>1. PICK l \in Lanes :
           /\ Enqueue(l, <<Queued("compute", m_submittedTiles, {},
                                  m_nextStage[l] + 1)>>)
           /\ m_acquired[l] /\ UNCHANGED <<m_pending, m_acquired>>
    BY <1>5 DEF RunStage, Computing
  <2> QED
    BY <1>2, <2>1 DEF ControlTypes
<1>6. CASE SubmitTile
  <2>1. PICK l \in Lanes :
           /\ Enqueue(l, SubmitOps(l))
           /\ m_pending' = [m_pending EXCEPT ![l] = TRUE]
           /\ m_acquired' = [m_acquired EXCEPT ![l] = FALSE]
    BY <1>6 DEF SubmitTile
  <2> QED
    BY <1>2, <2>1 DEF ControlTypes
<1>7. CASE DrainPending
  <2>1. PICK l \in Lanes :
           /\ stream[l] = <<>>
           /\ m_pending' = [m_pending EXCEPT ![l] = FALSE]
           /\ UNCHANGED <<stream, m_acquired>>
    BY <1>7 DEF DrainPending, Synchronized
  <2> QED
    BY <2>1 DEF IdleLaneQuiet, ControlTypes
<1>8. CASE EndRegion \/ EndStage \/ RefuseAcquire \/ Throw
  BY <1>1, <1>8 DEF EndRegion, EndStage, RefuseAcquire, Throw
<1>9. ASSUME NEW l \in Lanes, DeviceStep(l)
      PROVE  IdleLaneQuiet'
  <2>1. /\ stream[l] # <<>> /\ stream' = [stream EXCEPT ![l] = Tail(@)]
        /\ UNCHANGED <<m_acquired, m_pending>>
    BY <1>9 DEF DeviceStep, Upload, Unpack, Compute, Repack, Spill, SpillMask,
                Executed, NextOp
  <2> QED
    BY <2>1 DEF IdleLaneQuiet, ControlTypes
<1>10. ASSUME NEW l \in Lanes, Teardown(l)
       PROVE  IdleLaneQuiet'
  BY <1>1, <1>10 DEF Teardown, DestroyLane
<1>11. CASE UNCHANGED vars
  BY <1>1, <1>11 DEF vars
<1>12. CASE AcquireFails
  <2>1. PICK l \in Lanes :
           /\ m_pending[l] => stream[l] = <<>>
           /\ m_pending' = [m_pending EXCEPT ![l] = FALSE]
           /\ UNCHANGED <<stream, m_acquired>>
    BY <1>12 DEF AcquireFails, Acquiring, Refill, Synchronized
  <2> QED
    BY <2>1 DEF IdleLaneQuiet, ControlTypes
<1>13. CASE SubmitFails
  <2>1. PICK l \in Lanes :
           /\ \E n \in DOMAIN SubmitOps(l) :
                 Enqueue(l, SubSeq(SubmitOps(l), 1, n))
           /\ m_acquired[l] /\ UNCHANGED <<m_pending, m_acquired>>
    BY <1>13 DEF SubmitFails, Submitting, Computing
  <2> QED
    BY <1>2, <2>1 DEF ControlTypes
<1> QED
  BY <1>3, <1>4, <1>5, <1>6, <1>7, <1>8, <1>9, <1>10, <1>11, <1>12, <1>13
  DEF Next, HostStep, Terminated

\* Only a running context queues work, so never on a destroyed lane; and only a
\* lane that was acquired, which is when m_workQueued is set.
LEMMA FreedStep ==
    ASSUME ControlTypes, FreedQuiet, [Next]_vars
    PROVE  FreedQuiet'
<1> DEFINE freedVars == <<stream, alive, m_acquired, m_workQueued>>
<1>1. ASSUME UNCHANGED freedVars, ScopeLeft => ScopeLeft'
      PROVE  FreedQuiet'
  BY <1>1 DEF FreedQuiet
<1>2. ASSUME Running PROVE \A l \in Lanes : alive[l]
  BY <1>2 DEF FreedQuiet, Running, ScopeLeft
<1>3. ASSUME NEW l \in Lanes, NEW ops, Enqueue(l, ops), Running,
             alive' = alive, m_workQueued' \in [Lanes -> BOOLEAN],
             m_workQueued'[l],
             \A k \in Lanes \ {l} : /\ m_acquired'[k] = m_acquired[k]
                                   /\ m_workQueued'[k] = m_workQueued[k]
      PROVE  FreedQuiet'
  <2> SUFFICES ASSUME NEW k \in Lanes
               PROVE  /\ alive'[k]
                      /\ m_acquired'[k] \/ stream'[k] # <<>> => m_workQueued'[k]
    BY DEF FreedQuiet
  <2>1. alive'[k]
    BY <1>2, <1>3
  <2>2. CASE k = l
    BY <1>3, <2>1, <2>2
  <2>3. CASE k # l
    <3>1. stream'[k] = stream[k]
      BY <1>3, <2>3 DEF Enqueue, ControlTypes
    <3> QED
      BY <1>3, <2>1, <2>3, <3>1 DEF FreedQuiet
  <2> QED
    BY <2>2, <2>3
<1> USE DEF viewVars, tileVars, hostVars, regionVars
<1>4. CASE AcquireTile
  <2> DEFINE l == LaneOf(m_nextTile)
  <2>1. /\ Enqueue(l, <<Queued("upload", m_nextTile, {}, 0)>>) /\ Running
        /\ m_workQueued' = [m_workQueued EXCEPT ![l] = TRUE]
        /\ m_acquired' = [m_acquired EXCEPT ![l] = TRUE]
        /\ alive' = alive
    BY <1>4 DEF AcquireTile, Acquiring, Refill
  <2>2. l \in Lanes
    <3>1. m_nextTile \in 0 .. TileCount /\ TileCount \in Nat
      BY TilesAndLanes DEF ControlTypes
    <3>2. m_nextTile \in Nat
      BY ONLY <3>1, SMT
    <3> QED
      BY <3>2, TilesAndLanes
  <2> HIDE DEF l
  <2> QED
    BY <1>3, <2>1, <2>2 DEF ControlTypes
<1>5. CASE BeginStage
  <2> DEFINE missing(l) == CurrentStage(l).deviceMaterialize \ has[l]
             ops(l) == IF missing(l) = {} THEN <<>>
                       ELSE <<Queued("unpack", m_submittedTiles,
                                     missing(l), 0)>>
  <2>1. PICK l \in Lanes :
           /\ Enqueue(l, ops(l)) /\ m_acquired[l] /\ Running
           /\ UNCHANGED <<alive, m_acquired, m_workQueued>>
    BY <1>5 DEF BeginStage, Computing
  <2> HIDE DEF ops
  <2>2. m_workQueued[l]
    BY <2>1 DEF FreedQuiet
  <2> QED
    BY <1>3, <2>1, <2>2 DEF ControlTypes
<1>6. CASE RunStage
  <2>1. PICK l \in Lanes :
           /\ Enqueue(l, <<Queued("compute", m_submittedTiles, {},
                                  m_nextStage[l] + 1)>>)
           /\ m_acquired[l] /\ Running
           /\ UNCHANGED <<alive, m_acquired, m_workQueued>>
    BY <1>6 DEF RunStage, Computing
  <2>2. m_workQueued[l]
    BY <2>1 DEF FreedQuiet
  <2> QED
    BY <1>3, <2>1, <2>2 DEF ControlTypes
<1>7. CASE SubmitTile
  <2>1. PICK l \in Lanes :
           /\ Enqueue(l, SubmitOps(l)) /\ m_acquired[l] /\ Running
           /\ m_acquired' = [m_acquired EXCEPT ![l] = FALSE]
           /\ UNCHANGED <<alive, m_workQueued>>
    BY <1>7 DEF SubmitTile, Submitting, Computing
  <2>2. m_workQueued[l]
    BY <2>1 DEF FreedQuiet
  <2> QED
    BY <1>3, <2>1, <2>2 DEF ControlTypes
<1>8. CASE DrainPending \/ EndRegion \/ EndStage \/ RefuseAcquire
  BY <1>1, <1>8 DEF DrainPending, EndRegion, EndStage, RefuseAcquire, Running,
                    Ending, Computing, ScopeLeft
<1>9. CASE Throw
  BY <1>1, <1>9 DEF Throw, ScopeLeft
<1>10. ASSUME NEW l \in Lanes, DeviceStep(l)
       PROVE  FreedQuiet'
  <2>1. /\ stream[l] # <<>> /\ stream' = [stream EXCEPT ![l] = Tail(@)]
        /\ UNCHANGED <<alive, m_acquired, m_workQueued, error, m_state>>
    BY <1>10 DEF DeviceStep, Upload, Unpack, Compute, Repack, Spill, SpillMask,
                 Executed, NextOp
  <2> QED
    BY <2>1 DEF FreedQuiet, ControlTypes, ScopeLeft
<1>11. ASSUME NEW l \in Lanes, Teardown(l)
       PROVE  FreedQuiet'
  <2>1. /\ ScopeLeft /\ (m_workQueued[l] => stream[l] = <<>>)
        /\ alive' = [alive EXCEPT ![l] = FALSE]
        /\ UNCHANGED <<stream, m_acquired, m_workQueued, error, m_state>>
    BY <1>11 DEF Teardown, DestroyLane, MayFree
  <2> QED
    BY <2>1 DEF FreedQuiet, ControlTypes, ScopeLeft
<1>12. CASE UNCHANGED vars
  BY <1>1, <1>12 DEF vars, ScopeLeft
<1>13. CASE AcquireFails
  BY <1>1, <1>13 DEF AcquireFails, Acquiring, Running, ScopeLeft
<1>14. CASE SubmitFails
  <2>1. PICK l \in Lanes :
           /\ \E n \in DOMAIN SubmitOps(l) :
                 Enqueue(l, SubSeq(SubmitOps(l), 1, n))
           /\ m_acquired[l] /\ Running
           /\ UNCHANGED <<alive, m_acquired, m_workQueued>>
    BY <1>14 DEF SubmitFails, Submitting, Computing
  <2>2. m_workQueued[l]
    BY <2>1 DEF FreedQuiet
  <2> QED
    BY <1>3, <2>1, <2>2 DEF ControlTypes
<1> QED
  BY <1>4, <1>5, <1>6, <1>7, <1>8, <1>9, <1>10, <1>11, <1>12, <1>13, <1>14
  DEF Next, HostStep, Terminated

\* The region is complete only when endRegion found no pending lane, and nothing
\* is published after that.
LEMMA UnpublishedStep ==
    ASSUME ControlTypes, LaneWindow, NothingUnpublished, [Next]_vars
    PROVE  NothingUnpublished'
<1>1. ASSUME UNCHANGED <<m_state, drained>>
      PROVE  NothingUnpublished'
  BY <1>1 DEF NothingUnpublished
<1>2. ASSUME Running, m_state' = m_state
      PROVE  NothingUnpublished'
  BY <1>2 DEF Running, NothingUnpublished
<1> USE DEF viewVars, tileVars, hostVars, regionVars
<1>3. CASE EndRegion
  <2>1. /\ m_submittedTiles = TileCount /\ drained' = drained
        /\ \A l \in Lanes : ~m_pending[l]
    BY <1>3 DEF EndRegion, Ending, AllDrained
  <2>2. drained \in Nat /\ m_submittedTiles \in Nat /\ drained <= m_submittedTiles
    BY Counters
  <2>3. CASE drained # m_submittedTiles
    <3>1. drained \in drained .. m_submittedTiles - 1
      BY ONLY <2>2, <2>3, SMT
    <3>2. m_pending[LaneOf(drained)] /\ LaneOf(drained) \in Lanes
      BY <2>2, <3>1, TilesAndLanes DEF LaneWindow
    <3> QED
      BY <2>1, <3>2
  <2> QED
    BY <2>1, <2>3 DEF NothingUnpublished, TileCount, Capacity
<1>4. CASE AcquireTile \/ BeginStage \/ RunStage \/ EndStage \/ SubmitTile
           \/ DrainPending \/ RefuseAcquire \/ AcquireFails \/ SubmitFails
  <2>1. Running /\ m_state' = m_state
    BY <1>4 DEF AcquireTile, Acquiring, BeginStage, RunStage, EndStage, SubmitTile,
                Submitting, DrainPending, RefuseAcquire, AcquireFails,
                SubmitFails, Computing, Ending
  <2> QED
    BY <1>2, <2>1
<1>5. CASE Throw
  BY <1>1, <1>5 DEF Throw
<1>6. ASSUME NEW l \in Lanes, DeviceStep(l)
      PROVE  NothingUnpublished'
  BY <1>1, <1>6 DEF DeviceStep, Upload, Unpack, Compute, Repack, Spill,
                    SpillMask, Executed
<1>7. ASSUME NEW l \in Lanes, Teardown(l)
      PROVE  NothingUnpublished'
  BY <1>1, <1>7 DEF Teardown, DestroyLane
<1>8. CASE UNCHANGED vars
  BY <1>1, <1>8 DEF vars
<1> QED
  BY <1>3, <1>4, <1>5, <1>6, <1>7, <1>8 DEF Next, HostStep, Terminated

-----------------------------------------------------------------------------
\* IInv is inductive.
LEMMA NextInvariant == IInv /\ [Next]_vars => IInv'
  BY TypesStep, WindowStep, StageStep, QuietStep, FreedStep, UnpublishedStep
  DEF IInv

\* IInv holds of every reachable state.
THEOREM Invariance == Spec => []IInv
<1>1. Init => IInv
  BY InitInvariant
<1>2. IInv /\ [Next]_vars => IInv'
  BY NextInvariant
<1> QED
  BY <1>1, <1>2, PTL DEF Spec

\* ControlTyped: the context's counters, the lanes' flags, columns and queues
\* keep their types, and a queued computation names a stage of the region.
THEOREM ControlTyped == Spec => []ControlTypes
  BY Invariance, PTL DEF IInv

\* WindowHolds: at every moment the lanes' flags and indexes describe exactly
\* the tiles in flight, for every number of tiles and lanes.
THEOREM WindowHolds == Spec => []LaneWindow
  BY Invariance, PTL DEF IInv

\* QuietLanes: no lane with queued work is ever taken for an idle one.
THEOREM QuietLanes == Spec => []IdleLaneQuiet
  BY Invariance, PTL DEF IInv

\* FreedAfterUse: whatever exception unwinds the context, a lane's buffers are
\* freed only when no queued device work can still use them.
THEOREM FreedAfterUse == Spec => []NoUseAfterFree
<1>1. IInv => NoUseAfterFree
  BY DEF IInv, FreedQuiet, NoUseAfterFree
<1> QED
  BY <1>1, Invariance, PTL

\* EveryTilePublished: a completed region has published all of its tiles.
THEOREM EveryTilePublished == Spec => []NothingUnpublished
  BY Invariance, PTL DEF IInv

-----------------------------------------------------------------------------
\* The steps that take a lane or publish its tile: acquireTile, whether it
\* succeeds or not, on the lane of the next tile, and endRegion on the lane of
\* the oldest.
LEMMA HandoverSteps ==
    ASSUME ControlTypes, [Next]_vars, NEW l \in Lanes,
           \/ m_pending[l] /\ ~m_pending'[l]
           \/ ~m_acquired[l] /\ m_acquired'[l]
    PROVE  \/ Acquiring(l)
           \/ /\ DrainPending
              /\ OldestPending(l)
              /\ stream[l] = <<>>
<1> USE DEF viewVars, tileVars, hostVars, regionVars, ControlTypes
<1>1. CASE AcquireTile \/ AcquireFails
  <2>1. PICK k \in Lanes :
           /\ Acquiring(k)
           /\ m_pending' = [m_pending EXCEPT ![k] = FALSE]
           /\ m_acquired' \in {m_acquired, [m_acquired EXCEPT ![k] = TRUE]}
    BY <1>1 DEF AcquireTile, AcquireFails, Refill
  <2>2. l = k
    BY <2>1
  <2> QED
    BY <2>1, <2>2
<1>2. CASE DrainPending
  <2>1. PICK k \in Lanes :
           /\ OldestPending(k) /\ stream[k] = <<>>
           /\ m_pending' = [m_pending EXCEPT ![k] = FALSE]
           /\ m_acquired' = m_acquired
    BY <1>2 DEF DrainPending, Synchronized
  <2>2. l = k
    BY <2>1
  <2> QED
    BY <1>2, <2>1, <2>2
<1>3. CASE SubmitTile
  <2>1. PICK k \in Lanes :
           /\ m_pending' = [m_pending EXCEPT ![k] = TRUE]
           /\ m_acquired' = [m_acquired EXCEPT ![k] = FALSE]
    BY <1>3 DEF SubmitTile
  <2> QED
    BY <2>1
<1>4. ASSUME UNCHANGED <<m_pending, m_acquired>>
      PROVE  FALSE
  BY <1>4
<1>5. CASE BeginStage \/ RunStage \/ EndStage \/ EndRegion \/ RefuseAcquire
           \/ SubmitFails \/ Throw
  BY <1>4, <1>5 DEF BeginStage, RunStage, EndStage, EndRegion, RefuseAcquire,
                    SubmitFails, Throw
<1>6. ASSUME NEW k \in Lanes, DeviceStep(k)
      PROVE  FALSE
  BY <1>4, <1>6 DEF DeviceStep, Upload, Unpack, Compute, Repack, Spill,
                    SpillMask, Executed
<1>7. ASSUME NEW k \in Lanes, Teardown(k)
      PROVE  FALSE
  BY <1>4, <1>7 DEF Teardown, DestroyLane
<1>8. CASE UNCHANGED vars
  BY <1>4, <1>8 DEF vars
<1> QED
  BY <1>1, <1>2, <1>3, <1>5, <1>6, <1>7, <1>8 DEF Next, HostStep, Terminated

\* SourceOrder: tiles are published in source order, each once, whichever
\* lanes they ran on.
THEOREM SourceOrder == Spec => PublishedInOrder
<1>1. ASSUME IInv, [Next]_vars, NEW l \in Lanes, m_pending[l], ~m_pending'[l]
      PROVE  m_pendingTileIndex[l] = drained
  <2>1. CASE Acquiring(l)
    BY <1>1, <2>1, LaneOfNextTile DEF IInv, Acquiring
  <2>2. CASE DrainPending /\ OldestPending(l)
    BY <1>1, <2>2, OldestIsDrained DEF IInv
  <2> QED
    BY <1>1, <2>1, <2>2, HandoverSteps DEF IInv
<1>2. IInv /\ [Next]_vars =>
        [\A l \in Lanes : m_pending[l] /\ ~m_pending'[l]
            => m_pendingTileIndex[l] = drained]_vars
  BY <1>1
<1> QED
  BY <1>2, Invariance, PTL DEF Spec, PublishedInOrder

-----------------------------------------------------------------------------
(***************************************************************************)
(* The columns.  What follows is about regions whose plan is consistent by *)
(* itself (ColumnsPlanned); the lanes, which serve many tiles each and are *)
(* left at any point, then never hold another set of columns than the plan *)
(* has for the stage they are at.                                          *)
(***************************************************************************)

\* What the plan of the region has a lane hold after each stage, and during it.
HeldAfter ==
    CHOOSE held \in [0 .. Len(region.stages) -> SUBSET Dims] :
        ColumnSchedule(region, held)

HeldDuring(s) == HeldAfter[s - 1] \cup region.stages[s].deviceMaterialize

\* A stage has begun on the lane and has not ended.
InStage(l) == phase # "idle" /\ l = LaneOf(m_submittedTiles)

LaneColumns(l) ==
    /\ m_acquired[l] =>
          /\ m_nextStage[l] <= Len(region.stages)
          /\ has[l] = IF InStage(l) THEN HeldDuring(m_nextStage[l] + 1)
                                    ELSE HeldAfter[m_nextStage[l]]
    /\ ~m_acquired[l] => has[l] \subseteq region.releaseDimensions

\* The inductive invariant, next to IInv.
ColumnsInv ==
    /\ region \in Regions
    /\ PlanAccepted
    /\ NoColumnLeft
    /\ error = "none" => \A l \in Lanes : LaneColumns(l)

\* What ColumnsPlanned says of the region's schedule.
LEMMA ScheduleOfRegion ==
    ASSUME \A r \in Regions : ColumnsPlanned(r), region \in Regions
    PROVE  /\ Len(region.stages) \in Nat
           /\ DOMAIN region.stages = 1 .. Len(region.stages)
           /\ HeldAfter \in [0 .. Len(region.stages) -> SUBSET Dims]
           /\ ColumnSchedule(region, HeldAfter)
<1>1. region.stages \in Seq(PlannedStage)
  BY RegionsAssumption DEF Region
<1>2. \E held \in [0 .. Len(region.stages) -> SUBSET Dims] :
         ColumnSchedule(region, held)
  BY DEF ColumnsPlanned
<1> QED
  BY <1>1, <1>2 DEF HeldAfter

\* A step that leaves these alone leaves the columns where the plan has them.
LEMMA ColumnsUntouched ==
    ASSUME ColumnsInv, UNCHANGED <<region, has>>,
           UNCHANGED <<m_acquired, m_nextStage, phase, m_submittedTiles>>,
           m_state' = m_state, error' \in {error, "environment"}
    PROVE  ColumnsInv'
<1>1. HeldAfter' = HeldAfter
  BY DEF HeldAfter
<1>2. \A l \in Lanes : LaneColumns(l)' <=> LaneColumns(l)
  BY <1>1 DEF LaneColumns, InStage, HeldDuring, LaneOf
<1>3. error' = "none" => error = "none"
  OBVIOUS
<1> QED
  BY <1>2, <1>3 DEF ColumnsInv, PlanAccepted, NoColumnLeft

\* The lane whose tile is computed is the only one a stage can be in.
LEMMA ComputingLane ==
    ASSUME ControlTypes, LaneWindow, StageInRange, NEW l \in Lanes,
           l = LaneOf(m_nextTile), m_nextTile < TileCount, ~m_acquired[l]
    PROVE  ~InStage(l)
<1> SUFFICES ASSUME phase # "idle", l = LaneOf(m_submittedTiles) PROVE FALSE
  BY DEF InStage
<1>1. m_submittedTiles < m_nextTile /\ m_nextTile \in Nat /\ m_submittedTiles \in Nat
  BY Counters DEF StageInRange
<1>2. m_submittedTiles \in m_submittedTiles .. m_nextTile - 1
  BY ONLY <1>1, SMT
<1> QED
  BY <1>2 DEF LaneWindow

LEMMA ColumnsStep ==
    ASSUME \A r \in Regions : ColumnsPlanned(r), IInv, ColumnsInv, [Next]_vars
    PROVE  ColumnsInv'
<1>1. /\ ControlTypes /\ LaneWindow /\ StageInRange
      /\ region \in Regions
      /\ PlanAccepted /\ NoColumnLeft
      /\ Len(region.stages) \in Nat
      /\ DOMAIN region.stages = 1 .. Len(region.stages)
      /\ HeldAfter \in [0 .. Len(region.stages) -> SUBSET Dims]
      /\ ColumnSchedule(region, HeldAfter)
      /\ m_nextTile \in Nat /\ m_submittedTiles \in Nat
  BY ScheduleOfRegion, Counters DEF IInv, ColumnsInv
<1> USE DEF viewVars, tileVars, hostVars, regionVars
<1>2. CASE AcquireTile
  <2>1. PICK l \in Lanes : Acquiring(l) /\ Refill(l)
          /\ m_acquired' = [m_acquired EXCEPT ![l] = TRUE]
          /\ m_nextStage' = [m_nextStage EXCEPT ![l] = 0]
          /\ m_nextTile' = m_nextTile + 1
          /\ UNCHANGED <<m_submittedTiles, phase, error, regionVars>>
    BY <1>2 DEF AcquireTile
  <2>2. /\ ~m_acquired[l] /\ l = LaneOf(m_nextTile) /\ m_nextTile < TileCount
        /\ error = "none" /\ m_state = "RegionActive"
        /\ has' = [has EXCEPT ![l] = has[l] \ region.releaseDimensions]
    BY <2>1 DEF Acquiring, Running, Refill
  <2>3. ~InStage(l) /\ HeldAfter' = HeldAfter
    BY <1>1, <2>1, <2>2, ComputingLane DEF HeldAfter
  <2>4. has'[l] = {} /\ m_acquired'[l] /\ m_nextStage'[l] = 0
    BY <1>1, <2>1, <2>2 DEF ColumnsInv, LaneColumns, ControlTypes
  <2>5. LaneColumns(l)'
    BY <1>1, <2>1, <2>3, <2>4 DEF LaneColumns, InStage, LaneOf, ColumnSchedule
  <2>6. ASSUME NEW k \in Lanes, k # l PROVE LaneColumns(k)'
    <3>1. /\ m_acquired'[k] = m_acquired[k] /\ m_nextStage'[k] = m_nextStage[k]
          /\ has'[k] = has[k] /\ LaneColumns(k)
      BY <1>1, <2>1, <2>2, <2>6 DEF ControlTypes, ColumnsInv
    <3> QED
      BY <2>1, <2>3, <3>1 DEF LaneColumns, InStage, HeldDuring, LaneOf
  <2> QED
    BY <1>1, <2>1, <2>2, <2>5, <2>6 DEF ColumnsInv, PlanAccepted, NoColumnLeft
<1>3. CASE BeginStage
  <2>1. PICK l \in Lanes :
          /\ Computing(l) /\ phase = "idle" /\ m_nextStage[l] < Len(region.stages)
          /\ LET stage    == CurrentStage(l)
                 held     == has[l] \cup stage.deviceMaterialize
                 accepted == /\ stage.deviceLiveBefore \subseteq held
                             /\ Cardinality(held) <= region.deviceColumns
             IN  /\ has' = [has EXCEPT ![l] = held]
                 /\ phase' = IF accepted THEN "begun" ELSE phase
                 /\ error' = IF accepted THEN error ELSE "plan"
          /\ UNCHANGED <<m_acquired, m_nextStage, m_submittedTiles, regionVars>>
    BY <1>3 DEF BeginStage
  <2> DEFINE s == m_nextStage[l] + 1
  <2>2. /\ m_acquired[l] /\ error = "none" /\ m_state = "RegionActive"
        /\ l = LaneOf(m_submittedTiles)
    BY <2>1 DEF Computing, Running
  <2>3. s \in 1 .. Len(region.stages) /\ s - 1 = m_nextStage[l]
    <3>1. m_nextStage[l] \in Nat
      BY <1>1 DEF ControlTypes
    <3> QED
      BY <1>1, <2>1, <3>1, SMT
  <2>4. has[l] = HeldAfter[s - 1] /\ HeldAfter' = HeldAfter
    BY <2>1, <2>2, <2>3 DEF ColumnsInv, LaneColumns, InStage, HeldAfter
  <2>5. /\ region.stages[s].deviceLiveBefore \subseteq HeldDuring(s)
        /\ Cardinality(HeldDuring(s)) <= region.deviceColumns
    BY <1>1, <2>3 DEF ColumnSchedule, HeldDuring
  <2>6. /\ has' = [has EXCEPT ![l] = HeldDuring(s)]
        /\ phase' = "begun" /\ error' = error
    BY <2>1, <2>4, <2>5 DEF CurrentStage, HeldDuring
  <2> HIDE DEF s
  <2>7. LaneColumns(l)'
    <3>1. has'[l] = HeldDuring(s) /\ m_nextStage'[l] = m_nextStage[l]
          /\ m_acquired'[l] /\ region' = region
      BY <1>1, <2>1, <2>2, <2>6 DEF ControlTypes
    <3>2. InStage(l)' /\ HeldDuring(m_nextStage[l] + 1)' = HeldDuring(s)
      BY <2>1, <2>2, <2>4, <2>6 DEF InStage, LaneOf, HeldDuring, s
    <3>3. m_nextStage'[l] <= Len(region'.stages)
      BY <1>1, <2>1, <2>2, <3>1 DEF ColumnsInv, LaneColumns
    <3> QED
      BY <3>1, <3>2, <3>3 DEF LaneColumns
  <2>8. ASSUME NEW k \in Lanes, k # l PROVE LaneColumns(k)'
    <3>1. /\ m_acquired'[k] = m_acquired[k] /\ m_nextStage'[k] = m_nextStage[k]
          /\ has'[k] = has[k] /\ LaneColumns(k) /\ region' = region
      BY <1>1, <2>1, <2>2, <2>6, <2>8 DEF ControlTypes, ColumnsInv
    <3>2. ~InStage(k) /\ ~InStage(k)'
      BY <2>1, <2>2, <2>8 DEF InStage, LaneOf
    <3> QED
      BY <2>4, <3>1, <3>2 DEF LaneColumns
  <2> QED
    BY <1>1, <2>1, <2>2, <2>6, <2>7, <2>8 DEF ColumnsInv, PlanAccepted, NoColumnLeft
<1>4. CASE RunStage
  <2>1. PICK l \in Lanes : Computing(l) /\ phase = "begun" /\ phase' = "ran"
          /\ UNCHANGED <<has, m_acquired, m_nextStage, m_submittedTiles, error,
                         regionVars>>
    BY <1>4 DEF RunStage
  <2>2. HeldAfter' = HeldAfter /\ error = "none"
    BY <2>1 DEF HeldAfter, Computing, Running
  <2>3. ASSUME NEW k \in Lanes PROVE LaneColumns(k)'
    <3>1. LaneColumns(k) /\ InStage(k)' = InStage(k)
      BY <2>1, <2>2 DEF ColumnsInv, InStage, LaneOf
    <3> QED
      BY <2>1, <2>2, <3>1 DEF LaneColumns, HeldDuring
  <2> QED
    BY <1>1, <2>1, <2>3 DEF ColumnsInv, PlanAccepted, NoColumnLeft
<1>5. CASE EndStage
  <2>1. PICK l \in Lanes :
          /\ Computing(l) /\ phase = "ran" /\ phase' = "idle"
          /\ has' = [has EXCEPT ![l] = has[l] \ CurrentStage(l).deviceRelease]
          /\ m_nextStage' = [m_nextStage EXCEPT ![l] = m_nextStage[l] + 1]
          /\ UNCHANGED <<m_acquired, m_submittedTiles, error, regionVars>>
    BY <1>5 DEF EndStage
  <2> DEFINE s == m_nextStage[l] + 1
  <2>2. /\ m_acquired[l] /\ error = "none" /\ m_state = "RegionActive"
        /\ l = LaneOf(m_submittedTiles) /\ InStage(l)
    BY <2>1 DEF Computing, Running, InStage
  <2>3. s \in 1 .. Len(region.stages)
    <3>1. m_nextStage[l] \in Nat /\ m_nextStage[l] < Len(region.stages)
      BY <1>1, <2>1, <2>2 DEF ControlTypes, StageInRange
    <3> QED
      BY <1>1, <3>1, SMT
  <2>4. has[l] = HeldDuring(s) /\ HeldAfter' = HeldAfter
    BY <2>1, <2>2 DEF ColumnsInv, LaneColumns, HeldAfter
  <2>5. has[l] \ CurrentStage(l).deviceRelease = HeldAfter[s]
    BY <1>1, <2>3, <2>4 DEF ColumnSchedule, HeldDuring, CurrentStage
  <2>6. LaneColumns(l)'
    <3>1. has'[l] = HeldAfter[s] /\ m_nextStage'[l] = s /\ m_acquired'[l]
          /\ region' = region
      BY <1>1, <2>1, <2>2, <2>5 DEF ControlTypes
    <3>2. ~InStage(l)' /\ s <= Len(region.stages)
      BY <1>1, <2>1, <2>3 DEF InStage
    <3> HIDE DEF s
    <3> QED
      BY <2>4, <3>1, <3>2 DEF LaneColumns
  <2>7. ASSUME NEW k \in Lanes, k # l PROVE LaneColumns(k)'
    <3>1. /\ m_acquired'[k] = m_acquired[k] /\ m_nextStage'[k] = m_nextStage[k]
          /\ has'[k] = has[k] /\ LaneColumns(k) /\ region' = region
      BY <1>1, <2>1, <2>2, <2>7 DEF ControlTypes, ColumnsInv
    <3>2. ~InStage(k) /\ ~InStage(k)'
      BY <2>1, <2>2, <2>7 DEF InStage
    <3> QED
      BY <2>4, <3>1, <3>2 DEF LaneColumns
  <2> QED
    BY <1>1, <2>1, <2>2, <2>6, <2>7 DEF ColumnsInv, PlanAccepted, NoColumnLeft
<1>6. CASE SubmitTile
  <2>1. PICK l \in Lanes :
          /\ Submitting(l)
          /\ m_acquired' = [m_acquired EXCEPT ![l] = FALSE]
          /\ m_submittedTiles' = m_submittedTiles + 1
          /\ UNCHANGED <<has, m_nextStage, phase, error, regionVars>>
    BY <1>6 DEF SubmitTile
  <2>2. /\ m_acquired[l] /\ error = "none" /\ m_state = "RegionActive"
        /\ phase = "idle" /\ m_nextStage[l] = Len(region.stages)
        /\ HeldAfter' = HeldAfter
    BY <2>1 DEF Submitting, Computing, Running, HeldAfter
  <2>3. LaneColumns(l)'
    <3>1. has[l] = HeldAfter[Len(region.stages)]
      BY <2>2 DEF ColumnsInv, LaneColumns, InStage
    <3>2. has'[l] \subseteq region.releaseDimensions /\ ~m_acquired'[l]
      BY <1>1, <2>1, <3>1 DEF ColumnSchedule, ControlTypes
    <3> QED
      BY <2>1, <3>2 DEF LaneColumns
  <2>4. ASSUME NEW k \in Lanes, k # l PROVE LaneColumns(k)'
    <3>1. m_acquired'[k] = m_acquired[k] /\ LaneColumns(k)
      BY <1>1, <2>1, <2>2, <2>4 DEF ControlTypes, ColumnsInv
    <3>2. ~InStage(k) /\ ~InStage(k)'
      BY <2>1, <2>2 DEF InStage
    <3> QED
      BY <2>1, <2>2, <3>1, <3>2 DEF LaneColumns
  <2> QED
    BY <1>1, <2>1, <2>2, <2>3, <2>4 DEF ColumnsInv, PlanAccepted, NoColumnLeft
<1>7. CASE EndRegion
  <2>1. /\ Ending /\ has' = [l \in Lanes |-> has[l] \ region.releaseDimensions]
        /\ UNCHANGED <<region, m_acquired, m_nextStage, phase, m_submittedTiles,
                       error>>
    BY <1>7 DEF EndRegion
  <2>2. ASSUME NEW l \in Lanes PROVE ~m_acquired[l]
    <3>1. m_submittedTiles .. m_nextTile - 1 = {}
      <4>1. m_submittedTiles = m_nextTile
        BY <2>1 DEF Ending
      <4> QED
        BY ONLY <1>1, <4>1, SMT
    <3> QED
      BY <1>1, <3>1 DEF LaneWindow
  <2>3. ASSUME NEW l \in Lanes PROVE has'[l] = {} /\ ~m_acquired'[l]
    BY <2>1, <2>2 DEF ColumnsInv, LaneColumns, Ending, Running
  <2>4. \A l \in Lanes : LaneColumns(l)'
    BY <2>3 DEF LaneColumns
  <2> QED
    BY <1>1, <2>1, <2>3, <2>4 DEF ColumnsInv, PlanAccepted, NoColumnLeft
<1>8. CASE RefuseAcquire \/ AcquireFails
  <2>1. error' \in {"caller", "environment"} /\ region' = region
        /\ m_state' = m_state /\ m_state = "RegionActive"
    BY <1>8 DEF RefuseAcquire, AcquireFails, Acquiring, Running
  <2> QED
    BY <1>1, <2>1 DEF ColumnsInv, PlanAccepted, NoColumnLeft
<1>9. CASE DrainPending \/ SubmitFails \/ Throw
  BY <1>9, ColumnsUntouched DEF DrainPending, SubmitFails, Throw
<1>10. ASSUME NEW l \in Lanes, DeviceStep(l) \/ Teardown(l)
       PROVE  ColumnsInv'
  BY <1>10, ColumnsUntouched DEF DeviceStep, Upload, Unpack, Compute, Repack,
     Spill, SpillMask, Executed, Teardown, DestroyLane
<1>11. CASE UNCHANGED vars
  BY <1>11, ColumnsUntouched DEF vars
<1> QED
  BY <1>2, <1>3, <1>4, <1>5, <1>6, <1>7, <1>8, <1>9, <1>10, <1>11
  DEF Next, HostStep, Terminated

LEMMA ColumnsHold ==
    ASSUME \A r \in Regions : ColumnsPlanned(r)
    PROVE  Spec => []ColumnsInv
<1>1. Init => ColumnsInv
  BY DEF Init, FreshLanes, ColumnsInv, LaneColumns, PlanAccepted, NoColumnLeft
<1>2. IInv /\ ColumnsInv /\ [Next]_vars => ColumnsInv'
  BY ColumnsStep
<1> QED
  BY <1>1, <1>2, Invariance, PTL DEF Spec

\* PlansAccepted: where the plan of a region is consistent by itself, beginStage
\* refuses no stage of any tile: the columns of an earlier tile, of another
\* lane, or of a failed call never add to the lane's own.
THEOREM PlansAccepted ==
    ASSUME \A r \in Regions : ColumnsPlanned(r)
    PROVE  Spec => []PlanAccepted
<1>1. ColumnsInv => PlanAccepted
  BY DEF ColumnsInv
<1> QED
  BY <1>1, ColumnsHold, PTL

\* ColumnsRetired: where the plan of a region is consistent by itself, no device
\* column is left on any lane when endRegion returns.
THEOREM ColumnsRetired ==
    ASSUME \A r \in Regions : ColumnsPlanned(r)
    PROVE  Spec => []NoColumnLeft
<1>1. ColumnsInv => NoColumnLeft
  BY DEF ColumnsInv
<1> QED
  BY <1>1, ColumnsHold, PTL

-----------------------------------------------------------------------------
(***************************************************************************)
(* The values.  What follows is about regions whose plan also has the      *)
(* right values in place (ValuesPlanned): the tiled region then implements *)
(* StableRegion, step by step.                                             *)
(***************************************************************************)
\* A tile's points and slots.
LEMMA TileGeometry ==
    ASSUME NEW t \in Tiles
    PROVE  /\ t * Capacity \in Nat /\ t * Capacity < PointCount
           /\ Schedule!TileSize(t, PointCount, Capacity) \in 1 .. Capacity
           /\ SlotsOf(t) = 0 .. Schedule!TileSize(t, PointCount, Capacity) - 1
           /\ Schedule!Smaller(t * Capacity, PointCount) = t * Capacity
           /\ Schedule!Smaller((t + 1) * Capacity, PointCount)
                = t * Capacity + Schedule!TileSize(t, PointCount, Capacity)
           /\ t * Capacity + Schedule!TileSize(t, PointCount, Capacity) <= PointCount
<1> DEFINE size == Schedule!TileSize(t, PointCount, Capacity)
           first == t * Capacity
<1>1. /\ PointCount \in Nat \ {0} /\ Capacity \in Nat \ {0} /\ TileCount \in Nat
      /\ t \in Nat /\ t + 1 <= TileCount
  <2>1. TileCount \in Nat /\ t \in 0 .. TileCount - 1
    BY TilesAndLanes DEF Tiles
  <2> QED
    BY <2>1, TilesAndLanes, LanesAssumption, SMT
<1>2. first \in Nat /\ first < PointCount
  <2> DEFINE q == PointCount \div Capacity
             r == PointCount % Capacity
  <2>1. q \in Nat /\ r \in 0 .. Capacity - 1 /\ PointCount = q * Capacity + r
    BY <1>1, DivMod
  <2>2. TileCount = IF r = 0 THEN q ELSE q + 1
    BY <1>1, <2>1 DEF TileCount, Schedule!TilesFor
  <2> HIDE DEF q, r
  <2>3. first \in Nat /\ q * Capacity \in Nat
    BY <1>1, <2>1, SMT
  <2>4. CASE t = q
    <3>1. r # 0
      BY <1>1, <2>1, <2>2, <2>4, SMT
    <3>2. first = q * Capacity
      BY <2>4
    <3> HIDE DEF first
    <3> QED
      BY <1>1, <2>1, <2>3, <3>1, <3>2, SMT
  <2>5. CASE t # q
    <3>1. t < q
      BY <1>1, <2>1, <2>2, <2>5, SMT
    <3>2. first + Capacity <= q * Capacity
      BY <1>1, <2>1, <3>1, TimesMonotone
    <3> HIDE DEF first
    <3> QED
      BY <1>1, <2>1, <2>3, <3>2, SMT
  <2> QED
    BY <2>4, <2>5
<1>3. (t + 1) * Capacity = first + Capacity
  BY <1>1, SMT
<1>4. size = Schedule!Smaller(Capacity, PointCount - first)
  BY DEF Schedule!TileSize, Schedule!TileFirst
<1>5. SlotsOf(t) = 0 .. size - 1
  BY DEF SlotsOf
<1> HIDE DEF first, size
<1>6. size = IF Capacity <= PointCount - first THEN Capacity ELSE PointCount - first
  BY <1>4 DEF Schedule!Smaller
<1>7. size \in 1 .. Capacity /\ first + size <= PointCount
  BY <1>1, <1>2, <1>6, SMT
<1>8. Schedule!Smaller(first, PointCount) = first
  BY <1>1, <1>2, SMT DEF Schedule!Smaller
<1>9. Schedule!Smaller(first + Capacity, PointCount) = first + size
  BY <1>1, <1>2, <1>6, SMT DEF Schedule!Smaller
<1> QED
  BY <1>2, <1>3, <1>5, <1>7, <1>8, <1>9 DEF first, size

\* A slot of a tile is a slot of the buffers and holds a point of the view, and
\* the points of the tile are those from its first on.
LEMMA SlotsAndPoints ==
    ASSUME NEW t \in Tiles
    PROVE  /\ SlotsOf(t) \subseteq Slots
           /\ \A s \in SlotsOf(t) :
                 PointAt(t, s) \in Positions /\ PointAt(t, s) - PointAt(t, 0) = s
           /\ PointAt(t, 0) = t * Capacity
           /\ \A p \in Positions :
                 p - PointAt(t, 0) \in SlotsOf(t) <=>
                    p \in t * Capacity .. t * Capacity
                             + Schedule!TileSize(t, PointCount, Capacity) - 1
           /\ \A p \in Positions : PointAt(t, p - PointAt(t, 0)) = p
<1> DEFINE size == Schedule!TileSize(t, PointCount, Capacity)
           first == t * Capacity
<1>1. /\ first \in Nat /\ first < PointCount /\ size \in 1 .. Capacity
      /\ SlotsOf(t) = 0 .. size - 1 /\ first + size <= PointCount
  BY TileGeometry
<1>2. PointCount \in Nat /\ Capacity \in Nat
  BY LanesAssumption, TilesAndLanes
<1>3. \A s \in Int : PointAt(t, s) = first + s
  BY DEF PointAt, Schedule!TileFirst
<1> HIDE DEF first, size
<1>4. PointAt(t, 0) = first
  BY <1>1, <1>3, SMT
<1>5. SlotsOf(t) \subseteq Slots
  BY <1>1, <1>2, SMT DEF Slots
<1>6. ASSUME NEW s \in SlotsOf(t)
      PROVE  PointAt(t, s) \in Positions /\ PointAt(t, s) - PointAt(t, 0) = s
  <2>1. s \in 0 .. size - 1 /\ PointAt(t, s) = first + s
    BY <1>1, <1>3
  <2> QED
    BY <1>1, <1>2, <1>4, <2>1, SMT DEF Positions
<1>7. ASSUME NEW p \in Positions
      PROVE  /\ p - PointAt(t, 0) \in SlotsOf(t) <=> p \in first .. first + size - 1
             /\ PointAt(t, p - PointAt(t, 0)) = p
  <2>1. p \in 0 .. PointCount - 1
    BY DEF Positions
  <2>2. p - first \in Int
    BY <1>1, <1>2, <2>1, SMT
  <2>3. PointAt(t, p - first) = first + (p - first)
    BY <1>3, <2>2
  <2> QED
    BY <1>1, <1>2, <1>4, <2>1, <2>3, SMT
<1> QED
  BY <1>4, <1>5, <1>6, <1>7 DEF first, size

\* When every tile has been published every point has.
LEMMA AllPointsPublished ==
    Schedule!Smaller(TileCount * Capacity, PointCount) = PointCount
<1> DEFINE q == PointCount \div Capacity
           r == PointCount % Capacity
<1>1. PointCount \in Nat \ {0} /\ Capacity \in Nat \ {0}
  BY TilesAndLanes, LanesAssumption
<1>2. q \in Nat /\ r \in 0 .. Capacity - 1 /\ PointCount = q * Capacity + r
  BY <1>1, DivMod
<1>3. TileCount = IF r = 0 THEN q ELSE q + 1
  BY <1>1, <1>2 DEF TileCount, Schedule!TilesFor
<1> HIDE DEF q, r
<1>4. (q + 1) * Capacity = q * Capacity + Capacity /\ q * Capacity \in Nat
  BY <1>1, <1>2, SMT
<1>5. TileCount * Capacity \in Nat /\ TileCount * Capacity >= PointCount
  <2>1. CASE r = 0
    BY <1>1, <1>2, <1>3, <1>4, <2>1, SMT
  <2>2. CASE r # 0
    BY <1>1, <1>2, <1>3, <1>4, <2>2, SMT
  <2> QED
    BY <2>1, <2>2
<1> QED
  BY <1>1, <1>5, SMT DEF Schedule!Smaller

-----------------------------------------------------------------------------
\* A finite set of numbers has a member of every rank below its size.
LEMMA EveryRank ==
    ASSUME NEW S \in SUBSET Nat, IsFiniteSet(S)
    PROVE  \A i \in 1 .. Cardinality(S) :
              \E p \in S : Cardinality({q \in S : q < p}) = i - 1
<1> DEFINE Below(p) == {q \in S : q < p}
           missing == {i \in 1 .. Cardinality(S) :
                          \A p \in S : Cardinality(Below(p)) # i - 1}
<1>1. Cardinality(S) \in Nat
  BY FS_CardinalityType
<1>2. \A p \in S : IsFiniteSet(Below(p)) /\ Cardinality(Below(p)) \in Nat
  BY FS_Subset, FS_CardinalityType
<1>3. ASSUME missing # {} PROVE FALSE
  <2>1. missing \in SUBSET Nat
    BY <1>1
  <2>2. PICK i \in missing : \A k \in missing : i <= k
    BY <1>3, <2>1, LeastMember
  <2>3. i \in 1 .. Cardinality(S) /\ \A p \in S : Cardinality(Below(p)) # i - 1
    BY <2>2
  <2>4. S # {}
    BY <1>1, <2>3, FS_EmptySet
  <2>5. CASE i = 1
    <3>1. PICK p \in S : \A q \in S : p <= q
      BY <2>4, LeastMember
    <3>2. Below(p) = {}
      <4>1. \A q \in S : ~(q < p)
        BY <3>1, SMT
      <4> QED
        BY <4>1
    <3> QED
      BY <2>3, <2>5, <3>2, FS_EmptySet
  <2>6. CASE i # 1
    <3>1. i - 1 \in 1 .. Cardinality(S) /\ i - 1 \in Nat
      BY <1>1, <2>3, <2>6, SMT
    <3>2. i - 1 \notin missing
      <4>1. i - 1 < i
        BY <2>3, SMT
      <4> QED
        BY <2>2, <3>1, <4>1, SMT
    <3>3. PICK p \in S : Cardinality(Below(p)) = (i - 1) - 1
      BY <3>1, <3>2
    <3> DEFINE above == {q \in S : p < q}
    <3>4. Cardinality(Below(p) \cup {p}) = i - 1
      <4>1. p \notin Below(p)
        OBVIOUS
      <4>2. Cardinality(Below(p) \cup {p}) = Cardinality(Below(p)) + 1
        BY <1>2, <4>1, FS_AddElement
      <4> QED
        BY <2>3, <3>3, <4>2, SMT
    <3>5. above # {}
      <4>1. SUFFICES ASSUME above = {} PROVE FALSE
        OBVIOUS
      <4>2. \A q \in S : q < p \/ q = p
        BY <4>1, SMT
      <4>3. S = Below(p) \cup {p}
        BY <4>2
      <4> QED
        BY <1>1, <2>3, <3>4, <4>3, SMT
    <3>6. PICK n \in above : \A k \in above : n <= k
      BY <3>5, LeastMember
    <3>7. Below(n) = Below(p) \cup {p}
      <4>1. ASSUME NEW q \in S PROVE q < n <=> q < p \/ q = p
        <5>1. q \in Nat /\ p \in Nat /\ n \in Nat /\ p < n
          BY <3>6
        <5>2. p < q => n <= q
          BY <3>6
        <5> QED
          BY <5>1, <5>2, SMT
      <4> QED
        BY <4>1
    <3> QED
      BY <2>3, <3>4, <3>6, <3>7
  <2> QED
    BY <2>5, <2>6
<1> QED
  BY <1>3

\* A finite set of points in their order is a sequence of them.
LEMMA OrderedTypes ==
    ASSUME NEW S \in SUBSET Positions, IsFiniteSet(S)
    PROVE  InSourceOrder(S) \in Seq(Positions)
<1>1. S \in SUBSET Nat
  BY DEF Positions
<1>2. Cardinality(S) \in Nat
  BY FS_CardinalityType
<1>3. \A i \in 1 .. Cardinality(S) :
         (CHOOSE p \in S : Cardinality({q \in S : q < p}) = i - 1) \in S
  BY <1>1, EveryRank
<1>4. InSourceOrder(S) \in [1 .. Cardinality(S) -> S]
  BY <1>3 DEF InSourceOrder
<1> QED
  BY <1>2, <1>4, SMT

-----------------------------------------------------------------------------
\* What the stages make of a point, one after another.
LEMMA Records ==
    ASSUME NEW p
    PROVE  /\ RecordAfter(p, 0) = start[p]
           /\ \A k \in Nat \ {0} :
                 RecordAfter(p, k) =
                    IF region.stages[k].predicate THEN RecordAfter(p, k - 1)
                    ELSE Assign(region.stages[k], RecordAfter(p, k - 1))
<1> DEFINE After(k, old) == IF region.stages[k].predicate THEN old
                            ELSE Assign(region.stages[k], old)
           Body(n, f) == [k \in 0 .. n |->
                IF k = 0 THEN start[p]
                ELSE IF region.stages[k].predicate THEN f[k - 1]
                ELSE Assign(region.stages[k], f[k - 1])]
           Chosen(n) == CHOOSE f : f = Body(n, f)
<1>1. \A n : RecordAfter(p, n) = Chosen(n)[n]
  BY DEF RecordAfter
<1>2. \A n, f : f = Body(n, f) =>
         \A k \in 0 .. n : f[k] = IF k = 0 THEN start[p] ELSE After(k, f[k - 1])
  OBVIOUS
<1>3. \A n \in Nat : \E f : f = Body(n, f)
  <2> DEFINE bad == {n \in Nat : ~\E f : f = Body(n, f)}
  <2>1. ASSUME bad # {} PROVE FALSE
    <3>1. bad \in SUBSET Nat
      OBVIOUS
    <3>2. PICK n \in bad : \A k \in bad : n <= k
      BY <2>1, <3>1, LeastMember
    <3>3. CASE n = 0
      <4> DEFINE f == [k \in 0 .. 0 |-> start[p]]
      <4>1. \A k \in 0 .. 0 : k = 0
        BY SMT
      <4>2. f = Body(0, f)
        BY <4>1
      <4> QED
        BY <3>2, <3>3, <4>2
    <3>4. CASE n # 0
      <4>1. n - 1 \in Nat /\ n \in Nat /\ ~(n <= n - 1)
        BY <3>2, <3>4, SMT
      <4>2. n - 1 \notin bad
        BY <3>2, <4>1
      <4>3. PICK f : f = Body(n - 1, f)
        BY <4>1, <4>2
      <4> DEFINE g == [k \in 0 .. n |-> IF k \in 0 .. n - 1 THEN f[k]
                                        ELSE After(n, f[n - 1])]
      <4>4. \A k \in 0 .. n - 1 :
               f[k] = IF k = 0 THEN start[p] ELSE After(k, f[k - 1])
        BY <1>2, <4>3
      <4>5. ASSUME NEW k \in 0 .. n
            PROVE  g[k] = IF k = 0 THEN start[p] ELSE After(k, g[k - 1])
        <5>1. CASE k \in 0 .. n - 1
          <6>1. k # 0 => k - 1 \in 0 .. n /\ k - 1 \in 0 .. n - 1
            BY <4>1, <5>1, SMT
          <6>2. g[k] = f[k] /\ (k # 0 => g[k - 1] = f[k - 1])
            BY <5>1, <6>1
          <6> HIDE DEF g, After
          <6> QED
            BY <4>4, <5>1, <6>2
        <5>2. CASE k \notin 0 .. n - 1
          <6>1. k = n /\ n - 1 \in 0 .. n - 1 /\ n - 1 \in 0 .. n /\ k # 0
            BY <4>1, <3>4, <5>2, SMT
          <6>2. g[k] = After(n, f[n - 1]) /\ g[n - 1] = f[n - 1]
            BY <5>2, <6>1
          <6> HIDE DEF g, After
          <6> QED
            BY <6>1, <6>2
        <5> QED
          BY <5>1, <5>2
      <4>6. g = [k \in 0 .. n |-> g[k]]
        OBVIOUS
      <4> HIDE DEF g
      <4>7. g = Body(n, g)
        BY <4>5, <4>6
      <4> QED
        BY <3>2, <4>7
    <3> QED
      BY <3>3, <3>4
  <2> QED
    BY <2>1
<1>4. ASSUME NEW n \in Nat, NEW m \in Nat, NEW f, NEW g, f = Body(n, f), g = Body(m, g)
      PROVE  \A k \in Nat : k <= n /\ k <= m => f[k] = g[k]
  <2> DEFINE bad == {k \in Nat : k <= n /\ k <= m /\ f[k] # g[k]}
  <2>1. /\ \A k \in 0 .. n : f[k] = IF k = 0 THEN start[p] ELSE After(k, f[k - 1])
        /\ \A k \in 0 .. m : g[k] = IF k = 0 THEN start[p] ELSE After(k, g[k - 1])
    BY <1>2, <1>4
  <2> HIDE DEF After
  <2>2. ASSUME bad # {} PROVE FALSE
    <3>1. bad \in SUBSET Nat
      OBVIOUS
    <3>2. PICK k \in bad : \A j \in bad : k <= j
      BY <2>2, <3>1, LeastMember
    <3>3. k \in 0 .. n /\ k \in 0 .. m /\ f[k] # g[k] /\ k \in Nat
      BY <3>2, SMT
    <3>4. k # 0
      BY <2>1, <3>3
    <3>5. k - 1 \in Nat /\ k - 1 <= n /\ k - 1 <= m /\ ~(k <= k - 1)
      BY <3>3, <3>4, SMT
    <3>6. f[k - 1] = g[k - 1]
      BY <3>2, <3>5
    <3> QED
      BY <2>1, <3>3, <3>4, <3>6
  <2> QED
    BY <2>2
<1>5. \A n \in Nat : Chosen(n) = Body(n, Chosen(n))
  BY <1>3
<1> HIDE DEF Body, Chosen, After
<1>6. RecordAfter(p, 0) = start[p]
  <2>1. 0 \in 0 .. 0 /\ 0 \in Nat
    BY SMT
  <2> QED
    BY <1>1, <1>2, <1>5, <2>1
<1>7. ASSUME NEW k \in Nat \ {0}
      PROVE  RecordAfter(p, k) = After(k, RecordAfter(p, k - 1))
  <2>1. k - 1 \in Nat /\ k \in 0 .. k /\ k \in Nat /\ k - 1 <= k /\ k - 1 <= k - 1
    BY SMT
  <2>2. Chosen(k)[k] = After(k, Chosen(k)[k - 1])
    BY <1>2, <1>5, <2>1
  <2>3. Chosen(k)[k - 1] = Chosen(k - 1)[k - 1]
    BY <1>4, <1>5, <2>1
  <2> QED
    BY <1>1, <2>2, <2>3
<1> QED
  BY <1>6, <1>7 DEF After

\* No stage makes a record anything but a record.
LEMMA AssignTypes ==
    ASSUME region \in Region, NEW k \in DOMAIN region.stages,
           NEW record \in [Dims -> Value]
    PROVE  Assign(region.stages[k], record) \in [Dims -> Value]
<1>1. region.stages[k] \in PlannedStage
  <2>1. region.stages \in Seq(PlannedStage)
    BY DEF Region
  <2> QED
    BY <2>1
<1>2. region.stages[k].id \in StageIds /\ region.stages[k].reads \subseteq Dims
  BY <1>1 DEF PlannedStage
<1>3. \A d \in Dims : record[d].src \subseteq Positions \X Dims /\ record[d].via \subseteq StageIds
  BY DEF Value
<1>4. Computed(region.stages[k], record) \in Value
  <2>1. UNION {record[d].src : d \in region.stages[k].reads} \subseteq Positions \X Dims
    BY <1>2, <1>3
  <2>2. {region.stages[k].id} \cup UNION {record[d].via : d \in region.stages[k].reads}
           \subseteq StageIds
    BY <1>2, <1>3
  <2> QED
    BY <2>1, <2>2 DEF Computed, Value
<1> QED
  BY <1>4 DEF Assign

\* A stage that reads the same does the same.
LEMMA SameReads ==
    ASSUME NEW stage, NEW one, NEW other, \A d \in stage.reads : one[d] = other[d]
    PROVE  Computed(stage, one) = Computed(stage, other)
<1>1. {one[d].src : d \in stage.reads} = {other[d].src : d \in stage.reads}
      /\ {one[d].via : d \in stage.reads} = {other[d].via : d \in stage.reads}
  OBVIOUS
<1> QED
  BY <1>1 DEF Computed

LEMMA SameVerdict ==
    ASSUME NEW r, NEW stage, NEW one, NEW other,
           \A d \in stage.reads : one[d] = other[d]
    PROVE  Keeps(r, stage, one) = Keeps(r, stage, other)
<1>1. {one[d].src : d \in stage.reads} = {other[d].src : d \in stage.reads}
  OBVIOUS
<1> QED
  BY <1>1 DEF Keeps

\* A record stays a function of the dimensions.
LEMMA RecordDomain ==
    ASSUME NEW p \in Positions, start \in [Positions -> [Dims -> Value]]
    PROVE  \A k \in Nat : RecordAfter(p, k) = [d \in Dims |-> RecordAfter(p, k)[d]]
<1> DEFINE bad == {k \in Nat : RecordAfter(p, k) # [d \in Dims |-> RecordAfter(p, k)[d]]}
<1>1. ASSUME bad # {} PROVE FALSE
  <2>1. bad \in SUBSET Nat
    OBVIOUS
  <2>2. PICK k \in bad : \A j \in bad : k <= j
    BY <1>1, <2>1, LeastMember
  <2>3. k # 0
    <3>1. start[p] = [d \in Dims |-> start[p][d]]
      OBVIOUS
    <3> QED
      BY <2>2, <3>1, Records
  <2>4. k \in Nat \ {0} /\ k - 1 \in Nat /\ ~(k <= k - 1)
    BY <2>2, <2>3, SMT
  <2>5. RecordAfter(p, k - 1) = [d \in Dims |-> RecordAfter(p, k - 1)[d]]
    BY <2>2, <2>4
  <2>6. RecordAfter(p, k) = IF region.stages[k].predicate THEN RecordAfter(p, k - 1)
                            ELSE Assign(region.stages[k], RecordAfter(p, k - 1))
    BY <2>4, Records
  <2>7. Assign(region.stages[k], RecordAfter(p, k - 1))
          = [d \in Dims |-> Assign(region.stages[k], RecordAfter(p, k - 1))[d]]
    BY DEF Assign
  <2> QED
    BY <2>2, <2>5, <2>6, <2>7
<1> QED
  BY <1>1

-----------------------------------------------------------------------------
\* The tile that a pending lane holds, and the tile that is acquired next.
LEMMA PendingTile ==
    ASSUME ControlTypes, LaneWindow, NEW l \in Lanes, m_pending[l]
    PROVE  m_pendingTileIndex[l] \in Tiles
<1>1. /\ m_pendingTileIndex[l] \in drained .. m_submittedTiles - 1
      /\ TileCount \in Nat /\ drained \in 0 .. TileCount
      /\ m_submittedTiles \in 0 .. TileCount
  BY TilesAndLanes DEF LaneWindow, ControlTypes
<1> QED
  BY ONLY <1>1, SMT DEF Tiles

LEMMA NextTile ==
    ASSUME ControlTypes, m_nextTile < TileCount
    PROVE  m_nextTile \in Tiles
<1>1. m_nextTile \in 0 .. TileCount /\ TileCount \in Nat
  BY TilesAndLanes DEF ControlTypes
<1> QED
  BY <1>1, SMT DEF Tiles

\* What a drain makes of the view and of the output.
LEMMA DrainedDataTypes ==
    ASSUME ControlTypes, LaneWindow, DataTypes, NEW l \in Lanes
    PROVE  /\ DrainedView(l) \in [Positions -> [Dims -> Value]]
           /\ DrainedOutput(l) \in Seq(Positions)
<1> DEFINE tile == m_pendingTileIndex[l]
<1>1. /\ view \in [Positions -> [Dims -> Value]]
      /\ output \in Seq(Positions)
      /\ m_hostPacked \in [Lanes -> [Slots -> [Dims -> Value]]]
  BY DEF DataTypes, Buffer
<1>2. ASSUME m_pending[l]
      PROVE  /\ tile \in Tiles
             /\ KeptSlots(l) \subseteq SlotsOf(tile) /\ SlotsOf(tile) \subseteq Slots
             /\ \A s \in SlotsOf(tile) : PointAt(tile, s) \in Positions
  <2>1. tile \in Tiles
    BY <1>2, PendingTile
  <2> QED
    BY <2>1, SlotsAndPoints DEF KeptSlots
<1>3. DrainedView(l) \in [Positions -> [Dims -> Value]]
  <2> SUFFICES ASSUME NEW p \in Positions,
                      m_pending[l], p - PointAt(tile, 0) \in KeptSlots(l)
               PROVE  PublishedRecord(l, p, p - PointAt(tile, 0)) \in [Dims -> Value]
    BY <1>1 DEF DrainedView
  <2>1. p - PointAt(tile, 0) \in Slots
    BY <1>2
  <2> QED
    BY <1>1, <2>1 DEF PublishedRecord
<1>4. DrainedOutput(l) \in Seq(Positions)
  <2>1. CASE m_pending[l] /\ region.compacts
    <3> DEFINE points == {PointAt(tile, slot) : slot \in KeptSlots(l)}
    <3>1. points \in SUBSET Positions
      BY <1>2, <2>1
    <3>2. IsFiniteSet(points)
      <4>1. PointCount - 1 \in Int
        BY LanesAssumption, SMT
      <4>2. IsFiniteSet(Positions)
        BY <4>1, FS_Interval DEF Positions
      <4> QED
        BY <3>1, <4>2, FS_Subset
    <3> HIDE DEF points
    <3>3. InSourceOrder(points) \in Seq(Positions)
      BY <3>1, <3>2, OrderedTypes
    <3>4. output \o InSourceOrder(points) \in Seq(Positions)
      BY <1>1, <3>3
    <3> QED
      BY <2>1, <3>4 DEF DrainedOutput, points
  <2>2. CASE ~(m_pending[l] /\ region.compacts)
    BY <1>1, <2>2 DEF DrainedOutput
  <2> QED
    BY <2>1, <2>2
<1> QED
  BY <1>3, <1>4

\* Draining a lane and refilling its pinned buffer.
LEMMA RefillTypes ==
    ASSUME ControlTypes, LaneWindow, DataTypes, NEW l \in Lanes,
           Acquiring(l), Refill(l),
           UNCHANGED <<start, m_hostMask, deviceVars>>
    PROVE  DataTypes'
<1>1. view' \in [Positions -> [Dims -> Value]] /\ output' \in Seq(Positions)
  BY DrainedDataTypes DEF Refill
<1>2. m_hostPacked' \in [Lanes -> Buffer]
  <2>1. m_nextTile \in Tiles
    BY NextTile DEF Acquiring
  <2>2. \A s \in SlotsOf(m_nextTile) : PointAt(m_nextTile, s) \in Positions
    BY <2>1, SlotsAndPoints
  <2>3. DrainedView(l) \in [Positions -> [Dims -> Value]]
    BY DrainedDataTypes
  <2>4. m_hostPacked[l] \in [Slots -> [Dims -> Value]]
    BY DEF DataTypes, Buffer
  <2>5. [s \in Slots |-> IF s \in SlotsOf(m_nextTile)
                         THEN DrainedView(l)[PointAt(m_nextTile, s)]
                         ELSE m_hostPacked[l][s]] \in Buffer
    BY <2>2, <2>3, <2>4 DEF Buffer
  <2> QED
    BY <2>5 DEF Refill, DataTypes
<1> QED
  BY <1>1, <1>2 DEF DataTypes, deviceVars

LEMMA DataStep ==
    ASSUME ControlTypes, LaneWindow, DataTypes, [Next]_vars
    PROVE  DataTypes'
<1> USE DEF viewVars, regionVars, deviceVars, spillVars
<1>1. CASE AcquireTile
  BY <1>1, RefillTypes DEF AcquireTile
<1>2. CASE AcquireFails
  BY <1>2, RefillTypes DEF AcquireFails
<1>3. CASE DrainPending
  BY <1>3, DrainedDataTypes DEF DrainPending, DataTypes
<1>4. CASE \/ RefuseAcquire \/ BeginStage \/ RunStage \/ EndStage \/ SubmitTile
           \/ SubmitFails \/ EndRegion \/ Throw
  BY <1>4 DEF RefuseAcquire, BeginStage, RunStage, EndStage, SubmitTile,
     SubmitFails, EndRegion, Throw, DataTypes
<1>5. ASSUME NEW l \in Lanes, Teardown(l) PROVE DataTypes'
  BY <1>5 DEF Teardown, DestroyLane, DataTypes
<1>6. ASSUME NEW l \in Lanes, DeviceStep(l) PROVE DataTypes'
  <2>1. UNCHANGED <<view, output, start>>
    BY <1>6 DEF DeviceStep, Upload, Unpack, Compute, Repack, Spill, SpillMask, Executed
  <2>2. /\ m_hostPacked[l] \in [Slots -> [Dims -> Value]]
        /\ m_devicePacked[l] \in [Slots -> [Dims -> Value]]
        /\ columns[l] \in [Slots -> [Dims -> Value]]
        /\ m_hostMask[l] \in [Slots -> BOOLEAN]
        /\ m_deviceMask[l] \in [Slots -> BOOLEAN]
    BY DEF DataTypes, Buffer
  <2> USE DEF OnSlots
  <2>3. CASE Upload(l)
    <3>1. [s \in Slots |-> IF s \in SlotsOf(Head(stream[l]).tile) THEN m_hostPacked[l][s]
                           ELSE m_devicePacked[l][s]] \in Buffer
      BY <2>2 DEF Buffer
    <3> QED
      BY <2>1, <2>3, <3>1 DEF Upload, DataTypes
  <2>4. CASE Unpack(l)
    <3>1. [s \in Slots |-> IF s \in SlotsOf(Head(stream[l]).tile)
                           THEN [d \in Dims |-> IF d \in Head(stream[l]).dims
                                                THEN m_devicePacked[l][s][d]
                                                ELSE columns[l][s][d]]
                           ELSE columns[l][s]] \in Buffer
      BY <2>2 DEF Buffer
    <3> QED
      BY <2>1, <2>4, <3>1 DEF Unpack, DataTypes
  <2>5. CASE Compute(l)
    <3> DEFINE stage == region.stages[Head(stream[l]).stage]
    <3>1. Head(stream[l]).stage \in DOMAIN region.stages
      <4>1. stream[l] \in Seq(QueuedOp) /\ stream[l] # <<>>
            /\ Head(stream[l]).kind = "compute"
        BY <2>5 DEF Compute, NextOp, ControlTypes
      <4>2. Head(stream[l]) \in QueuedOp
        BY <4>1
      <4> QED
        BY <4>1, <4>2 DEF QueuedOp
    <3>2. region \in Region
      BY DEF ControlTypes
    <3>3. [s \in Slots |-> IF s \in SlotsOf(Head(stream[l]).tile)
                           THEN Assign(stage, columns[l][s]) ELSE columns[l][s]] \in Buffer
      <4>1. \A s \in Slots : Assign(stage, columns[l][s]) \in [Dims -> Value]
        BY <2>2, <3>1, <3>2, AssignTypes
      <4> QED
        BY <2>2, <4>1 DEF Buffer
    <3>4. [s \in Slots |-> IF s \in SlotsOf(Head(stream[l]).tile)
                           THEN Keeps(region, stage, columns[l][s])
                           ELSE m_deviceMask[l][s]] \in [Slots -> BOOLEAN]
      <4>1. \A s \in Slots : Keeps(region, stage, columns[l][s]) \in BOOLEAN
        BY DEF Keeps
      <4> QED
        BY <2>2, <4>1
    <3>5. CASE stage.predicate
      BY <2>1, <2>5, <3>4, <3>5 DEF Compute, DataTypes
    <3>6. CASE ~stage.predicate
      BY <2>1, <2>5, <3>3, <3>6 DEF Compute, DataTypes
    <3> QED
      BY <3>5, <3>6
  <2>6. CASE Repack(l)
    <3>1. [s \in Slots |-> IF s \in SlotsOf(Head(stream[l]).tile)
                           THEN [d \in Dims |-> IF d \in Head(stream[l]).dims
                                                THEN columns[l][s][d]
                                                ELSE m_devicePacked[l][s][d]]
                           ELSE m_devicePacked[l][s]] \in Buffer
      BY <2>2 DEF Buffer
    <3> QED
      BY <2>1, <2>6, <3>1 DEF Repack, DataTypes
  <2>7. CASE Spill(l)
    <3>1. [s \in Slots |-> IF s \in SlotsOf(Head(stream[l]).tile) THEN m_devicePacked[l][s]
                           ELSE m_hostPacked[l][s]] \in Buffer
      BY <2>2 DEF Buffer
    <3> QED
      BY <2>1, <2>7, <3>1 DEF Spill, DataTypes
  <2>8. CASE SpillMask(l)
    <3>1. [s \in Slots |-> IF s \in SlotsOf(Head(stream[l]).tile) THEN m_deviceMask[l][s]
                           ELSE m_hostMask[l][s]] \in [Slots -> BOOLEAN]
      BY <2>2
    <3> QED
      BY <2>1, <2>8, <3>1 DEF SpillMask, DataTypes
  <2> QED
    BY <1>6, <2>3, <2>4, <2>5, <2>6, <2>7, <2>8 DEF DeviceStep
<1>7. CASE UNCHANGED vars
  BY <1>7 DEF vars, DataTypes
<1> QED
  BY <1>1, <1>2, <1>3, <1>4, <1>5, <1>6, <1>7 DEF Next, HostStep, Terminated

\* Typed: the lanes, their buffers, the view and the output have their types;
\* what is published comes from slots of the tile, not from what lies behind.
THEOREM Typed == Spec => []TypeOK
<1>1. Init => DataTypes
  <2> SUFFICES ASSUME Init PROVE DataTypes
    OBVIOUS
  <2>1. \A p \in Positions, d \in Dims : [src |-> {<<p, d>>}, via |-> {}] \in Value
    BY DEF Value
  <2>2. Original \in [Positions -> [Dims -> Value]]
    BY <2>1 DEF Original
  <2>3. Junk \in Value
    BY DEF Junk, Value
  <2>4. [l \in Lanes |-> [s \in Slots |-> [d \in Dims |-> Junk]]] \in [Lanes -> Buffer]
    BY <2>3 DEF Buffer
  <2>5. <<>> \in Seq(Positions)
    OBVIOUS
  <2> QED
    BY <2>2, <2>4, <2>5 DEF Init, FreshLanes, DataTypes
<1>2. IInv /\ DataTypes /\ [Next]_vars => DataTypes'
  BY DataStep DEF IInv
<1>3. IInv /\ DataTypes => TypeOK
  BY DEF IInv, TypeOK
<1> QED
  BY <1>1, <1>2, <1>3, Invariance, PTL DEF Spec

-----------------------------------------------------------------------------
(***************************************************************************)
(* What is queued on a lane is a function of what the lane holds: Does is  *)
(* what the device makes of one operation, and Settles what the lane will  *)
(* hold once it has done them all.  The invariant speaks of that.          *)
(***************************************************************************)
Holding(host, packed, cols, hostMask, mask) ==
    [host |-> host, packed |-> packed, columns |-> cols,
     hostMask |-> hostMask, mask |-> mask]

\* The buffers of a lane as they are.
LaneData(l) ==
    Holding(m_hostPacked[l], m_devicePacked[l], columns[l], m_hostMask[l],
            m_deviceMask[l])

\* A buffer of which the slots of a tile are replaced.
Replaced(tile, new, old) ==
    [s \in Slots |-> IF s \in SlotsOf(tile) THEN new[s] ELSE old[s]]

\* A buffer of which these dimensions are replaced in the slots of a tile.
ReplacedDims(tile, dims, new, old) ==
    [s \in Slots |-> IF s \in SlotsOf(tile)
                     THEN [d \in Dims |-> IF d \in dims THEN new[s][d]
                                                        ELSE old[s][d]]
                     ELSE old[s]]

Verdicts(r, op, x) ==
    [s \in Slots |-> IF s \in SlotsOf(op.tile)
                     THEN Keeps(r, r.stages[op.stage], x.columns[s])
                     ELSE x.mask[s]]

Assigned(r, op, x) ==
    [s \in Slots |-> IF s \in SlotsOf(op.tile)
                     THEN Assign(r.stages[op.stage], x.columns[s])
                     ELSE x.columns[s]]

\* Operation op of region r turns what a lane holds from x into y.
Does(r, op, x, y) ==
    \/ /\ op.kind = "upload"
       /\ y = Holding(x.host, Replaced(op.tile, x.host, x.packed), x.columns,
                      x.hostMask, x.mask)
    \/ /\ op.kind = "unpack"
       /\ y = Holding(x.host, x.packed,
                      ReplacedDims(op.tile, op.dims, x.packed, x.columns),
                      x.hostMask, x.mask)
    \/ /\ op.kind = "compute" /\ r.stages[op.stage].predicate
       /\ y = Holding(x.host, x.packed, x.columns, x.hostMask,
                      Verdicts(r, op, x))
    \/ /\ op.kind = "compute" /\ ~r.stages[op.stage].predicate
       /\ y = Holding(x.host, x.packed, Assigned(r, op, x), x.hostMask, x.mask)
    \/ /\ op.kind = "repack"
       /\ y = Holding(x.host,
                      ReplacedDims(op.tile, op.dims, x.columns, x.packed),
                      x.columns, x.hostMask, x.mask)
    \/ /\ op.kind = "spill"
       /\ y = Holding(Replaced(op.tile, x.packed, x.host), x.packed, x.columns,
                      x.hostMask, x.mask)
    \/ /\ op.kind = "spillMask"
       /\ y = Holding(x.host, x.packed, x.columns,
                      Replaced(op.tile, x.mask, x.hostMask), x.mask)

\* The operations ops, done one after another, turn x into y.
Settles(r, x, ops, y) ==
    \E at : /\ at[1] = x
            /\ \A i \in 1 .. Len(ops) : Does(r, ops[i], at[i], at[i + 1])
            /\ at[Len(ops) + 1] = y

LEMMA NothingQueued ==
    ASSUME NEW r, NEW x, NEW y
    PROVE  Settles(r, x, <<>>, y) <=> x = y
<1>1. Len(<<>>) = 0 /\ 0 + 1 = 1 /\ 1 .. 0 = {}
  BY SMT
<1>2. ASSUME x = y PROVE Settles(r, x, <<>>, y)
  <2> DEFINE at == [i \in {1} |-> x]
  <2>1. at[1] = x
    OBVIOUS
  <2> HIDE DEF at
  <2> QED
    BY <1>1, <1>2, <2>1 DEF Settles
<1> QED
  BY <1>1, <1>2 DEF Settles

LEMMA OneMore ==
    ASSUME NEW S, NEW r, NEW x, NEW ops \in Seq(S), NEW y, NEW op \in S, NEW z,
           Settles(r, x, ops, y), Does(r, op, y, z)
    PROVE  Settles(r, x, ops \o <<op>>, z)
<1> DEFINE n == Len(ops)
           more == ops \o <<op>>
<1>1. PICK at : /\ at[1] = x
                /\ \A i \in 1 .. n : Does(r, ops[i], at[i], at[i + 1])
                /\ at[n + 1] = y
  BY DEF Settles
<1> DEFINE all == [i \in 1 .. n + 2 |-> IF i = n + 2 THEN z ELSE at[i]]
<1>2. n \in Nat /\ Len(more) = n + 1 /\ more[n + 1] = op
      /\ \A i \in 1 .. n : more[i] = ops[i]
  BY SMT
<1>3. /\ 1 \in 1 .. n + 2 /\ 1 # n + 2
      /\ n + 1 \in 1 .. n + 2 /\ n + 1 # n + 2
      /\ n + 2 \in 1 .. n + 2 /\ n + 1 + 1 = n + 2
  BY ONLY <1>2, SMT
<1>4. \A i \in 1 .. n : /\ i \in 1 .. n + 2 /\ i # n + 2
                        /\ i + 1 \in 1 .. n + 2 /\ i + 1 # n + 2
  BY ONLY <1>2, SMT
<1>5. \A i \in 1 .. n + 1 : i \in 1 .. n \/ i = n + 1
  BY ONLY <1>2, SMT
<1> HIDE DEF n, more
<1>6. all[1] = x /\ all[n + 1] = y /\ all[n + 2] = z
  BY <1>1, <1>3
<1>7. \A i \in 1 .. n : all[i] = at[i] /\ all[i + 1] = at[i + 1]
  BY <1>4
<1> HIDE DEF all
<1>8. \A i \in 1 .. n + 1 : Does(r, more[i], all[i], all[i + 1])
  BY <1>1, <1>2, <1>3, <1>5, <1>6, <1>7
<1>9. Len(more) + 1 = n + 2
  BY ONLY <1>2, SMT
<1> QED
  BY <1>2, <1>6, <1>8, <1>9 DEF Settles, more

LEMMA HeadDone ==
    ASSUME NEW S, NEW r, NEW x, NEW ops \in Seq(S), ops # <<>>, NEW y,
           Settles(r, x, ops, y)
    PROVE  \E w : Does(r, Head(ops), x, w) /\ Settles(r, w, Tail(ops), y)
<1> DEFINE n == Len(ops)
           rest == Tail(ops)
<1>1. PICK at : /\ at[1] = x
                /\ \A i \in 1 .. n : Does(r, ops[i], at[i], at[i + 1])
                /\ at[n + 1] = y
  BY DEF Settles
<1>2. /\ n \in Nat /\ n >= 1 /\ Len(rest) = n - 1 /\ Head(ops) = ops[1]
      /\ \A i \in 1 .. n - 1 : rest[i] = ops[i + 1]
  BY SMT
<1> HIDE DEF n, rest
<1>3. /\ n - 1 + 1 = n /\ n \in 1 .. n /\ 1 \in 1 .. n /\ 1 + 1 = 2
      /\ \A i \in 1 .. n - 1 : i \in 1 .. n /\ i + 1 \in 1 .. n
  BY ONLY <1>2, SMT
<1>4. Does(r, ops[1], x, at[2])
  BY <1>1, <1>3
<1> DEFINE later == [i \in 1 .. n |-> at[i + 1]]
<1>5. /\ later[1] = at[2] /\ later[n] = y
      /\ \A i \in 1 .. n - 1 : later[i] = at[i + 1] /\ later[i + 1] = at[i + 1 + 1]
  BY <1>1, <1>3
<1> HIDE DEF later
<1>6. \A i \in 1 .. n - 1 : Does(r, rest[i], later[i], later[i + 1])
  BY <1>1, <1>2, <1>3, <1>5
<1>7. Len(rest) + 1 = n
  BY <1>2, <1>3
<1>8. Settles(r, at[2], rest, y)
  BY <1>2, <1>5, <1>6, <1>7 DEF Settles
<1> QED
  BY <1>2, <1>4, <1>8 DEF rest

\* What the device does to a lane is what the head of its stream does.
LEMMA DeviceDoes ==
    ASSUME DataTypes, NEW l \in Lanes, DeviceStep(l), NEW x,
           Does(region, Head(stream[l]), LaneData(l), x)
    PROVE  LaneData(l)' = x
<1>1. /\ m_hostPacked \in [Lanes -> Buffer] /\ m_devicePacked \in [Lanes -> Buffer]
      /\ columns \in [Lanes -> Buffer]
      /\ m_hostMask \in [Lanes -> [Slots -> BOOLEAN]]
      /\ m_deviceMask \in [Lanes -> [Slots -> BOOLEAN]]
  BY DEF DataTypes
<1> USE DEF Does, LaneData, Holding, OnSlots, NextOp, spillVars
<1>2. CASE Upload(l)
  BY <1>1, <1>2 DEF Upload, Replaced
<1>3. CASE Unpack(l)
  BY <1>1, <1>3 DEF Unpack, ReplacedDims
<1>4. CASE Compute(l)
  <2> DEFINE op == Head(stream[l])
  <2>1. op.kind = "compute" /\ UNCHANGED <<m_hostPacked, m_hostMask, m_devicePacked>>
    BY <1>4 DEF Compute
  <2>2. CASE region.stages[op.stage].predicate
    <3>1. x = Holding(m_hostPacked[l], m_devicePacked[l], columns[l], m_hostMask[l],
                      Verdicts(region, op, LaneData(l)))
      BY <2>1, <2>2
    <3>2. m_deviceMask'[l] = Verdicts(region, op, LaneData(l)) /\ columns' = columns
      <4> HIDE DEF Does, LaneData, Holding
      <4>1. /\ columns' = columns
            /\ m_deviceMask' = [m_deviceMask EXCEPT ![l] =
                  [s \in Slots |-> IF s \in SlotsOf(op.tile)
                                   THEN Keeps(region, region.stages[op.stage], columns[l][s])
                                   ELSE m_deviceMask[l][s]]]
        BY <1>4, <2>2 DEF Compute
      <4>2. Verdicts(region, op, LaneData(l)) =
               [s \in Slots |-> IF s \in SlotsOf(op.tile)
                                THEN Keeps(region, region.stages[op.stage], columns[l][s])
                                ELSE m_deviceMask[l][s]]
        BY ONLY TRUE DEF Verdicts, LaneData, Holding
      <4> QED
        BY ONLY <1>1, <4>1, <4>2
    <3> QED
      BY ONLY <2>1, <3>1, <3>2 DEF LaneData
  <2>3. CASE ~region.stages[op.stage].predicate
    <3>1. x = Holding(m_hostPacked[l], m_devicePacked[l],
                      Assigned(region, op, LaneData(l)), m_hostMask[l], m_deviceMask[l])
      BY <2>1, <2>3
    <3>2. columns'[l] = Assigned(region, op, LaneData(l)) /\ m_deviceMask' = m_deviceMask
      <4> HIDE DEF Does, LaneData, Holding
      <4>1. /\ m_deviceMask' = m_deviceMask
            /\ columns' = [columns EXCEPT ![l] =
                  [s \in Slots |-> IF s \in SlotsOf(op.tile)
                                   THEN Assign(region.stages[op.stage], columns[l][s])
                                   ELSE columns[l][s]]]
        BY <1>4, <2>3 DEF Compute
      <4>2. Assigned(region, op, LaneData(l)) =
               [s \in Slots |-> IF s \in SlotsOf(op.tile)
                                THEN Assign(region.stages[op.stage], columns[l][s])
                                ELSE columns[l][s]]
        BY ONLY TRUE DEF Assigned, LaneData, Holding
      <4> QED
        BY ONLY <1>1, <4>1, <4>2
    <3> QED
      BY ONLY <2>1, <3>1, <3>2 DEF LaneData
  <2> QED
    BY <2>2, <2>3
<1>5. CASE Repack(l)
  BY <1>1, <1>5 DEF Repack, ReplacedDims
<1>6. CASE Spill(l)
  BY <1>1, <1>6 DEF Spill, Replaced, deviceVars
<1>7. CASE SpillMask(l)
  BY <1>1, <1>7 DEF SpillMask, Replaced, deviceVars
<1> QED
  BY <1>2, <1>3, <1>4, <1>5, <1>6, <1>7 DEF DeviceStep

\* The right results stay the right results.
LEMMA ResultsFixed ==
    ASSUME region' = region, start' = start
    PROVE  /\ \A p, n : RecordAfter(p, n)' = RecordAfter(p, n)
           /\ \A p : Survivor(p)' <=> Survivor(p)
<1>1. \A p, n : RecordAfter(p, n)' = RecordAfter(p, n)
  BY DEF RecordAfter
<1> QED
  BY <1>1 DEF Survivor

-----------------------------------------------------------------------------
\* The plan has only one schedule of the columns, so its values are right too.
LEMMA ValuesOfRegion ==
    ASSUME \A r \in Regions : ValuesPlanned(r), region \in Regions
    PROVE  /\ \A r \in Regions : ColumnsPlanned(r)
           /\ Len(region.stages) \in Nat
           /\ DOMAIN region.stages = 1 .. Len(region.stages)
           /\ HeldAfter[0] = {}
           /\ ValueSchedule(region, HeldAfter)
<1>1. \A r \in Regions : ColumnsPlanned(r)
  BY DEF ColumnsPlanned, ValuesPlanned
<1>2. /\ Len(region.stages) \in Nat
      /\ DOMAIN region.stages = 1 .. Len(region.stages)
      /\ HeldAfter \in [0 .. Len(region.stages) -> SUBSET Dims]
      /\ ColumnSchedule(region, HeldAfter)
  BY <1>1, ScheduleOfRegion
<1>3. PICK held \in [0 .. Len(region.stages) -> SUBSET Dims] :
         ColumnSchedule(region, held) /\ ValueSchedule(region, held)
  BY DEF ValuesPlanned
<1> DEFINE bad == {s \in Nat : s \in 0 .. Len(region.stages) /\ held[s] # HeldAfter[s]}
<1>4. ASSUME bad # {} PROVE FALSE
  <2>1. PICK s \in bad : \A k \in bad : s <= k
    <3>1. bad \in SUBSET Nat
      OBVIOUS
    <3> QED
      BY <1>4, <3>1, LeastMember
  <2>2. s # 0
    BY <1>2, <1>3, <2>1 DEF ColumnSchedule
  <2>3. /\ s \in 1 .. Len(region.stages) /\ s - 1 \in Nat
        /\ s - 1 \in 0 .. Len(region.stages) /\ ~(s <= s - 1)
    <3>1. s \in Nat /\ s \in 0 .. Len(region.stages)
      BY <2>1
    <3> QED
      BY ONLY <1>2, <2>2, <3>1, SMT
  <2>4. held[s - 1] = HeldAfter[s - 1]
    BY <2>1, <2>3
  <2>5. held[s] = HeldAfter[s]
    BY <1>2, <1>3, <2>3, <2>4 DEF ColumnSchedule
  <2> QED
    BY <2>1, <2>5
<1>5. \A s \in 0 .. Len(region.stages) : held[s] = HeldAfter[s]
  <2>1. \A s \in 0 .. Len(region.stages) : s \in Nat
    BY <1>2, SMT
  <2> QED
    BY <1>4, <2>1
<1>6. held = HeldAfter
  BY <1>2, <1>3, <1>5
<1> QED
  BY <1>1, <1>2, <1>3, <1>6 DEF ColumnSchedule

\* A dimension that no stage so far has written is the host's.
LEMMA Unwritten ==
    ASSUME NEW p \in Positions, NEW d \in Dims, NEW k \in Nat,
           start \in [Positions -> [Dims -> Value]],
           \A before \in 1 .. k : d \notin region.stages[before].writes
    PROVE  RecordAfter(p, k)[d] = start[p][d]
<1> DEFINE bad == {n \in Nat : n <= k /\ RecordAfter(p, n)[d] # start[p][d]}
<1>1. ASSUME bad # {} PROVE FALSE
  <2>1. PICK n \in bad : \A j \in bad : n <= j
    <3>1. bad \in SUBSET Nat
      OBVIOUS
    <3> QED
      BY <1>1, <3>1, LeastMember
  <2>2. n # 0
    BY <2>1, Records
  <2>3. /\ n \in Nat \ {0} /\ n \in 1 .. k /\ n - 1 \in Nat /\ n - 1 <= k
        /\ ~(n <= n - 1)
    BY <2>1, <2>2, SMT
  <2>4. RecordAfter(p, n - 1)[d] = start[p][d]
    BY <2>1, <2>3
  <2>5. RecordAfter(p, n) = IF region.stages[n].predicate THEN RecordAfter(p, n - 1)
                            ELSE Assign(region.stages[n], RecordAfter(p, n - 1))
    BY <2>3, Records
  <2>6. RecordAfter(p, n)[d] = start[p][d]
    BY <2>3, <2>4, <2>5 DEF Assign
  <2> QED
    BY <2>1, <2>6
<1>2. k \in Nat /\ k <= k
  BY SMT
<1> QED
  BY <1>1, <1>2

-----------------------------------------------------------------------------
\* The stages whose work has been queued for the tile that a lane computes.
StagesRun(l) ==
    IF phase = "ran" /\ l = LaneOf(m_submittedTiles) THEN m_nextStage[l] + 1
                                                     ELSE m_nextStage[l]

\* What a lane will hold of the slot of point p, after k stages: the packed
\* record the region began with, the right value in each column the lane counts
\* on, and the verdict of the predicate if it has run.
SlotReady(held, k, s, p, x) ==
    /\ x.packed[s] = start[p]
    /\ \A d \in held : x.columns[s][d] = RecordAfter(p, k)[d]
    /\ \A q \in 1 .. k :
          region.stages[q].predicate =>
              x.mask[s] = Keeps(region, region.stages[q], RecordAfter(p, q - 1))

Ready(tile, held, k, x) ==
    \A s \in SlotsOf(tile) : SlotReady(held, k, s, PointAt(tile, s), x)

\* What the pinned buffers will hold of a submitted tile.
SlotSpilled(written, s, p, x) ==
    /\ \A d \in written : x.host[s][d] = RecordAfter(p, Len(region.stages))[d]
    /\ region.compacts => x.hostMask[s] = Survivor(p)

Spilled(tile, written, x) ==
    \A s \in SlotsOf(tile) : SlotSpilled(written, s, PointAt(tile, s), x)

\* The dimensions that a region leaves in the view.
Returned == WrittenDims(region) \cap region.liveAfter

ComputesRight(l) ==
    \E x : /\ Settles(region, LaneData(l), stream[l], x)
           /\ Ready(m_pendingTileIndex[l], has[l], StagesRun(l), x)

PublishesRight(l) ==
    /\ m_writtenColumns[l] = Returned
    /\ m_maskValid[l] = region.compacts
    /\ \E x : /\ Settles(region, LaneData(l), stream[l], x)
              /\ Spilled(m_pendingTileIndex[l], Returned, x)

\* The points of the tiles that have not been published are as they were.
RestUntouched ==
    \A p \in Positions : ~(p < PublishedPoints) => view[p] = start[p]

\* The inductive invariant, next to IInv, DataTypes and ColumnsInv.
ValuesInv ==
    error = "none" =>
        /\ RestUntouched
        /\ \A l \in Lanes : /\ m_acquired[l] => ComputesRight(l)
                            /\ m_pending[l] => PublishesRight(l)

-----------------------------------------------------------------------------
\* The unpacked columns have the values that the stage is to read.
LEMMA UnpackRight ==
    ASSUME NEW tile \in Tiles, NEW held \in SUBSET Dims, NEW k \in Nat,
           NEW dims \in SUBSET Dims, NEW x, NEW y,
           start \in [Positions -> [Dims -> Value]],
           \A d \in dims \ held : \A before \in 1 .. k :
               d \notin region.stages[before].writes,
           Ready(tile, held, k, x),
           Does(region, Queued("unpack", tile, dims \ held, 0), x, y)
    PROVE  Ready(tile, held \cup dims, k, y)
<1> SUFFICES ASSUME NEW s \in SlotsOf(tile)
             PROVE  SlotReady(held \cup dims, k, s, PointAt(tile, s), y)
  BY DEF Ready
<1> DEFINE p == PointAt(tile, s)
<1>1. s \in Slots /\ p \in Positions
  BY SlotsAndPoints
<1>2. y = Holding(x.host, x.packed, ReplacedDims(tile, dims \ held, x.packed, x.columns),
                  x.hostMask, x.mask)
  BY DEF Does, Queued
<1>3. SlotReady(held, k, s, p, x)
  BY DEF Ready
<1> HIDE DEF p
<1>4. ASSUME NEW d \in held \cup dims
      PROVE  y.columns[s][d] = RecordAfter(p, k)[d]
  <2>1. CASE d \in held
    BY <1>1, <1>2, <1>3, <2>1 DEF SlotReady, Holding, ReplacedDims
  <2>2. CASE d \notin held
    <3>1. d \in dims \ held
      BY <2>2
    <3>2. y.columns[s][d] = start[p][d]
      BY <1>1, <1>2, <1>3, <3>1 DEF SlotReady, Holding, ReplacedDims
    <3>3. RecordAfter(p, k)[d] = start[p][d]
      BY <1>1, <3>1, Unwritten
    <3> QED
      BY <3>2, <3>3
  <2> QED
    BY <2>1, <2>2
<1>5. y.packed = x.packed /\ y.mask = x.mask
  BY <1>2 DEF Holding
<1> QED
  BY <1>3, <1>4, <1>5 DEF SlotReady, p

\* The next stage makes of the columns what it makes of the point.
LEMMA ComputeRight ==
    ASSUME NEW tile \in Tiles, NEW held \in SUBSET Dims, NEW k \in Nat, NEW x, NEW y,
           region.stages[k + 1].reads \subseteq held,
           \A q \in 1 .. k : ~(region.stages[q].predicate
                               /\ region.stages[k + 1].predicate),
           Ready(tile, held, k, x),
           Does(region, Queued("compute", tile, {}, k + 1), x, y)
    PROVE  Ready(tile, held, k + 1, y)
<1> SUFFICES ASSUME NEW s \in SlotsOf(tile)
             PROVE  SlotReady(held, k + 1, s, PointAt(tile, s), y)
  BY DEF Ready
<1> DEFINE p == PointAt(tile, s)
           stage == region.stages[k + 1]
           op == Queued("compute", tile, {}, k + 1)
<1>1. s \in Slots /\ p \in Positions
  BY SlotsAndPoints
<1>2. op.tile = tile /\ op.stage = k + 1 /\ op.kind = "compute"
  BY DEF Queued
<1>3. SlotReady(held, k, s, p, x)
  BY DEF Ready
<1>4. RecordAfter(p, k + 1) = IF stage.predicate THEN RecordAfter(p, k)
                              ELSE Assign(stage, RecordAfter(p, k))
  <2>1. k + 1 \in Nat \ {0} /\ (k + 1) - 1 = k
    BY SMT
  <2> QED
    BY <2>1, Records
<1>5. \A d \in stage.reads : x.columns[s][d] = RecordAfter(p, k)[d]
  BY <1>3 DEF SlotReady
<1>6. \A q \in 1 .. k + 1 : q \in 1 .. k \/ (q = k + 1 /\ q - 1 = k)
  BY SMT
<1>7. CASE stage.predicate
  <2>1. y = Holding(x.host, x.packed, x.columns, x.hostMask, Verdicts(region, op, x))
    BY <1>2, <1>7 DEF Does
  <2>2. Keeps(region, stage, x.columns[s]) = Keeps(region, stage, RecordAfter(p, k))
    BY <1>5, SameVerdict
  <2>3. y.mask[s] = Keeps(region, stage, x.columns[s])
    BY <1>1, <1>2, <2>1 DEF Holding, Verdicts
  <2>4. y.packed = x.packed /\ y.columns = x.columns
    BY <2>1 DEF Holding
  <2> HIDE DEF p, op
  <2>5. ASSUME NEW q \in 1 .. k + 1, region.stages[q].predicate
        PROVE  y.mask[s] = Keeps(region, region.stages[q], RecordAfter(p, q - 1))
    <3>1. q = k + 1 /\ q - 1 = k
      BY <1>6, <1>7, <2>5
    <3> QED
      BY <2>2, <2>3, <3>1
  <2>6. RecordAfter(p, k + 1) = RecordAfter(p, k)
    BY <1>4, <1>7
  <2> QED
    BY <1>3, <2>4, <2>5, <2>6 DEF SlotReady, p
<1>8. CASE ~stage.predicate
  <2>1. y = Holding(x.host, x.packed, Assigned(region, op, x), x.hostMask, x.mask)
    BY <1>2, <1>8 DEF Does
  <2>2. y.columns[s] = Assign(stage, x.columns[s])
    BY <1>1, <1>2, <2>1 DEF Holding, Assigned
  <2>3. y.packed = x.packed /\ y.mask = x.mask
    BY <2>1 DEF Holding
  <2>4. Computed(stage, x.columns[s]) = Computed(stage, RecordAfter(p, k))
    BY <1>5, SameReads
  <2> HIDE DEF p, op
  <2>5. RecordAfter(p, k + 1) = Assign(stage, RecordAfter(p, k))
    BY <1>4, <1>8
  <2>6. ASSUME NEW d \in held PROVE y.columns[s][d] = RecordAfter(p, k + 1)[d]
    <3>1. x.columns[s][d] = RecordAfter(p, k)[d]
      BY <1>3 DEF SlotReady
    <3> QED
      BY <2>2, <2>4, <2>5, <3>1 DEF Assign
  <2>7. ASSUME NEW q \in 1 .. k + 1, region.stages[q].predicate
        PROVE  y.mask[s] = Keeps(region, region.stages[q], RecordAfter(p, q - 1))
    <3>1. q \in 1 .. k
      BY <1>6, <1>8, <2>7
    <3> QED
      BY <1>3, <2>3, <2>7, <3>1 DEF SlotReady
  <2> QED
    BY <1>3, <2>3, <2>6, <2>7 DEF SlotReady, p
<1> QED
  BY <1>7, <1>8

\* The right verdict of the only predicate is that of the region.
LEMMA VerdictOfRegion ==
    ASSUME NEW p, NEW s, NEW x, NEW held, Len(region.stages) \in Nat,
           DOMAIN region.stages = 1 .. Len(region.stages),
           ValueSchedule(region, HeldAfter), region.compacts,
           SlotReady(held, Len(region.stages), s, p, x)
    PROVE  x.mask[s] = Survivor(p)
<1>1. PICK q \in DOMAIN region.stages : region.stages[q].predicate
  BY DEF ValueSchedule
<1>2. x.mask[s] = Keeps(region, region.stages[q], RecordAfter(p, q - 1))
  BY <1>1 DEF SlotReady
<1>3. \A u \in DOMAIN region.stages : region.stages[u].predicate => u = q
  BY <1>1 DEF ValueSchedule
<1>4. Survivor(p) = Keeps(region, region.stages[q], RecordAfter(p, q - 1))
  BY <1>1, <1>3 DEF Survivor, Keeps
<1> QED
  BY <1>2, <1>4

\* What is repacked and spilled of a tile is what the view is to get.
LEMMA SpillRight ==
    ASSUME NEW tile \in Tiles, NEW held \in SUBSET Dims, NEW written \in SUBSET held,
           NEW x, NEW y, NEW z, NEW w,
           Len(region.stages) \in Nat,
           DOMAIN region.stages = 1 .. Len(region.stages),
           ValueSchedule(region, HeldAfter),
           Ready(tile, held, Len(region.stages), x),
           Does(region, Queued("repack", tile, written, 0), x, y),
           Does(region, Queued("spill", tile, {}, 0), y, z),
           IF region.compacts THEN Does(region, Queued("spillMask", tile, {}, 0), z, w)
                              ELSE w = z
    PROVE  Spilled(tile, written, w)
<1> SUFFICES ASSUME NEW s \in SlotsOf(tile)
             PROVE  SlotSpilled(written, s, PointAt(tile, s), w)
  BY DEF Spilled
<1> DEFINE p == PointAt(tile, s)
<1>1. s \in Slots /\ p \in Positions
  BY SlotsAndPoints
<1>2. SlotReady(held, Len(region.stages), s, p, x)
  BY DEF Ready
<1>3. y = Holding(x.host, ReplacedDims(tile, written, x.columns, x.packed), x.columns,
                  x.hostMask, x.mask)
  BY DEF Does, Queued
<1>4. z = Holding(Replaced(tile, y.packed, y.host), y.packed, y.columns, y.hostMask,
                  y.mask)
  BY DEF Does, Queued
<1>5. w.host = z.host
      /\ (region.compacts => w.hostMask = Replaced(tile, z.mask, z.hostMask))
  <2>1. CASE region.compacts
    BY <2>1 DEF Does, Queued, Holding
  <2>2. CASE ~region.compacts
    BY <2>2
  <2> QED
    BY <2>1, <2>2
<1>6. z.host[s] = y.packed[s] /\ z.mask = y.mask
  BY <1>1, <1>4 DEF Holding, Replaced
<1>7. y.mask = x.mask
      /\ y.packed[s] = [d \in Dims |-> IF d \in written THEN x.columns[s][d]
                                                        ELSE x.packed[s][d]]
  BY <1>1, <1>3 DEF Holding, ReplacedDims
<1> HIDE DEF p
<1>8. ASSUME NEW d \in written
      PROVE  w.host[s][d] = RecordAfter(p, Len(region.stages))[d]
  <2>1. d \in held /\ d \in Dims
    OBVIOUS
  <2>2. x.columns[s][d] = RecordAfter(p, Len(region.stages))[d]
    BY <1>2, <2>1 DEF SlotReady
  <2> QED
    BY <1>5, <1>6, <1>7, <2>1, <2>2
<1>9. ASSUME region.compacts PROVE w.hostMask[s] = Survivor(p)
  <2>1. x.mask[s] = Survivor(p)
    BY <1>2, <1>9, VerdictOfRegion
  <2>2. w.hostMask[s] = z.mask[s]
    BY <1>1, <1>5, <1>9 DEF Replaced
  <2> QED
    BY <1>6, <1>7, <2>1, <2>2
<1> QED
  BY <1>8, <1>9 DEF SlotSpilled, p

-----------------------------------------------------------------------------
LEMMA ReadyFixed ==
    ASSUME region' = region, start' = start
    PROVE  /\ \A tile, held, k, x : Ready(tile, held, k, x)' <=> Ready(tile, held, k, x)
           /\ \A tile, written, x : Spilled(tile, written, x)' <=> Spilled(tile, written, x)
           /\ Returned' = Returned
<1>1. /\ \A p, n : RecordAfter(p, n)' = RecordAfter(p, n)
      /\ \A p : Survivor(p)' <=> Survivor(p)
  BY ResultsFixed
<1>2. \A held, k, s, p, x : SlotReady(held, k, s, p, x)' <=> SlotReady(held, k, s, p, x)
  BY <1>1 DEF SlotReady
<1>3. \A written, s, p, x : SlotSpilled(written, s, p, x)' <=> SlotSpilled(written, s, p, x)
  BY <1>1 DEF SlotSpilled
<1> QED
  BY <1>2, <1>3 DEF Ready, Spilled, Returned, WrittenDims

\* A lane that a step leaves alone.
LaneAside(l) ==
    /\ LaneData(l)' = LaneData(l)
    /\ stream'[l] = stream[l]
    /\ m_pendingTileIndex'[l] = m_pendingTileIndex[l]

LEMMA ComputesAside ==
    ASSUME NEW l \in Lanes, region' = region, start' = start, LaneAside(l),
           has'[l] \subseteq has[l], StagesRun(l)' = StagesRun(l), ComputesRight(l)
    PROVE  ComputesRight(l)'
<1>1. PICK x : /\ Settles(region, LaneData(l), stream[l], x)
               /\ Ready(m_pendingTileIndex[l], has[l], StagesRun(l), x)
  BY DEF ComputesRight
<1>2. Ready(m_pendingTileIndex[l], has'[l], StagesRun(l), x)
  BY <1>1 DEF Ready, SlotReady
<1>3. \A tile, held, k : Ready(tile, held, k, x)' <=> Ready(tile, held, k, x)
  BY ReadyFixed
<1> QED
  BY <1>1, <1>2, <1>3 DEF ComputesRight, LaneAside

LEMMA PublishesAside ==
    ASSUME NEW l \in Lanes, region' = region, start' = start, LaneAside(l),
           m_writtenColumns'[l] = m_writtenColumns[l],
           m_maskValid'[l] = m_maskValid[l], PublishesRight(l)
    PROVE  PublishesRight(l)'
<1>1. PICK x : /\ Settles(region, LaneData(l), stream[l], x)
               /\ Spilled(m_pendingTileIndex[l], Returned, x)
  BY DEF PublishesRight
<1>2. /\ \A tile, written : Spilled(tile, written, x)' <=> Spilled(tile, written, x)
      /\ Returned' = Returned
  BY ReadyFixed
<1> QED
  BY <1>1, <1>2 DEF PublishesRight, LaneAside

-----------------------------------------------------------------------------
\* A tile that has been spilled right is published right.
LEMMA DrainRight ==
    ASSUME IInv, DataTypes, ValuesInv, error = "none", NEW l \in Lanes,
           m_pending[l], stream[l] = <<>>, m_pendingTileIndex[l] = drained
    PROVE  /\ drained \in Tiles
           /\ KeptSlots(l) = {s \in SlotsOf(drained) :
                                 region.compacts => Survivor(PointAt(drained, s))}
           /\ \A p \in Positions :
                 DrainedView(l)[p] =
                    IF /\ p - PointAt(drained, 0) \in SlotsOf(drained)
                       /\ region.compacts => Survivor(p)
                    THEN Published(p) ELSE view[p]
<1>1. drained \in Tiles
  BY PendingTile DEF IInv
<1>2. /\ m_writtenColumns[l] = Returned /\ m_maskValid[l] = region.compacts
      /\ Spilled(drained, Returned, LaneData(l))
  BY NothingQueued DEF ValuesInv, PublishesRight
<1>3. \A s \in SlotsOf(drained) :
         /\ \A d \in Returned : m_hostPacked[l][s][d]
                                  = RecordAfter(PointAt(drained, s), Len(region.stages))[d]
         /\ region.compacts => m_hostMask[l][s] = Survivor(PointAt(drained, s))
  BY <1>2 DEF Spilled, SlotSpilled, LaneData, Holding
<1>4. KeptSlots(l) = {s \in SlotsOf(drained) :
                         region.compacts => Survivor(PointAt(drained, s))}
  BY <1>2, <1>3 DEF KeptSlots
<1>5. ASSUME NEW p \in Positions
      PROVE  DrainedView(l)[p] =
                IF /\ p - PointAt(drained, 0) \in SlotsOf(drained)
                   /\ region.compacts => Survivor(p)
                THEN Published(p) ELSE view[p]
  <2> DEFINE slot == p - PointAt(drained, 0)
  <2>1. PointAt(drained, slot) = p
    BY <1>1, SlotsAndPoints
  <2>2. DrainedView(l)[p] = IF slot \in KeptSlots(l) THEN PublishedRecord(l, p, slot)
                            ELSE view[p]
    BY DEF DrainedView
  <2>3. slot \in KeptSlots(l) <=> slot \in SlotsOf(drained)
                                  /\ (region.compacts => Survivor(p))
    BY <1>4, <2>1
  <2>4. ASSUME slot \in SlotsOf(drained)
        PROVE  PublishedRecord(l, p, slot) = Published(p)
    <3>1. \A d \in Returned : m_hostPacked[l][slot][d]
                                = RecordAfter(p, Len(region.stages))[d]
      BY <1>3, <2>1, <2>4
    <3>2. view[p] = start[p]
      <4>1. PublishedPoints = drained * Capacity
        BY <1>1, TileGeometry DEF PublishedPoints
      <4>2. /\ p \in drained * Capacity .. drained * Capacity
                       + Schedule!TileSize(drained, PointCount, Capacity) - 1
            /\ drained * Capacity \in Nat
        BY <1>1, <2>4, SlotsAndPoints, TileGeometry
      <4>3. ~(p < drained * Capacity)
        BY ONLY <4>2, SMT
      <4> QED
        BY <4>1, <4>3 DEF ValuesInv, RestUntouched
    <3> HIDE DEF slot
    <3> QED
      BY <1>2, <3>1, <3>2 DEF PublishedRecord, Published, Returned
  <2> QED
    BY <2>2, <2>3, <2>4
<1> QED
  BY <1>1, <1>4, <1>5

\* Publishing the oldest tile leaves the rest of the view as it was.
LEMMA DrainLeavesRest ==
    ASSUME IInv, DataTypes, ValuesInv, error = "none", NEW l \in Lanes,
           m_pending[l] => stream[l] = <<>> /\ m_pendingTileIndex[l] = drained
    PROVE  \A p \in Positions :
              ~(p < Schedule!Smaller(DrainedTiles(l) * Capacity, PointCount))
                 => DrainedView(l)[p] = start[p]
<1> SUFFICES ASSUME NEW p \in Positions,
                    ~(p < Schedule!Smaller(DrainedTiles(l) * Capacity, PointCount))
             PROVE  DrainedView(l)[p] = start[p]
  OBVIOUS
<1>1. CASE m_pending[l]
  <2> DEFINE first == drained * Capacity
             size == Schedule!TileSize(drained, PointCount, Capacity)
  <2>1. /\ drained \in Tiles
        /\ ~(p - PointAt(drained, 0) \in SlotsOf(drained)) => DrainedView(l)[p] = view[p]
    BY <1>1, DrainRight
  <2>2. /\ first \in Nat /\ size \in 1 .. Capacity
        /\ Schedule!Smaller(first, PointCount) = first
        /\ Schedule!Smaller((drained + 1) * Capacity, PointCount) = first + size
    BY <2>1, TileGeometry
  <2>3. p - PointAt(drained, 0) \in SlotsOf(drained) <=> p \in first .. first + size - 1
    BY <2>1, SlotsAndPoints
  <2>4. ~(p < first + size) /\ PublishedPoints = first
    BY <1>1, <2>2 DEF DrainedTiles, PublishedPoints
  <2>5. p \in Int /\ Capacity \in Nat
    BY TilesAndLanes, SMT DEF Positions
  <2> HIDE DEF first, size
  <2>6. p \notin first .. first + size - 1 /\ ~(p < first)
    BY ONLY <2>2, <2>4, <2>5, SMT
  <2>7. view[p] = start[p]
    BY <2>4, <2>6 DEF ValuesInv, RestUntouched
  <2> QED
    BY <2>1, <2>3, <2>6, <2>7
<1>2. CASE ~m_pending[l]
  <2>1. DrainedView(l)[p] = view[p]
    BY <1>2 DEF DrainedView
  <2>2. ~(p < PublishedPoints)
    BY <1>2 DEF DrainedTiles, PublishedPoints
  <2> QED
    BY <2>1, <2>2 DEF ValuesInv, RestUntouched
<1> QED
  BY <1>1, <1>2

-----------------------------------------------------------------------------
\* The lane that acquireTile fills holds the points of its new tile.
LEMMA AcquireValues ==
    ASSUME IInv, DataTypes, ColumnsInv, ValuesInv, region \in Region, AcquireTile
    PROVE  ValuesInv'
<1>1. PICK l \in Lanes :
         /\ Acquiring(l) /\ Refill(l)
         /\ Enqueue(l, <<Queued("upload", m_nextTile, {}, 0)>>)
         /\ m_acquired' = [m_acquired EXCEPT ![l] = TRUE]
         /\ m_nextStage' = [m_nextStage EXCEPT ![l] = 0]
         /\ UNCHANGED <<m_submittedTiles, phase, error, m_hostMask, m_devicePacked,
                        columns, m_deviceMask, region, start>>
  BY DEF AcquireTile, deviceVars, regionVars
<1>2. /\ ControlTypes /\ LaneWindow /\ StageInRange /\ IdleLaneQuiet
      /\ error = "none" /\ ~m_acquired[l] /\ l = LaneOf(m_nextTile)
      /\ m_nextTile < TileCount
  BY <1>1 DEF IInv, Acquiring, Running
<1>3. stream[l] = <<>> /\ (m_pending[l] => m_pendingTileIndex[l] = drained)
  BY <1>1, <1>2, LaneOfNextTile DEF Acquiring, Synchronized, IdleLaneQuiet
<1>4. /\ RestUntouched
      /\ \A k \in Lanes : /\ m_acquired[k] => ComputesRight(k)
                          /\ m_pending[k] => PublishesRight(k)
  BY <1>2 DEF ValuesInv
<1>5. \A p \in Positions :
         ~(p < Schedule!Smaller(drained' * Capacity, PointCount))
            => view'[p] = start[p]
  BY <1>1, <1>2, <1>3, DrainLeavesRest DEF Refill
<1>6. RestUntouched'
  BY <1>1, <1>5 DEF RestUntouched, PublishedPoints
<1>7. m_nextTile \in Tiles /\ drained' <= m_nextTile /\ drained' \in Nat /\ m_nextTile \in Nat
  <2>1. m_nextTile \in Tiles
    BY <1>2, NextTile
  <2>2. /\ drained \in Nat /\ m_submittedTiles \in Nat /\ m_nextTile \in Nat
        /\ drained <= m_submittedTiles /\ m_submittedTiles <= m_nextTile
    BY <1>2, Counters
  <2>3. CASE m_pending[l]
    <3>1. drained \in drained .. m_submittedTiles - 1 /\ drained' = drained + 1
      BY <1>1, <1>2, <1>3, <2>3 DEF LaneWindow, Refill, DrainedTiles
    <3>2. drained + 1 <= m_nextTile /\ drained + 1 \in Nat
      BY ONLY <2>2, <3>1, SMT
    <3> QED
      BY <2>1, <2>2, <3>1, <3>2
  <2>4. CASE ~m_pending[l]
    <3>1. drained' = drained
      BY <1>1, <2>4 DEF Refill, DrainedTiles
    <3>2. drained <= m_nextTile
      BY ONLY <2>2, SMT
    <3> QED
      BY <2>1, <2>2, <3>1, <3>2
  <2> QED
    BY <2>3, <2>4
<1> DEFINE t == m_nextTile
           filled == [s \in Slots |-> IF s \in SlotsOf(t)
                                      THEN DrainedView(l)[PointAt(t, s)]
                                      ELSE m_hostPacked[l][s]]
           x == Holding(filled, m_devicePacked[l], columns[l], m_hostMask[l],
                        m_deviceMask[l])
           y == Holding(filled, Replaced(t, filled, m_devicePacked[l]), columns[l],
                        m_hostMask[l], m_deviceMask[l])
           op == Queued("upload", t, {}, 0)
<1>8. \A s \in SlotsOf(t) : filled[s] = start[PointAt(t, s)]
  <2> SUFFICES ASSUME NEW s \in SlotsOf(t)
               PROVE  filled[s] = start[PointAt(t, s)]
    OBVIOUS
  <2>1. s \in Slots /\ PointAt(t, s) \in Positions /\ PointAt(t, s) = t * Capacity + s
    BY <1>7, SlotsAndPoints DEF PointAt, Schedule!TileFirst
  <2>2. ~(PointAt(t, s) < Schedule!Smaller(drained' * Capacity, PointCount))
    <3>1. Capacity \in Nat \ {0} /\ s \in Nat /\ t * Capacity \in Nat
          /\ t * Capacity < PointCount /\ PointCount \in Nat
      BY <1>7, TilesAndLanes, TileGeometry, LanesAssumption, <2>1, SMT DEF Slots
    <3>2. drained' * Capacity \in Nat /\ drained' * Capacity <= t * Capacity
      <4>1. CASE drained' = t
        BY <3>1, <4>1, SMT
      <4>2. CASE drained' # t
        <5>1. drained' < t
          BY ONLY <1>7, <4>2, SMT
        <5>2. drained' * Capacity + Capacity <= t * Capacity /\ drained' * Capacity \in Nat
          BY <1>7, <3>1, <5>1, TimesMonotone
        <5> QED
          BY ONLY <3>1, <5>2, SMT
      <4> QED
        BY <4>1, <4>2
    <3> DEFINE bound == drained' * Capacity
               base == t * Capacity
    <3>3. PointAt(t, s) = base + s /\ bound \in Nat /\ bound <= base /\ base \in Nat
      BY <2>1, <3>1, <3>2
    <3> HIDE DEF bound, base
    <3>4. ~(base + s < Schedule!Smaller(bound, PointCount))
      BY <3>1, <3>3, SMT DEF Schedule!Smaller
    <3> QED
      BY <3>3, <3>4 DEF bound
  <2>3. view'[PointAt(t, s)] = start[PointAt(t, s)]
    BY <1>5, <2>1, <2>2
  <2> QED
    BY <1>1, <2>1, <2>3 DEF Refill
<1>9. ComputesRight(l)'
  <2>1. LaneData(l)' = x
    <3>1. m_hostPacked'[l] = filled
      BY <1>1 DEF Refill, DataTypes
    <3> QED
      BY <1>1, <3>1 DEF LaneData
  <2>2. stream'[l] = <<>> \o <<op>>
    BY <1>1, <1>2, <1>3 DEF Enqueue, ControlTypes
  <2>3. Settles(region, x, <<>> \o <<op>>, y)
    <3>1. op \in QueuedOp
      BY <1>7, QueuedTypes
    <3>2. Does(region, op, x, y)
      BY DEF Does, Queued, Holding
    <3>3. Settles(region, x, <<>>, x) /\ <<>> \in Seq(QueuedOp)
      BY NothingQueued
    <3> HIDE DEF x, y, op
    <3> QED
      BY <3>1, <3>2, <3>3, OneMore
  <2>4. has'[l] = {}
    BY <1>1, <1>2 DEF Refill, ColumnsInv, LaneColumns, ControlTypes
  <2>5. StagesRun(l)' = 0
    <3>1. ~InStage(l)
      BY <1>2, ComputingLane
    <3>2. ~(phase = "ran" /\ l = LaneOf(m_submittedTiles))
      BY <3>1 DEF InStage
    <3>3. m_nextStage'[l] = 0
      BY <1>1, <1>2 DEF ControlTypes
    <3> QED
      BY <1>1, <3>2, <3>3 DEF StagesRun, LaneOf
  <2>6. m_pendingTileIndex'[l] = t
    BY <1>1, <1>2 DEF Refill, ControlTypes
  <2>7. Ready(t, {}, 0, y)
    <3>1. \A q \in 1 .. 0 : FALSE
      BY SMT
    <3>2. \A s \in SlotsOf(t) : y.packed[s] = start[PointAt(t, s)]
      <4>1. \A s \in SlotsOf(t) : s \in Slots
        BY <1>7, SlotsAndPoints
      <4> HIDE DEF filled
      <4> QED
        BY <1>8, <4>1 DEF Holding, Replaced
    <3> HIDE DEF y
    <3> QED
      BY <3>1, <3>2 DEF Ready, SlotReady
  <2> HIDE DEF x, y, op
  <2>8. PICK z : z = y
    OBVIOUS
  <2>9. \A tile, held, k : Ready(tile, held, k, z)' <=> Ready(tile, held, k, z)
    BY <1>1, ReadyFixed
  <2> QED
    BY <1>1, <2>1, <2>2, <2>3, <2>4, <2>5, <2>6, <2>7, <2>8, <2>9 DEF ComputesRight
<1>10. ASSUME NEW k \in Lanes, k # l
       PROVE  /\ m_acquired'[k] => ComputesRight(k)'
              /\ m_pending'[k] => PublishesRight(k)'
  <2>1. /\ LaneAside(k) /\ has'[k] = has[k] /\ m_acquired'[k] = m_acquired[k]
        /\ m_pending'[k] = m_pending[k]
        /\ m_writtenColumns'[k] = m_writtenColumns[k]
        /\ m_maskValid'[k] = m_maskValid[k] /\ m_nextStage'[k] = m_nextStage[k]
    BY <1>1, <1>2, <1>10
    DEF Refill, Enqueue, LaneAside, LaneData, ControlTypes, DataTypes
  <2>2. StagesRun(k)' = StagesRun(k)
    BY <1>1, <2>1 DEF StagesRun, LaneOf
  <2> QED
    BY <1>1, <1>4, <2>1, <2>2, ComputesAside, PublishesAside
<1>11. m_pending'[l] = FALSE
  BY <1>1, <1>2 DEF Refill, ControlTypes
<1> QED
  BY <1>6, <1>9, <1>10, <1>11 DEF ValuesInv

-----------------------------------------------------------------------------
\* A lane serves one tile: it is not both acquired and pending.
LEMMA LaneBusyOnce ==
    ASSUME ControlTypes, LaneWindow, NEW l \in Lanes, m_acquired[l]
    PROVE  ~m_pending[l]
<1> SUFFICES ASSUME m_pending[l] PROVE FALSE
  OBVIOUS
<1>1. /\ m_pendingTileIndex[l] \in drained .. m_submittedTiles - 1
      /\ m_pendingTileIndex[l] \in m_submittedTiles .. m_nextTile - 1
  BY DEF LaneWindow
<1>2. m_submittedTiles \in Nat /\ drained \in Nat /\ m_nextTile \in Nat
  BY Counters
<1> QED
  BY ONLY <1>1, <1>2, SMT

\* A step of the lane whose tile is computed queues work on that lane only.
LEMMA StageAside ==
    ASSUME ControlTypes, NEW l \in Lanes, NEW k \in Lanes, k # l,
           l = LaneOf(m_submittedTiles), stream'[k] = stream[k],
           UNCHANGED <<region, start, m_hostPacked, m_devicePacked, columns, m_hostMask,
                       m_deviceMask, m_pendingTileIndex, m_submittedTiles>>,
           m_nextStage'[k] = m_nextStage[k], has'[k] = has[k], ComputesRight(k)
    PROVE  ComputesRight(k)'
<1>1. LaneAside(k)
  BY DEF LaneAside, LaneData
<1>2. StagesRun(k)' = StagesRun(k)
  BY DEF StagesRun, LaneOf
<1> QED
  BY <1>1, <1>2, ComputesAside

LEMMA BeginValues ==
    ASSUME \A r \in Regions : ValuesPlanned(r),
           IInv, DataTypes, ColumnsInv, ValuesInv, BeginStage
    PROVE  ValuesInv'
<1>1. PICK l \in Lanes :
         /\ Computing(l)
         /\ phase = "idle"
         /\ m_nextStage[l] < Len(region.stages)
         /\ LET stage    == CurrentStage(l)
                missing  == stage.deviceMaterialize \ has[l]
                held     == has[l] \cup stage.deviceMaterialize
                accepted == /\ stage.deviceLiveBefore \subseteq held
                            /\ Cardinality(held) <= region.deviceColumns
            IN  /\ has' = [has EXCEPT ![l] = held]
                /\ Enqueue(l, IF missing = {} THEN <<>>
                              ELSE <<Queued("unpack", m_submittedTiles, missing, 0)>>)
                /\ phase' = IF accepted THEN "begun" ELSE phase
                /\ error' = IF accepted THEN error ELSE "plan"
         /\ UNCHANGED <<m_pending, m_acquired, m_maskValid, m_pendingTileIndex,
                        m_nextStage, m_writtenColumns, m_submittedTiles,
                        m_hostPacked, m_devicePacked, columns, m_hostMask, m_deviceMask,
                        view, drained, region, start>>
  BY DEF BeginStage, deviceVars, spillVars, viewVars, regionVars
<1> DEFINE dims == CurrentStage(l).deviceMaterialize
           missing == dims \ has[l]
           t == m_submittedTiles
           k == m_nextStage[l]
           op == Queued("unpack", t, missing, 0)
<1>2. /\ ControlTypes /\ LaneWindow
      /\ error = "none" /\ m_acquired[l] /\ l = LaneOf(t) /\ t < m_nextTile
      /\ region \in Regions
  BY <1>1 DEF IInv, Computing, Running, ColumnsInv
<1>3. /\ \A r \in Regions : ColumnsPlanned(r)
      /\ Len(region.stages) \in Nat /\ DOMAIN region.stages = 1 .. Len(region.stages)
      /\ ValueSchedule(region, HeldAfter)
  BY <1>2, ValuesOfRegion
<1>4. /\ RestUntouched
      /\ \A j \in Lanes : /\ m_acquired[j] => ComputesRight(j)
                          /\ m_pending[j] => PublishesRight(j)
  BY <1>2 DEF ValuesInv
<1>5. t \in Tiles /\ m_pendingTileIndex[l] = t
  <2>1. t \in Tiles
    BY <1>1, <1>2, ComputingTile
  <2>2. m_nextTile \in Nat /\ t \in Nat
    BY <1>2, Counters
  <2>3. t \in t .. m_nextTile - 1
    BY ONLY <1>2, <2>2, SMT
  <2> QED
    BY <1>2, <2>1, <2>3 DEF LaneWindow
<1>6. /\ k \in Nat /\ k + 1 \in 1 .. Len(region.stages) /\ (k + 1) - 1 = k
  <2>1. k \in Nat
    BY <1>2 DEF ControlTypes
  <2> QED
    BY <1>1, <1>3, <2>1, SMT
<1>7. /\ StagesRun(l) = k /\ has[l] = HeldAfter[k] /\ has[l] \subseteq Dims
      /\ CurrentStage(l) = region.stages[k + 1]
      /\ region.stages[k + 1] \in PlannedStage
  <2>1. has[l] \subseteq Dims /\ region \in Region
    BY <1>2 DEF ControlTypes
  <2>2. region.stages[k + 1] \in PlannedStage
    <3>1. region.stages \in Seq(PlannedStage)
      BY <2>1 DEF Region
    <3> HIDE DEF k
    <3> QED
      BY <1>3, <1>6, <3>1
  <2> QED
    BY <1>1, <1>2, <2>1, <2>2
    DEF StagesRun, ColumnsInv, LaneColumns, InStage, CurrentStage
<1>8. CASE error' # "none"
  BY <1>8 DEF ValuesInv
<1>9. CASE error' = "none"
  <2>1. phase' = "begun" /\ has' = [has EXCEPT ![l] = has[l] \cup dims]
    BY <1>1, <1>2, <1>9
  <2>2. PICK x : Settles(region, LaneData(l), stream[l], x) /\ Ready(t, has[l], k, x)
    BY <1>2, <1>4, <1>5, <1>7 DEF ComputesRight
  <2>3. dims \in SUBSET Dims
    BY <1>7 DEF PlannedStage
  <2>4. stream[l] \in Seq(QueuedOp)
    BY <1>2 DEF ControlTypes
  <2>5. \E y : Settles(region, LaneData(l), stream'[l], y) /\ Ready(t, has[l] \cup dims, k, y)
    <3>1. CASE missing = {}
      <4>1. stream'[l] = stream[l] \o <<>>
        BY <1>1, <1>2, <3>1 DEF Enqueue, ControlTypes
      <4>2. stream'[l] = stream[l]
        BY <2>4, <4>1, SMT
      <4>3. has[l] \cup dims = has[l]
        BY <3>1
      <4> QED
        BY <2>2, <4>2, <4>3
    <3>2. CASE missing # {}
      <4>1. stream'[l] = stream[l] \o <<op>>
        BY <1>1, <1>2, <3>2 DEF Enqueue, ControlTypes
      <4> DEFINE y == Holding(x.host, x.packed,
                              ReplacedDims(t, missing, x.packed, x.columns),
                              x.hostMask, x.mask)
      <4>2. Does(region, op, x, y)
        BY DEF Does, Queued
      <4>3. op \in QueuedOp
        <5>1. missing \in SUBSET Dims
          BY <2>3
        <5> QED
          BY <1>5, <5>1, QueuedTypes
      <4>4. \A d \in dims \ has[l] : \A before \in 1 .. k :
               d \notin region.stages[before].writes
        <5>1. \A before \in 1 .. (k + 1) - 1 :
                 region.stages[before].writes \cap region.stages[k + 1].deviceMaterialize
                    \subseteq HeldAfter[(k + 1) - 1]
          BY <1>3, <1>6 DEF ValueSchedule
        <5> HIDE DEF k
        <5> QED
          BY <1>6, <1>7, <5>1
      <4>5. start \in [Positions -> [Dims -> Value]]
        BY DEF DataTypes
      <4> HIDE DEF y
      <4>6. Ready(t, has[l] \cup dims, k, y)
        <5> HIDE DEF t, k, dims
        <5> QED
          BY <1>5, <1>6, <1>7, <2>2, <2>3, <4>2, <4>4, <4>5, UnpackRight
      <4>7. Settles(region, LaneData(l), stream[l] \o <<op>>, y)
        <5> HIDE DEF op
        <5> QED
          BY <2>2, <2>4, <4>2, <4>3, OneMore
      <4> QED
        BY <4>1, <4>6, <4>7
    <3> QED
      BY <3>1, <3>2
  <2>6. PICK y : Settles(region, LaneData(l), stream'[l], y) /\ Ready(t, has[l] \cup dims, k, y)
    BY <2>5
  <2>7. ComputesRight(l)'
    <3>1. \A tile, held, j : Ready(tile, held, j, y)' <=> Ready(tile, held, j, y)
      BY <1>1, ReadyFixed
    <3>2. LaneData(l)' = LaneData(l) /\ has'[l] = has[l] \cup dims
          /\ m_pendingTileIndex'[l] = t
      BY <1>1, <1>2, <1>5, <2>1 DEF LaneData, ControlTypes
    <3>3. StagesRun(l)' = k
      BY <1>1, <2>1 DEF StagesRun
    <3> HIDE DEF t, k, dims
    <3> QED
      BY <1>1, <2>6, <3>1, <3>2, <3>3 DEF ComputesRight
  <2>8. ASSUME NEW j \in Lanes, j # l
        PROVE  /\ m_acquired'[j] => ComputesRight(j)'
               /\ m_pending'[j] => PublishesRight(j)'
    <3>1. has'[j] = has[j] /\ stream'[j] = stream[j]
      BY <1>1, <1>2, <2>1, <2>8 DEF Enqueue, ControlTypes
    <3>2. LaneAside(j)
      BY <1>1, <3>1 DEF LaneAside, LaneData
    <3>3. m_acquired'[j] = m_acquired[j] /\ m_pending'[j] = m_pending[j]
          /\ m_writtenColumns'[j] = m_writtenColumns[j] /\ m_maskValid'[j] = m_maskValid[j]
          /\ m_nextStage'[j] = m_nextStage[j]
      BY <1>1
    <3>4. m_acquired[j] => ComputesRight(j)'
      BY <1>1, <1>2, <1>4, <2>8, <3>1, <3>3, StageAside
    <3> QED
      BY <1>1, <1>4, <3>2, <3>3, <3>4, PublishesAside
  <2>9. m_pending'[l] = FALSE \/ PublishesRight(l)'
    <3>1. ~m_pending[l]
      BY <1>2, <1>5, LaneBusyOnce
    <3> QED
      BY <1>1, <1>2, <3>1 DEF ControlTypes
  <2>10. RestUntouched'
    BY <1>1, <1>4 DEF RestUntouched, PublishedPoints
  <2> QED
    BY <2>7, <2>8, <2>9, <2>10 DEF ValuesInv
<1> QED
  BY <1>8, <1>9

-----------------------------------------------------------------------------
\* What submitTile queues is queued one after another.
LEMMA QueueTwo ==
    ASSUME NEW S, NEW s \in Seq(S), NEW a \in S, NEW b \in S
    PROVE  s \o <<a, b>> = (s \o <<a>>) \o <<b>>
<1> DEFINE two == <<a>> \o <<b>>
<1>1. <<a>> \in Seq(S) /\ <<b>> \in Seq(S) /\ <<a, b>> \in Seq(S)
  OBVIOUS
<1>2. two \in Seq(S) /\ Len(two) = 2 /\ two[1] = a /\ two[2] = b
  <2>1. two \in Seq(S) /\ Len(two) = 2 /\ two[1] = a
    BY <1>1, SMT
  <2>2. two[2] = b
    BY <1>1, SMT
  <2> QED
    BY <2>1, <2>2
<1>3. two = <<a, b>>
  <2>1. Len(<<a, b>>) = 2 /\ <<a, b>>[1] = a /\ <<a, b>>[2] = b
    BY SMT
  <2>2. \A i \in 1 .. 2 : i = 1 \/ i = 2
    BY SMT
  <2> HIDE DEF two
  <2>3. \A i \in 1 .. 2 : two[i] = <<a, b>>[i]
    BY <1>2, <2>1, <2>2
  <2> QED
    BY <1>1, <1>2, <2>1, <2>3, SeqEqual
<1>4. s \o (<<a>> \o <<b>>) = (s \o <<a>>) \o <<b>>
  BY <1>1, ConcatAssociative
<1> QED
  BY <1>3, <1>4

\* The lane whose tile is computed.
LEMMA ComputingFacts ==
    ASSUME \A r \in Regions : ValuesPlanned(r), IInv, ColumnsInv, ValuesInv,
           NEW l \in Lanes, Computing(l)
    PROVE  /\ error = "none" /\ m_acquired[l] /\ ~m_pending[l]
           /\ l = LaneOf(m_submittedTiles)
           /\ m_submittedTiles \in Tiles /\ m_pendingTileIndex[l] = m_submittedTiles
           /\ Len(region.stages) \in Nat /\ DOMAIN region.stages = 1 .. Len(region.stages)
           /\ ValueSchedule(region, HeldAfter)
           /\ m_nextStage[l] \in Nat /\ m_nextStage[l] <= Len(region.stages)
           /\ has[l] \in SUBSET Dims
           /\ has[l] = IF phase = "idle" THEN HeldAfter[m_nextStage[l]]
                                         ELSE HeldDuring(m_nextStage[l] + 1)
           /\ stream[l] \in Seq(QueuedOp)
           /\ RestUntouched
           /\ \A j \in Lanes : /\ m_acquired[j] => ComputesRight(j)
                               /\ m_pending[j] => PublishesRight(j)
<1>1. /\ ControlTypes /\ LaneWindow /\ error = "none" /\ m_acquired[l]
      /\ l = LaneOf(m_submittedTiles) /\ m_submittedTiles < m_nextTile
      /\ region \in Regions
  BY DEF IInv, Computing, Running, ColumnsInv
<1>2. /\ Len(region.stages) \in Nat /\ DOMAIN region.stages = 1 .. Len(region.stages)
      /\ ValueSchedule(region, HeldAfter)
  BY <1>1, ValuesOfRegion
<1>3. m_submittedTiles \in Tiles
  BY <1>1, ComputingTile
<1>4. m_pendingTileIndex[l] = m_submittedTiles
  <2>1. m_nextTile \in Nat /\ m_submittedTiles \in Nat
    BY <1>1, Counters
  <2>2. m_submittedTiles \in m_submittedTiles .. m_nextTile - 1
    BY ONLY <1>1, <2>1, SMT
  <2> QED
    BY <1>1, <2>2 DEF LaneWindow
<1>5. LaneColumns(l)
  BY <1>1 DEF ColumnsInv
<1>6. /\ m_nextStage[l] \in Nat /\ m_nextStage[l] <= Len(region.stages)
      /\ has[l] \in SUBSET Dims
      /\ has[l] = (IF phase = "idle" THEN HeldAfter[m_nextStage[l]]
                                     ELSE HeldDuring(m_nextStage[l] + 1))
      /\ stream[l] \in Seq(QueuedOp)
  BY <1>1, <1>5 DEF LaneColumns, InStage, ControlTypes
<1>7. ~m_pending[l]
  BY <1>1, LaneBusyOnce
<1> QED
  BY <1>1, <1>2, <1>3, <1>4, <1>6, <1>7 DEF ValuesInv

LEMMA RunValues ==
    ASSUME \A r \in Regions : ValuesPlanned(r),
           IInv, DataTypes, ColumnsInv, ValuesInv, RunStage
    PROVE  ValuesInv'
<1>1. PICK l \in Lanes :
         /\ Computing(l)
         /\ phase = "begun" /\ phase' = "ran"
         /\ Enqueue(l, <<Queued("compute", m_submittedTiles, {}, m_nextStage[l] + 1)>>)
         /\ UNCHANGED <<m_pending, m_acquired, m_maskValid, m_pendingTileIndex,
                        m_nextStage, m_writtenColumns, m_submittedTiles, has, error,
                        m_hostPacked, m_devicePacked, columns, m_hostMask, m_deviceMask,
                        view, drained, region, start>>
  BY DEF RunStage, hostVars, deviceVars, spillVars, viewVars, regionVars
<1> DEFINE t == m_submittedTiles
           k == m_nextStage[l]
           stage == region.stages[k + 1]
           op == Queued("compute", t, {}, k + 1)
<1>2. /\ error = "none" /\ m_acquired[l] /\ ~m_pending[l] /\ l = LaneOf(t)
      /\ t \in Tiles /\ m_pendingTileIndex[l] = t
      /\ Len(region.stages) \in Nat /\ DOMAIN region.stages = 1 .. Len(region.stages)
      /\ ValueSchedule(region, HeldAfter)
      /\ k \in Nat
      /\ has[l] \in SUBSET Dims /\ has[l] = HeldDuring(k + 1)
      /\ stream[l] \in Seq(QueuedOp)
      /\ RestUntouched
      /\ \A j \in Lanes : /\ m_acquired[j] => ComputesRight(j)
                          /\ m_pending[j] => PublishesRight(j)
  BY <1>1, ComputingFacts
<1>3. k < Len(region.stages)
  BY <1>1, <1>2 DEF IInv, StageInRange
<1>4. k + 1 \in 1 .. Len(region.stages) /\ (k + 1) - 1 = k
      /\ \A q \in 1 .. k : q \in 1 .. Len(region.stages) /\ q # k + 1
  <2> HIDE DEF k
  <2> QED
    BY ONLY <1>2, <1>3, SMT
<1>5. PICK x : Settles(region, LaneData(l), stream[l], x) /\ Ready(t, has[l], k, x)
  <2>1. StagesRun(l) = k
    BY <1>1 DEF StagesRun
  <2> QED
    BY <1>2, <2>1 DEF ComputesRight
<1>6. stage.reads \subseteq has[l]
  BY <1>2, <1>4 DEF ValueSchedule, HeldDuring
<1>7. \A q \in 1 .. k : ~(region.stages[q].predicate /\ stage.predicate)
  <2> HIDE DEF k
  <2> QED
    BY <1>2, <1>4 DEF ValueSchedule
<1>8. op \in QueuedOp
  <2>1. k + 1 \in Nat
    BY <1>2, SMT
  <2>2. {} \in SUBSET Dims
    OBVIOUS
  <2> HIDE DEF k
  <2> QED
    BY <1>2, <1>4, <2>1, <2>2, QueuedTypes
<1>9. PICK y : Does(region, op, x, y)
  <2>1. CASE region.stages[op.stage].predicate
    BY <2>1 DEF Does, Queued
  <2>2. CASE ~region.stages[op.stage].predicate
    BY <2>2 DEF Does, Queued
  <2> QED
    BY <2>1, <2>2
<1>10. Ready(t, has[l], k + 1, y)
  <2> HIDE DEF t, k
  <2> QED
    BY <1>2, <1>5, <1>6, <1>7, <1>9, ComputeRight
<1>11. stream'[l] = stream[l] \o <<op>>
  BY <1>1, <1>2 DEF Enqueue, IInv, ControlTypes
<1>12. Settles(region, LaneData(l), stream'[l], y)
  <2> HIDE DEF op
  <2> QED
    BY <1>2, <1>5, <1>8, <1>9, <1>11, OneMore
<1>13. ComputesRight(l)'
  <2>1. \A tile, held, j : Ready(tile, held, j, y)' <=> Ready(tile, held, j, y)
    BY <1>1, ReadyFixed
  <2>2. LaneData(l)' = LaneData(l)
    BY <1>1 DEF LaneData
  <2>3. StagesRun(l)' = k + 1
    BY <1>1, <1>2 DEF StagesRun, LaneOf
  <2> HIDE DEF t, k
  <2> QED
    BY <1>1, <1>2, <1>10, <1>12, <2>1, <2>2, <2>3 DEF ComputesRight
<1>14. ASSUME NEW j \in Lanes, j # l
       PROVE  /\ m_acquired'[j] => ComputesRight(j)'
              /\ m_pending'[j] => PublishesRight(j)'
  <2>1. stream'[j] = stream[j]
    BY <1>1, <1>14 DEF Enqueue, IInv, ControlTypes
  <2>2. LaneAside(j)
    BY <1>1, <2>1 DEF LaneAside, LaneData
  <2>3. m_acquired[j] => ComputesRight(j)'
    BY <1>1, <1>2, <1>14, <2>1, StageAside DEF IInv
  <2> QED
    BY <1>1, <1>2, <2>2, <2>3, PublishesAside
<1>15. RestUntouched'
  BY <1>1, <1>2 DEF RestUntouched, PublishedPoints
<1> QED
  BY <1>1, <1>2, <1>13, <1>14, <1>15 DEF ValuesInv

LEMMA EndValues ==
    ASSUME \A r \in Regions : ValuesPlanned(r),
           IInv, DataTypes, ColumnsInv, ValuesInv, EndStage
    PROVE  ValuesInv'
<1>1. PICK l \in Lanes :
         /\ Computing(l)
         /\ phase = "ran" /\ phase' = "idle"
         /\ has' = [has EXCEPT ![l] = has[l] \ CurrentStage(l).deviceRelease]
         /\ m_nextStage' = [m_nextStage EXCEPT ![l] = m_nextStage[l] + 1]
         /\ UNCHANGED <<m_pending, m_acquired, m_maskValid, m_pendingTileIndex,
                        m_writtenColumns, m_submittedTiles, error, stream,
                        m_hostPacked, m_devicePacked, columns, m_hostMask, m_deviceMask,
                        view, drained, region, start>>
  BY DEF EndStage, deviceVars, spillVars, viewVars, regionVars
<1>2. /\ m_acquired[l] /\ ~m_pending[l] /\ l = LaneOf(m_submittedTiles)
      /\ RestUntouched
      /\ \A j \in Lanes : /\ m_acquired[j] => ComputesRight(j)
                          /\ m_pending[j] => PublishesRight(j)
  BY <1>1, ComputingFacts
<1>3. /\ has'[l] \subseteq has[l] /\ m_nextStage'[l] = m_nextStage[l] + 1
      /\ \A j \in Lanes : j # l => has'[j] = has[j] /\ m_nextStage'[j] = m_nextStage[j]
  BY <1>1 DEF IInv, ControlTypes
<1>4. \A j \in Lanes : LaneAside(j)
  BY <1>1 DEF LaneAside, LaneData
<1>5. StagesRun(l)' = StagesRun(l)
  BY <1>1, <1>2, <1>3 DEF StagesRun, LaneOf
<1>6. ComputesRight(l)'
  BY <1>1, <1>2, <1>3, <1>4, <1>5, ComputesAside
<1>7. ASSUME NEW j \in Lanes, j # l
       PROVE  /\ m_acquired'[j] => ComputesRight(j)'
              /\ m_pending'[j] => PublishesRight(j)'
  <2>1. m_acquired[j] => ComputesRight(j)'
    BY <1>1, <1>2, <1>3, <1>7, StageAside DEF IInv
  <2> QED
    BY <1>1, <1>2, <1>4, <2>1, PublishesAside
<1>8. RestUntouched'
  BY <1>1, <1>2 DEF RestUntouched, PublishedPoints
<1> QED
  BY <1>1, <1>2, <1>6, <1>7, <1>8 DEF ValuesInv

LEMMA SubmitValues ==
    ASSUME \A r \in Regions : ValuesPlanned(r),
           IInv, DataTypes, ColumnsInv, ValuesInv, SubmitTile
    PROVE  ValuesInv'
<1>1. PICK l \in Lanes :
         /\ Submitting(l)
         /\ Enqueue(l, SubmitOps(l))
         /\ m_writtenColumns' = [m_writtenColumns EXCEPT ![l] = WrittenBack(l)]
         /\ m_maskValid' = [m_maskValid EXCEPT ![l] = region.compacts]
         /\ m_pending' = [m_pending EXCEPT ![l] = TRUE]
         /\ m_acquired' = [m_acquired EXCEPT ![l] = FALSE]
         /\ m_submittedTiles' = m_submittedTiles + 1
         /\ UNCHANGED <<m_pendingTileIndex, m_nextStage, has, phase, error,
                        m_hostPacked, m_devicePacked, columns, m_hostMask, m_deviceMask,
                        view, drained, region, start>>
  BY DEF SubmitTile, deviceVars, spillVars, viewVars, regionVars
<1> DEFINE t == m_submittedTiles
           n == Len(region.stages)
           repack == Queued("repack", t, Returned, 0)
           spill == Queued("spill", t, {}, 0)
           spillMask == Queued("spillMask", t, {}, 0)
<1>2. /\ Computing(l) /\ phase = "idle" /\ m_nextStage[l] = n
  BY <1>1 DEF Submitting
<1>3. /\ error = "none" /\ m_acquired[l] /\ ~m_pending[l] /\ l = LaneOf(t)
      /\ t \in Tiles /\ m_pendingTileIndex[l] = t
      /\ n \in Nat /\ DOMAIN region.stages = 1 .. n
      /\ ValueSchedule(region, HeldAfter)
      /\ has[l] \in SUBSET Dims /\ has[l] = HeldAfter[n]
      /\ stream[l] \in Seq(QueuedOp)
      /\ RestUntouched
      /\ \A j \in Lanes : /\ m_acquired[j] => ComputesRight(j)
                          /\ m_pending[j] => PublishesRight(j)
  BY <1>2, ComputingFacts
<1>4. WrittenBack(l) = Returned /\ Returned \in SUBSET has[l] /\ Returned \in SUBSET Dims
  <2>1. HeldAfter[n] \cap WrittenDims(region) = region.liveAfter \cap WrittenDims(region)
    BY <1>3 DEF ValueSchedule
  <2>2. WrittenBack(l) = Returned
    BY <1>3, <2>1 DEF WrittenBack, Returned
  <2> QED
    BY <1>3, <2>2 DEF WrittenBack
<1>5. PICK x : Settles(region, LaneData(l), stream[l], x) /\ Ready(t, has[l], n, x)
  <2>1. StagesRun(l) = n
    BY <1>2 DEF StagesRun
  <2> QED
    BY <1>3, <2>1 DEF ComputesRight
<1>6. repack \in QueuedOp /\ spill \in QueuedOp /\ spillMask \in QueuedOp
  <2>1. {} \in SUBSET Dims /\ 0 \in Nat
    BY SMT
  <2> QED
    BY <1>3, <1>4, <2>1, QueuedTypes
<1>7. PICK y : Does(region, repack, x, y)
  BY DEF Does, Queued
<1>8. PICK z : Does(region, spill, y, z)
  BY DEF Does, Queued
<1>9. PICK w : IF region.compacts THEN Does(region, spillMask, z, w) ELSE w = z
  <2>1. CASE region.compacts
    BY <2>1 DEF Does, Queued
  <2>2. CASE ~region.compacts
    BY <2>2
  <2> QED
    BY <2>1, <2>2
<1>10. Spilled(t, Returned, w)
  <2> HIDE DEF t
  <2> QED
    BY <1>3, <1>4, <1>5, <1>7, <1>8, <1>9, SpillRight
<1>11. stream'[l] = stream[l] \o SubmitOps(l)
       /\ \A j \in Lanes : j # l => stream'[j] = stream[j]
  BY <1>1 DEF Enqueue, IInv, ControlTypes
<1> HIDE DEF repack, spill, spillMask
<1>12. Settles(region, LaneData(l), stream'[l], w)
  <2>1. /\ stream[l] \o <<repack>> \in Seq(QueuedOp)
        /\ (stream[l] \o <<repack>>) \o <<spill>> \in Seq(QueuedOp)
    BY <1>3, <1>6, SMT
  <2>2. Settles(region, LaneData(l), stream[l] \o <<repack>>, y)
    BY <1>3, <1>5, <1>6, <1>7, OneMore
  <2>3. Settles(region, LaneData(l), (stream[l] \o <<repack>>) \o <<spill>>, z)
    BY <1>6, <1>8, <2>1, <2>2, OneMore
  <2>4. CASE region.compacts
    <3>1. SubmitOps(l) = <<repack, spill>> \o <<spillMask>>
      BY <1>4, <2>4 DEF SubmitOps, repack, spill, spillMask
    <3>2. stream[l] \o (<<repack, spill>> \o <<spillMask>>)
            = ((stream[l] \o <<repack>>) \o <<spill>>) \o <<spillMask>>
      <4>1. <<repack, spill>> \in Seq(QueuedOp) /\ <<spillMask>> \in Seq(QueuedOp)
        BY <1>6
      <4>2. stream[l] \o (<<repack, spill>> \o <<spillMask>>)
              = (stream[l] \o <<repack, spill>>) \o <<spillMask>>
        BY <1>3, <4>1, ConcatAssociative
      <4>3. stream[l] \o <<repack, spill>> = (stream[l] \o <<repack>>) \o <<spill>>
        BY <1>3, <1>6, QueueTwo
      <4> QED
        BY <4>2, <4>3
    <3>3. Settles(region, LaneData(l),
                  ((stream[l] \o <<repack>>) \o <<spill>>) \o <<spillMask>>, w)
      BY <1>6, <1>9, <2>1, <2>3, <2>4, OneMore
    <3> QED
      BY <1>11, <3>1, <3>2, <3>3
  <2>5. CASE ~region.compacts
    <3>1. SubmitOps(l) = <<repack, spill>> \o <<>>
      BY <1>4, <2>5 DEF SubmitOps, repack, spill
    <3>2. stream[l] \o (<<repack, spill>> \o <<>>) = (stream[l] \o <<repack>>) \o <<spill>>
      <4>1. <<repack, spill>> \in Seq(QueuedOp)
        BY <1>6
      <4>2. <<repack, spill>> \o <<>> = <<repack, spill>>
        BY <4>1, ConcatEmptySeq
      <4>3. stream[l] \o <<repack, spill>> = (stream[l] \o <<repack>>) \o <<spill>>
        BY <1>3, <1>6, QueueTwo
      <4> QED
        BY <4>2, <4>3
    <3> QED
      BY <1>9, <1>11, <2>3, <2>5, <3>1, <3>2
  <2> QED
    BY <2>4, <2>5
<1>13. PublishesRight(l)' /\ ~m_acquired'[l]
  <2>1. /\ \A tile, written : Spilled(tile, written, w)' <=> Spilled(tile, written, w)
        /\ Returned' = Returned
    BY <1>1, ReadyFixed
  <2>2. LaneData(l)' = LaneData(l)
    BY <1>1 DEF LaneData
  <2>3. /\ m_writtenColumns'[l] = Returned /\ m_maskValid'[l] = region.compacts
        /\ ~m_acquired'[l]
    BY <1>1, <1>4 DEF IInv, ControlTypes
  <2> HIDE DEF t
  <2> QED
    BY <1>1, <1>3, <1>10, <1>12, <2>1, <2>2, <2>3 DEF PublishesRight
<1>14. ASSUME NEW j \in Lanes, j # l
       PROVE  /\ m_acquired'[j] => ComputesRight(j)'
              /\ m_pending'[j] => PublishesRight(j)'
  <2>1. LaneAside(j)
    BY <1>1, <1>11, <1>14 DEF LaneAside, LaneData
  <2>2. StagesRun(j)' = StagesRun(j) /\ has'[j] \subseteq has[j]
    BY <1>1, <1>2 DEF StagesRun
  <2>3. /\ m_acquired'[j] = m_acquired[j] /\ m_pending'[j] = m_pending[j]
        /\ m_writtenColumns'[j] = m_writtenColumns[j] /\ m_maskValid'[j] = m_maskValid[j]
    BY <1>1, <1>14 DEF IInv, ControlTypes
  <2> QED
    BY <1>1, <1>3, <2>1, <2>2, <2>3, ComputesAside, PublishesAside
<1>15. RestUntouched'
  BY <1>1, <1>3 DEF RestUntouched, PublishedPoints
<1> QED
  BY <1>13, <1>14, <1>15 DEF ValuesInv

-----------------------------------------------------------------------------
LEMMA DrainValues ==
    ASSUME IInv, DataTypes, ValuesInv, DrainPending
    PROVE  ValuesInv'
<1>1. PICK l \in Lanes :
         /\ Ending /\ OldestPending(l) /\ Synchronized(l)
         /\ view' = DrainedView(l)
         /\ drained' = DrainedTiles(l)
         /\ m_pending' = [m_pending EXCEPT ![l] = FALSE]
         /\ m_maskValid' = [m_maskValid EXCEPT ![l] = FALSE]
         /\ m_writtenColumns' = [m_writtenColumns EXCEPT ![l] = {}]
         /\ UNCHANGED <<m_acquired, m_pendingTileIndex, m_nextStage, has,
                        m_submittedTiles, phase, error, stream,
                        m_hostPacked, m_devicePacked, columns, m_hostMask, m_deviceMask,
                        region, start>>
  BY DEF DrainPending, deviceVars, spillVars, tileVars, regionVars
<1>2. /\ error = "none" /\ m_pending[l] /\ stream[l] = <<>>
      /\ m_pendingTileIndex[l] = drained /\ ControlTypes
  BY <1>1, OldestIsDrained DEF IInv, Ending, Running, OldestPending, Synchronized
<1>3. RestUntouched'
  <2>1. \A p \in Positions :
           ~(p < Schedule!Smaller(drained' * Capacity, PointCount)) => view'[p] = start[p]
    BY <1>1, <1>2, DrainLeavesRest
  <2> QED
    BY <1>1, <2>1 DEF RestUntouched, PublishedPoints
<1>4. ASSUME NEW j \in Lanes
       PROVE  /\ m_acquired'[j] => ComputesRight(j)'
              /\ m_pending'[j] => PublishesRight(j)'
  <2>1. LaneAside(j) /\ StagesRun(j)' = StagesRun(j) /\ has'[j] \subseteq has[j]
    BY <1>1 DEF LaneAside, LaneData, StagesRun, LaneOf
  <2>2. /\ m_acquired[j] => ComputesRight(j)
        /\ m_pending[j] => PublishesRight(j)
    BY <1>2 DEF ValuesInv
  <2>3. m_acquired'[j] = m_acquired[j]
    BY <1>1
  <2>4. m_pending'[j] => /\ m_pending[j]
                         /\ m_writtenColumns'[j] = m_writtenColumns[j]
                         /\ m_maskValid'[j] = m_maskValid[j]
    BY <1>1, <1>2 DEF ControlTypes
  <2> QED
    BY <1>1, <2>1, <2>2, <2>3, <2>4, ComputesAside, PublishesAside
<1> QED
  BY <1>3, <1>4 DEF ValuesInv

\* The device brings a lane nearer to what it will hold, and does not change it.
LEMMA DeviceValues ==
    ASSUME IInv, DataTypes, ValuesInv, NEW l \in Lanes, DeviceStep(l)
    PROVE  ValuesInv'
<1>1. Executed(l) /\ stream[l] # <<>>
  BY DEF DeviceStep, Upload, Unpack, Compute, Repack, Spill, SpillMask, NextOp
<1>2. /\ UNCHANGED <<region, start, view, drained, error, phase, m_submittedTiles,
                     m_acquired, m_pending, m_pendingTileIndex, m_nextStage, has,
                     m_writtenColumns, m_maskValid>>
      /\ stream' = [stream EXCEPT ![l] = Tail(stream[l])]
  BY <1>1 DEF Executed, hostVars, viewVars, tileVars, regionVars
<1>3. stream[l] \in Seq(QueuedOp) /\ stream'[l] = Tail(stream[l])
      /\ \A j \in Lanes : j # l => stream'[j] = stream[j]
  BY <1>2 DEF IInv, ControlTypes
<1>4. ASSUME NEW x, Settles(region, LaneData(l), stream[l], x)
      PROVE  Settles(region, LaneData(l)', stream'[l], x)
  <2>1. PICK y : Does(region, Head(stream[l]), LaneData(l), y)
                 /\ Settles(region, y, Tail(stream[l]), x)
    BY <1>1, <1>3, <1>4, HeadDone
  <2>2. LaneData(l)' = y
    BY <2>1, DeviceDoes
  <2> QED
    BY <1>3, <2>1, <2>2
<1>5. \A j \in Lanes : j # l => LaneAside(j)
  <2>1. ASSUME NEW j \in Lanes, j # l
        PROVE  UNCHANGED <<m_hostPacked[j], m_devicePacked[j], columns[j], m_hostMask[j],
                           m_deviceMask[j]>>
    BY <2>1 DEF DeviceStep, Upload, Unpack, Compute, Repack, Spill, SpillMask, DataTypes,
                deviceVars, spillVars
  <2> QED
    BY <1>2, <1>3, <2>1 DEF LaneAside, LaneData
<1>6. \A j \in Lanes : StagesRun(j)' = StagesRun(j)
  BY <1>2 DEF StagesRun, LaneOf
<1>7. ASSUME error = "none" PROVE ValuesInv'
  <2>1. /\ RestUntouched
        /\ \A j \in Lanes : /\ m_acquired[j] => ComputesRight(j)
                            /\ m_pending[j] => PublishesRight(j)
    BY <1>7 DEF ValuesInv
  <2>2. ASSUME m_acquired[l] PROVE ComputesRight(l)'
    <3>1. PICK x : /\ Settles(region, LaneData(l), stream[l], x)
                   /\ Ready(m_pendingTileIndex[l], has[l], StagesRun(l), x)
      BY <2>1, <2>2 DEF ComputesRight
    <3>2. \A tile, held, k : Ready(tile, held, k, x)' <=> Ready(tile, held, k, x)
      BY <1>2, ReadyFixed
    <3> QED
      BY <1>2, <1>4, <1>6, <3>1, <3>2 DEF ComputesRight
  <2>3. ASSUME m_pending[l] PROVE PublishesRight(l)'
    <3>1. PICK x : /\ Settles(region, LaneData(l), stream[l], x)
                   /\ Spilled(m_pendingTileIndex[l], Returned, x)
      BY <2>1, <2>3 DEF PublishesRight
    <3>2. /\ \A tile, written : Spilled(tile, written, x)' <=> Spilled(tile, written, x)
          /\ Returned' = Returned
      BY <1>2, ReadyFixed
    <3>3. m_writtenColumns[l] = Returned /\ m_maskValid[l] = region.compacts
      BY <2>1, <2>3 DEF PublishesRight
    <3> QED
      BY <1>2, <1>4, <3>1, <3>2, <3>3 DEF PublishesRight
  <2>4. ASSUME NEW j \in Lanes, j # l
        PROVE  /\ m_acquired'[j] => ComputesRight(j)'
               /\ m_pending'[j] => PublishesRight(j)'
    BY <1>2, <1>5, <1>6, <2>1, <2>4, ComputesAside, PublishesAside
  <2>5. RestUntouched'
    BY <1>2, <2>1 DEF RestUntouched, PublishedPoints
  <2> QED
    BY <1>2, <2>2, <2>3, <2>4, <2>5 DEF ValuesInv
<1>8. ASSUME error # "none" PROVE ValuesInv'
  BY <1>2, <1>8 DEF ValuesInv
<1> QED
  BY <1>7, <1>8

\* What a step changes of nothing that the values are about.
LEMMA ValuesUntouched ==
    ASSUME ValuesInv,
           UNCHANGED <<region, start, view, drained, error, phase, m_submittedTiles,
                       m_acquired, m_pending, m_pendingTileIndex, m_nextStage,
                       m_writtenColumns, m_maskValid, stream, m_hostPacked, m_devicePacked,
                       columns, m_hostMask, m_deviceMask>>,
           \A l \in Lanes : m_acquired[l] => has'[l] = has[l]
    PROVE  ValuesInv'
<1>1. \A j \in Lanes : LaneAside(j) /\ StagesRun(j)' = StagesRun(j)
  BY DEF LaneAside, LaneData, StagesRun, LaneOf
<1>2. ASSUME error = "none" PROVE ValuesInv'
  <2>1. /\ RestUntouched
        /\ \A j \in Lanes : /\ m_acquired[j] => ComputesRight(j)
                            /\ m_pending[j] => PublishesRight(j)
    BY <1>2 DEF ValuesInv
  <2>2. ASSUME NEW j \in Lanes
        PROVE  /\ m_acquired'[j] => ComputesRight(j)'
               /\ m_pending'[j] => PublishesRight(j)'
    BY <1>1, <2>1, ComputesAside, PublishesAside
  <2>3. RestUntouched'
    BY <2>1 DEF RestUntouched, PublishedPoints
  <2> QED
    BY <2>2, <2>3 DEF ValuesInv
<1> QED
  BY <1>2 DEF ValuesInv

\* Every step keeps what the lanes are going to hold right.
LEMMA ValuesStep ==
    ASSUME \A r \in Regions : ValuesPlanned(r),
           IInv, DataTypes, ColumnsInv, ValuesInv, [Next]_vars
    PROVE  ValuesInv'
<1> USE DEF hostVars, deviceVars, spillVars, viewVars, tileVars, regionVars
<1>1. CASE AcquireTile
  <2>1. region \in Region
    BY DEF IInv, ControlTypes
  <2> QED
    BY <1>1, <2>1, AcquireValues
<1>2. CASE BeginStage
  BY <1>2, BeginValues
<1>3. CASE RunStage
  BY <1>3, RunValues
<1>4. CASE EndStage
  BY <1>4, EndValues
<1>5. CASE SubmitTile
  BY <1>5, SubmitValues
<1>6. CASE DrainPending
  BY <1>6, DrainValues
<1>7. CASE EndRegion
  <2>1. ASSUME NEW l \in Lanes PROVE ~m_acquired[l]
    <3>1. m_submittedTiles = m_nextTile /\ m_nextTile \in Nat /\ LaneWindow
      BY <1>7, Counters DEF EndRegion, Ending, IInv
    <3>2. m_submittedTiles .. m_nextTile - 1 = {}
      BY ONLY <3>1, SMT
    <3> QED
      BY <3>1, <3>2 DEF LaneWindow
  <2> QED
    BY <1>7, <2>1, ValuesUntouched DEF EndRegion
<1>8. CASE RefuseAcquire \/ AcquireFails \/ SubmitFails \/ Throw
  BY <1>8 DEF RefuseAcquire, AcquireFails, SubmitFails, Throw, ValuesInv
<1>9. ASSUME NEW l \in Lanes, DeviceStep(l) PROVE ValuesInv'
  BY <1>9, DeviceValues
<1>10. ASSUME NEW l \in Lanes, Teardown(l) PROVE ValuesInv'
  BY <1>10, ValuesUntouched DEF Teardown, DestroyLane
<1>11. CASE UNCHANGED vars
  BY <1>11, ValuesUntouched DEF vars
<1> QED
  BY <1>1, <1>2, <1>3, <1>4, <1>5, <1>6, <1>7, <1>8, <1>9, <1>10, <1>11
  DEF Next, HostStep, Terminated

-----------------------------------------------------------------------------
\* ValuesHold: whatever the lanes have queued and however the device gets on
\* with it, a computing lane ends up with what the stages so far make of the
\* points of its tile, and a submitted one with what the view is to get.
LEMMA ValuesHold ==
    ASSUME \A r \in Regions : ValuesPlanned(r)
    PROVE  Spec => [](IInv /\ DataTypes /\ ColumnsInv /\ ValuesInv)
<1>1. \A r \in Regions : ColumnsPlanned(r)
  BY DEF ColumnsPlanned, ValuesPlanned
<1>2. Init => ValuesInv
  BY DEF Init, FreshLanes, ValuesInv, RestUntouched
<1>3. IInv /\ DataTypes /\ ColumnsInv /\ ValuesInv /\ [Next]_vars => ValuesInv'
  BY ValuesStep
<1>4. TypeOK => DataTypes
  BY DEF TypeOK
<1>5. Spec => []IInv /\ []TypeOK /\ []ColumnsInv
  BY <1>1, Invariance, Typed, ColumnsHold, PTL
<1> QED
  BY <1>2, <1>3, <1>4, <1>5, PTL DEF Spec

-----------------------------------------------------------------------------
\* Publishing the oldest tile is taking its points, whose number is that of the
\* tile's slots.
LEMMA DrainTakes ==
    ASSUME IInv, DataTypes, ValuesInv, error = "none", NEW l \in Lanes,
           m_pending[l], stream[l] = <<>>, m_pendingTileIndex[l] = drained,
           view' = DrainedView(l), output' = DrainedOutput(l),
           drained' = DrainedTiles(l)
    PROVE  \E n \in 1 .. PointCount : Promise!Advance(n)
<1> DEFINE first == drained * Capacity
           size == Schedule!TileSize(drained, PointCount, Capacity)
           ahead(p) == region.compacts => Survivor(p)
<1>1. /\ drained \in Tiles
      /\ KeptSlots(l) = {s \in SlotsOf(drained) : ahead(PointAt(drained, s))}
      /\ \A p \in Positions :
            DrainedView(l)[p] =
               IF p - PointAt(drained, 0) \in SlotsOf(drained) /\ ahead(p)
               THEN Published(p) ELSE view[p]
  BY DrainRight
<1>2. /\ first \in Nat /\ size \in 1 .. Capacity /\ first + size <= PointCount
      /\ Schedule!Smaller(first, PointCount) = first
      /\ Schedule!Smaller((drained + 1) * Capacity, PointCount) = first + size
  BY <1>1, TileGeometry
<1>3. /\ \A s \in SlotsOf(drained) : PointAt(drained, s) \in Positions
                                     /\ PointAt(drained, s) - PointAt(drained, 0) = s
      /\ \A p \in Positions :
            /\ p - PointAt(drained, 0) \in SlotsOf(drained) <=> p \in first .. first + size - 1
            /\ PointAt(drained, p - PointAt(drained, 0)) = p
  BY <1>1, SlotsAndPoints
<1>4. PointCount \in Nat /\ Capacity \in Nat
  BY LanesAssumption, TilesAndLanes
<1>5. PublishedPoints = first /\ PublishedPoints' = first + size
  BY <1>2 DEF PublishedPoints, DrainedTiles
<1> HIDE DEF first, size
<1>6. size \in 1 .. PointCount /\ first .. first + size - 1 \subseteq Positions
  <2>1. size \in 1 .. PointCount
    BY ONLY <1>2, <1>4, SMT
  <2>2. \A p \in first .. first + size - 1 : p \in 0 .. PointCount - 1
    BY ONLY <1>2, <1>4, SMT
  <2> QED
    BY <2>1, <2>2 DEF Positions
<1>7. \A p \in Positions : Promise!Publishes(p) <=> ahead(p)
  BY DEF Promise!Publishes
<1>8. view' = [p \in Positions |->
                  IF p \in first .. first + size - 1 /\ ahead(p)
                  THEN Published(p) ELSE view[p]]
  <2>1. DrainedView(l) = [p \in Positions |-> DrainedView(l)[p]]
    BY DEF DrainedView
  <2> QED
    BY <1>1, <1>3, <2>1
<1>9. {PointAt(drained, slot) : slot \in KeptSlots(l)}
         = {p \in first .. first + size - 1 : ahead(p)}
  <2>1. ASSUME NEW slot \in KeptSlots(l)
        PROVE  PointAt(drained, slot) \in {p \in first .. first + size - 1 : ahead(p)}
    <3>1. slot \in SlotsOf(drained) /\ ahead(PointAt(drained, slot))
      BY <1>1
    <3> HIDE DEF ahead
    <3> QED
      BY <1>3, <3>1
  <2>2. ASSUME NEW p \in first .. first + size - 1, ahead(p)
        PROVE  \E slot \in KeptSlots(l) : PointAt(drained, slot) = p
    <3>1. p \in Positions /\ p - PointAt(drained, 0) \in SlotsOf(drained)
          /\ PointAt(drained, p - PointAt(drained, 0)) = p
      BY <1>3, <1>6
    <3> HIDE DEF ahead
    <3>2. p - PointAt(drained, 0) \in KeptSlots(l)
      BY <1>1, <2>2, <3>1
    <3> QED
      BY <3>1, <3>2
  <2> QED
    BY <2>1, <2>2
<1>10. Promise!Advance(size)
  <2>1. PublishedPoints + size <= PointCount
    BY <1>2, <1>5
  <2>2. view' = [p \in Promise!Points |->
                    IF /\ p \in PublishedPoints .. PublishedPoints + size - 1
                       /\ Promise!Publishes(p)
                    THEN [q \in Positions |-> Published(q)][p] ELSE view[p]]
    <3>1. Promise!Points = Positions
      BY DEF Promise!Points, Positions
    <3> HIDE DEF ahead
    <3> QED
      BY <1>5, <1>7, <1>8, <3>1
  <2>3. output' = IF region.compacts
                  THEN output \o InSourceOrder({p \in PublishedPoints .. PublishedPoints + size - 1 :
                                                   Promise!Publishes(p)})
                  ELSE output
    <3>1. {p \in PublishedPoints .. PublishedPoints + size - 1 : Promise!Publishes(p)}
             = {p \in first .. first + size - 1 : ahead(p)}
      BY <1>5, <1>6, <1>7
    <3> HIDE DEF ahead
    <3> QED
      BY <1>9, <3>1 DEF DrainedOutput
  <2>4. \A S : Promise!InSourceOrder(S) = InSourceOrder(S)
    BY DEF Promise!InSourceOrder, InSourceOrder, Promise!Cardinality, Cardinality
  <2> QED
    BY <1>5, <2>1, <2>2, <2>3, <2>4 DEF Promise!Advance
<1> QED
  BY <1>6, <1>10

\* What the region computes does not change.
LEMMA ProgramFixed ==
    ASSUME region' = region, start' = start
    PROVE  /\ (region.compacts)' = region.compacts
           /\ {p \in Positions : Survivor(p)}' = {p \in Positions : Survivor(p)}
           /\ [p \in Positions |-> Published(p)]' = [p \in Positions |-> Published(p)]
<1>1. /\ \A p, n : RecordAfter(p, n)' = RecordAfter(p, n)
      /\ \A p : Survivor(p)' <=> Survivor(p)
  BY ResultsFixed
<1>2. \A p : Published(p)' = Published(p)
  BY <1>1 DEF Published, WrittenDims
<1> QED
  BY <1>1, <1>2

\* A step that publishes nothing and ends nothing.
LEMMA PromiseStutters ==
    ASSUME UNCHANGED <<region, start, view, output, drained, error>>,
           m_state' = m_state
    PROVE  UNCHANGED Promise!abstractVars
<1>1. PublishedPoints' = PublishedPoints
  BY DEF PublishedPoints
<1> QED
  BY <1>1, ProgramFixed DEF Promise!abstractVars

\* Every step of the lanes is a step of the region, or none.
LEMMA PromiseStep ==
    ASSUME IInv, DataTypes, ValuesInv, [Next]_vars
    PROVE  [Promise!Next]_(Promise!abstractVars)
<1> USE DEF hostVars, deviceVars, spillVars, viewVars, tileVars, regionVars
<1>1. ASSUME NEW l \in Lanes, error = "none", m_pending[l] => stream[l] = <<>>,
             m_pending[l] => m_pendingTileIndex[l] = drained,
             view' = DrainedView(l), output' = DrainedOutput(l),
             drained' = DrainedTiles(l)
      PROVE  \/ \E n \in 1 .. PointCount : Promise!Advance(n)
             \/ UNCHANGED <<view, output, drained>>
  <2>1. CASE m_pending[l]
    BY <1>1, <2>1, DrainTakes
  <2>2. CASE ~m_pending[l]
    <3>1. DrainedView(l) = view
      <4>1. view = [p \in Positions |-> view[p]]
        BY DEF DataTypes
      <4> QED
        BY <2>2, <4>1 DEF DrainedView
    <3> QED
      BY <1>1, <2>2, <3>1 DEF DrainedOutput, DrainedTiles
  <2> QED
    BY <2>1, <2>2
<1>2. ASSUME NEW l \in Lanes, Acquiring(l)
      PROVE  /\ error = "none" /\ m_state = "RegionActive"
             /\ m_pending[l] => stream[l] = <<>>
             /\ m_pending[l] => m_pendingTileIndex[l] = drained
  BY <1>2, LaneOfNextTile DEF IInv, Acquiring, Running, Synchronized
<1>3. CASE AcquireTile
  <2>1. PICK l \in Lanes : /\ Acquiring(l) /\ Refill(l)
                           /\ UNCHANGED <<error, m_state, region, start>>
    BY <1>3 DEF AcquireTile
  <2>2. \/ \E n \in 1 .. PointCount : Promise!Advance(n)
        \/ UNCHANGED <<view, output, drained>>
    BY <1>1, <1>2, <2>1 DEF Refill
  <2>3. CASE UNCHANGED <<view, output, drained>>
    BY <2>1, <2>3, PromiseStutters
  <2>4. CASE \E n \in 1 .. PointCount : Promise!Advance(n)
    <3>1. \E n \in 1 .. PointCount : Promise!Take(n)
      BY <1>2, <2>1, <2>4, ProgramFixed DEF Promise!Take
    <3> QED
      BY <3>1 DEF Promise!Next
  <2> QED
    BY <2>2, <2>3, <2>4
<1>4. CASE AcquireFails
  <2>1. PICK l \in Lanes : /\ Acquiring(l) /\ Refill(l)
                           /\ UNCHANGED <<m_state, region, start>>
                           /\ error' = "environment"
    BY <1>4 DEF AcquireFails
  <2>2. \/ \E n \in 1 .. PointCount : Promise!Advance(n)
        \/ UNCHANGED <<view, output, drained>>
    BY <1>1, <1>2, <2>1 DEF Refill
  <2>3. UNCHANGED <<view, output, drained>> => UNCHANGED <<view, output, PublishedPoints>>
    BY DEF PublishedPoints
  <2>4. Promise!Abort
    BY <1>2, <2>1, <2>2, <2>3, ProgramFixed DEF Promise!Abort
  <2> QED
    BY <2>4 DEF Promise!Next
<1>5. CASE DrainPending
  <2>1. PICK l \in Lanes : /\ Ending /\ OldestPending(l) /\ Synchronized(l)
                           /\ view' = DrainedView(l) /\ output' = DrainedOutput(l)
                           /\ drained' = DrainedTiles(l)
                           /\ UNCHANGED <<error, m_state, region, start>>
    BY <1>5 DEF DrainPending
  <2>2. /\ error = "none" /\ m_state = "RegionActive"
        /\ m_pending[l] /\ stream[l] = <<>> /\ m_pendingTileIndex[l] = drained
    BY <2>1, OldestIsDrained DEF IInv, Ending, Running, OldestPending, Synchronized
  <2>3. \E n \in 1 .. PointCount : Promise!Advance(n)
    BY <2>1, <2>2, DrainTakes
  <2>4. \E n \in 1 .. PointCount : Promise!Take(n)
    BY <2>1, <2>2, <2>3, ProgramFixed DEF Promise!Take
  <2> QED
    BY <2>4 DEF Promise!Next
<1>6. CASE EndRegion
  <2>1. /\ error = "none" /\ m_state = "RegionActive" /\ m_state' = "RegionComplete"
        /\ UNCHANGED <<error, region, start, view, output, drained>>
    BY <1>6 DEF EndRegion, Ending, Running
  <2>2. IInv'
    BY NextInvariant
  <2>3. drained = TileCount
    BY <2>1, <2>2 DEF IInv, NothingUnpublished
  <2>4. PublishedPoints = PointCount /\ PublishedPoints' = PublishedPoints
    BY <2>1, <2>3, AllPointsPublished DEF PublishedPoints
  <2>5. Promise!Complete
    BY <2>1, <2>4, ProgramFixed DEF Promise!Complete
  <2> QED
    BY <2>5 DEF Promise!Next
<1>7. CASE RefuseAcquire \/ SubmitFails \/ Throw
  <2>1. /\ UNCHANGED <<region, start, view, output, drained>>
        /\ error = "none" /\ error' # "none"
    BY <1>7 DEF RefuseAcquire, SubmitFails, Throw, Submitting, Computing, Running
  <2>2. PublishedPoints' = PublishedPoints
    BY <2>1 DEF PublishedPoints
  <2>3. Promise!Abort
    BY <2>1, <2>2, ProgramFixed DEF Promise!Abort
  <2> QED
    BY <2>3 DEF Promise!Next
<1>8. CASE BeginStage
  <2>1. /\ UNCHANGED <<region, start, view, output, drained, m_state>>
        /\ error = "none" /\ error' \in {error, "plan"}
    BY <1>8 DEF BeginStage, Computing, Running
  <2>2. CASE error' = error
    BY <2>1, <2>2, PromiseStutters
  <2>3. CASE error' = "plan"
    <3>1. PublishedPoints' = PublishedPoints
      BY <2>1 DEF PublishedPoints
    <3>2. Promise!Abort
      BY <2>1, <2>3, <3>1, ProgramFixed DEF Promise!Abort
    <3> QED
      BY <3>2 DEF Promise!Next
  <2> QED
    BY <2>1, <2>2, <2>3
<1>9. CASE RunStage \/ EndStage \/ SubmitTile
  BY <1>9, PromiseStutters DEF RunStage, EndStage, SubmitTile
<1>10. ASSUME NEW l \in Lanes, DeviceStep(l)
       PROVE  UNCHANGED Promise!abstractVars
  BY <1>10, PromiseStutters
  DEF DeviceStep, Upload, Unpack, Compute, Repack, Spill, SpillMask, Executed
<1>11. ASSUME NEW l \in Lanes, Teardown(l)
       PROVE  UNCHANGED Promise!abstractVars
  BY <1>11, PromiseStutters DEF Teardown, DestroyLane
<1>12. CASE UNCHANGED vars
  BY <1>12, PromiseStutters DEF vars
<1> QED
  BY <1>3, <1>4, <1>5, <1>6, <1>7, <1>8, <1>9, <1>10, <1>11, <1>12
  DEF Next, HostStep, Terminated

\* PromiseKept: whatever the tiles, the lanes, the order in which the streams
\* get on and the point at which something fails, a region does to the view and
\* to the output what StableRegion says: the points are taken in source order,
\* each of them gets what all the stages make of it, and only the survivors
\* are published.
THEOREM PromiseKept ==
    ASSUME \A r \in Regions : ValuesPlanned(r)
    PROVE  Spec => Promise!Safety
<1>1. Init => Promise!Init
  <2> SUFFICES ASSUME Init PROVE Promise!Init
    OBVIOUS
  <2>1. PublishedPoints = 0
    <3>1. Capacity \in Nat \ {0} /\ PointCount \in Nat \ {0} /\ drained = 0
      BY TilesAndLanes, LanesAssumption DEF Init
    <3>2. drained * Capacity = 0
      BY <3>1, SMT
    <3> QED
      BY <3>1, <3>2, SMT DEF PublishedPoints, Schedule!Smaller
  <2> QED
    BY <2>1 DEF Init, Promise!Init
<1>2. IInv /\ DataTypes /\ ValuesInv /\ [Next]_vars
         => [Promise!Next]_(Promise!abstractVars)
  BY PromiseStep
<1> QED
  BY <1>1, <1>2, ValuesHold, PTL DEF Spec, Promise!Safety
=============================================================================
