------------------------------- MODULE Pyramid -------------------------------
(***************************************************************************)
(* io/private/copcwriter: the COPC writer builds its octree from the cells *)
(* of points upwards.  BuPyramid queues the cells and the empty voxels     *)
(* next to them; the runner thread of PyramidManager pops octants, and     *)
(* gives a parent all of whose children are complete to a Processor in the *)
(* pool, which moves some of their points up, writes what is left of the   *)
(* children and queues the parent.  The root ends the runner.              *)
(*                                                                         *)
(* A key is the path from the root; an octant has as many points as its    *)
(* view.  Which points the sampling accepts is left open, save that it     *)
(* accepts the first.                                                      *)
(***************************************************************************)
EXTENDS PoolTasks

CONSTANTS
    Directions,     \* the children of a voxel
    CellSets        \* what the grid made of the input: points of each cell

Root == <<>>
Child(key, d) == Append(key, d)
Parent(key) == Front(key)
Ancestors(key) == {SubSeq(key, 1, n) : n \in 0 .. Len(key) - 1}

\* The grid has at least one level, and no cell lies in another.
PyramidAssumption ==
    /\ IsFiniteSet(Directions)
    /\ \A points \in CellSets :
          /\ IsFiniteSet(DOMAIN points)
          /\ points \in [DOMAIN points -> Nat \ {0}]
          /\ \A key \in DOMAIN points :
                /\ key \in Seq(Directions) /\ key # Root
                /\ Ancestors(key) \cap DOMAIN points = {}

VARIABLES
    cells,          \* the cells
    runner,         \* where the runner thread is
    held,           \* the octant it has popped
    m_queue, m_completes,
    voxels,         \* the tasks: the children each Processor was given
    processed,      \* and the parents of those that have written
    m_written,      \* the points of each key that was written
    m_totalPoints,
    childCounts     \* the keys that finish() puts in the hierarchy

pyramidState == <<cells, runner, held, m_queue, m_completes, voxels,
                  processed, m_written, m_totalPoints, childCounts>>
pyramidVars == <<pyramidState, poolVars>>

Octant(key, points, mustWrite) ==
    [key |-> key, points |-> points, mustWrite |-> mustWrite]
NoOctant == Octant(Root, 0, FALSE)

\* insert() into a map keeps what was there.
Inserted(map, others) ==
    [key \in DOMAIN map \cup DOMAIN others |->
        IF key \in DOMAIN map THEN map[key] ELSE others[key]]

PointsOf(octants) == SumFunction([o \in octants |-> o.points])
CellPoints == SumFunction(cells)

PyramidTypeOK ==
    /\ cells \in CellSets
    /\ runner \in {"queueing", "waiting", "processing", "counting", "gone"}
    /\ \A o \in {held} \cup ToSet(m_queue) \cup m_completes \cup processed :
          /\ o.key \in Seq(Directions)
          /\ o.points \in 0 .. CellPoints
          /\ o.mustWrite \in BOOLEAN
    /\ DOMAIN voxels = ToSet(waiting) \cup running
    /\ \A key \in DOMAIN m_written : m_written[key] \in 0 .. CellPoints
    /\ m_totalPoints \in 0 .. CellPoints
    /\ \A key \in childCounts : key \in Seq(Directions)

PyramidInitAt(place) ==
    /\ runner = place
    /\ held = NoOctant
    /\ m_queue = <<>> /\ m_completes = {}
    /\ voxels = <<>> /\ processed = {}
    /\ m_written = <<>> /\ m_totalPoints = 0
    /\ childCounts = {}

PyramidInit == cells \in CellSets /\ PyramidInitAt("queueing")

\* queueWork(): the cells, in any order, then the children that a parent
\* lacks: those that are neither a cell nor above one.
Needed ==
    LET parents == UNION {Ancestors(key) : key \in DOMAIN cells}
    IN  {Child(key, d) : key \in parents, d \in Directions}
            \ (DOMAIN cells \cup parents)

QueueWork ==
    /\ runner = "queueing"
    /\ \E order \in SetToSeqs(DOMAIN cells) :
          m_queue' = [i \in DOMAIN order |->
                         Octant(order[i], cells[order[i]], FALSE)]
                     \o SetToSeq({Octant(key, 0, FALSE) : key \in Needed})
    /\ runner' = "waiting"
    /\ UNCHANGED <<cells, held, m_completes, voxels, processed, m_written,
                   m_totalPoints, childCounts, poolVars>>

-----------------------------------------------------------------------------
(***************************************************************************)
(* PyramidManager::run().                                                  *)
(***************************************************************************)
TakeOctant ==
    /\ runner = "waiting"
    /\ m_queue # <<>>
    /\ held' = Head(m_queue)
    /\ m_queue' = Tail(m_queue)
    /\ runner' = IF held'.key = Root THEN "counting" ELSE "processing"
    /\ UNCHANGED <<cells, m_completes, voxels, processed, m_written,
                   m_totalPoints, childCounts, poolVars>>

Siblings(completes) == {o \in completes : Parent(o.key) = Parent(held.key)}

\* process(): an octant without points is queued at once, one with points is
\* given to a Processor.
ProcessOctant ==
    /\ runner = "processing"
    /\ runner' = "waiting"
    /\ held' = NoOctant
    /\ LET completes == m_completes \cup {held}
           children  == Siblings(completes)
           parentKey == Parent(held.key)
       IN  \/ /\ Cardinality(children) < Cardinality(Directions)
              /\ m_completes' = completes
              /\ UNCHANGED <<m_queue, voxels, poolVars>>
           \/ /\ Cardinality(children) = Cardinality(Directions)
              /\ m_completes' = completes \ children
              /\ IF PointsOf(children) = 0
                 THEN /\ m_queue' = Append(m_queue, Octant(parentKey, 0, FALSE))
                      /\ UNCHANGED <<voxels, poolVars>>
                 ELSE /\ AddTasks(<<parentKey>>)
                      /\ voxels' = Inserted(voxels, [k \in {parentKey} |-> children])
                      /\ UNCHANGED m_queue
    /\ UNCHANGED <<cells, processed, m_written, m_totalPoints, childCounts>>

\* calcCounts(), from the root down through what was written, and finish().
Finish ==
    /\ runner = "counting"
    /\ childCounts' = {Root} \cup
           {key \in DOMAIN m_written :
               Ancestors(key) \ {Root} \subseteq DOMAIN m_written}
    /\ runner' = "gone"
    /\ UNCHANGED <<cells, held, m_queue, m_completes, voxels, processed,
                   m_written, m_totalPoints, poolVars>>

-----------------------------------------------------------------------------
(***************************************************************************)
(* Processor::run(), in the pool.                                          *)
(***************************************************************************)
StartVoxel(key) == StartTask(key) /\ UNCHANGED pyramidState

Sampled(children, left) == PointsOf(children) - SumFunction(left)

\* What the sampling may leave in the children.
Leaves(children) ==
    {left \in [children -> 0 .. PointsOf(children)] :
        /\ \A o \in children : left[o] <= o.points
        /\ Sampled(children, left) > 0}

\* Fault: a child that has no points left is not written.
OnlyPoints(children, left) == {o \in children : left[o] > 0}

ToWrite(children, left) == {o \in children : left[o] > 0 \/ o.mustWrite}

\* What newChunk() inserts.
WriteVoxel(key) ==
    /\ key \in running
    /\ \A o \in processed : o.key # key
    /\ LET children == voxels[key]
       IN  \E left \in Leaves(children) :
              LET parts  == ToWrite(children, left)
                  chunks == [k \in {o.key : o \in parts} |->
                                left[CHOOSE o \in parts : o.key = k]]
                  kept   == Sampled(children, left)
                  all    == IF key = Root
                            THEN Inserted(chunks, [k \in {Root} |-> kept])
                            ELSE chunks
              IN  /\ m_written' = Inserted(m_written, all)
                  /\ m_totalPoints' = m_totalPoints + SumFunction(all)
                  /\ processed' = processed \cup {Octant(key, kept, parts # {})}
    /\ UNCHANGED <<cells, runner, held, m_queue, m_completes, voxels,
                   childCounts, poolVars>>

QueueVoxel(key) ==
    /\ key \in running
    /\ \E o \in processed :
          /\ o.key = key
          /\ m_queue' = Append(m_queue, o)
          /\ processed' = processed \ {o}
    /\ voxels' = [k \in DOMAIN voxels \ {key} |-> voxels[k]]
    /\ FinishTask(key)
    /\ UNCHANGED <<cells, runner, held, m_completes, m_written, m_totalPoints,
                   childCounts>>

-----------------------------------------------------------------------------
RunnerStep == QueueWork \/ TakeOctant \/ ProcessOctant \/ Finish
VoxelStep(key) == StartVoxel(key) \/ WriteVoxel(key) \/ QueueVoxel(key)
VoxelTasks == DOMAIN voxels

\* The runner goes on while the queue is not empty, and every task ends.
PyramidFairness ==
    /\ WF_pyramidVars(RunnerStep)
    /\ WF_pyramidVars(\E key \in VoxelTasks : VoxelStep(key))

PyramidEnded == runner = "gone" /\ Idle /\ UNCHANGED pyramidVars

PyramidNext == RunnerStep \/ (\E key \in VoxelTasks : VoxelStep(key))
               \/ PyramidEnded

PyramidSpec == NoTasks(TRUE) /\ PyramidInit /\ [][PyramidNext]_pyramidVars
               /\ PyramidFairness

-----------------------------------------------------------------------------
Unprocessed == {key \in DOMAIN voxels : \A o \in processed : o.key # key}
OctantsHeld == {held} \cup ToSet(m_queue) \cup m_completes \cup processed
               \cup UNION {voxels[key] : key \in Unprocessed}

\* NoPointLost: every point of the cells is in one octant until it is written,
\* each key is written once, and the total is what was written.
NoPointLost ==
    /\ m_totalPoints = SumFunction(m_written)
    /\ runner \notin {"queueing", "counting", "gone"} =>
          PointsOf({o \in OctantsHeld : o.key # Root}) + m_totalPoints
              = CellPoints
    /\ runner \in {"counting", "gone"} => m_totalPoints = CellPoints

\* ChunksConnected: when the hierarchy is written every chunk is in it: each
\* key above a chunk was written, though its own points may all have moved up.
ChunksConnected == runner = "gone" => childCounts = DOMAIN m_written

\* PyramidEnds: run() gets every parent's children, up to the root, and ends.
PyramidRuns == runner = "waiting"
PyramidEnds == PyramidRuns ~> runner = "gone"
==============================================================================
