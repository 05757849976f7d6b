--------------------------- MODULE ResidencyPlan ---------------------------
(***************************************************************************)
(* The residency half of the planner (finishPlan in                        *)
(* src/src/plan/Pipeline.cpp): which dimensions are live between stages,   *)
(* which device stages share a region, when a device column is             *)
(* materialized and retired, and what crosses each host/device boundary.   *)
(*                                                                         *)
(* A pipeline is a sequence of stage descriptors; "inputs" holds the       *)
(* positions of the stages it reads from, all of them earlier.  Native     *)
(* stages are the ones the planner understands; a stage that is not native *)
(* runs in PDAL on the host and may touch any dimension.                   *)
(***************************************************************************)
EXTENDS Integers, Sequences, FiniteSets, FiniteSetsExt

CONSTANTS
    Dims,       \* the dimensions of the registry
    Custom      \* those that are not standard: a native writer omits them

ASSUME CustomAssumption == Custom \subseteq Dims

Descriptor ==
    [role : {"reader", "filter", "writer"},
     native : BOOLEAN, device : BOOLEAN, grid : BOOLEAN,
     predicate : BOOLEAN, inputs : SUBSET Nat,
     reads : SUBSET Dims, writes : SUBSET Dims]

Stages(p) == DOMAIN p
DeviceStages(p) == {i \in Stages(p) : p[i].device}
Consumers(p, i) == {j \in Stages(p) : i \in p[j].inputs}

-----------------------------------------------------------------------------
(***************************************************************************)
(* What each stage is taken to read and write.                             *)
(***************************************************************************)
Touched(p) == UNION {p[i].reads \cup p[i].writes : i \in Stages(p)}

FilterWrites(p) ==
    UNION {p[i].writes : i \in {j \in Stages(p) : p[j].role = "filter"}}

Foreign(s) == s.role = "filter" /\ ~s.native

Reads(p, i) ==
    CASE p[i].role = "writer" /\ p[i].native -> FilterWrites(p) \ Custom
      [] p[i].role = "writer" /\ ~p[i].native -> Touched(p)
      [] Foreign(p[i]) -> Touched(p)
      [] OTHER -> p[i].reads

Writes(p, i) ==
    IF p[i].role = "reader" \/ Foreign(p[i]) THEN Touched(p) ELSE p[i].writes

\* Fault: what a stage writes is not live before it, even if it reads it too.
LiveUnlessWritten(p) ==
    LET live[i \in Stages(p)] ==
            ((UNION {live[j] : j \in Consumers(p, i)}) \cup Reads(p, i))
                \ Writes(p, i)
    IN  live

\* liveBefore of every stage, from the last to the first.
LiveBefore(p) ==
    LET live[i \in Stages(p)] ==
            ((UNION {live[j] : j \in Consumers(p, i)}) \ Writes(p, i))
                \cup Reads(p, i)
    IN  live

LiveAfter(p) ==
    [i \in Stages(p) |-> UNION {LiveBefore(p)[j] : j \in Consumers(p, i)}]

-----------------------------------------------------------------------------
(***************************************************************************)
(* Regions: maximal sets of device stages that share one resident batch.   *)
(* A grid stage composes with grid stages only.  The device consumers of a *)
(* host product share a region with the first of them.                     *)
(***************************************************************************)
Compose(p, i, j) == p[i].grid = p[j].grid

FirstDeviceConsumer(p, k) == Min(Consumers(p, k) \cap DeviceStages(p))

Feeds(p, i, j) == i \in p[j].inputs /\ Compose(p, i, j)

Siblings(p, i, j) ==
    \E k \in Stages(p) \ DeviceStages(p) :
        /\ {i, j} \subseteq Consumers(p, k)
        /\ i = FirstDeviceConsumer(p, k)
        /\ Compose(p, i, j)

United(p, i, j) ==
    i = j \/ Feeds(p, i, j) \/ Feeds(p, j, i)
          \/ Siblings(p, i, j) \/ Siblings(p, j, i)

\* The stages that k union steps put together with i.
RegionWithin(p, i) ==
    LET near[k \in 0 .. Len(p)] ==
            IF k = 0 THEN {i}
            ELSE LET before == near[k - 1]
                 IN  {j \in DeviceStages(p) :
                         \E m \in before : United(p, m, j)}
    IN  near[Len(p)]

\* A region is named by its first stage: regions are numbered in that order.
RegionOf(p) == [i \in DeviceStages(p) |-> Min(RegionWithin(p, i))]

RegionStages(p, r) == {i \in DeviceStages(p) : RegionOf(p)[i] = r}

ResidentRegions(p) == {RegionOf(p)[i] : i \in DeviceStages(p)}

-----------------------------------------------------------------------------
(***************************************************************************)
(* Column lifetimes.  A column lives from the first to the last stage of   *)
(* the region whose working set holds it.                                  *)
(***************************************************************************)
WorkingSet(p, i) == LiveBefore(p)[i] \cup Writes(p, i) \cup LiveAfter(p)[i]

Users(p, r, d) == {i \in RegionStages(p, r) : d \in WorkingSet(p, i)}

ColumnsOf(p, r) == {d \in Dims : Users(p, r, d) # {}}

DeviceMaterialize(p, i) ==
    {d \in WorkingSet(p, i) : i = Min(Users(p, RegionOf(p)[i], d))}

\* Fault: a column is retired where it is first used.
RetiredAtFirst(p, i) ==
    {d \in WorkingSet(p, i) : i = Min(Users(p, RegionOf(p)[i], d))}

LastUse(p, i) ==
    {d \in WorkingSet(p, i) : i = Max(Users(p, RegionOf(p)[i], d))}

\* Fault: a column is not counted at its last use.
ColumnsBeforeLast(p, i) ==
    LET r == RegionOf(p)[i]
    IN  Cardinality({d \in ColumnsOf(p, r) :
                        /\ Min(Users(p, r, d)) <= i
                        /\ i < Max(Users(p, r, d))})

\* The planner's column estimate at a stage, one unit for each column.
DeviceColumns(p, i) ==
    LET r == RegionOf(p)[i]
    IN  Cardinality({d \in ColumnsOf(p, r) :
                        /\ Min(Users(p, r, d)) <= i
                        /\ i <= Max(Users(p, r, d))})

PeakDeviceColumns(p) ==
    Max({0} \cup {DeviceColumns(p, i) : i \in DeviceStages(p)})

-----------------------------------------------------------------------------
(***************************************************************************)
(* Residency boundaries.  There is one spill for each product that leaves  *)
(* its region and one upload for each product and region it enters.  A     *)
(* column whose last use is a spilled product is retired by that spill,    *)
(* not by the stage.                                                       *)
(***************************************************************************)
LeavesRegion(p, i, j) ==
    i \in DeviceStages(p) /\
        (j \in DeviceStages(p) => RegionOf(p)[i] # RegionOf(p)[j])

EntersRegion(p, i, j) ==
    j \in DeviceStages(p) /\
        (i \in DeviceStages(p) => RegionOf(p)[i] # RegionOf(p)[j])

Spilled(p, i) == \E j \in Consumers(p, i) : LeavesRegion(p, i, j)

SpillConsumer(p, i) == Min({j \in Consumers(p, i) : LeavesRegion(p, i, j)})

SpillDimensions(p, i) == LiveAfter(p)[i]

DeviceRelease(p, i) ==
    IF Spilled(p, i) THEN LastUse(p, i) \ SpillDimensions(p, i)
                     ELSE LastUse(p, i)

\* Fault: the retirements are moved off the stage but not to the boundary.
RetiresNothing(p, i) == {}

ReleaseDimensions(p, i) ==
    IF Spilled(p, i) THEN LastUse(p, i) \cap SpillDimensions(p, i) ELSE {}

\* The retired columns that the spill publishes: something of the region, even
\* a sibling of the producer, wrote them.
RepackDimensions(p, i) ==
    LET written == UNION {p[j].writes : j \in RegionStages(p, RegionOf(p)[i])}
    IN  ReleaseDimensions(p, i) \cap written

Uploads(p, i, r) ==
    {j \in RegionStages(p, r) : i \in p[j].inputs /\ EntersRegion(p, i, j)}

UploadDimensions(p, i, r) ==
    UNION {LiveBefore(p)[j] : j \in Uploads(p, i, r)}

\* A boundary of a foreign stage moves the complete point record.
FullPointRecord(p, i, consumers) ==
    \E j \in consumers : ~p[i].native \/ ~p[j].native

-----------------------------------------------------------------------------
(***************************************************************************)
(* What the executor takes from the plan for region r of a linear          *)
(* pipeline: the region's stages in order and its only spill boundary.     *)
(* keep is the set of points its predicate is true of.                     *)
(***************************************************************************)
PlannedStageOf(p, i) ==
    [id |-> i, predicate |-> p[i].predicate,
     reads |-> p[i].reads, writes |-> p[i].writes,
     deviceLiveBefore  |-> LiveBefore(p)[i],
     deviceMaterialize |-> DeviceMaterialize(p, i),
     deviceRelease     |-> DeviceRelease(p, i)]

SpillingStage(p, r) ==
    CHOOSE i \in RegionStages(p, r) : Spilled(p, i)

PlannedRegion(p, r, keep) ==
    [stages |-> [k \in 1 .. Cardinality(RegionStages(p, r)) |->
                    PlannedStageOf(p, r + k - 1)],
     releaseDimensions |-> ReleaseDimensions(p, SpillingStage(p, r)),
     liveAfter         |-> LiveAfter(p)[SpillingStage(p, r)],
     deviceColumns     |-> PeakDeviceColumns(p),
     compacts          |-> \E i \in RegionStages(p, r) : p[i].predicate,
     keep              |-> keep]
=============================================================================
