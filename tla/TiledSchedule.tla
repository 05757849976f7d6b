--------------------------- MODULE TiledSchedule ---------------------------
(***************************************************************************)
(* The tile scheduler of src/src/core/scheduler.cpp: how many tiles a view *)
(* is cut into, how many lanes serve them, and what the lanes may hold on  *)
(* the device.  Every operator is a function of a TiledScheduleRequest.    *)
(***************************************************************************)
EXTENDS Naturals

CONSTANT SizeMax    \* the largest std::size_t

ASSUME SizeMaxAssumption == SizeMax \in Nat \ {0}

Size == 0 .. SizeMax

MinimumSweptLaneCount == 2
MaximumSweptLaneCount == 6

\* Every PipelineClass has the same conservative lane count.
FixedLaneCount == 2

Smaller(a, b) == IF a <= b THEN a ELSE b

TiledScheduleRequest ==
    [itemCount : Size, tileItems : Size, requestedLanes : Size,
     serialDependency : BOOLEAN, bytesPerLane : Size,
     memoryBudgetBytes : Size]

-----------------------------------------------------------------------------
\* Fault: the short last tile is forgotten.
FullTilesOnly(items, tileItems) == items \div tileItems

\* Tiles are maximal runs of tileItems items; only the last may be short.
TilesFor(items, tileItems) ==
    items \div tileItems + (IF items % tileItems = 0 THEN 0 ELSE 1)

ConfiguredLanes(request) ==
    IF request.requestedLanes = 0 THEN FixedLaneCount
                                  ELSE request.requestedLanes

TileCountOf(request) ==
    IF request.itemCount = 0
    THEN 0
    ELSE TilesFor(request.itemCount, request.tileItems)

\* Fault: the number of tiles does not bound the lanes.
ConfiguredOnly(request) ==
    IF request.serialDependency THEN 1 ELSE ConfiguredLanes(request)

\* The lanes the work can use, before the memory budget is looked at.
UsefulLanes(request) ==
    IF request.serialDependency \/ TileCountOf(request) = 1
    THEN 1
    ELSE Smaller(ConfiguredLanes(request), TileCountOf(request))

BudgetApplies(request) ==
    request.bytesPerLane > 0 /\ request.memoryBudgetBytes > 0

\* Fault: a lane that fits only in part is counted.
RoundedUp(request) ==
    TilesFor(request.memoryBudgetBytes, request.bytesPerLane)

AffordableLanes(request) ==
    request.memoryBudgetBytes \div request.bytesPerLane

ActiveLanes(request) ==
    IF request.itemCount = 0 THEN 0
    ELSE IF BudgetApplies(request)
         THEN Smaller(AffordableLanes(request), UsefulLanes(request))
         ELSE UsefulLanes(request)

LaneRequests == {0} \cup (MinimumSweptLaneCount .. MaximumSweptLaneCount)

\* Fault: only a single lane's bytes are checked.
LaneTooLarge(request) == request.bytesPerLane > SizeMax

PeakOverflows(request) ==
    /\ request.bytesPerLane > 0
    /\ ActiveLanes(request) > SizeMax \div request.bytesPerLane

\* The exception the call throws, or "none"; the checks in the code's order.
ScheduleError(request) ==
    IF request.tileItems = 0 THEN "tile size is zero"
    ELSE IF request.requestedLanes \notin LaneRequests THEN "lane count"
    ELSE IF request.itemCount = 0 THEN "none"
    ELSE IF BudgetApplies(request) /\ AffordableLanes(request) = 0
         THEN "budget cannot hold one lane"
    ELSE IF PeakOverflows(request) THEN "peak lane bytes overflow"
    ELSE "none"

MakeTiledSchedule(request) ==
    [itemCount           |-> request.itemCount,
     tileItemCapacity    |-> request.tileItems,
     tileCount           |-> TileCountOf(request),
     configuredLaneCount |-> ConfiguredLanes(request),
     activeLaneCount     |-> ActiveLanes(request),
     memoryLimited       |->
        /\ request.itemCount # 0
        /\ BudgetApplies(request)
        /\ AffordableLanes(request) < UsefulLanes(request),
     peakLaneBytes       |->
        (ActiveLanes(request) * request.bytesPerLane) % (SizeMax + 1),
     laneReuseCount      |->
        IF TileCountOf(request) > ActiveLanes(request)
        THEN TileCountOf(request) - ActiveLanes(request)
        ELSE 0]

-----------------------------------------------------------------------------
(***************************************************************************)
(* How a schedule is used: tile t holds the items from t * tileItems on    *)
(* and is served by lane t modulo the number of lanes.                     *)
(***************************************************************************)
TileFirst(t, tileItems) == t * tileItems

TileSize(t, items, tileItems) ==
    Smaller(tileItems, items - TileFirst(t, tileItems))

TileItems(t, items, tileItems) ==
    {i \in 0 .. items - 1 :
        /\ TileFirst(t, tileItems) <= i
        /\ i < TileFirst(t, tileItems) + TileSize(t, items, tileItems)}

LaneFor(t, lanes) == t % lanes

-----------------------------------------------------------------------------
\* PeakIsExact: an accepted schedule's peakLaneBytes has not wrapped around,
\* so the callers that add to it and compare with it see the real product.
PeakIsExact(request) ==
    ScheduleError(request) = "none" =>
        MakeTiledSchedule(request).peakLaneBytes =
            ActiveLanes(request) * request.bytesPerLane

\* PeakWithinBudget: the lanes of an accepted schedule fit the memory budget
\* together, and there is at least one when there is work.
PeakWithinBudget(request) ==
    ScheduleError(request) = "none" =>
        /\ request.itemCount > 0 => ActiveLanes(request) > 0
        /\ BudgetApplies(request) =>
              ActiveLanes(request) * request.bytesPerLane
                  <= request.memoryBudgetBytes

\* EachItemOnce: the tiles an accepted schedule counts cut the items into
\* disjoint, nonempty pieces with nothing left over.
EachItemOnce(request) ==
    ScheduleError(request) = "none" =>
        LET tiles == 0 .. TileCountOf(request) - 1
            itemsOf(t) == TileItems(t, request.itemCount, request.tileItems)
        IN  /\ \A t \in tiles : itemsOf(t) # {}
            /\ \A i \in 0 .. request.itemCount - 1 :
                  \E t \in tiles :
                      /\ i \in itemsOf(t)
                      /\ \A u \in tiles \ {t} : i \notin itemsOf(u)
=============================================================================
