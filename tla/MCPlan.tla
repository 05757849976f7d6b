------------------------------- MODULE MCPlan -------------------------------
(***************************************************************************)
(* What is settled before the points are there, one thing at a time: a     *)
(* behaviour carries out the plan of one pipeline (MCPlanWalk), hands the  *)
(* tiles of one schedule to its lanes one after another, the way the       *)
(* callers of makeTiledSchedule do, or carries out a point program whose   *)
(* counts were worked out in advance (PointBatches).                       *)
(***************************************************************************)
EXTENDS MCPlanWalk, TiledSchedule, PointBatches

CONSTANT LaneChoices    \* the requested lane counts to try

ASSUME LaneAssumption == LaneChoices # {} /\ LaneChoices \subseteq Size

VARIABLES
    planned,    \* a pipeline is carried out, a schedule or a program
    request,
    tile,       \* the next tile
    occupied,   \* the lanes that have held a tile
    reuses      \* how often a lane got another tile

servingVars == <<request, tile, occupied, reuses>>
planVars == <<planned, walkVars, servingVars, programVars>>

Requests ==
    {r \in [itemCount : Size, tileItems : Size,
            requestedLanes : LaneChoices, serialDependency : BOOLEAN,
            bytesPerLane : Size, memoryBudgetBytes : Size] :
        \* one of the two axes at a time: the tiles or the bytes
        r.tileItems <= 1 \/ r.bytesPerLane <= 1}

ASSUME ProgramAssumption

Decimations ==
    {Decimation(step, offset, limit) :
        step \in {10, 12, 15, 26}, offset \in {0, 3}, limit \in {6, Unlimited}}

Ends ==
    {EndOfInput(kind, count, invert) :
        kind \in {"head", "tail"}, count \in {0, 2, 9}, invert \in BOOLEAN}

MCPrograms ==
    LET Operations == Decimations \cup Ends \cup {Predicated({1, 3, 4, 6})}
    IN  {p \in [operations : UNION {[1 .. n -> Operations] : n \in 1 .. 2},
                mode : {"streaming", "standard"}, total : {8}] :
            Supports(p.operations, p.mode, p.total)}

SomePipeline == CHOOSE p \in Pipelines : TRUE
SomeRequest == CHOOSE r \in Requests : TRUE
SomeProgram == CHOOSE p \in Programs : TRUE

PlanInit ==
    /\ tile = 0
    /\ occupied = {}
    /\ reuses = 0
    /\ \/ /\ planned = "pipeline"
          /\ WalkInit
          /\ request = SomeRequest
          /\ ProgramStart(SomeProgram)
       \/ /\ planned = "schedule"
          /\ pipeline = SomePipeline /\ WalkInit
          /\ request \in Requests
          /\ ProgramStart(SomeProgram)
       \/ /\ planned = "program"
          /\ pipeline = SomePipeline /\ WalkInit
          /\ request = SomeRequest
          /\ \E p \in Programs : ProgramStart(p)

OfPipeline ==
    planned = "pipeline" /\ UNCHANGED <<planned, servingVars, programVars>>

OfProgram == planned = "program" /\ UNCHANGED <<planned, walkVars, servingVars>>

\* The next tile goes to its lane; an occupied lane is reused for it.
Serve ==
    LET lane == LaneFor(tile, ActiveLanes(request))
    IN  /\ planned = "schedule"
        /\ ScheduleError(request) = "none"
        /\ tile < TileCountOf(request)
        /\ reuses' = IF lane \in occupied THEN reuses + 1 ELSE reuses
        /\ occupied' = occupied \cup {lane}
        /\ tile' = tile + 1
        /\ UNCHANGED <<planned, request, walkVars, programVars>>

\* A refused request, or one whose tiles are all served.
Served ==
    /\ planned = "schedule"
    /\ ~(ScheduleError(request) = "none" /\ tile < TileCountOf(request))
    /\ UNCHANGED planVars

PlanNext ==
    \/ OfPipeline /\ HostStage
    \/ OfPipeline /\ DeviceStage
    \/ OfPipeline /\ Finished
    \/ Serve
    \/ Served
    \/ OfProgram /\ ExecuteBatch
    \/ OfProgram /\ ProgramEnded

PlanSpec == PlanInit /\ [][PlanNext]_planVars

-----------------------------------------------------------------------------
\* WithinBudget: the bytes of an accepted schedule are the exact product, and
\* fit its budget.
WithinBudget == PeakIsExact(request) /\ PeakWithinBudget(request)

\* ItemsOnce: the tiles of an accepted schedule hold every item exactly once;
\* once every tile is served, each active lane has held a tile (no lane is
\* allocated in vain) and laneReuseCount is the number of tiles that found
\* their lane already used.
ItemsOnce ==
    /\ EachItemOnce(request)
    /\ /\ planned = "schedule"
       /\ ScheduleError(request) = "none"
       /\ tile = TileCountOf(request)
       => /\ Cardinality(occupied) = ActiveLanes(request)
          /\ reuses = MakeTiledSchedule(request).laneReuseCount
=============================================================================
