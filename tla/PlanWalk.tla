------------------------------ MODULE PlanWalk ------------------------------
(***************************************************************************)
(* A plan carried out stage by stage, with one host record and one set of  *)
(* device columns for each region: what enterBoundary, beginStage,         *)
(* endStage and releaseBoundary of the resident executor do with the       *)
(* column lists of ResidencyPlan.  Only what the plan says is moved is     *)
(* moved.  A value is the stage that computed it.                          *)
(*                                                                         *)
(* In a chain every stage must see the values of a host-only run.  Where   *)
(* the pipeline forks only the columns are followed.                       *)
(***************************************************************************)
EXTENDS ResidencyPlan

CONSTANT Pipelines      \* the pipelines to plan and carry out

\* A stage reads from earlier ones, a reader from none; readers and writers run
\* on the host.
Planned(p) ==
    /\ p \in Seq(Descriptor)
    /\ \A i \in Stages(p) : /\ p[i].inputs \subseteq 1 .. i - 1
                            /\ p[i].device => p[i].role = "filter"

ASSUME PipelinesAssumption == \A p \in Pipelines : Planned(p)

VARIABLES
    pipeline,
    next,       \* the stage that runs next
    host,       \* the value of each dimension in the host record
    packed,     \* the values that were uploaded, by region
    device,     \* the values in the columns, by region
    held,       \* the columns a region's batch holds
    retired,    \* history: how often a region retired a column
    right,      \* history: the value each dimension should have
    stale       \* history: the dimensions a stage has read stale

walkVars == <<pipeline, next, host, packed, device, held, retired, right, stale>>

\* No stage computed this: memory nobody wrote.
Unset == 0

WalkInit ==
    /\ pipeline \in Pipelines
    /\ next = 1
    /\ host = [d \in Dims |-> Unset]
    /\ packed = [r \in ResidentRegions(pipeline) |-> host]
    /\ device = packed
    /\ held = [r \in ResidentRegions(pipeline) |-> {}]
    /\ retired = device
    /\ right = host
    /\ stale = {}

Chain(p) == \A i \in Stages(p) \ {1} : p[i].inputs = {i - 1}

\* What the stage really looks at: a foreign stage may look at anything.
Looks(p, i) == IF p[i].role = "writer" \/ Foreign(p[i]) THEN Reads(p, i)
                                                         ELSE p[i].reads
Changes(p, i) == IF p[i].role = "reader" THEN Touched(p) ELSE p[i].writes

Overlay(old, new, dims) == [d \in Dims |-> IF d \in dims THEN new[d] ELSE old[d]]
Computed(old, i) == Overlay(old, [d \in Dims |-> i], Changes(pipeline, i))
Stale(values, i) == {d \in Looks(pipeline, i) : values[d] # right[d]}

\* A stage on the host.
HostStage ==
    /\ next \in Stages(pipeline) \ DeviceStages(pipeline)
    /\ stale' = stale \cup Stale(host, next)
    /\ host' = Computed(host, next)
    /\ right' = Computed(right, next)
    /\ next' = next + 1
    /\ UNCHANGED <<pipeline, packed, device, held, retired>>

\* The products that enter the region of stage i just before it.
Entering(i) == {k \in pipeline[i].inputs : EntersRegion(pipeline, k, i)}

\* The upload boundaries of the stage, the stage, and the spill boundary of its
\* product.
DeviceStage ==
    LET p == pipeline
        i == next
        r == RegionOf(p)[i]
        uploaded == UNION {UploadDimensions(p, k, r) : k \in Entering(i)}
        record   == Overlay(packed[r], host, uploaded)
        fresh    == DeviceMaterialize(p, i) \ held[r]
        before   == Overlay(device[r], record, fresh)
        after    == Computed(before, i)
        kept     == (held[r] \cup fresh) \ DeviceRelease(p, i)
        dropped  == DeviceRelease(p, i) \cup ReleaseDimensions(p, i)
    IN  /\ i \in DeviceStages(p)
        /\ packed' = [packed EXCEPT ![r] = record]
        /\ device' = [device EXCEPT ![r] = after]
        /\ held' = [held EXCEPT ![r] = kept \ ReleaseDimensions(p, i)]
        /\ host' = Overlay(host, after, RepackDimensions(p, i))
        /\ right' = Computed(right, i)
        /\ stale' = stale \cup Stale(before, i)
        /\ retired' = [retired EXCEPT ![r] =
              [d \in Dims |-> IF d \in dropped THEN @[d] + 1 ELSE @[d]]]
        /\ next' = i + 1
        /\ UNCHANGED pipeline

Finished == next > Len(pipeline) /\ UNCHANGED walkVars

WalkNext == HostStage \/ DeviceStage \/ Finished

WalkSpec == WalkInit /\ [][WalkNext]_walkVars

-----------------------------------------------------------------------------
\* FreshReads: whichever stages are placed on the device, and whatever the plan
\* leaves out of its uploads and spills, every stage of a chain reads exactly
\* what the same pipeline computes on the host alone.
FreshReads == Chain(pipeline) => stale = {}

\* EstimateIsExact: at every device stage the columns the region holds are the
\* live inputs beginStage insists on, and as many as the planner estimated.
EstimateIsExact ==
    [][DeviceStage =>
        LET during == held[RegionOf(pipeline)[next]]
                        \cup DeviceMaterialize(pipeline, next)
        IN  /\ LiveBefore(pipeline)[next] \subseteq during
            /\ Cardinality(during) = DeviceColumns(pipeline, next)]_walkVars

\* RetiredOnce: when the pipeline has run, every column of every region has
\* been retired exactly once, by a stage or by a spill boundary.
RetiredOnce ==
    next > Len(pipeline) =>
        \A r \in ResidentRegions(pipeline) :
            /\ held[r] = {}
            /\ \A d \in Dims :
                  retired[r][d] = IF d \in ColumnsOf(pipeline, r) THEN 1 ELSE 0
=============================================================================
