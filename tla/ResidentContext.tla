-------------------------- MODULE ResidentContext --------------------------
(***************************************************************************)
(* A pipeline with regions selected for the device, from the rewrite of    *)
(* its stages (rewriteResidentPlacement in plan/ResidentPipeline.cpp) over *)
(* the preflight of the resident execution context to the end of the run:  *)
(* the boundary markers, the stages that stand for a region, the context   *)
(* they share (PdgResidentContext.cpp) and the host stages between them.   *)
(*                                                                         *)
(* The pipelines are chains over one nonempty file.  A point is a point;   *)
(* what a region does to the columns is ResidentLanes and PlanWalk.        *)
(***************************************************************************)
EXTENDS ResidencyPlan, SequencesExt

CONSTANTS
    Runs,       \* the pipelines with the regions selected in each
    PointCount  \* the points of the file

VARIABLES
    run,        \* the pipeline and its selected regions
    runner,     \* what the command does
    items,      \* what the pipeline runs, once rewritten
    item,       \* the one that is next
    view,       \* the view that the items hand on: which one, how many points
    product,    \* the region whose neighborhood product hangs on the view
    applied,    \* history: the stages whose results are in the host rows
    thrown,     \* why the run failed
    \* The context:
    m_state, m_view, m_pointCount, m_activeRegion, m_delegatedPlan,
    m_selectedRegions, m_cardinalityChanged, m_rasterGridProduct

contextVars == <<m_state, m_view, m_pointCount, m_activeRegion,
                 m_delegatedPlan, m_selectedRegions, m_cardinalityChanged,
                 m_rasterGridProduct>>
runVars == <<run, runner, items, item, view, product, applied, thrown,
             contextVars>>

\* A stage has three fields more than the planner's: which executor it has on
\* the device, whether it hands on a view of its own, and the region that the
\* planner found for it.
Executors == {"none", "point", "neighbors", "smrf", "pmf"}

RunOf(p, regions) == [stages |-> p, selected |-> regions]

\* No view, no region, no product.
None == 0

\* An item stands at a stage for that one and those up to another.
Item(at, kind, region, until) ==
    [at |-> at, kind |-> kind, region |-> region, until |-> until]
NoItem == Item(None, "none", None, None)

Planned(p) ==
    [i \in Stages(p) |->
        [p[i] EXCEPT !.region = IF p[i].device THEN RegionOf(p)[i] ELSE None]]

StartsOver ==
    /\ items = {}
    /\ item = NoItem
    /\ view = [id |-> 1, count |-> PointCount]
    /\ product = None
    /\ applied = <<>>
    /\ thrown = "nothing"
    /\ m_state = "Empty"
    /\ m_view = None
    /\ m_pointCount = PointCount
    /\ m_activeRegion = None
    /\ m_delegatedPlan = FALSE
    /\ m_selectedRegions = {}
    /\ m_cardinalityChanged = FALSE
    /\ m_rasterGridProduct = None

RunIdle == StartsOver /\ run = RunOf(<<>>, {}) /\ runner = "idle"

RunInit == StartsOver /\ run \in Runs /\ runner = "rewriting"

-----------------------------------------------------------------------------
(***************************************************************************)
(* The rewrite.  What runs are items: a stage of the host, a marker, or a  *)
(* stage that stands for one or more of a region.                          *)
(***************************************************************************)
Selected(p, sel, i) == i \in Stages(p) /\ p[i].region \in sel
StagesOf(p, r) == {i \in Stages(p) : p[i].region = r}

Producer(p, i) == p[i].executor = "neighbors"
Neighborly(p, r) == \E i \in StagesOf(p, r) : Producer(p, i)
OverGrid(p, r) == p[r].grid
Delegated(p, r) == Neighborly(p, r) \/ OverGrid(p, r)
Predicates(p, r) == {i \in StagesOf(p, r) : p[i].predicate}
EndOf(p, r) == Max(StagesOf(p, r))

\* Some selected region has no stage to stand for it.  Only a point region
\* looks at what follows it.
Unavailable(p, sel) ==
    \E r \in sel :
        \/ Neighborly(p, r) /\ Predicates(p, r) # {}
        \/ /\ OverGrid(p, r) /\ EndOf(p, r) # r
           /\ \E i \in StagesOf(p, r) : p[i].executor # "pmf"
        \/ /\ ~Delegated(p, r)
           /\ \/ Cardinality(Predicates(p, r)) > 1
              \/ Selected(p, sel, EndOf(p, r) + 1)

\* A region has one boundary at its first stage and one after its last.
Crossed(p, i) == i > 1 /\ p[i - 1].region # p[i].region
Spilling(p, sel) == {i \in Stages(p) : Crossed(p, i) /\ Selected(p, sel, i - 1)}
Uploading(p, sel) == {i \in Stages(p) : Crossed(p, i) /\ Selected(p, sel, i)}

Markers(p, sel) ==
    {Item(i, "spill", p[i - 1].region, i - 1) : i \in Spilling(p, sel)}
    \cup {Item(i, "upload", p[i].region, i - 1) : i \in Uploading(p, sel)}

\* Fault: every stage of a bridge has one of its own, too.
BridgesAnywhere(p, r, i) == TRUE

BridgeStarts(p, r, i) == i = r \/ Producer(p, i - 1)

\* A bridge stands for the point stages up to the next producer.
Bridged(p, r, i) ==
    {j \in StagesOf(p, r) :
        j >= i /\ \A k \in i .. j : ~Producer(p, k)}

\* A producer and a stage over a grid have a stage each.
Wrapped(p, i) == OverGrid(p, p[i].region) \/ Producer(p, i)

StandIn(p, sel, i) ==
    LET r == p[i].region
    IN  CASE ~Selected(p, sel, i) -> Item(i, "host", None, i)
          [] Selected(p, sel, i) /\ Wrapped(p, i) -> Item(i, "wrapper", r, i)
          [] Selected(p, sel, i) /\ ~Wrapped(p, i) /\ Neighborly(p, r) ->
                Item(i, "bridge", r, Max(Bridged(p, r, i)))
          [] OTHER -> Item(i, "tiled", r, EndOf(p, r))

\* A stage has no item if one before it in its region stands for it.
HasItem(p, sel, i) ==
    LET r == p[i].region
    IN  Selected(p, sel, i) /\ ~Wrapped(p, i) =>
            IF Neighborly(p, r) THEN BridgeStarts(p, r, i) ELSE i = r

Rewritten(p, sel) ==
    Markers(p, sel)
    \cup {StandIn(p, sel, i) : i \in {j \in Stages(p) : HasItem(p, sel, j)}}

Original(p) == {Item(i, "host", None, i) : i \in Stages(p)}

\* The items run in the order of their stages, at a stage the markers first.
Rank(kind) == CASE kind = "spill" -> 1 [] kind = "upload" -> 2 [] OTHER -> 3
Before(x, y) == x.at < y.at \/ (x.at = y.at /\ Rank(x.kind) < Rank(y.kind))
Earliest(s) == {x \in s : \A y \in s : ~Before(y, x)}

\* Without a region the pipeline runs as it was given.
Rewrite ==
    /\ runner = "rewriting"
    /\ IF run.selected = {} \/ Unavailable(run.stages, run.selected)
       THEN /\ items' = Original(run.stages)
            /\ item' \in Earliest(items')
            /\ runner' = "running"
       ELSE /\ items' = Rewritten(run.stages, run.selected)
            /\ runner' = "checking"
            /\ UNCHANGED item
    /\ UNCHANGED <<run, view, product, applied, thrown, contextVars>>

-----------------------------------------------------------------------------
(***************************************************************************)
(* The preflight.                                                          *)
(***************************************************************************)
Changing(p, sel) == {r \in sel : Predicates(p, r) # {}}

\* The loop over the regions remembers the last that changes it.
ChangeIsLast(p, sel) ==
    Changing(p, sel) # {} => Max(Changing(p, sel)) = Max(sel)

\* Delegated and tiled regions do not mix, and delegated ones keep the points.
OneKind(p, sel) ==
    (\E r \in sel : Delegated(p, r)) =>
        /\ \A r \in sel : Delegated(p, r)
        /\ Changing(p, sel) = {}

MayAccept(p, sel) == ChangeIsLast(p, sel) /\ OneKind(p, sel)

\* A chain as the planner leaves it, with some of its regions selected: a region
\* has all the stages from the one that names it to its last, and neither the
\* reader nor the writer.
RunPlanned(r) ==
    LET p == r.stages
    IN  /\ Len(p) \in Nat \ {0, 1} /\ Stages(p) = 1 .. Len(p)
        /\ \A i \in Stages(p) : p[i].role = "filter" <=> i \in 2 .. Len(p) - 1
        /\ p[1].region = None /\ p[Len(p)].region = None
        /\ \A i \in Stages(p) : p[i].region # None =>
              /\ p[i].region \in 2 .. i
              /\ \E e \in i .. Len(p) - 1 :
                    StagesOf(p, p[i].region) = p[i].region .. e
        /\ \A q \in r.selected : q \in Stages(p) /\ p[q].region = q

RunsAssumption ==
    PointCount \in Nat \ {0} /\ \A r \in Runs : RunPlanned(r)

Accept ==
    /\ runner = "checking"
    /\ MayAccept(run.stages, run.selected)
    /\ m_selectedRegions' = run.selected
    /\ m_delegatedPlan' = (\E r \in run.selected : Delegated(run.stages, r))
    /\ item' \in Earliest(items)
    /\ runner' = "running"
    /\ UNCHANGED <<run, items, view, product, applied, thrown, m_state,
                   m_view, m_pointCount, m_activeRegion, m_cardinalityChanged,
                   m_rasterGridProduct>>

\* An envelope, a budget or one of the rules: the context goes, and the
\* pipeline runs as it was given.
Reject ==
    /\ runner = "checking"
    /\ items' = Original(run.stages)
    /\ item' \in Earliest(items')
    /\ runner' = "running"
    /\ UNCHANGED <<run, view, product, applied, thrown, contextVars>>

-----------------------------------------------------------------------------
(***************************************************************************)
(* The run of the items.                                                   *)
(***************************************************************************)
Turn(kind) == runner = "running" /\ item.kind = kind

Fresh(count) == [id |-> view.id + 1, count |-> count]

\* A filter that gets no points does not run, and what follows it gets a view
\* of its own.
Passed == IF view.count = 0 THEN Fresh(0) ELSE view

\* bindLayout and ensureView.
Ensured == view.count = m_pointCount /\ m_view \in {None, view.id}

InState(s) == m_state = s /\ item.region = m_activeRegion

\* The raster of a pmf region is there when it is expected.
GridAgrees ==
    run.stages[item.at].executor = "pmf" =>
        (m_rasterGridProduct = item.region) = (item.at # item.region)

\* The item is the last of its region.
EndsRegion == item.until = EndOf(run.stages, item.region)

\* The context takes the call that the item makes.
Admitted ==
    CASE item.kind = "host" -> TRUE
      [] item.kind = "upload" ->
            /\ Ensured
            /\ m_state \in {"Empty", "HostMaterialized"}
            /\ ~m_cardinalityChanged
      [] item.kind = "spill" -> Ensured /\ InState("RegionComplete")
      [] item.kind = "tiled" ->
            /\ Ensured /\ ~m_delegatedPlan
            /\ InState("AwaitingRegion") /\ item.region \in m_selectedRegions
      [] item.kind = "wrapper" ->
            /\ Ensured /\ m_delegatedPlan
            /\ \/ InState("RegionActive")
               \/ InState("AwaitingRegion") /\ item.region \in m_selectedRegions
            /\ GridAgrees
      [] item.kind = "bridge" ->
            /\ product = item.region
            /\ EndsRegion =>
                  Ensured /\ m_delegatedPlan /\ InState("RegionActive")

Done ==
    LET later == {x \in items : Before(item, x)}
    IN  /\ IF later = {} THEN runner' = "done" /\ UNCHANGED item
                         ELSE item' \in Earliest(later) /\ UNCHANGED runner
        /\ UNCHANGED <<run, items, thrown>>

\* The stages of the item have had their effect.
Applied ==
    applied \o [k \in 1 .. item.until - item.at + 1 |-> item.at + k - 1]

Upload ==
    /\ Turn("upload") /\ Admitted
    /\ m_state' = "AwaitingRegion"
    /\ m_activeRegion' = item.region
    /\ m_view' = view.id
    /\ view' = Passed
    /\ Done
    /\ UNCHANGED <<product, applied, m_pointCount, m_delegatedPlan,
                   m_selectedRegions, m_cardinalityChanged,
                   m_rasterGridProduct>>

\* Fault: the view stays bound.
StaysBound == m_view

Unbound == None

Spill ==
    /\ Turn("spill") /\ Admitted
    /\ m_state' = "HostMaterialized"
    /\ m_view' = Unbound
    /\ m_rasterGridProduct' = None
    /\ view' = Passed
    /\ Done
    /\ UNCHANGED <<product, applied, m_pointCount, m_activeRegion,
                   m_delegatedPlan, m_selectedRegions, m_cardinalityChanged>>

\* The point program of a region: its tiles, from beginRegion to endRegion.
\* A predicate's survivors are in a view of their own.
Tiled ==
    /\ Turn("tiled") /\ Admitted
    /\ IF Predicates(run.stages, item.region) # {}
       THEN \E survivors \in 0 .. view.count :
               /\ view' = Fresh(survivors)
               /\ m_view' = view.id + 1
               /\ m_pointCount' = survivors
               /\ m_cardinalityChanged' = TRUE
       ELSE /\ m_view' = view.id
            /\ UNCHANGED <<view, m_pointCount, m_cardinalityChanged>>
    /\ m_state' = "RegionComplete"
    /\ applied' = Applied
    /\ product' = None
    /\ Done
    /\ UNCHANGED <<m_activeRegion, m_delegatedPlan, m_selectedRegions,
                   m_rasterGridProduct>>

Ended == IF EndsRegion THEN "RegionComplete" ELSE "RegionActive"

\* A stage over the shared index or the grid: it begins the region unless one
\* before it did, and ends it if it is the last.
Wrapper ==
    /\ Turn("wrapper") /\ Admitted
    /\ m_state' = Ended
    /\ m_view' = view.id
    /\ m_rasterGridProduct' =
          IF run.stages[item.at].executor = "pmf"
          THEN item.region ELSE m_rasterGridProduct
    /\ product' =
          IF OverGrid(run.stages, item.region) \/ EndsRegion THEN None
                                                          ELSE item.region
    /\ applied' = Applied
    /\ Done
    /\ UNCHANGED <<view, m_pointCount, m_activeRegion, m_delegatedPlan,
                   m_selectedRegions, m_cardinalityChanged>>

\* A point program within a shared-index region works on the columns that are
\* there: it begins nothing.
Bridge ==
    /\ Turn("bridge") /\ Admitted
    /\ m_state' = IF EndsRegion THEN "RegionComplete" ELSE m_state
    /\ product' = IF EndsRegion THEN None ELSE product
    /\ applied' = Applied
    /\ Done
    /\ UNCHANGED <<view, m_view, m_pointCount, m_activeRegion, m_delegatedPlan,
                   m_selectedRegions, m_cardinalityChanged,
                   m_rasterGridProduct>>

\* A stage of the host, which knows nothing of the context.
HostItem ==
    /\ Turn("host")
    /\ LET stage == run.stages[item.at]
       IN  IF stage.role # "filter"
           THEN UNCHANGED <<view, product, applied>>
           ELSE /\ view' \in
                      IF stage.predicate
                      THEN {Fresh(n) : n \in 0 .. view.count}
                      ELSE IF stage.remakes THEN {Fresh(view.count)}
                      ELSE {Passed}
                /\ product' = IF view' = view THEN product ELSE None
                /\ applied' = Applied
    /\ Done
    /\ UNCHANGED contextVars

\* The context refuses the item, or the device fails in it: the command ends.
ItemFails ==
    /\ runner = "running"
    /\ Admitted => item.kind \in {"tiled", "wrapper", "bridge"}
    /\ runner' = "failed"
    /\ thrown' = IF Admitted THEN "device" ELSE "refused"
    /\ UNCHANGED <<run, items, item, view, product, applied, contextVars>>

RunEnded == runner \in {"done", "failed"} /\ UNCHANGED runVars

-----------------------------------------------------------------------------
RunStep ==
    \/ Rewrite \/ Accept \/ Reject \/ Upload \/ Spill \/ Tiled \/ Wrapper
    \/ Bridge \/ HostItem \/ ItemFails

RunSpec == RunInit /\ [][RunStep \/ RunEnded]_runVars

RunTypeOK ==
    /\ run.selected \subseteq Stages(run.stages)
    /\ runner \in {"rewriting", "checking", "running", "done", "failed"}
    /\ runner \in {"running", "done", "failed"} => item \in items
    /\ view.count \in 0 .. PointCount
    /\ Range(applied) \subseteq Stages(run.stages)
    /\ thrown \in {"nothing", "refused", "device"}
    /\ m_state \in {"Empty", "AwaitingRegion", "RegionActive",
                    "RegionComplete", "HostMaterialized"}
    /\ m_pointCount \in 0 .. PointCount
    /\ {product, m_activeRegion, m_rasterGridProduct}
          \subseteq {None} \cup Stages(run.stages)
    /\ m_selectedRegions \in {{}, run.selected}
    /\ {m_delegatedPlan, m_cardinalityChanged} \subseteq BOOLEAN

\* AcceptedRuns: once the preflight has accepted the selected regions, no
\* marker and no stage of the run is refused by the context.
AcceptedRuns == thrown # "refused"

\* Points may be gone before a stage: a host stage before it drops some, or two
\* regions do, which the preflight accepts, and it lies between their stages.
PointsMayBeGone(p, sel, at) ==
    \/ \E i \in 1 .. at - 1 : p[i].predicate /\ ~Selected(p, sel, i)
    \/ \E i \in 1 .. at - 1 :
          /\ p[i].predicate
          /\ \E r \in Changing(p, sel) : r >= at

\* RefusedAtBoundary: the context refuses what the preflight accepted in two
\* cases only, an upload that points may be gone before and a point program in
\* front of the first producer of its region, and then before the region has
\* begun, when the rows have the effects of exactly the stages before it.
RefusedAtBoundary ==
    thrown = "refused" =>
        /\ \/ /\ item.kind = "upload"
              /\ PointsMayBeGone(run.stages, run.selected, item.at)
              /\ m_state \in {"Empty", "HostMaterialized"}
           \/ /\ item.kind = "bridge" /\ item.at = item.region
              /\ m_state = "AwaitingRegion"
        /\ applied = [k \in 1 .. item.at - 2 |-> k + 1]

\* RunsThePlan: on the device or not, every filter has its effect on the rows
\* once and in order, and no stage of the host runs while a region has results
\* to hand over.
RunsThePlan ==
    /\ runner = "done" => applied = [i \in 1 .. Len(run.stages) - 2 |-> i + 1]
    /\ runner = "done" => m_rasterGridProduct = None
    /\ runner = "running" /\ item.kind = "host" =>
          m_state \in {"Empty", "HostMaterialized"}
=============================================================================
