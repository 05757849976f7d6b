# GPUPDAL in TLA+

This directory holds TLA+ models of the concurrent and planning core of
GPUPDAL, the TLC configurations that check them on small instances, and proofs
that TLAPS checks for every value of the constants. Paths below are relative
to the repository, which the maps in `PROJECT.json` call `src/`: the project's
own code is under `src/`, upstream PDAL under `pdal/`, `io/`, `filters/`.

Run a model with `tlc -config X.cfg M`, a proof module with `tlapm M.tla`.
`PROJECT.json` lists the runs, the theorems, the hazards each property is for,
the lines each definition stands for, and for each property a mutated
definition (the operators marked `Fault` in the modules) under which the
property must fail.

## 1. The system

GPUPDAL is a fork of PDAL. A pipeline is compiled into a plan; stretches of
stages that run on the device are "resident regions"; the rest runs in PDAL on
the host. Point data cross between the two at upload and spill boundaries.
The command line asks one executor after another to take a command, the last
of them being plain PDAL. Around this there are the calibration and placement
code that decides where a pipeline runs, and upstream PDAL with its own thread
pools.

### 1.1 Inventory

| Component | Code | State | Operations | Correct means |
|---|---|---|---|---|
| Tile scheduler | `src/core/scheduler.cpp` | none (a function) | `makeTiledSchedule` | every item in one tile, lanes within the memory budget, no wrapped byte count |
| Residency planner | `src/plan/Pipeline.cpp` (`finishPlan`) | the plan's stages, regions, column lists and boundaries | one pass over the stages | a stage never reads a stale column; no column leaks or is freed early; the estimate is exact |
| Resident context, lanes | `src/pdal/PdgResidentContext.cpp` | per lane flags, pinned and device buffers, columns, one CUDA stream | `beginRegion`, `acquireTile`, `beginStage`, `endStage`, `submitTile`, `endRegion`, destruction | the region computes what its stages compute point by point, in source order, however the streams run; no buffer is reused or freed while in use |
| Resident context, lifecycle | the same, `PdgResidentBoundaryFilter.cpp` | context state, bound view, point count, selected regions, raster grid product | `preflight`, `enterBoundary`, tiled and delegated regions | a plan that preflight accepts runs to its end, or is refused before a region has begun; each stage runs once, on the rows the one before left |
| Point-program driver | `src/pdal/PdgPointProgramFilter.cpp`, `src/stages/Ordinal.cpp` | compiled operations, the ordinal states carried from batch to batch | `executeResident`, bridges, host and streamed batches | same results on every path, however the input is cut |
| Resident rewrite | `src/plan/ResidentPipeline.cpp` | rewritten JSON | `rewriteResidentPlacement` | the stand-ins and boundaries that are put in make the same pipeline |
| Resident command line and fallback | `src/cli/ResidentPipeline.cpp`, `src/cli/main.cpp` | temporary file, commit point | try, hand over, publish by link, validate | one executor writes the output, whole; nothing is left behind |
| Native translation output | `src/cli/main.cpp` (`PositionedOutput`) | buffers, queue, failure | `writeAt`, `close`, destructor, writing thread | the file is whole exactly when `close` returns normally |
| Dispatch | `src/cli/Dispatch*.cpp` | environment | choose a binary | never both, never neither |
| Calibration, profiles | `src/cli/Calibrate.cpp`, `src/plan/LocalProfile.cpp`, `PlacementProfile.cpp` | a profile file | copy to `.previous`, truncate and write, read, validate | a half-written or foreign profile is not applied |
| Placement | `src/plan/Placement.cpp`, `RuntimePlacement.cpp`, `Hybrid.cpp` | none | compare costs | fail closed on a missing model |
| Host slot pool | `pdal/private/HostSlotPool.hpp` | generation, pending count, task pointer, errors | `run`, destructor, slot loops | each slot runs each task once; the first failing row surfaces; nobody waits for ever |
| Thread pool | `pdal/util/ThreadPool.*` | task queue, outstanding count, running flag | `add`, `await`, `join`, `stop`, `clearTasks`, `go`, `cycle` | accepted tasks run once; bounds hold; nobody waits for ever |
| COPC reader | `io/CopcReader.cpp` | tile queues, `done`, `pending`, `nextEmit` | load, fetch, decode, pop, check, stop | each tile once, in order when one request thread is asked for; errors reach the caller |
| EPT reader | `io/EptReader.cpp` | hierarchy, `contents`, `m_tileCount`, `done` | pages, tile tasks, `read`, `processOne`, stop | each tile once; skipped ones are counted; `read` returns |
| LAS reader tiles | `io/LasReader.cpp` | window of tiles, fetch and read positions | `ready`, `acquireCurrentTile`, `read`, `processOne`, `done` | the points in file order, none twice, none of an earlier reading |
| LAZ compressor | `pdal/compression/LazPerfVlrCompression.cpp` | futures in order, chunk table | `compress`, `done` | chunks in order, errors surface |
| COPC writer pyramid | `io/private/copcwriter` | queue of octants, completion map | `queueWork`, `process`, `run` | no point lost; every parent after its children; the root ends the loop |
| I3S page cache | `io/private/esri/PageManager.cpp` | page list | `fetchPage`, `getPage`, `evict` | a page is fetched once at a time; `getPage` returns |
| STAC catalog | `io/private/stac/Catalog.cpp` | nested catalogs, items, errors | tasks that add tasks, `hoistNested`, `collectErrors` | every reachable link handled once, each error kept |
| LAS translation lanes | `src/io/las/LasTranslateKernels.cu` | a ring of lanes, ordinal states, the summary and the count of what came out | fill a lane, carry out the operations, finish, write the header | each record in its place and counted once; buffers not touched while in use |
| Spatial index, raster grid, stages, kernels | `src/index`, `src/stages` | floating-point data | numeric | bytes equal to the reference |
| Memory, batches, compaction, statistics, host workers | `src/core` | allocations, event list | bookkeeping | no leak |
| PDAL stage execution | `pdal/Stage.cpp` | sets of views | run one stage after another | each stage sees what its inputs left |
| Expression language, upstream stages, kernels, plugins, vendor | `filters`, `io`, `kernels`, ... | — | sequential algorithms | — |

### 1.2 How they interact

* The planner hands the executor, for every stage, the columns to have, to
  make and to retire, and for every region its boundaries and its estimate of
  bytes per point. The executor recomputes nothing: it checks, and throws in
  mid-region if the plan and the run disagree.
* The rewrite turns the plan into a PDAL pipeline: a boundary filter where data
  cross, one filter that stands for each tiled region, a wrapper that delegates
  a region to a kernel of its own, a bridge where a point-program region
  follows a delegated one. All of them share one context through which they
  check each other.
* The context asks the scheduler for tiles and lanes. `executeResident` drives
  the context one tile after another from one host thread.
* The host and the device share a lane's pinned buffers. The host only
  enqueues on a lane's stream; the device runs each stream in order and the
  streams in any order. The only synchronisation is the completion event that
  `Lane::drain` waits for and the stream synchronisation in `~Lane`.
* `main` asks the resident executor, the native one, the hybrid one and PDAL.
  An executor that declines must have left nothing; the first two write a
  temporary file and publish it with `link`, which does not replace a file
  that has come into being meanwhile. The native one feeds `PositionedOutput`,
  whose thread writes the blocks.
* Readers, the compressor, the pyramid, the page cache and the catalog use
  `ThreadPool`; row-parallel filters use `HostSlotPool` and share the rows by
  `slotRange`. Readers have a tile queue with its own mutex and condition
  variables between pool tasks and the reading thread.

### 1.3 What is hard

Reuse of a lane's buffers against asynchronous copies; failure of any call
while other lanes hold work; the order of survivors when lanes finish out of
order; liveness-driven column lists that decide what is *not* moved; an early
check (preflight) that must predict every later one; size arithmetic at its
limits; wake-ups of condition variables, one of them shared by two kinds of
waiters; flags and counters changed without the mutex of the condition
variable that waits for them; stopping a pool whose tasks wait for the
stopper; tasks that add tasks to a pool that is being awaited; a fallback
after part of the work is done. The `hazards` of `PROJECT.json` give the line
of each.

## 2. The modules

| Module | Models | Composed from |
|---|---|---|
| `TiledSchedule` | the scheduler, as operators over a request | — |
| `ResidencyPlan` | `finishPlan`: liveness, regions, lifetimes, boundaries | — |
| `PlanWalk`, `MCPlanWalk` | a plan carried out stage by stage on host and device | `ResidencyPlan` |
| `OrderedProgram` | the operations that drop points, their states and counts; PDAL's filters over the whole input | — |
| `PointBatches` | an ordered program carried out batch by batch | `OrderedProgram` |
| `MCPlan` | a plan carried out, the tiles of a schedule served one by one, or a program batch by batch | `MCPlanWalk`, `TiledSchedule`, `PointBatches` |
| `ViewOrder` | the order in which survivors are appended to an output | — |
| `StableRegion` | the promise of a region: no tiles, lanes or streams | `ViewOrder` |
| `ResidentLanes`, `MCResidentLanes` | the tile calls, lanes and streams | `ViewOrder`, `TiledSchedule`, `ResidencyPlan` (for the regions), `StableRegion` (refinement) |
| `MCLanePlans` | instances of `MCResidentLanes` with an assumption that TLC evaluates: the regions the planner made satisfy `ValuesPlanned` | `MCResidentLanes` |
| `ResidentContext` | rewrite, preflight, boundaries, stand-ins, delegated regions, bridges and the host stages between them | `ResidencyPlan` |
| `PositionedOutput` | the sink of the native translation and its writing thread | — |
| `CommandLine` | the chain of executors, temporary files, publication | `PositionedOutput` |
| `TranslationLanes` | the translation of a LAS file on the device: lanes, streams, chunks that shrink | `TiledSchedule`, `OrderedProgram` |
| `MCAttempt` | a command, the run of a rewritten pipeline, or a translation | `CommandLine`, `ResidentContext`, `TranslationLanes` |
| `HostSlotPool` | the slot pool and one caller | — |
| `PoolTasks`, `PoolPromise` | what a user of a thread pool sees; the promise made of these steps | — |
| `ThreadPool` | the thread pool, one owner, tasks that may add tasks | `PoolPromise` (refinement) |
| `MCPools` | either of the two pools | `HostSlotPool`, `ThreadPool` |
| `EptTiles`, `LasTiles`, `LazChunks`, `PageCache`, `Pyramid`, `Catalog` | the users of a pool | `PoolTasks` |
| `CopcTiles` | the COPC reader's tile queue over its two pools | — |
| `MCPoolClients` | any of these seven | all of them |
| `MCEptTiles`, `MCLasTiles`, `MCCatalog` | instances for section 6 | the modules they name |
| `TileArithmetic`, `PlanProofs`, `ResidentLanesProofs`, `ThreadPoolProofs`, `AttemptProofs`, `TranslationProofs`, `ReaderProofs`, `ClientProofs` | proofs (section 4) | the modules they are about |

`MCPlan`, `MCPools`, `MCPoolClients` and `MCAttempt` hold several systems that
do not interact: a behaviour is that of the one chosen in its first state,
while the variables of the others rest. What does interact is composed: the
planner with the executor that carries its plan out, the rewrite with the
context, the command line with its sink, the users of a pool with the pool's
promise.

### 2.1 ResidentLanes

Variables have the names of the code's members. `m_pending`, `m_acquired`,
`m_maskValid`, `m_workQueued`, `m_pendingTileIndex`, `m_nextStage` and
`m_writtenColumns` are the lane's fields; `has` is the set of columns its
`PointBatch` holds; `stream` is the queue of device work; `m_hostPacked`,
`m_devicePacked`, `columns`, `m_hostMask`, `m_deviceMask` are the buffers. A
buffer holds, for each slot and dimension, a value that remembers which source
cells it came from and which stages took part: that is enough to notice a
mixed tile, a missed stage, a stale column or a mask of another tile, and
independent of any arithmetic.

One action is one call of the context: `AcquireTile` is `Impl::acquireTile`
with its drain, its retirement of spilled columns and `Lane::acquire`;
`BeginStage`, `EndStage`, `SubmitTile`, `EndRegion` likewise. `RunStage` is
the stage's kernel launch in `executeResident`. The drains inside `endRegion`
are steps of their own (`DrainPending`), in the sorted order. The device
executes the head of a stream per step. `AcquireFails` and `SubmitFails` are
the partial failures inside a call; `Throw` is a failure between calls; after
either the lanes are destroyed in any order while the streams go on. Every
call that the context refuses as out of order is a disabled action, because
the only driver, `executeResident`, never makes it; the exception is
`RefuseAcquire`, where the refusal comes after a change of state. With the
driver as it is the runs never refuse a plan or an acquisition of a lane that
is computing unless tiles are acquired ahead, which the interface allows and
the model includes: a tile may be acquired as soon as its lane is free.

The model starts where `beginRegion` returns. `Regions` is a constant; the
instances take it from `ResidencyPlan` applied to pipelines, so executor and
planner are checked together. `ColumnsPlanned` says of one region what its
lists of uploads, retirements and downloads must be for the executor never to
refuse it (`ColumnSchedule` walks the columns through its stages).
`ValuesPlanned` adds what makes its results right (`ValueSchedule`): a stage
reads columns that are held during it, a column is not fetched from the host
again once the region has written it, the written columns that are left at the
end are those the rest of the pipeline reads, and at most one stage drops
points, in which case the region has an output. They are the hypotheses of
proofs, and `MCLanePlans` checks the second, which implies the first, of every
planned region of the run `lanes`.

### 2.2 ResidencyPlan and PlanWalk

`ResidencyPlan` is `finishPlan` without its byte sizes: every column weighs
one. Union-find becomes the closure of "united"; loops that append to lists
become sets. `PlanWalk` keeps one host record, one packed upload per region
and one set of device columns per region, and moves exactly what the plan says
is moved. It compares each stage's inputs with a run of the same pipeline on
the host. Pipelines that fork are followed for their columns only, since each
branch has a point view of its own.

### 2.3 ResidentContext

A run starts with a planned chain of stages and the regions selected in it.
`Rewrite` makes the items that PDAL will run one after another: a host stage, a
boundary marker, or a stand-in ("tiled", "wrapper", "bridge"). The items are a
set: each has the stage it is at and the last it stands for, `Before` is the order
in which they run, at one stage the spill first and the upload second, and the
item whose turn it is is in `item`. `Accept` is
`preflight` with its two rules that do not depend on sizes; `Reject` is every
other reason, after which the chain runs as it was given. Then each item is one
action, guarded by `Admitted`, the tests the context makes of it
(`bindLayout`, `ensureView`, the state, the region, the raster grid, the bridge's
product). What the context refuses ends the run in `ItemFails`. The view is its
identity and its number of points: a stage of the host may hand on a view of
its own, a filter over an empty view does not run.

The actions of a region are those of `ResidentLanes` taken as one step
(`Tiled`), which `StableRegion` justifies: its promise is the rows of the region
in source order, or a failure.

### 2.4 PositionedOutput and CommandLine

`PositionedOutput` has a step for each hold of `m_mutex`, each wait and each
notification of the calling and of the writing thread, with spurious wake-ups.
The calling thread may fail in the translation or in a copy, the writing thread
in a write that stays torn. `close()` and the destructor are the two ways out.

`CommandLine` follows one command through `main`: which executor is asked,
where it throws, what its handlers remove, and when the resident executor has
committed itself (`tryAutomaticResidentLasPipeline` commits a writer before it
runs, a direct publication after the `link`). Other programs create the output
or take a temporary's name at any moment. A mapped temporary is filled in one
step, the sink's in those of `PositionedOutput`; `translateDefaultCuda` first
makes the file in memory. Executors decline nondeterministically: their
reasons are the planner's, the profile's and the device's.

### 2.5 OrderedProgram, PointBatches and TranslationLanes

A decimation, a head or a tail counts the points of the whole input, but the
drivers see it in pieces. `OrderedProgram` has what they compute to get by with
an `OrdinalState` (`Candidate`, the binary search, the counts worked out in
advance through the operations before) and, beside it, PDAL's own filters as
`Reference`. A step of a decimation is a whole number of `1 / StepUnit`, so that
`llround` is exact; `Unlimited` stands for `UINT64_MAX`. Assignments are left
out: they neither count nor drop points.

`PointBatches` cuts the input into batches of any size, which covers
`executeHost` (equal batches but the last) and `processBatch` (as many points as
the filters before have left). The device paths run the same operations.

`TranslationLanes` has both forms of the CUDA translation. The plain form
queues a chunk's copies and kernels and goes on; the ordered form waits in
each compaction, puts its results behind those of the chunks before it, and
has one lane only if an operation counts. A record is the index of its point.
Device and pinned buffers of a lane are records of sequences; an upload carries
what it was meant to copy, so that a buffer overwritten too early is noticed.
A copy or kernel may be refused with any prefix of the work queued
(`QueueFails`), the sink or the device may fail at any call
(`TranslationFails`), and then the lanes are destroyed, each of which waits for
its stream because the device resource goes before the pinned buffers.

### 2.6 HostSlotPool, ThreadPool and the users of a pool

A step is one critical section, one notification made outside the lock, or one
task or row. A sleeper is woken by a notification or spuriously.

`ThreadPool` implements `PoolPromise` under a refinement mapping: the queue is
the queue, a task is running from `Take` until it has returned, the pool is
open while `m_running` holds. `PoolPromise` is
made of the steps of `PoolTasks` (`AddTasks`, `StartTask`, `FinishTask`,
`ClosePool`, `Idle`), and the users of a pool are written over these steps. So
that `await` waits for tasks that tasks have added, and that every task waiting
at `join` is run, is checked once and used six times.

* `EptTiles`: `read` lowers `m_tileCount` by a load and a store (`LoadCount`,
  `StoreCount`), because it does so without the mutex; a task's decrement
  between them is lost. A task that finds `contents` full tries later, which
  needs no action of the reader to happen. `lost` remembers a lost decrement:
  the liveness of `pool_clients` is claimed of readings without one, and the run
  `ept_skip` shows what follows one.
* `CallsReturn` ends the COPC reading where its pools are about to be joined:
  what can happen in that join is the run `copc_error`, as `ept_limit` is for
  the join of the EPT reader.
* `LasTiles`: `ready` may come again while tasks of the reading before are still
  under way; a tile knows which reading asked for it.
* `LazChunks`: both the serial and the parallel compressor; the table must
  be the one the serial compressor writes.
* `PageCache`: each hold of the mutex is a step, so `fetchPage` is three
  (note, evict, add). Walkers stand for the tasks of `traverseTree`.
* `Pyramid`: the runner is the owner; a `Processor` is a task that moves some
  points up (which ones is open) and queues the parent.
* `Catalog`: a task of a link to a group adds the tasks of that group's links
  before it enters the group into its parent's list.

`CopcTiles` has two pools of its own and a state in between: `done` is written
without the mutex, so the test of a wait and the sleep after it are two steps
(`MustWait`, `FallAsleep`), and other actions that need the mutex wait in
between. Its `tilesLeft` count may be abandoned early because `read()` may have
enough points.

## 3. The runs

| Run | Instance | Shows |
|---|---|---|
| `plan` | requests of a 3-bit `std::size_t` with lane choices 0, 1, 2, 3, 6, 7; all chains of at most 2 filters over a standard and a custom dimension and forks of two; every program of one or two of 8 decimations, 12 heads or tails and a predicate (when the driver takes it) on 8 points, in both modes, in all batches | byte counts exact, budget kept, items cut once, the reuse count equals the reuses the tile loop makes; no stale reads, columns retired once, exact estimate; what programs keep is what PDAL keeps |
| `lanes` | (`MCLanePlans`) 5 points, tiles of 1, 3 lanes, a compacting region, survivors {0,2,3} or none | types, lane window, no lane with work is taken for idle, no free in use, buffers handed over safely, publication in order |
| `lanes_promise` | 5 points, tiles of 2 (a short last one), 2 lanes, three programs | refinement of `StableRegion`; every tile published, the planned region never refused, no column left; the region ends; lanes are destroyed |
| `pools` | 2 slots, 5 rows, 2 runs, every set of failing rows; 2 threads, queue of 1 or unbounded, 4 tasks that may add tasks, 2 joins | no dangling task, rows once, first failure; the queue's bound; refinement of `PoolPromise`; calls return |
| `pool_clients` | LAZ: chunks of 2, up to 7 points; EPT: 4 tiles on 2 pages; LAS: 5 points in chunks of 2, 2 readings; pages: 3, cache of 2, 2 walkers; pyramid: 2 directions, 4 sets of cells; catalog: 4 groups, 4 items, failures and filters; COPC: 3 tiles, 2 requests, 2 decoders, 2 tiles kept | order, no loss and no duplicate, bounds, pages fetched once at a time, a connected hierarchy, complete catalogs, calls return |
| `attempt` | every kind of command with a sink of 3 blocks and 2 buffers; every chain of at most 3 filters (and those of 4 without predicates of two executors) each with every set of its regions selected; 8 translations of up to 5 chunks on 1 to 3 lanes | what preflight accepts is refused later only in front of a region, where points may be gone or a point program comes first; each filter has its effect once and in order, one executor writes the output whole, no temporary file stays, the records of a translation are in place and counted once, commands, runs and translations end |
| `copc_error`, `ept_limit`, `ept_skip`, `las_start`, `stac_nested`, `two_predicates` | the smallest instance of each | the disagreements of section 6 |

Why the bounds are enough: three lanes and five tiles is the smallest instance
in which a lane is reused, another one is not, and the pending lanes are out
of tile order when the region ends; two lanes and three tiles do the same for
the refinement, and a tile of two with a short last one separates slots from
points. A word of three bits has requests whose peak overflows and requests
that the budget cuts. Two filters give every pair of neighbours (device, grid,
host, foreign, predicate) and the forks give the siblings; a third and a fourth
filter, in `attempt`, put a host stage between two regions and a bridge between
two producers. Five rows on two slots have uneven shares; two runs let an
error, a task or a generation of the first leak into the second. Two threads,
four tasks and a queue of one let both kinds of waiters sleep on the same
condition variable. Three blocks and a header over two buffers make the caller
wait for a buffer and the writer for a block. A window of two chunks over
five points ends in a short chunk and reuses slots; a second reading starts
while the first one's tasks run. Two walkers that want two of three pages through a
cache of two evict each other's pages. Eight points, with steps below
and above two and limits, offsets and counts on both sides of the ends, let a
batch end before, at and after a kept point, and let the second operation start
with fewer points than the file has. Four or five chunks on three lanes leave
the ring at an offset when the pending lanes are finished. Cells at different levels make parents
complete at different times, and a group in a group makes a task of a task add
tasks.

The parameters with a name that only bound a model are `MaxRuns`, `MaxJoins`,
`TaskCount` (how much is asked of a pool), `MaxPoints`, `MaxReady` (of a writer
and a reader), `MaxFilters` (of a pipeline), `SizeMax` (the word).

No symmetry is used: lanes are numbered by the modulo rule, slots by their
rows, tiles by their order. Every run checks for deadlock: each module has an
explicit final stutter step, so a state in which everybody waits is reported.

### Fairness

* `ResidentLanes`: weak fairness of the host thread, of each stream (a stream
  that has work executes it) and of each lane's destruction once the scope is
  left. Nothing obliges an exception to happen, so `RegionEnds` allows one.
* `HostSlotPool`, `ThreadPool`: weak fairness of each thread and of a call that
  was begun. A caller need not call.
* The users of a pool: weak fairness of the owner and of each task. The
  conditions of several clients are put together by number (the i-th thread of
  whichever client it is), which is the same because the client never changes.
* `CopcTiles`: strong fairness of each thread, because a thread that is ready
  to take the mutex is disabled again and again while others hold it; a mutex
  is granted in the end. The counterexamples of section 6 hold under it: the
  threads in them are asleep, not starved.
* `MCAttempt`: weak fairness of the command, of the sink's two threads, of
  the run, of the translation's calling thread and of its device. Other programs need not do anything.

Spurious wake-ups are steps of their own outside every fairness condition:
nothing relies on one.

## 4. The proofs

Every theorem is checked by TLAPS for all values of its module's constants that
satisfy the named assumption; TLC evaluates the assumptions in the runs. A
theorem `Spec => []Inv` comes from an inductive invariant: it holds initially,
every action keeps it, and it implies `Inv`. The invariants below were checked by
TLC on small instances first. Each action has a lemma or a step of its own, with
a step under it for each part of the invariant that the action disturbs.

| Module | Inductive invariant | Proved of the runs' properties | From |
|---|---|---|---|
| `PlanProofs` | `ServingInv` | `WithinBudget`, `ItemsOnce` of `PlanSpec`, the specification of run `plan` | `SizeMaxAssumption`, `LaneAssumption` |
| `PlanProofs` | `LifeInv`, then `FreshInv` | `RetiredOnce`, `EstimateIsExact`; `FreshReads` of `PlanSpec` | `PipelinesAssumption`, `CustomAssumption` |
| `PlanProofs` | none | `ValuesPlanned`, the hypothesis of three theorems of `ResidentLanesProofs`, of every planned region of a chain | a finite `Dims`, a last stage on the host, at most one predicate in the region |
| `PlanProofs` | `Control`, `RowInv` and `IInv` of `ThreadPoolProofs` | `PoolsTypeOK`, `NoDanglingTask`, `RowsOnce`, `QueueBounded`, `FirstFailureSurfaces` of `PoolsSpec`, the specification of run `pools`; also `NoLostWakeup` of the slot pool | `SlotsAssumption`, `ThreadsAssumption` |
| `ThreadPoolProofs` | `IInv /\ RanOnce` | `TypeOK`, `QueueBounded`, `CallsLeaveNothing`, the steps of the refinement `KeepsPromise` | `PoolAssumption` |
| `ResidentLanesProofs` | `IInv`; with `DataTypes` | `LaneWindow`, `IdleLaneQuiet`, `NoUseAfterFree`, `NothingUnpublished`, `PublishedInOrder`; `TypeOK` | `LanesAssumption`, `RegionsAssumption` |
| `ResidentLanesProofs` | with `ColumnsInv`; with `ValuesInv` | `PlanAccepted`, `NoColumnLeft`; the safety half of the refinement `KeepsPromise` | also `ColumnsPlanned` of every region; for the refinement `ValuesPlanned` |
| `AttemptProofs` | `SinkInv /\ CommandInv` | `CommandTypeOK`, `OneOutput`, `NoLeftovers` of `CommandSpec` | `CommandAssumption` |
| `AttemptProofs` | `RunInv`; with `RunTypes`; with `AcceptInv /\ ViewInv /\ RefusalInv` | `RunsThePlan`; `RunTypeOK`; `RefusedAtBoundary` of `RunSpec` | `RunsAssumption` |
| `TranslationProofs` | `StreamInv` | `BuffersIntact` of `Spec` of `MCAttempt`, the specification of run `attempt` | `TranslationsAssumption` |
| `TranslationProofs` | `TransInv` | `TranslationRight` of the same | `TranslationsAssumption`, `CarriedAssumption` |
| `TranslationProofs` | `PartsInv`, with `TransInv` | `AttemptTypeOK` of the same | `CommandAssumption`, `RunsAssumption`, `TranslationsAssumption`, `CarriedAssumption` |
| `TranslationProofs` | `RulesInv` | `OneOutput`, `NoLeftovers`, `RunsThePlan`, `RefusedAtBoundary` of the same | `CommandAssumption`, `RunsAssumption` |
| `ReaderProofs` | `CopcInv`; `EptInv`; `CatalogInv` | of each module by itself: `EachTileOnce`, `KeepAliveHolds`, `EmittedInOrder`; `EptTileOnce`; `EveryItemRead` | `CopcAssumption`; `EptAssumption`; `CatalogAssumption` |
| `ClientProofs` | `LazInv`; `LasInv`; `PageInv`; `PyramidInv` | of each module by itself: `SerialFile`, `OneChunkPerWorker`; `InFileOrder`, `WindowHolds`; `OneFetchEach`; `NoPointLost`, `ChunksConnected` | `ChunksAssumption`; `LasAssumption`; `PageAssumption`; `PyramidAssumption` |
| `ClientProofs` | `ClientInv`, the invariant of the client that was chosen | `InOrder`, `Bounded`, `FetchedOnce`, `TileOnce`, `HierarchyConnected`, `CatalogComplete` of `Spec` of `MCPoolClients`, the specification of run `pool_clients` | `ClientsAssumption`, which is all of theirs |

The four assumptions of `AttemptProofs` and `TranslationProofs` are part of
`AttemptAssumption`, which TLC evaluates for the run `attempt`.

`TileArithmetic` has what the rest needs of numbers and sets: the facts about
`\div` and `%` (quotient and remainder are the only ones, a smaller multiple of
the lane count), that a set of numbers has a least and, if bounded, a greatest
member, induction over a finite set (`SetInduction`, from a largest good subset),
and sums over finite sets.

A theorem that takes an operator cannot be instantiated by the provers, so
there is no induction scheme to cite. What a recursive function computes is
proved all the same where its argument has an order: *some* function satisfies
its equation (the largest piece of one that does is all of it), so the one that
`CHOOSE` takes does; and a claim about all arguments holds because the set of
exceptions has no least, or no greatest, member.

**The schedule.** The first part of `PlanProofs` is about one request: the peak
is the exact product or the request is refused (`PeakIsExact`), it is within the
budget, and tiles cut the items. `ServingInv` says of the tile loop that the
first tiles open one lane each and every later one reuses a lane, so after n
tiles `occupied` is the first Min(n, lanes) lanes and `reuses` the rest of n;
without it the count of reuses at the end says nothing.

**Lanes.** The control invariant is

    ControlTypes /\ LaneWindow /\ StageInRange /\ IdleLaneQuiet
                 /\ FreedQuiet /\ NothingUnpublished

None of the parts is inductive alone. `IdleLaneQuiet` survives `SubmitTile` because
the lane becomes pending in the same step, and `AcquireTile` because the drain
waited; the next acquired tile's lane is the oldest pending one only because of
`LaneWindow`, whose lane indices need `ModUnique`: tiles less than `LaneCount`
apart are on different lanes. `NoUseAfterFree` needs `FreedQuiet`: a destroyed
lane's stream is empty and stays empty, because a scope that was left makes no
more calls. `~Lane` looks only at `m_workQueued`, so the invariant also ties that
flag to the stream.

`TypeOK` is `ControlTypes` with `DataTypes`: whatever a stream copies or computes
and in whatever order the streams go on, a buffer has a record for each slot,
and what is published is a sequence of points of the view.

`PlanAccepted` and `NoColumnLeft` need to know which columns a lane holds:
`ColumnsInv` says it is exactly what the region's plan has after as many stages as the
lane has run (`HeldAfter`). Their hypothesis, `ColumnsPlanned`, is a statement
about a region alone. `RegionsPlanned` of `PlanProofs` discharges it, and
`ValuesPlanned` below: the planner's regions satisfy both.

`PromiseKept`, that the tiles, lanes and streams implement `StableRegion` up to
fairness, needs what the buffers hold at a moment when their streams may be
anywhere. `ValuesInv` therefore speaks of what a lane *will* hold once the
work already queued on it is done (`Settles`): a device step does not change
that, so the values are argued only where a call queues something. By then
the lane's tile has had as many stages as it has run (`ComputesRight`); when it
is pending, the packed rows that arrive at the host are what the whole program
makes of the tile, and its mask tells the survivors (`PublishesRight`). The view beyond the
points published is as it was (`RestUntouched`). Then a drain is `Take` of the tile's
points, an acquisition that fails after its drain is the `Abort` that takes
points, `EndRegion` is `Complete`, every other failure is the plain `Abort`, and the rest
are stutters.

**What the planner plans.** The claims are about every pipeline that is planned
(`Planned`: stages in order, a device stage is a filter, as
`Pipeline.cpp:2553-2568` makes sure). `LiveBefore` is unfolded as said above.
`LifeInv` describes what a region holds and has retired before a stage by the
first and the last use of each column (`Earliest`, `Latest`), with no reference
to how far the run has come; from that `RetiredOnce` and `EstimateIsExact`
follow for forks as well as for chains. In a chain the stages of a region are a
run of consecutive ones (`Joined`, `Reach`), so that a boundary can only be at an
end of it. `FreshInv` says which values are right at any moment: inside a
region its columns, and on the host every dimension the region has not yet
written; elsewhere all of the host's that is still read. `FreshReads` follows
for chains of any length.

`RegionsPlanned` ties the planner to the executor. The stages of a region are
`r .. last` (`RegionSpan`), the last one alone spills and retires what is live
after it (`RegionSpills`), and what the region holds before and during a stage
is what the first and the last uses of the columns say
(`HeldFromStageToStage`), which is a schedule as `ValuesPlanned` asks for. It
assumes a finite set of dimensions, a chain whose last stage is on the host (a
writer), and at most one predicate in the region, which preflight makes sure of
(`PdgResidentContext.cpp:229-237`).

**The slot pool.** `Control` ties the counter `m_pending` to the number of slots
that have not finished the current generation, and the published task to a
caller that is still inside `run`; that is what `NoDanglingTask` is about. The
count changes by one when one slot finishes, which is a fact about cardinalities
(`FiniteSetTheorems`). `RowInv` says what each slot has done of its share; the
lemmas `SlotRanges`, `SlotsAscend` and `SlotsCover` say that the shares are
disjoint and cover the batch, for every remainder, and give `RowsOnce`. That the
error with the lowest slot is the one with the earliest row follows from
`SlotsAscend`.

**The thread pool.** Tasks are numbered in the order they were accepted, so the
queue is always the last of them; a task that left it is with a thread, dropped,
or has run once (`RanOnce`). `m_outstanding` is the number of busy threads
(`JobInv`), and a closed pool has an owner in `join` or no threads left
(`OwnerInv`). From these each step maps to a step of `PoolPromise` or to a
stutter (`PromiseKept`), which is the safety half of the refinement; the
fairness half is TLC's. `MCPools` has the thread pool as an instance with
other names of its variables, so its theorems are instantiated the same way in
`PlanProofs` (`ThreadsProved`).

**The command.** `SinkInv` follows the writes through the sink: accepted writes
are in the queue, with the writing thread, or through it, in order
(`PendingInv`); the buffers are accounted for (`BufferInv`); and the two threads
know of each other what `PhaseInv` says. So a sink that closed without a failure
has written every block and the header last. `CommandInv` carries that through
the chain of executors to the output and to the temporary files.

**The run of a rewritten pipeline.** The first part is about the items alone. In
a planned run (`RunPlanned`) a region has the stages from the one that names it
to its last and neither the reader nor the writer, so what is between two items
can be worked out (`NoneWithin`): every item other than the writer has a next
one, which is at the stage after the last that the item stands for, and whose
kind follows from the item's own (`NextItem`). `RunInv` then says what the next item finds:
the rows have the effects of all stages before it, and the context is in the
state that its kind needs. It is inductive for every planned run, so
`RunsThePlan` holds whatever regions are selected. A bridge that would start a
region is refused for want of a product, and the run ends.

`RefusedAtBoundary` says what preflight is worth. It looks at neither host
stages nor any changing region but the last, so what it accepts may still be
refused, and `AcceptedRuns`, which the documents promise, is false (run
`two_predicates`, section 6). What holds of every chain and every selection is
that a refusal has one of two causes: an upload that a host predicate comes
before, or one of two dropping regions; and a point program in front of the
first producer of its region. Both are found before the region has begun, and
the rows then have the effects of exactly the stages before it. `ViewInv` is
why: the view is whole until the first predicate (`Clean`) and in every region
that has begun, and the context always knows (`m_cardinalityChanged`) when a
region has made it smaller. `GoneBefore` is where the rule of preflight comes
in: a region that drops points is accepted before another selected one only if
the last one drops points, too.

**The lanes of a translation.** `StreamInv` follows each lane's queued work: an
upload or a download that is still queued finds its buffer as it was when it was
queued, whatever fails. `WindowInv` says which chunk each lane has, as
`LaneWindow` does for a region; `ResultInv` what the device and the pinned
buffers hold of it once the stream has got so far; `PlaceInv`, `CountInv` and
`EndInv` what the file, the summary and the header say of the chunks that are
finished. The one hypothesis about data is `CarriedAssumption`: that a program's
chunks, taken one after another by one thread with the ordinal states carried
on, make what PDAL's filters make of the whole input. It speaks of sequential
code only, TLC evaluates it for the translations of run `attempt`, and a
translation that is not ordered needs nothing of it. So what is proved is that
lanes, streams and failures change nothing.

**The LAZ compressor.** Chunks are numbered as they are submitted. The pool's
queue is the last of them, the futures are those not yet written, and the number
of points determines how many chunks there are and how large each is
(`ChunksCut`). `TableIsPrefix` turns that into the comparison with the table of
one thread, by division of the points by the chunk size. A failing chunk stops
the table where it stands.

**The LAS reader.** `FirstOf`, `EndOf` and `TileOf` say for a chunk's number
which points its tile has; `TilesGood` says that every tile, wherever it is, is
the one its number says, and that the queue of the pool has the ones fetched
last. So tiles in different hands differ, and `WindowInv` can count them: the
chunks between `nextReadChunk` and `nextFetchChunk` are the tiles waiting, being
read and filled, which is also why a finished tile finds room in the window.
`ReadInv` follows the reader from point to point: where a tile ends the next
chunk begins (`ChunksAdjoin`), for compressed chunks, whose boundaries belong to
the file, and for plain ones, which are counted from where reading starts.

**The COPC reader.** `Places` lists the seven places a tile can be in. A step
moves one tile from one place to another (`Moved`), so the places stay apart,
and with the injectivity of each queue no tile is there twice. `KeepAliveHolds`
counts four of the places (`FS_AddElement`, `FS_RemoveElement`); it needs
`PlaceInv`, because a tile that was already in `ordered` would not be counted
again. `OrderInv` says that an ordered reader has taken the first tiles, all of
them good but perhaps the last.

**The EPT reader.** `PagesFound` says that a page of the hierarchy is with the
pool, in a task or has been added with its tiles and the pages below it; when
the pool is idle there is none in between, and since every page is below page 0
(`EptAssumption`) all tiles are known. From then on a tile with a task is in one
of seven places (`EptPlaces`), and a step moves one tile. `m_tileCount` is never
below the number of tiles that are still to come, also when a decrement is lost:
that is why the reading never stops early. The hierarchy is a hash set, so tiles
are loaded in any order.

**The STAC catalog.** `LinkInv` says that each link is in the list of the group
that is being added, with the pool, in a task, or ended; `ListInv` what a group's
list and errors have of its ended links; `RootInv` and `ExtractedInv` what the
reader does with the root's. That links make a tree below the root is an
assumption in the form of a closure (`CatalogAssumption`), from which induction
over the tree follows (`TreeInduction`). `LinksAbove` and `Hoisted` are unfolded
by existence; `AboveIsOrder` and `OneBranch` give the tree its order, and a
counterexample in the deepest group shows that hoisting collects the items of
all groups below (`HoistedFacts`, `FlattenFacts`). `EveryItemRead` says nothing of a
reading in which hoisting has moved the vector it runs over.

**The page cache.** `OneFetchEach` counts; `PageInv` says the same with sets, so
that each step moves one page: the pages whose entries lack one are exactly
those with a fetch in a walker's hand, in the queue or with a thread, and these
three are disjoint (`OneFetch`). That an evicted entry never lacks its page, and
that an entry moved to the end is still the only one of its page, rests on what
`Keeping` does to a sequence (`NthPlaces`, `Kept`, `Rearranged`). `WalkerInv`
ties the place a walker is at to the page in its hand.

**The pyramid.** `OctantInv` says that of the live octants (queued, in the
runner's hand, complete, in a task) none lies above another and that each is in
one place; it survives because a task replaces a family by its parent
(`ReplacedChildren`, `OthersElsewhere`), and a family is queued only when all its
children are complete. `WrittenInv` says that the written keys are not above a
live octant unless it is the root, and that each is linked to a live octant or to
the root through written keys, which is what `ChunksConnected` needs: a key may
have given all its points away (`EmptyFamily`). `PointInv` adds up the points,
by induction over finite sets. Directions and cells are any finite sets, no
cell lies above another or is the root.

**One client or another.** `ClientInv` is the invariant of the client that was
chosen, so the theorems named `Clients...` are about the very specification that
the run `pool_clients` checks.

What is only model-checked:

* liveness (`RegionEnds`, `LanesDestroyed`, `PoolsReturn`, `CallsReturn`,
  `AttemptReturns`) and everything that needs `ENABLED` or fairness, the fairness
  half of the refinements included: out of the prover's reach;
* `OrdinalsMatch`, that ordinal operations in batches of any size keep what
  PDAL's filters keep: it needs what a binary search finds and what folds over
  sequences of any length make, which is induction over data;
* the type invariant of `MCPoolClients`: the parts of it that the theorems use
  are in the invariants;
* that what the planner makes of a pipeline is `RunPlanned`: TLC evaluates it
  for the chains of run `attempt`.

## 5. Not modelled

See the components of `PROJECT.json`. In short:

* Numeric algorithms and file formats (kernels, spatial index, grids, statistics,
  LAS and COPC point formats, expressions): not discrete, or sequential and
  covered by unit tests.
* Allocation sizes in bytes (a column weighs one); resident index and grid
  budgets; fusion candidates; the placement models, the calibration and the
  profile file; the choice of a binary.
* `ResidentLanes`: byte counters and events, the fallback from row storage to
  field access, the refusals that no driver can provoke, failure in the middle
  of packing a tile.
* `ResidentContext`: record layouts and the estimates of preflight, the
  skewness and ordering regions, pipelines that are not chains.
* `OrderedProgram`, `TranslationLanes`: assignments and record layouts; the
  rounding of a product that is no longer exact in a double; the envelope of
  programs that are exact on the device; the CPU translation, which splits the
  records among short-lived threads. `PointBatches`: the copies of the
  non-resident device paths.
* `CommandLine`: the environment variables that forbid a fallback, statistics
  files, and why an executor declines.
* `ThreadPool`: `resize` to another number, several owners, tasks that throw
  (the process ends; `EptTiles` has that as a state nothing follows).
* `CopcTiles`: the hierarchy traversal, which awaits its pool before any tile
  is loaded. `EptTiles`: addons, spatial filters. `LasTiles`: the unpacking
  workers, remote copies. `Pyramid`: the grid, reprocessing, file offsets.
  `Catalog`: schemas, item collections, single items.
* The upstream filters, readers, writers, kernels and plugins without threads
  of their own, which are most of the repository's lines.

## 6. Where code and comments disagree

* `two_predicates`: `DECISIONS.md:2609-2610` and
  `PdgResidentContext.cpp:689-690` say that a region that changes the number of
  points must be the last one selected. Preflight remembers only the last
  changing region (680-695): a plan with two of them is accepted, and the
  upload of the second throws (809-812) in the middle of the run.
  A host predicate in front of a selected region ends the same way, when it
  drops a point (1863); nothing says that it must not, so it is no finding, and
  `RefusedAtBoundary` has it as one of the causes.
* `copc_error`: `CopcReader.cpp:1018` says the request thread is released before
  the join. `done` and the notification are not under the mutex, so the release
  can fall between the test (862-864) and the sleep of the request thread;
  `stop()` then waits for it for ever, and the error is never thrown. `done()`
  (1103-1105) has the same window. Holding the mutex while `done` is set
  closes it. The instance with `Ways = {"ordered"}` shows this one.
* `copc_error` with `Ways = {"parallel"}`: with more than one request thread
  `checkTile` does not set `done`. If more tiles are left than are kept alive,
  the tasks wait for room that nobody makes, and `stop()`, which by
  `ThreadPool.hpp:88` drops the waiting tasks, in fact runs them all.
  `EptReader.cpp:833-836` sets the flag and clears the queue first.
* `ept_limit`: `EptReader.cpp:965-966` says that `stop()` ends the reading when
  the count limit is hit. Tile tasks poll for room until `done`, which `read()`
  does not set before it.
* `ept_skip`: `EptReader.cpp:613-614` says that an unreadable tile is skipped
  when `ignoreUnreadable` is set. Its task lowers `m_tileCount` under the mutex,
  `read()` lowers it without (958): when they overlap a decrement is lost, and
  `read()` waits for a tile that never comes.
* `las_start`: `LasReader.cpp:763-764` says that `acquireCurrentTile` returns
  false at the end of the file. `eof()` compares a count that starts at 0 with
  `start + count` (524-528): a streaming reader with `start > 0` waits at 791 for
  a tile that was never queued.
* `stac_nested`: `StacReader.cpp:271-272` and `Catalog.cpp:126` say that a catalog
  is rejected if neither it nor any of its sub-catalogs has items. Only the
  root's own list is looked at: a root whose items are all in nested groups is
  rejected, and none of them is read.

## 7. Plan

Done: the scheduler, the planner's residency half, lanes and streams, the
context around them, the command line with its sink, point programs in batches
and the translation's lanes, both pools and the seven users of a thread pool; proofs of
the scheduler and its serving, of the planner's residency half and that the
executor accepts its regions, of the lanes'
control, columns and values (with the safety half of the refinement of
`StableRegion`), of both pools (with the steps of the refinement of
`PoolPromise`), of the command line with its sink, of the runs of rewritten
pipelines, of the translation's lanes, and of all seven users of a thread pool.

Proofs next: the type invariant of `MCPoolClients`; that what the planner makes
of a chain is `RunPlanned`.

Models that could still be added: the profile file beside concurrent readers,
the dispatcher, the skewness and ordering regions, index lifetimes of the
planner, the CPU translation.
