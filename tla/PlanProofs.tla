------------------------------ MODULE PlanProofs ------------------------------
(***************************************************************************)
(* Proofs about what is planned before a point is touched, and about the   *)
(* ways in which work is cut into parts.                                   *)
(*                                                                         *)
(* Tiled schedules, for every width of std::size_t and every request: the  *)
(* peaks are exact, the budgets are kept, and the tiles cut up the items   *)
(* without gap or overlap; then what that means in MCPlan for the lanes    *)
(* that serve the tiles one after another.                                 *)
(*                                                                         *)
(* HostSlotPool, for every number of slots, rows and runs.  Control ties   *)
(* the counter m_pending, the generation and the published task to what    *)
(* the slots still have to do; it gives NoDanglingTask.  RowInv says what  *)
(* each slot has done of its share of the rows; with the lemmas that the   *)
(* shares cut the batch up it gives RowsOnce and FirstFailureSurfaces.     *)
(*                                                                         *)
(* The residency half of the planner, for every pipeline: what is live     *)
(* before a stage satisfies its equation, the stages of a region in a      *)
(* chain are consecutive, every column is retired once, the estimate is    *)
(* exact, and in a chain every stage reads what a host-only run computes.  *)
(* The plan of a region of a chain is one that the executor of tiled       *)
(* regions accepts and computes the right values with (RegionPlan).        *)
(* A recursive definition is unfolded in two steps: some function          *)
(* satisfies its equation, so the one it chooses does; what then holds of  *)
(* every argument follows because the set of exceptions has no least (or   *)
(* greatest) member.                                                       *)
(***************************************************************************)
EXTENDS MCPlan, MCPools, TileArithmetic, FiniteSetTheorems

-----------------------------------------------------------------------------
(***************************************************************************)
(* One schedule.                                                           *)
(***************************************************************************)
\* What makeTiledSchedule's operators return for a request of proper sizes.
LEMMA ScheduleTypes ==
    ASSUME NEW r \in TiledScheduleRequest, r.tileItems # 0
    PROVE  /\ TileCountOf(r) \in Nat
           /\ r.itemCount # 0 => TileCountOf(r) >= 1
           /\ UsefulLanes(r) \in Nat
           /\ r.itemCount # 0 => UsefulLanes(r) >= 1
           /\ BudgetApplies(r) => AffordableLanes(r) \in Nat
           /\ ActiveLanes(r) \in Nat
<1>1. /\ r.itemCount \in Nat /\ r.tileItems \in Nat \ {0}
      /\ r.requestedLanes \in Nat /\ r.bytesPerLane \in Nat
      /\ r.memoryBudgetBytes \in Nat
  BY SizeMaxAssumption DEF TiledScheduleRequest, Size
<1>2. /\ TileCountOf(r) \in Nat
      /\ r.itemCount # 0 => TileCountOf(r) >= 1
  <2>1. CASE r.itemCount = 0
    BY <2>1 DEF TileCountOf
  <2>2. CASE r.itemCount # 0
    <3> DEFINE d == r.itemCount \div r.tileItems
               m == r.itemCount % r.tileItems
    <3>1. /\ d \in Nat /\ m \in 0 .. (r.tileItems - 1)
          /\ r.itemCount = d * r.tileItems + m
      BY <1>1, DivMod
    <3>2. TileCountOf(r) = d + (IF m = 0 THEN 0 ELSE 1)
      BY <2>2 DEF TileCountOf, TilesFor
    <3> HIDE DEF d, m
    <3>3. d = 0 => m # 0
      BY <3>1, <1>1, <2>2, SMT
    <3> QED
      BY <3>1, <3>2, <3>3, SMT
  <2> QED
    BY <2>1, <2>2
<1>3. ConfiguredLanes(r) \in Nat /\ ConfiguredLanes(r) >= 1
  BY <1>1, SMT DEF ConfiguredLanes, FixedLaneCount
<1>4. /\ UsefulLanes(r) \in Nat
      /\ r.itemCount # 0 => UsefulLanes(r) >= 1
  BY <1>2, <1>3, SMT DEF UsefulLanes, Smaller
<1>5. BudgetApplies(r) => AffordableLanes(r) \in Nat
  BY <1>1, DivMod, SMT DEF BudgetApplies, AffordableLanes
<1>6. ActiveLanes(r) \in Nat
  BY <1>4, <1>5, SMT DEF ActiveLanes, Smaller
<1> QED
  BY <1>2, <1>4, <1>5, <1>6

\* An accepted schedule's peakLaneBytes is the exact product: it never wraps,
\* for every width of std::size_t.
THEOREM PeakNeverWraps ==
    ASSUME NEW r \in TiledScheduleRequest
    PROVE  PeakIsExact(r)
<1> SUFFICES ASSUME ScheduleError(r) = "none"
             PROVE  MakeTiledSchedule(r).peakLaneBytes =
                        ActiveLanes(r) * r.bytesPerLane
  BY DEF PeakIsExact
<1> DEFINE lanes == ActiveLanes(r)
           bytes == r.bytesPerLane
<1>1. r.tileItems # 0
  BY DEF ScheduleError
<1>2. bytes \in Nat /\ lanes \in Nat
  BY <1>1, ScheduleTypes, SizeMaxAssumption DEF TiledScheduleRequest, Size
<1>3. r.itemCount = 0 => lanes = 0
  BY DEF ActiveLanes
<1>4. r.itemCount # 0 => ~PeakOverflows(r)
  BY DEF ScheduleError
<1>5. MakeTiledSchedule(r).peakLaneBytes = (lanes * bytes) % (SizeMax + 1)
  BY DEF MakeTiledSchedule
<1>6. lanes * bytes \in 0 .. SizeMax
  <2>1. CASE lanes = 0 \/ bytes = 0
    BY <2>1, <1>2, SizeMaxAssumption, SMT
  <2>2. CASE lanes # 0 /\ bytes # 0
    <3>1. SizeMax \div bytes \in Nat
      BY <2>2, <1>2, SizeMaxAssumption, DivMod
    <3>2. lanes <= SizeMax \div bytes
      BY <3>1, <2>2, <1>2, <1>3, <1>4, SMT DEF PeakOverflows
    <3>3. lanes * bytes <= SizeMax
      BY <3>2, <2>2, <1>2, SizeMaxAssumption, Afford
    <3> HIDE DEF lanes, bytes
    <3> QED
      BY <3>3, <1>2, SMT
  <2> QED
    BY <2>1, <2>2
<1> HIDE DEF lanes, bytes
<1>7. (lanes * bytes) % (SizeMax + 1) = lanes * bytes
  <2> DEFINE n == lanes * bytes
  <2>1. n \in Nat /\ n \in 0 .. ((SizeMax + 1) - 1) /\ n = 0 * (SizeMax + 1) + n
    BY <1>6, SizeMaxAssumption, SMT
  <2>2. SizeMax + 1 \in Nat \ {0}
    BY SizeMaxAssumption, SMT
  <2> HIDE DEF n
  <2>3. (n % (SizeMax + 1)) = n
    BY <2>1, <2>2, DivModUnique
  <2> QED
    BY <2>3 DEF n
<1> QED
  BY <1>5, <1>7 DEF lanes, bytes

\* The lanes of an accepted schedule fit its budget together, and there is at
\* least one when there is work.
THEOREM ScheduleWithinBudget ==
    ASSUME NEW r \in TiledScheduleRequest
    PROVE  PeakWithinBudget(r)
<1> SUFFICES ASSUME ScheduleError(r) = "none"
             PROVE  /\ r.itemCount > 0 => ActiveLanes(r) > 0
                    /\ BudgetApplies(r) =>
                          ActiveLanes(r) * r.bytesPerLane
                              <= r.memoryBudgetBytes
  BY DEF PeakWithinBudget
<1> DEFINE lanes == ActiveLanes(r)
<1>1. r.tileItems # 0
  BY DEF ScheduleError
<1>2. /\ r.itemCount \in Nat /\ r.bytesPerLane \in Nat
      /\ r.memoryBudgetBytes \in Nat
  BY SizeMaxAssumption DEF TiledScheduleRequest, Size
<1>3. /\ r.itemCount # 0 => UsefulLanes(r) >= 1
      /\ UsefulLanes(r) \in Nat
      /\ BudgetApplies(r) => AffordableLanes(r) \in Nat
      /\ lanes \in Nat
  BY <1>1, ScheduleTypes
<1>4. r.itemCount # 0 /\ BudgetApplies(r)
          => AffordableLanes(r) # 0
  BY DEF ScheduleError
<1>5. r.itemCount > 0 => lanes > 0
  BY <1>2, <1>3, <1>4, SMT DEF ActiveLanes, Smaller
<1>6. ASSUME BudgetApplies(r)
      PROVE  lanes <= r.memoryBudgetBytes \div r.bytesPerLane
  <2>1. lanes <= AffordableLanes(r)
    BY <1>3, <1>6, SMT DEF ActiveLanes, Smaller
  <2> QED
    BY <2>1 DEF AffordableLanes
<1>7. ASSUME BudgetApplies(r)
      PROVE  lanes * r.bytesPerLane <= r.memoryBudgetBytes
  <2>1. r.bytesPerLane \in Nat \ {0}
    BY <1>7, <1>2 DEF BudgetApplies
  <2> HIDE DEF lanes
  <2> QED
    BY <2>1, <1>2, <1>3, <1>6, <1>7, Afford
<1> QED
  BY <1>5, <1>7

-----------------------------------------------------------------------------
\* Tile n of a view begins before the view ends.
LEMMA TileBegins ==
    ASSUME NEW items \in Nat, NEW k \in Nat \ {0},
           NEW n \in 0 .. TilesFor(items, k) - 1
    PROVE  TileFirst(n, k) \in 0 .. items - 1
<1> DEFINE d == items \div k
           m == items % k
<1>1. d \in Nat /\ m \in 0 .. (k - 1) /\ items = d * k + m
  BY DivMod
<1>2. TilesFor(items, k) = d + (IF m = 0 THEN 0 ELSE 1)
  BY DEF TilesFor
<1> HIDE DEF d, m
<1>3. n \in Nat /\ n <= d /\ (m = 0 => n < d)
  BY <1>1, <1>2, SMT
<1>4. CASE n < d
  <2>1. n * k + k <= d * k /\ n * k \in Nat /\ d * k \in Nat
    BY <1>1, <1>3, <1>4, TimesMonotone
  <2> QED
    BY <2>1, <1>1, SMT DEF TileFirst
<1>5. CASE n = d
  <2>1. m > 0 /\ d * k \in Nat
    BY <1>1, <1>3, <1>5, SMT
  <2> QED
    BY <2>1, <1>1, <1>5, SMT DEF TileFirst
<1> QED
  BY <1>3, <1>4, <1>5, <1>1, SMT

\* An item belongs to the tile its index divided by the capacity names, and to
\* no other.
LEMMA TileOfItem ==
    ASSUME NEW items \in Nat, NEW k \in Nat \ {0}, NEW i \in 0 .. items - 1
    PROVE  /\ i \div k \in 0 .. TilesFor(items, k) - 1
           /\ i \in TileItems(i \div k, items, k)
           /\ \A u \in Nat : i \in TileItems(u, items, k) => u = i \div k
<1> DEFINE d == items \div k
           m == items % k
           q == i \div k
           r == i % k
<1>1. d \in Nat /\ m \in 0 .. (k - 1) /\ items = d * k + m
  BY DivMod
<1>2. q \in Nat /\ r \in 0 .. (k - 1) /\ i = q * k + r
  <2>1. i \in Nat
    BY SMT
  <2> QED
    BY <2>1, DivMod
<1>3. TilesFor(items, k) = d + (IF m = 0 THEN 0 ELSE 1)
  BY DEF TilesFor
<1>4. ASSUME NEW u \in Nat, i \in TileItems(u, items, k)
      PROVE  u = q
  <2>1. u * k \in Nat /\ u * k <= i /\ i < u * k + k
    BY <1>4, SMT DEF TileItems, TileFirst, TileSize, Smaller
  <2>2. i - u * k \in 0 .. (k - 1) /\ i = u * k + (i - u * k)
    BY <2>1, SMT
  <2> QED
    BY <2>2, DivModUnique
<1> HIDE DEF d, m, q, r
<1>5. q \in 0 .. TilesFor(items, k) - 1
  <2>1. q * k \in Nat /\ d * k \in Nat
    BY <1>1, <1>2, SMT
  <2>2. q <= d
    <3>1. CASE d < q
      <4>1. d * k + k <= q * k
        BY <3>1, <1>1, <1>2, TimesMonotone
      <4> QED
        BY <4>1, <2>1, <1>1, <1>2, SMT
    <3> QED
      BY <3>1, <1>1, <1>2, SMT
  <2>3. m = 0 => q # d
    BY <2>1, <1>1, <1>2, SMT
  <2> QED
    BY <2>2, <2>3, <1>1, <1>2, <1>3, SMT
<1>6. i \in TileItems(q, items, k)
  <2>1. q * k \in Nat
    BY <1>2, SMT
  <2> QED
    BY <2>1, <1>2, SMT DEF TileItems, TileFirst, TileSize, Smaller
<1> QED
  BY <1>4, <1>5, <1>6 DEF q

\* The tiles an accepted schedule counts hold every item exactly once, and
\* none is empty.
THEOREM TilesCutTheItems ==
    ASSUME NEW r \in TiledScheduleRequest
    PROVE  EachItemOnce(r)
<1> DEFINE items == r.itemCount
           k == r.tileItems
           tiles == 0 .. TileCountOf(r) - 1
           itemsOf(n) == TileItems(n, items, k)
<1> SUFFICES ASSUME ScheduleError(r) = "none"
             PROVE  /\ \A n \in tiles : itemsOf(n) # {}
                    /\ \A i \in 0 .. items - 1 :
                          \E n \in tiles :
                              /\ i \in itemsOf(n)
                              /\ \A u \in tiles \ {n} : i \notin itemsOf(u)
  BY DEF EachItemOnce
<1>1. items \in Nat /\ k \in Nat \ {0}
  BY SizeMaxAssumption DEF TiledScheduleRequest, Size, ScheduleError
<1>2. items # 0 => TileCountOf(r) = TilesFor(items, k)
  BY DEF TileCountOf
<1>3. items = 0 => tiles = {} /\ 0 .. items - 1 = {}
  BY SMT DEF TileCountOf
<1>4. ASSUME NEW n \in tiles
      PROVE  itemsOf(n) # {}
  <2>1. items # 0 /\ n \in 0 .. TilesFor(items, k) - 1
    BY <1>2, <1>3, <1>4
  <2>2. TileFirst(n, k) \in 0 .. items - 1
    BY <2>1, <1>1, TileBegins
  <2>3. TileFirst(n, k) \in itemsOf(n)
    BY <2>2, <1>1, SMT DEF TileItems, TileSize, Smaller
  <2> QED
    BY <2>3
<1>5. ASSUME NEW i \in 0 .. items - 1
      PROVE  \E n \in tiles :
                /\ i \in itemsOf(n)
                /\ \A u \in tiles \ {n} : i \notin itemsOf(u)
  <2>1. items # 0
    BY <1>3, <1>5
  <2>2. /\ i \div k \in tiles
        /\ i \in itemsOf(i \div k)
        /\ \A u \in Nat : i \in itemsOf(u) => u = i \div k
    BY <2>1, <1>1, <1>2, TileOfItem
  <2>3. tiles \subseteq Nat
    BY <1>1, SMT
  <2> QED
    BY <2>2, <2>3
<1> QED
  BY <1>4, <1>5

-----------------------------------------------------------------------------
(***************************************************************************)
(* The lanes that serve it.                                                *)
(***************************************************************************)
\* How many lanes have held one of the first n tiles.
LanesUsed(n) == Smaller(n, ActiveLanes(request))

Accepted == planned = "schedule" /\ ScheduleError(request) = "none"

\* The tiles are dealt out in order: until every lane has one they open a new
\* lane each, and from then on every tile finds its lane used.
ServingInv ==
    /\ request \in Requests
    /\ tile \in Nat
    /\ Accepted =>
          /\ tile <= TileCountOf(request)
          /\ occupied = 0 .. LanesUsed(tile) - 1
          /\ reuses = tile - LanesUsed(tile)

-----------------------------------------------------------------------------
\* What is tried is what makeTiledSchedule may be asked, and something is.
LEMMA RequestsProper ==
    /\ Requests \subseteq TiledScheduleRequest
    /\ Requests # {}
<1>1. Requests \subseteq TiledScheduleRequest
  BY LaneAssumption DEF Requests, TiledScheduleRequest
<1>2. PICK lanes \in LaneChoices : TRUE
  BY LaneAssumption
<1> DEFINE r == [itemCount |-> 0, tileItems |-> 0, requestedLanes |-> lanes,
                 serialDependency |-> FALSE, bytesPerLane |-> 0,
                 memoryBudgetBytes |-> 0]
<1>3. 0 \in Size
  BY SizeMaxAssumption, SMT DEF Size
<1>4. r \in Requests
  BY <1>3 DEF Requests
<1> QED
  BY <1>1, <1>4

\* No lane of an accepted schedule is without a tile.
LEMMA LanesWithinTiles ==
    ASSUME NEW r \in TiledScheduleRequest, ScheduleError(r) = "none"
    PROVE  /\ TileCountOf(r) \in Nat /\ ActiveLanes(r) \in Nat
           /\ ActiveLanes(r) <= TileCountOf(r)
           /\ TileCountOf(r) > 0 => ActiveLanes(r) > 0
<1>1. r.tileItems # 0
  BY DEF ScheduleError
<1>2. /\ TileCountOf(r) \in Nat
      /\ r.itemCount # 0 => TileCountOf(r) >= 1
      /\ UsefulLanes(r) \in Nat
      /\ BudgetApplies(r) => AffordableLanes(r) \in Nat
      /\ ActiveLanes(r) \in Nat
  BY <1>1, ScheduleTypes
<1>3. r.itemCount \in Nat /\ (r.itemCount > 0 => ActiveLanes(r) > 0)
  BY ScheduleWithinBudget, SizeMaxAssumption
  DEF PeakWithinBudget, TiledScheduleRequest, Size
<1>4. CASE r.itemCount = 0
  BY <1>4 DEF TileCountOf, ActiveLanes
<1>5. CASE r.itemCount # 0
  <2>1. ConfiguredLanes(r) \in Nat
    BY SizeMaxAssumption DEF ConfiguredLanes, FixedLaneCount, TiledScheduleRequest, Size
  <2>2. UsefulLanes(r) <= TileCountOf(r)
    BY <1>2, <1>5, <2>1, SMT DEF UsefulLanes, Smaller
  <2>3. ActiveLanes(r) <= UsefulLanes(r)
    BY <1>2, <1>5, SMT DEF ActiveLanes, Smaller
  <2> QED
    BY <1>2, <1>3, <1>5, <2>2, <2>3, SMT
<1> QED
  BY <1>4, <1>5

\* The next tile's lane is the first one without a tile, or one that has had one.
LEMMA TileTaken ==
    ASSUME ServingInv, Serve
    PROVE  ServingInv'
<1> DEFINE lanes == ActiveLanes(request)
           lane == LaneFor(tile, lanes)
<1>1. /\ request \in TiledScheduleRequest /\ Accepted /\ tile \in Nat
      /\ occupied = 0 .. LanesUsed(tile) - 1
      /\ reuses = tile - LanesUsed(tile)
      /\ tile < TileCountOf(request)
      /\ tile' = tile + 1 /\ request' = request /\ planned' = planned
  BY RequestsProper DEF Serve, ServingInv, Accepted
<1>2. /\ TileCountOf(request) \in Nat
      /\ lanes \in Nat \ {0}
  <2>1. TileCountOf(request) \in Nat /\ lanes \in Nat
        /\ (TileCountOf(request) > 0 => lanes > 0)
    BY <1>1, LanesWithinTiles DEF Accepted
  <2> HIDE DEF lanes
  <2> QED
    BY <1>1, <2>1, SMT
<1>3. /\ occupied' = occupied \cup {lane}
      /\ reuses' = IF lane \in occupied THEN reuses + 1 ELSE reuses
  BY DEF Serve
<1>4. ASSUME NEW n \in Nat PROVE LanesUsed(n) = IF n <= lanes THEN n ELSE lanes
  BY DEF LanesUsed, Smaller
<1>5. LanesUsed(tile)' = LanesUsed(tile + 1)
  BY <1>1 DEF LanesUsed
<1> HIDE DEF lane
<1>6. CASE tile < lanes
  <2>1. lane = tile
    <3>1. tile \in 0 .. lanes - 1 /\ tile = 0 * lanes + tile /\ 0 \in Nat
      BY <1>1, <1>2, <1>6, SMT
    <3>2. (tile % lanes) = tile
      BY <1>1, <1>2, <3>1, DivModUnique
    <3> QED
      BY <3>2 DEF lane, LaneFor
  <2>2. LanesUsed(tile) = tile /\ LanesUsed(tile + 1) = tile + 1
    BY <1>1, <1>2, <1>4, <1>6, SMT
  <2>3. lane \notin occupied /\ 0 .. (tile + 1) - 1 = occupied \cup {lane}
    BY <1>1, <2>1, <2>2, SMT
  <2> QED
    BY <1>1, <1>2, <1>3, <1>5, <2>2, <2>3, SMT DEF ServingInv, Accepted
<1>7. CASE tile >= lanes
  <2>1. lane \in 0 .. lanes - 1
    BY <1>1, <1>2, DivMod DEF lane, LaneFor
  <2>2. LanesUsed(tile) = lanes /\ LanesUsed(tile + 1) = lanes
    BY <1>1, <1>2, <1>4, <1>7, SMT
  <2>3. lane \in occupied /\ occupied' = occupied /\ reuses' = reuses + 1
    BY <1>1, <1>3, <2>1, <2>2
  <2> QED
    BY <1>1, <1>2, <1>5, <2>2, <2>3, SMT DEF ServingInv, Accepted
<1> QED
  BY <1>1, <1>2, <1>6, <1>7, SMT

LEMMA ServingStarts == PlanInit => ServingInv
<1> SUFFICES ASSUME PlanInit PROVE ServingInv
  OBVIOUS
<1>1. tile = 0 /\ occupied = {} /\ reuses = 0 /\ request \in Requests
  BY RequestsProper DEF PlanInit, SomeRequest
<1>2. ASSUME Accepted PROVE LanesUsed(0) = 0 /\ TileCountOf(request) \in Nat
  BY <1>1, <1>2, RequestsProper, LanesWithinTiles, SMT DEF LanesUsed, Smaller, Accepted
<1>3. 0 .. 0 - 1 = {}
  BY SMT
<1> QED
  BY <1>1, <1>2, <1>3 DEF ServingInv

LEMMA ServingStep == ServingInv /\ [PlanNext]_planVars => ServingInv'
<1> SUFFICES ASSUME ServingInv, [PlanNext]_planVars PROVE ServingInv'
  OBVIOUS
<1>1. CASE Serve
  BY <1>1, TileTaken
<1>2. CASE ~Serve
  <2>1. UNCHANGED <<planned, request, tile, occupied, reuses>>
    BY <1>2 DEF PlanNext, OfPipeline, Served, OfProgram, planVars, servingVars
  <2> QED
    BY <2>1 DEF ServingInv, Accepted, LanesUsed
<1> QED
  BY <1>1, <1>2

\* ServingHolds: the lanes that have held a tile, and how often one was reused,
\* are what the number of the tile says.
THEOREM ServingHolds == PlanSpec => []ServingInv
  BY ServingStarts, ServingStep, PTL DEF PlanSpec

\* BudgetKept: whatever schedule is served, its peak is the exact product and
\* its lanes fit the budget together.
THEOREM BudgetKept == PlanSpec => []WithinBudget
<1>1. ServingInv => WithinBudget
  BY RequestsProper, PeakNeverWraps, ScheduleWithinBudget DEF ServingInv, WithinBudget
<1> QED
  BY <1>1, ServingHolds, PTL

\* LanesCounted: once its tiles are served, every active lane has held one and
\* laneReuseCount is the number of tiles that found their lane used; every item
\* was in one tile.
THEOREM LanesCounted == PlanSpec => []ItemsOnce
<1>1. ServingInv => ItemsOnce
  <2> SUFFICES ASSUME ServingInv PROVE ItemsOnce
    OBVIOUS
  <2> DEFINE lanes == ActiveLanes(request)
             tiles == TileCountOf(request)
  <2>1. request \in TiledScheduleRequest
    BY RequestsProper DEF ServingInv
  <2>2. EachItemOnce(request)
    BY <2>1, TilesCutTheItems
  <2>3. ASSUME Accepted, tile = tiles
        PROVE  /\ Cardinality(occupied) = lanes
               /\ reuses = MakeTiledSchedule(request).laneReuseCount
    <3>1. tiles \in Nat /\ lanes \in Nat /\ lanes <= tiles
      BY <2>1, <2>3, LanesWithinTiles DEF Accepted
    <3>2. LanesUsed(tile) = lanes
      BY <2>3, <3>1, SMT DEF LanesUsed, Smaller
    <3>3. occupied = 0 .. lanes - 1 /\ reuses = tiles - lanes
      BY <2>3, <3>2 DEF ServingInv
    <3>4. MakeTiledSchedule(request).laneReuseCount =
              IF tiles > lanes THEN tiles - lanes ELSE 0
      BY DEF MakeTiledSchedule
    <3> HIDE DEF lanes, tiles
    <3>5. Cardinality(0 .. lanes - 1) = lanes
      <4>1. 0 \in Int /\ lanes - 1 \in Int
        BY <3>1, SMT
      <4>2. Cardinality(0 .. lanes - 1) =
                IF 0 > lanes - 1 THEN 0 ELSE (lanes - 1) - 0 + 1
        BY <4>1, FS_Interval
      <4> QED
        BY <3>1, <4>2, SMT
    <3> QED
      BY <3>1, <3>3, <3>4, <3>5, SMT
  <2> QED
    BY <2>2, <2>3 DEF ItemsOnce, Accepted
<1> QED
  BY <1>1, ServingHolds, PTL

-----------------------------------------------------------------------------
(***************************************************************************)
(* The slots: their shares of the rows.                                    *)
(***************************************************************************)
\* The shares: quotient and remainder of the rows by the slots.
LEMMA SharesOfSlots ==
    /\ RowsPerSlot \in Nat
    /\ Remainder \in 0 .. SlotCount - 1
    /\ RowCount = RowsPerSlot * SlotCount + Remainder
<1>1. SlotCount \in Nat \ {0} /\ RowCount \in Nat
  BY SlotsAssumption
<1> QED
  BY <1>1, DivMod DEF RowsPerSlot, Remainder

\* A smaller multiple is smaller.
LEMMA MultipleLess ==
    ASSUME NEW x \in Nat, NEW y \in Nat, NEW k \in Nat, x * k < y * k
    PROVE  x < y
<1>1. SUFFICES ASSUME y <= x PROVE FALSE
  OBVIOUS
<1>2. x * k = y * k + (x - y) * k
  BY SMT
<1>3. (x - y) * k >= 0
  BY <1>1, SMT
<1>4. y * k \in Nat /\ x * k \in Nat
  BY SMT
<1> QED
  BY <1>2, <1>3, <1>4, SMT

\* The ranges of the slots lie in the batch.
LEMMA SlotRanges ==
    ASSUME NEW s \in Slots
    PROVE  /\ SlotBegin(s) \in Nat
           /\ SlotEnd(s) \in Nat
           /\ SlotBegin(s) <= SlotEnd(s)
           /\ SlotEnd(s) <= RowCount
<1> DEFINE q == RowsPerSlot
           m == Remainder
<1>1. /\ q \in Nat /\ m \in 0 .. SlotCount - 1 /\ RowCount = q * SlotCount + m
      /\ SlotCount \in Nat \ {0} /\ RowCount \in Nat /\ s \in 0 .. SlotCount - 1
  BY SharesOfSlots, SlotsAssumption DEF Slots
<1>2. SlotBegin(s) = s * q + (IF s <= m THEN s ELSE m)
  BY DEF SlotBegin, SmallerOf
<1>3. SlotEnd(s) = SlotBegin(s) + q + (IF s < m THEN 1 ELSE 0)
  BY DEF SlotEnd
<1> HIDE DEF q, m
<1>4. q * SlotCount = (s * q + q) + (SlotCount - (s + 1)) * q
  BY <1>1, SMT
<1>5. s * q \in Nat /\ (SlotCount - (s + 1)) * q >= 0 /\ q * SlotCount \in Nat
  BY <1>1, SMT
<1> QED
  BY <1>1, <1>2, <1>3, <1>4, <1>5, SMT

\* They are disjoint and ascend with the slots.
LEMMA SlotsAscend ==
    ASSUME NEW s \in Slots, NEW u \in Slots, s < u
    PROVE  SlotEnd(s) <= SlotBegin(u)
<1> DEFINE q == RowsPerSlot
           m == Remainder
<1>1. /\ q \in Nat /\ m \in 0 .. SlotCount - 1
      /\ SlotCount \in Nat \ {0}
      /\ s \in 0 .. SlotCount - 1 /\ u \in 0 .. SlotCount - 1
  BY SharesOfSlots, SlotsAssumption DEF Slots
<1>2. /\ SlotBegin(s) = s * q + (IF s <= m THEN s ELSE m)
      /\ SlotBegin(u) = u * q + (IF u <= m THEN u ELSE m)
  BY DEF SlotBegin, SmallerOf
<1>3. SlotEnd(s) = SlotBegin(s) + q + (IF s < m THEN 1 ELSE 0)
  BY DEF SlotEnd
<1> HIDE DEF q, m
<1>4. u * q = (s * q + q) + (u - (s + 1)) * q
  BY <1>1, SMT
<1>5. s * q \in Nat /\ (u - (s + 1)) * q >= 0 /\ u * q \in Nat
  BY <1>1, SMT
<1> QED
  BY <1>1, <1>2, <1>3, <1>4, <1>5, SMT

\* Every row of the batch belongs to a slot.
LEMMA SlotsCover ==
    ASSUME NEW r \in Rows
    PROVE  \E s \in Slots : r \in SlotBegin(s) .. SlotEnd(s) - 1
<1> DEFINE q == RowsPerSlot
           m == Remainder
<1>1. /\ q \in Nat /\ m \in 0 .. SlotCount - 1 /\ RowCount = q * SlotCount + m
      /\ SlotCount \in Nat \ {0} /\ RowCount \in Nat /\ r \in 0 .. RowCount - 1
  BY SharesOfSlots, SlotsAssumption DEF Rows
<1>2. ASSUME NEW s \in Slots
      PROVE  /\ SlotBegin(s) = s * q + (IF s <= m THEN s ELSE m)
             /\ SlotEnd(s) = SlotBegin(s) + q + (IF s < m THEN 1 ELSE 0)
  BY DEF SlotBegin, SlotEnd, SmallerOf
<1> HIDE DEF q, m
<1>3. CASE r < m * (q + 1)
  <2> DEFINE s == r \div (q + 1)
  <2>1. q + 1 \in Nat \ {0} /\ r \in Nat /\ m \in Nat
    BY <1>1, SMT
  <2>2. /\ s \in Nat /\ (r % (q + 1)) \in 0 .. ((q + 1) - 1)
        /\ r = s * (q + 1) + (r % (q + 1))
    BY <2>1, DivMod
  <2> HIDE DEF s
  <2>3. s * (q + 1) = s * q + s /\ s * (q + 1) \in Nat /\ m * (q + 1) \in Nat
    BY <2>1, <2>2, <1>1, SMT
  <2>4. s * (q + 1) <= r /\ r < s * (q + 1) + q + 1
    BY <2>2, <2>3, <1>1, SMT
  <2>5. s < m
    <3>1. s * (q + 1) < m * (q + 1)
      BY <2>3, <2>4, <1>3, <1>1, SMT
    <3> QED
      BY <3>1, <2>1, <2>2, MultipleLess
  <2>6. s \in Slots
    BY <2>5, <2>2, <1>1, SMT DEF Slots
  <2>7. SlotBegin(s) = s * (q + 1) /\ SlotEnd(s) = s * (q + 1) + q + 1
    BY <1>2, <2>6, <2>5, <2>3, <2>2, <1>1, SMT
  <2> QED
    BY <2>4, <2>6, <2>7, <2>2, <2>3, <1>1, SMT
<1>4. CASE r >= m * (q + 1)
  <2> DEFINE over == r - m * (q + 1)
             d == over \div q
             s == m + d
  <2>1. m * (q + 1) = m * q + m /\ m * q \in Nat /\ q * SlotCount \in Nat
    BY <1>1, SMT
  <2>2. q \in Nat \ {0}
    <3>1. CASE q = 0
      <4>1. q * SlotCount = 0 /\ m * q = 0
        BY <3>1, <1>1, SMT
      <4> QED
        BY <4>1, <2>1, <1>1, <1>4, SMT
    <3> QED
      BY <3>1, <1>1
  <2>3. over \in Nat
    BY <2>1, <1>1, <1>4, SMT
  <2>4. d \in Nat /\ (over % q) \in 0 .. q - 1 /\ over = d * q + (over % q)
    BY <2>2, <2>3, DivMod
  <2> HIDE DEF d
  <2>5. s * q = m * q + d * q /\ d * q \in Nat /\ s \in Nat /\ s * q \in Nat
    BY <2>4, <1>1, SMT
  <2> HIDE DEF s
  <2>6. s * q + m <= r /\ r < s * q + m + q
    BY <2>1, <2>4, <2>5, <1>1, SMT
  <2>7. s < SlotCount
    <3>1. s * q < SlotCount * q
      BY <2>6, <2>5, <2>1, <1>1, SMT
    <3> QED
      BY <3>1, <2>5, <1>1, MultipleLess
  <2>8. s \in Slots /\ ~(s < m)
    <3>1. s >= m
      BY <2>4, <1>1, SMT DEF s
    <3> QED
      BY <3>1, <2>7, <2>5, <1>1, SMT DEF Slots
  <2>9. SlotBegin(s) = s * q + m /\ SlotEnd(s) = s * q + m + q
    BY <1>2, <2>8, <2>5, <1>1, SMT
  <2> QED
    BY <2>6, <2>8, <2>9, <2>5, <1>1, SMT
<1> QED
  BY <1>3, <1>4, <1>1, SMT

-----------------------------------------------------------------------------
\* The caller is inside run(), and has not seen its end.
Waits == caller \in {"notifying", "waiting", "asleep"}

CallInv ==
    /\ m_stop <=> caller \in {"stopping", "joining", "gone"}
    /\ ~m_stop => m_generation <= MaxRuns
    /\ Waits => /\ m_generation > 0
                /\ m_task = m_generation
                /\ m_pending = Cardinality(Unfinished)
    /\ ~Waits => /\ m_task = None
                 /\ m_pending = 0
                 /\ \A s \in Slots : pc[s] \notin {"running", "finishing"}
    /\ caller \in {"outside", "returning"} =>
          \A s \in Slots : seen[s] = m_generation

\* A slot inside its task, or about to count itself out, has taken the current
\* run; the threads leave only when the pool is destroyed.
SlotInv ==
    \A s \in Slots :
        /\ pc[s] \in {"running", "finishing"} => seen[s] = m_generation
        /\ pc[s] = "running" => task[s] = m_generation
        /\ pc[s] = "exited" => m_stop

Control == TypeOK /\ CallInv /\ SlotInv

\* The constructor establishes Control.
LEMMA InitControl == Init => Control
<1> SUFFICES ASSUME Init PROVE Control
  OBVIOUS
<1>1. MaxRuns \in Nat /\ RowCount \in Nat /\ SlotCount \in Nat \ {0}
  BY SlotsAssumption
<1>2. TypeOK
  <2>1. /\ 0 \in 0 .. MaxRuns + 1 /\ 0 \in 0 .. SlotCount /\ 0 \in 0 .. RowCount
        /\ 0 \in Nat
    BY <1>1, SMT
  <2> QED
    BY <2>1 DEF Init, TypeOK
<1>3. CallInv /\ SlotInv
  BY <1>1, SMT DEF Init, CallInv, SlotInv, Waits, None
<1> QED
  BY <1>2, <1>3 DEF Control

\* m_pending counts the slots that have still to finish.
LEMMA PendingCounts ==
    /\ IsFiniteSet(Unfinished)
    /\ Cardinality(Unfinished) \in 0 .. SlotCount
    /\ Cardinality(Unfinished) = 0 <=> Unfinished = {}
    /\ Cardinality(Slots) = SlotCount
<1>1. SlotCount \in Nat \ {0}
  BY SlotsAssumption
<1>2. IsFiniteSet(Slots) /\ Cardinality(Slots) = SlotCount
  <2>1. 0 \in Int /\ SlotCount - 1 \in Int /\ 0 <= SlotCount - 1 + 1
    BY <1>1, SMT
  <2>2. /\ IsFiniteSet(0 .. SlotCount - 1)
        /\ Cardinality(0 .. SlotCount - 1) = IF 0 > SlotCount - 1 THEN 0 ELSE SlotCount - 1 - 0 + 1
    BY <2>1, FS_Interval
  <2> QED
    BY <2>2, <1>1, SMT DEF Slots
<1>3. Unfinished \subseteq Slots
  BY DEF Unfinished
<1>4. IsFiniteSet(Unfinished) /\ Cardinality(Unfinished) <= Cardinality(Slots)
  BY <1>2, <1>3, FS_Subset
<1>5. Cardinality(Unfinished) \in Nat
  BY <1>4, FS_CardinalityType
<1>6. Cardinality(Unfinished) = 0 <=> Unfinished = {}
  BY <1>4, FS_EmptySet
<1> QED
  BY <1>1, <1>2, <1>4, <1>5, <1>6, SMT

\* The slot whose exception run() rethrows.
FirstSlot == CHOOSE s \in Slots :
                /\ m_errors[s] # None
                /\ \A u \in Slots : u < s => m_errors[u] = None

\* It exists when some slot caught an exception.
LEMMA FirstError ==
    ASSUME \E s \in Slots : m_errors[s] # None
    PROVE  /\ FirstSlot \in Slots
           /\ m_errors[FirstSlot] # None
           /\ \A u \in Slots : u < FirstSlot => m_errors[u] = None
<1> DEFINE T == {u \in Slots : m_errors[u] # None}
<1>1. T \in SUBSET Nat /\ T # {}
  BY SlotsAssumption, SMT DEF Slots
<1>2. PICK m \in T : \A u \in T : m <= u
  BY <1>1, LeastMember
<1>3. /\ m \in Slots /\ m_errors[m] # None
      /\ \A u \in Slots : u < m => m_errors[u] = None
  BY <1>1, <1>2, SMT DEF Slots
<1> QED
  BY <1>3 DEF FirstSlot

\* Every step of the caller or a slot keeps Control.
LEMMA ControlStep == Control /\ [Next]_vars => Control'
<1> SUFFICES ASSUME Control, [Next]_vars PROVE Control'
  OBVIOUS
<1> USE DEF Control
<1>1. MaxRuns \in Nat /\ RowCount \in Nat /\ SlotCount \in Nat \ {0}
  BY SlotsAssumption
<1>2. CASE Run
  <2>1. TypeOK'
    <3>1. m_pending' \in 0 .. SlotCount /\ m_generation' \in 0 .. MaxRuns + 1
          /\ m_task' \in 1 .. MaxRuns
      BY <1>1, <1>2, SMT DEF Run, TypeOK
    <3>2. m_errors' \in [Slots -> {None} \cup Rows]
      BY <1>2 DEF Run, ClearedErrors
    <3>3. processed' \in [Rows -> Nat] /\ failing' \in SUBSET Rows
      BY <1>2 DEF Run
    <3> QED
      BY <1>2, <3>1, <3>2, <3>3 DEF Run, TypeOK, workers
  <2>2. Unfinished' = Slots
    BY <1>2, SMT DEF Run, CallInv, TypeOK, Unfinished, workers
  <2>3. CallInv'
    BY <1>1, <1>2, <2>2, PendingCounts, SMT DEF Run, CallInv, TypeOK, Waits
  <2>4. SlotInv'
    BY <1>2, SMT DEF Run, SlotInv, CallInv, TypeOK, workers, Waits
  <2> QED
    BY <2>1, <2>3, <2>4
<1>3. CASE Notify
  <2>1. TypeOK'
    BY <1>1, <1>3, SMT DEF Notify, TypeOK, Woken
  <2>2. \A s \in Slots : /\ pc'[s] \in {"running", "finishing", "exited"} => pc[s] = pc'[s]
                         /\ pc[s] \in {"running", "finishing", "exited"} => pc[s] = pc'[s]
    BY <1>3 DEF Notify, Woken, TypeOK
  <2>3. Unfinished' = Unfinished
    BY <1>3, <2>2 DEF Notify, Unfinished
  <2>4. CallInv'
    BY <1>3, <2>2, <2>3, SMT DEF Notify, CallInv, TypeOK, Waits
  <2>5. SlotInv'
    BY <1>3, <2>2 DEF Notify, SlotInv
  <2> QED
    BY <2>1, <2>4, <2>5
<1>4. CASE WaitDone
  <2>1. TypeOK'
    BY <1>1, <1>4, SMT DEF WaitDone, TypeOK, workers, None
  <2>2. Unfinished' = Unfinished
    BY <1>4 DEF WaitDone, Unfinished, workers
  <2>3. AllDone => \A s \in Slots : seen[s] = m_generation /\ pc[s] \notin {"running", "finishing"}
    BY <1>4, PendingCounts DEF WaitDone, AllDone, CallInv, Waits, Unfinished
  <2>4. CallInv'
    BY <1>4, <2>2, <2>3, SMT DEF WaitDone, AllDone, CallInv, TypeOK, Waits, workers
  <2>5. SlotInv'
    BY <1>4 DEF WaitDone, SlotInv, workers
  <2> QED
    BY <2>1, <2>4, <2>5
<1>5. CASE Rethrow
  <2>1. raised' \in {None} \cup Rows
    <3>1. CASE \A s \in Slots : m_errors[s] = None
      BY <1>5, <3>1 DEF Rethrow
    <3>2. CASE \E s \in Slots : m_errors[s] # None
      BY <1>5, <3>2, FirstError DEF Rethrow, TypeOK, FirstSlot
    <3> QED
      BY <3>1, <3>2
  <2>2. TypeOK'
    BY <1>5, <2>1 DEF Rethrow, TypeOK, workers
  <2>3. Unfinished' = Unfinished
    BY <1>5 DEF Rethrow, Unfinished, workers
  <2>4. CallInv' /\ SlotInv'
    BY <1>5, SMT DEF Rethrow, CallInv, SlotInv, TypeOK, Waits, workers
  <2> QED
    BY <2>2, <2>4
<1>6. CASE Destroy
  <2>1. TypeOK'
    BY <1>1, <1>6, SMT DEF Destroy, TypeOK, CallInv, workers
  <2>2. CallInv' /\ SlotInv'
    BY <1>6, SMT DEF Destroy, CallInv, SlotInv, TypeOK, Waits, workers
  <2> QED
    BY <2>1, <2>2
<1>7. CASE Join
  <2>1. TypeOK'
    BY <1>7 DEF Join, TypeOK, workers
  <2>2. CallInv' /\ SlotInv'
    BY <1>7, SMT DEF Join, CallInv, SlotInv, TypeOK, Waits, workers
  <2> QED
    BY <2>1, <2>2
<1>8. ASSUME NEW s \in Slots, Wake(s) PROVE Control'
  <2>1. CASE ~NewGeneration(s)
    <3>1. TypeOK'
      BY <1>8, <2>1 DEF Wake, TypeOK
    <3>2. Unfinished' = Unfinished
      BY <1>8, <2>1 DEF Wake, Unfinished, TypeOK
    <3>3. CallInv' /\ SlotInv'
      BY <1>8, <2>1, <3>2, SMT DEF Wake, CallInv, SlotInv, TypeOK, Waits
    <3> QED
      BY <3>1, <3>3
  <2>2. CASE NewGeneration(s) /\ m_stop
    <3>1. TypeOK'
      BY <1>8, <2>2 DEF Wake, TypeOK
    <3>2. CallInv' /\ SlotInv'
      BY <1>8, <2>2, SMT DEF Wake, CallInv, SlotInv, TypeOK, Waits
    <3> QED
      BY <3>1, <3>2
  <2>3. CASE NewGeneration(s) /\ ~m_stop
    <3>1. Waits /\ m_task = m_generation /\ m_task # None
      BY <2>3, SMT DEF CallInv, TypeOK, NewGeneration, Waits, None
    <3>2. SlotBegin(s) \in 0 .. RowCount
      BY SlotRanges, <1>1, SMT
    <3>3. /\ pc' = [pc EXCEPT ![s] = "running"]
          /\ task' = [task EXCEPT ![s] = m_task]
          /\ row' = [row EXCEPT ![s] = SlotBegin(s)]
          /\ seen' = [seen EXCEPT ![s] = m_generation]
          /\ UNCHANGED <<caller, m_generation, m_pending, m_stop, m_task,
                         m_errors, failing, processed, raised>>
      BY <1>8, <2>3, <3>1 DEF Wake
    <3>4. TypeOK'
      BY <3>2, <3>3 DEF TypeOK
    <3>5. Unfinished' = Unfinished
      BY <2>3, <3>3 DEF Unfinished, TypeOK, NewGeneration
    <3>6. CallInv' /\ SlotInv'
      BY <3>1, <3>3, <3>5, SMT DEF CallInv, SlotInv, TypeOK, Waits
    <3> QED
      BY <3>4, <3>6
  <2> QED
    BY <2>1, <2>2, <2>3
<1>9. ASSUME NEW s \in Slots, Step(s) PROVE Control'
  <2>1. SlotEnd(s) \in Nat /\ SlotEnd(s) <= RowCount
    BY SlotRanges
  <2>2. row[s] \in Rows /\ row[s] + 1 \in 0 .. RowCount
    BY <1>1, <1>9, <2>1, SMT DEF Step, TypeOK, Rows
  <2>3. TypeOK'
    <3>1. processed' \in [Rows -> Nat]
      BY <1>9, <2>2, SMT DEF Step, TypeOK
    <3>2. /\ m_errors' \in [Slots -> {None} \cup Rows]
          /\ pc' \in [Slots -> {"waking", "asleep", "running", "finishing", "exited"}]
          /\ row' \in [Slots -> 0 .. RowCount]
      BY <1>9, <2>2 DEF Step, TypeOK
    <3> QED
      BY <1>9, <3>1, <3>2 DEF Step, TypeOK
  <2>4. Unfinished' = Unfinished
    BY <1>9 DEF Step, Unfinished, TypeOK
  <2>5. CallInv' /\ SlotInv'
    BY <1>9, <2>4, SMT DEF Step, CallInv, SlotInv, TypeOK, Waits
  <2> QED
    BY <2>3, <2>5
<1>10. ASSUME NEW s \in Slots, TaskReturns(s) PROVE Control'
  <2>1. TypeOK'
    BY <1>10 DEF TaskReturns, TypeOK
  <2>2. Unfinished' = Unfinished
    BY <1>10 DEF TaskReturns, Unfinished, TypeOK
  <2>3. CallInv' /\ SlotInv'
    BY <1>10, <2>2, SMT DEF TaskReturns, CallInv, SlotInv, TypeOK, Waits
  <2> QED
    BY <2>1, <2>3
<1>11. ASSUME NEW s \in Slots, Finish(s) PROVE Control'
  <2>1. Waits /\ seen[s] = m_generation /\ s \in Unfinished
    BY <1>11 DEF Finish, CallInv, SlotInv, Unfinished
  <2>2. m_pending = Cardinality(Unfinished) /\ m_pending # 0
    BY <2>1, PendingCounts DEF CallInv
  <2>3. m_pending - 1 \in 0 .. SlotCount
    BY <1>1, <2>2, SMT DEF TypeOK
  <2>4. TypeOK'
    BY <1>11, <2>3 DEF Finish, TypeOK, CallerWoken
  <2>5. Unfinished' = Unfinished \ {s}
    BY <1>11, <2>1 DEF Finish, Unfinished, TypeOK
  <2>6. Cardinality(Unfinished') = m_pending - 1
    BY <2>1, <2>2, <2>5, PendingCounts, FS_RemoveElement
  <2>7. CallInv' /\ SlotInv'
    BY <1>11, <2>1, <2>6, SMT DEF Finish, CallInv, SlotInv, TypeOK, Waits, CallerWoken
  <2> QED
    BY <2>4, <2>7
<1>12. CASE Spurious
  <2>1. TypeOK'
    BY <1>12 DEF Spurious, TypeOK
  <2>2. Unfinished' = Unfinished
    BY <1>12 DEF Spurious, Unfinished, TypeOK
  <2>3. CallInv' /\ SlotInv'
    BY <1>12, <2>2, SMT DEF Spurious, CallInv, SlotInv, TypeOK, Waits
  <2> QED
    BY <2>1, <2>3
<1>13. CASE UNCHANGED vars
  <2>1. Unfinished' = Unfinished
    BY <1>13 DEF vars, workers, Unfinished
  <2> QED
    BY <1>13, <2>1 DEF vars, workers, TypeOK, CallInv, SlotInv, Waits
<1> QED
  BY <1>2, <1>3, <1>4, <1>5, <1>6, <1>7, <1>8, <1>9, <1>10, <1>11, <1>12, <1>13
  DEF Next, CallerStep, SlotStep, Gone

\* ControlHolds: every variable of the pool keeps its type, and m_pending, the
\* generation and the published task agree with what the slots still have to do.
THEOREM ControlHolds == Spec => []Control
<1>1. Init => Control
  BY InitControl
<1>2. Control /\ [Next]_vars => Control'
  BY ControlStep
<1> QED
  BY <1>1, <1>2, PTL DEF Spec

\* PoolTyped: the type invariant.
THEOREM PoolTyped == Spec => []TypeOK
<1>1. Control => TypeOK
  BY DEF Control
<1> QED
  BY <1>1, ControlHolds, PTL

\* TaskInsideRun: however the wake-ups, the slots and the calls interleave, a
\* slot is inside its task only during the very run() that published it.
THEOREM TaskInsideRun == Spec => []NoDanglingTask
<1>1. Control => NoDanglingTask
  BY DEF Control, CallInv, SlotInv, Waits, NoDanglingTask
<1> QED
  BY <1>1, ControlHolds, PTL

-----------------------------------------------------------------------------
\* NoLostWakeup, the part of CallsReturn that a state can show: the caller
\* sleeps only while some slot has still to count itself out, and a slot sleeps
\* through a new generation only while its notification is on the way.
NoLostWakeup ==
    /\ caller = "asleep" => m_pending > 0
    /\ \A s \in Slots : pc[s] = "asleep" /\ NewGeneration(s) =>
          caller \in {"notifying", "stopping"}

\* Every step keeps NoLostWakeup.
LEMMA WakeupStep ==
    ASSUME Control, NoLostWakeup, [Next]_vars
    PROVE  NoLostWakeup'
<1> USE DEF NoLostWakeup, NewGeneration
<1>1. TypeOK /\ CallInv /\ SlotInv
  BY DEF Control
<1>2. CASE Run
  BY <1>2, SMT DEF Run, workers
<1>3. CASE Notify
  BY <1>3, <1>1, SMT DEF Notify, Woken, TypeOK
<1>4. CASE WaitDone
  BY <1>4, <1>1, SMT DEF WaitDone, AllDone, workers, TypeOK
<1>5. CASE Rethrow
  BY <1>5, SMT DEF Rethrow, workers
<1>6. CASE Destroy
  BY <1>6, SMT DEF Destroy, workers
<1>7. CASE Join
  <2>1. \A s \in Slots : pc[s] # "asleep"
    BY <1>7 DEF Join
  <2> QED
    BY <1>7, <2>1, SMT DEF Join, workers
<1>8. ASSUME NEW s \in Slots, Wake(s) PROVE NoLostWakeup'
  BY <1>8, <1>1, SMT DEF Wake, TypeOK
<1>9. ASSUME NEW s \in Slots, Step(s) PROVE NoLostWakeup'
  BY <1>9, <1>1, SMT DEF Step, TypeOK
<1>10. ASSUME NEW s \in Slots, TaskReturns(s) PROVE NoLostWakeup'
  BY <1>10, <1>1, SMT DEF TaskReturns, TypeOK
<1>11. ASSUME NEW s \in Slots, Finish(s) PROVE NoLostWakeup'
  <2>1. SlotCount \in Nat
    BY SlotsAssumption
  <2>2. seen[s] = m_generation
    BY <1>1, <1>11 DEF Finish, SlotInv
  <2> QED
    BY <1>11, <1>1, <2>1, <2>2, SMT DEF Finish, TypeOK, CallerWoken
<1>12. CASE Spurious
  BY <1>12, <1>1, SMT DEF Spurious, TypeOK
<1>13. CASE UNCHANGED vars
  BY <1>13 DEF vars, workers
<1> QED
  BY <1>2, <1>3, <1>4, <1>5, <1>6, <1>7, <1>8, <1>9, <1>10, <1>11, <1>12, <1>13
  DEF Next, CallerStep, SlotStep, Gone

\* WakeupsArrive: no interleaving loses the wake-up of a sleeper that has work.
THEOREM WakeupsArrive == Spec => []NoLostWakeup
<1>1. Init => NoLostWakeup
  BY DEF Init, NoLostWakeup
<1>2. Control /\ NoLostWakeup /\ [Next]_vars => NoLostWakeup'
  BY WakeupStep
<1> QED
  BY <1>1, <1>2, ControlHolds, PTL DEF Spec

-----------------------------------------------------------------------------
\* The rows of a slot, and the first of them it has not begun in this run.
SlotRows(s) == SlotBegin(s) .. SlotEnd(s) - 1
NextRow(s) == IF NewGeneration(s) THEN SlotBegin(s)
              ELSE IF m_errors[s] = None THEN row[s] ELSE row[s] + 1

\* What a slot has done of its share of the current run: the rows before
\* NextRow once each, none of them failing but the one it stopped at.
ShareDone(s) ==
    /\ NewGeneration(s) \/ pc[s] = "running" => m_errors[s] = None
    /\ ~NewGeneration(s) => row[s] \in SlotBegin(s) .. SlotEnd(s)
    /\ m_errors[s] # None =>
          m_errors[s] = row[s] /\ row[s] \in failing /\ row[s] < SlotEnd(s)
    /\ ~NewGeneration(s) /\ pc[s] # "running" /\ m_errors[s] = None =>
          row[s] = SlotEnd(s)
    /\ \A r \in SlotRows(s) :
          /\ processed[r] = IF r < NextRow(s) THEN 1 ELSE 0
          /\ r \in failing /\ r < NextRow(s) => m_errors[s] = r

RowInv == Waits \/ caller = "returning" => \A s \in Slots : ShareDone(s)

\* The rows of a slot are rows, and its first row is one it may begin.
LEMMA RowsOfSlots ==
    ASSUME NEW s \in Slots
    PROVE  /\ SlotRows(s) \subseteq Rows
           /\ SlotBegin(s) \in Nat /\ SlotEnd(s) \in Nat
           /\ SlotBegin(s) <= SlotEnd(s)
<1>1. /\ SlotBegin(s) \in Nat /\ SlotEnd(s) \in Nat
      /\ SlotBegin(s) <= SlotEnd(s) /\ SlotEnd(s) <= RowCount
  BY SlotRanges
<1>2. RowCount \in Nat
  BY SlotsAssumption
<1> QED
  BY <1>1, <1>2, SMT DEF SlotRows, Rows

\* No row belongs to two slots.
LEMMA RowsDisjoint ==
    ASSUME NEW s \in Slots, NEW u \in Slots, s # u,
           NEW r \in SlotRows(s)
    PROVE  r \notin SlotRows(u)
<1>1. /\ SlotBegin(s) \in Nat /\ SlotEnd(s) \in Nat
      /\ SlotBegin(u) \in Nat /\ SlotEnd(u) \in Nat
  BY SlotRanges
<1>2. s \in Int /\ u \in Int
  BY SlotsAssumption DEF Slots
<1>3. CASE s < u
  <2>1. SlotEnd(s) <= SlotBegin(u)
    BY <1>3, SlotsAscend
  <2> QED
    BY <1>1, <2>1, SMT DEF SlotRows
<1>4. CASE u < s
  <2>1. SlotEnd(u) <= SlotBegin(s)
    BY <1>4, SlotsAscend
  <2> QED
    BY <1>1, <2>1, SMT DEF SlotRows
<1> QED
  BY <1>2, <1>3, <1>4, SMT

\* What a slot has done of its share is not touched by steps that leave its own
\* variables, its rows and the generation alone.
ShareUntouched(s) ==
    /\ m_errors'[s] = m_errors[s] /\ row'[s] = row[s] /\ seen'[s] = seen[s]
    /\ pc'[s] = "running" <=> pc[s] = "running"
    /\ m_generation' = m_generation /\ failing' = failing
    /\ \A r \in SlotRows(s) : processed'[r] = processed[r]

LEMMA ShareKept ==
    ASSUME NEW s \in Slots, ShareDone(s), ShareUntouched(s)
    PROVE  ShareDone(s)'
  BY DEF ShareUntouched, ShareDone, NextRow, NewGeneration, SlotRows,
         SlotBegin, SlotEnd, RowsPerSlot, Remainder, SmallerOf

\* Every step keeps RowInv.
LEMMA RowStep ==
    ASSUME Control, RowInv, [Next]_vars
    PROVE  RowInv'
<1>1. TypeOK /\ CallInv /\ SlotInv
  BY DEF Control
<1>2. CASE Run
  <2> SUFFICES ASSUME NEW s \in Slots PROVE ShareDone(s)'
    BY DEF RowInv
  <2>1. /\ m_errors'[s] = None /\ failing' \in SUBSET Rows
        /\ \A r \in Rows : processed'[r] = 0
        /\ m_generation' # seen'[s]
    BY <1>1, <1>2, SMT DEF Run, CallInv, TypeOK, workers, ClearedErrors
  <2>2. SlotRows(s) \subseteq Rows /\ SlotBegin(s) \in Nat
    BY RowsOfSlots
  <2>3. NewGeneration(s)'
    BY <2>1 DEF NewGeneration
  <2>4. NextRow(s)' = SlotBegin(s)
    BY <2>3 DEF NextRow, SlotBegin, RowsPerSlot, Remainder, SmallerOf
  <2>5. SlotRows(s)' = SlotRows(s)
    BY DEF SlotRows, SlotBegin, SlotEnd, RowsPerSlot, Remainder, SmallerOf
  <2>6. \A r \in SlotRows(s) : ~(r < SlotBegin(s))
    BY <2>2, SlotRanges, SMT DEF SlotRows
  <2> QED
    BY <2>1, <2>2, <2>3, <2>4, <2>5, <2>6 DEF ShareDone
<1>3. CASE Notify
  <2>1. SUFFICES ASSUME Waits, NEW s \in Slots, ShareDone(s) PROVE ShareDone(s)'
    BY <1>3 DEF Notify, RowInv, Waits
  <2>2. ShareUntouched(s)
    BY <1>1, <1>3 DEF ShareUntouched, Notify, Woken, TypeOK
  <2> QED
    BY <2>1, <2>2, ShareKept
<1>4. CASE WaitDone
  <2>1. SUFFICES ASSUME NEW s \in Slots, ShareDone(s) PROVE ShareDone(s)'
    BY <1>4 DEF WaitDone, RowInv, Waits
  <2>2. ShareUntouched(s)
    BY <1>4 DEF ShareUntouched, WaitDone, workers
  <2> QED
    BY <2>1, <2>2, ShareKept
<1>5. CASE Rethrow \/ Destroy \/ Join
  BY <1>5 DEF Rethrow, Destroy, Join, RowInv, Waits
<1>6. ASSUME NEW s \in Slots, Wake(s) PROVE RowInv'
  <2>1. SUFFICES ASSUME Waits \/ caller = "returning", NEW u \in Slots, ShareDone(u)
                 PROVE  ShareDone(u)'
    BY <1>6 DEF Wake, RowInv, Waits
  <2>2. ~m_stop
    BY <1>1, <2>1 DEF CallInv, Waits
  <2>3. CASE u # s
    <3>1. ShareUntouched(u)
      BY <1>1, <1>6, <2>3 DEF ShareUntouched, Wake, TypeOK
    <3> QED
      BY <2>1, <3>1, ShareKept
  <2>4. CASE u = s /\ ~NewGeneration(s)
    <3>1. ShareUntouched(u)
      BY <1>1, <1>6, <2>4 DEF ShareUntouched, Wake, TypeOK
    <3> QED
      BY <2>1, <3>1, ShareKept
  <2>5. CASE u = s /\ NewGeneration(s)
    <3>1. m_task # None
      BY <1>1, <2>1, <2>5, SMT DEF CallInv, NewGeneration, Waits, None, TypeOK
    <3>2. /\ pc'[s] = "running" /\ row'[s] = SlotBegin(s)
          /\ seen'[s] = m_generation
          /\ UNCHANGED <<m_generation, m_errors, failing, processed>>
      BY <1>1, <1>6, <2>2, <2>5, <3>1 DEF Wake, TypeOK
    <3>3. m_errors[s] = None
      BY <2>1, <2>5 DEF ShareDone
    <3>4. NextRow(s) = SlotBegin(s) /\ NextRow(s)' = SlotBegin(s)
      BY <2>5, <3>2, <3>3 DEF NextRow, NewGeneration
    <3>5. SlotBegin(s) \in SlotBegin(s) .. SlotEnd(s)
      BY RowsOfSlots, SMT
    <3>6. /\ SlotRows(s)' = SlotRows(s) /\ SlotBegin(s)' = SlotBegin(s)
          /\ SlotEnd(s)' = SlotEnd(s)
      BY DEF SlotRows, SlotBegin, SlotEnd, RowsPerSlot, Remainder, SmallerOf
    <3> QED
      BY <2>1, <2>5, <3>2, <3>3, <3>4, <3>5, <3>6 DEF ShareDone, NewGeneration
  <2> QED
    BY <2>3, <2>4, <2>5
<1>7. ASSUME NEW s \in Slots, Step(s) PROVE RowInv'
  <2>1. SUFFICES ASSUME NEW u \in Slots, ShareDone(u), ShareDone(s)
                 PROVE  ShareDone(u)'
    BY <1>7 DEF Step, RowInv, Waits
  <2>2. ~NewGeneration(s) /\ m_errors[s] = None
    BY <1>1, <1>7, <2>1 DEF Step, SlotInv, NewGeneration, ShareDone
  <2>3. row[s] \in SlotRows(s) /\ row[s] \in Rows
    <3>1. row[s] \in SlotBegin(s) .. SlotEnd(s) /\ row[s] < SlotEnd(s)
      BY <1>7, <2>1, <2>2 DEF Step, ShareDone
    <3> QED
      BY <3>1, RowsOfSlots, SMT DEF SlotRows
  <2>4. \A r \in Rows : processed'[r] = IF r = row[s] THEN processed[r] + 1
                                                      ELSE processed[r]
    BY <1>1, <1>7, <2>3 DEF Step, TypeOK
  <2>5. CASE u # s
    <3>1. \A r \in SlotRows(u) : processed'[r] = processed[r]
      BY <2>3, <2>4, <2>5, RowsDisjoint, RowsOfSlots
    <3>2. ShareUntouched(u)
      BY <1>1, <1>7, <2>5, <3>1 DEF ShareUntouched, Step, TypeOK
    <3> QED
      BY <2>1, <3>2, ShareKept
  <2>6. CASE u = s
    <3>1. /\ SlotRows(s)' = SlotRows(s) /\ SlotBegin(s)' = SlotBegin(s)
          /\ SlotEnd(s)' = SlotEnd(s)
      BY DEF SlotRows, SlotBegin, SlotEnd, RowsPerSlot, Remainder, SmallerOf
    <3>2. SlotBegin(s) \in Nat /\ SlotEnd(s) \in Nat /\ SlotRows(s) \subseteq Rows
      BY RowsOfSlots
    <3>3. NextRow(s) = row[s] /\ ~NewGeneration(s)'
      BY <1>7, <2>2 DEF NextRow, NewGeneration, Step
    <3>4. NextRow(s)' = row[s] + 1
      <4>1. row[s] # None
        BY <2>3, SlotsAssumption, SMT DEF None, Rows
      <4> QED
        BY <1>1, <1>7, <2>2, <3>3, <4>1 DEF Step, NextRow, TypeOK
    <3>5. \A r \in SlotRows(s) :
             /\ processed[r] = IF r < row[s] THEN 1 ELSE 0
             /\ r \in failing /\ r < row[s] => m_errors[s] = r
      BY <2>1, <3>3 DEF ShareDone
    <3>6. \A r \in SlotRows(s) : processed'[r] = IF r < row[s] + 1 THEN 1 ELSE 0
      <4> SUFFICES ASSUME NEW r \in SlotRows(s)
                   PROVE  processed'[r] = IF r < row[s] + 1 THEN 1 ELSE 0
        OBVIOUS
      <4>1. r \in Int /\ row[s] \in Int
        BY <2>3, <3>2, SMT DEF SlotRows
      <4>2. /\ processed'[r] = IF r = row[s] THEN processed[r] + 1 ELSE processed[r]
            /\ processed[r] = IF r < row[s] THEN 1 ELSE 0
        BY <2>4, <3>2, <3>5
      <4> QED
        BY <4>1, <4>2, SMT
    <3>7. CASE row[s] \in failing
      <4>1. /\ m_errors'[s] = row[s] /\ pc'[s] = "finishing" /\ row'[s] = row[s]
            /\ failing' = failing
        BY <1>1, <1>7, <3>7 DEF Step, TypeOK
      <4>2. \A r \in SlotRows(s) : r \in failing /\ r < row[s] + 1 => r = row[s]
        <5> SUFFICES ASSUME NEW r \in SlotRows(s), r \in failing, r < row[s]
                     PROVE  FALSE
          BY <2>3, <3>2, SMT DEF SlotRows
        <5>1. r = None
          BY <2>2, <3>5
        <5> QED
          BY <5>1, <3>2, SlotsAssumption, SMT DEF None, Rows
      <4>3. row[s] \in SlotBegin(s) .. SlotEnd(s) /\ row[s] < SlotEnd(s)
            /\ row[s] # None
        BY <2>3, <3>2, SMT DEF SlotRows, None
      <4> QED
        BY <2>6, <3>1, <3>3, <3>4, <3>6, <3>7, <4>1, <4>2, <4>3 DEF ShareDone
    <3>8. CASE row[s] \notin failing
      <4>1. /\ m_errors'[s] = None /\ pc'[s] = "running" /\ row'[s] = row[s] + 1
            /\ failing' = failing
        BY <1>1, <1>7, <2>2, <3>8 DEF Step, TypeOK
      <4>2. \A r \in SlotRows(s) : ~(r \in failing /\ r < row[s] + 1)
        <5> SUFFICES ASSUME NEW r \in SlotRows(s), r \in failing, r < row[s] + 1
                     PROVE  FALSE
          OBVIOUS
        <5>1. r < row[s]
          BY <2>3, <3>2, <3>8, SMT DEF SlotRows
        <5>2. r = None
          BY <2>2, <3>5, <5>1
        <5> QED
          BY <5>2, <3>2, SlotsAssumption, SMT DEF None, Rows
      <4>3. row[s] + 1 \in SlotBegin(s) .. SlotEnd(s)
        BY <2>3, <3>2, SMT DEF SlotRows
      <4> QED
        BY <2>6, <3>1, <3>3, <3>4, <3>6, <4>1, <4>2, <4>3 DEF ShareDone
    <3> QED
      BY <3>7, <3>8
  <2> QED
    BY <2>5, <2>6
<1>8. ASSUME NEW s \in Slots, TaskReturns(s) PROVE RowInv'
  <2>1. SUFFICES ASSUME Waits \/ caller = "returning", NEW u \in Slots, ShareDone(u)
                 PROVE  ShareDone(u)'
    BY <1>8 DEF TaskReturns, RowInv, Waits
  <2>2. CASE u # s
    <3>1. ShareUntouched(u)
      BY <1>1, <1>8, <2>2 DEF ShareUntouched, TaskReturns, TypeOK
    <3> QED
      BY <2>1, <3>1, ShareKept
  <2>3. CASE u = s
    <3>1. /\ SlotRows(s)' = SlotRows(s) /\ SlotBegin(s)' = SlotBegin(s)
          /\ SlotEnd(s)' = SlotEnd(s)
      BY DEF SlotRows, SlotBegin, SlotEnd, RowsPerSlot, Remainder, SmallerOf
    <3>2. ~NewGeneration(s) /\ m_errors[s] = None
      BY <1>1, <1>8, <2>1, <2>3 DEF TaskReturns, SlotInv, NewGeneration, ShareDone
    <3>3. row[s] = SlotEnd(s)
      <4>1. row[s] \in SlotBegin(s) .. SlotEnd(s) /\ row[s] >= SlotEnd(s)
        BY <1>8, <2>1, <2>3, <3>2 DEF TaskReturns, ShareDone
      <4> QED
        BY <4>1, RowsOfSlots, SMT
    <3>4. NextRow(s)' = NextRow(s) /\ NewGeneration(s)' = NewGeneration(s)
      BY <1>8 DEF TaskReturns, NextRow, NewGeneration, SlotBegin, RowsPerSlot,
                  Remainder, SmallerOf
    <3> QED
      BY <1>1, <1>8, <2>1, <2>3, <3>1, <3>2, <3>3, <3>4
      DEF TaskReturns, ShareDone, TypeOK
  <2> QED
    BY <2>2, <2>3
<1>9. ASSUME NEW s \in Slots, Finish(s) PROVE RowInv'
  <2>1. SUFFICES ASSUME NEW u \in Slots, ShareDone(u) PROVE ShareDone(u)'
    BY <1>1, <1>9 DEF Finish, RowInv, Waits, CallInv, CallerWoken
  <2>2. ShareUntouched(u)
    BY <1>1, <1>9 DEF ShareUntouched, Finish, TypeOK
  <2> QED
    BY <2>1, <2>2, ShareKept
<1>10. CASE Spurious
  <2>1. SUFFICES ASSUME Waits \/ caller = "returning", NEW u \in Slots, ShareDone(u)
                 PROVE  ShareDone(u)'
    BY <1>10 DEF Spurious, RowInv, Waits
  <2>2. ShareUntouched(u)
    BY <1>1, <1>10 DEF ShareUntouched, Spurious, TypeOK
  <2> QED
    BY <2>1, <2>2, ShareKept
<1>11. CASE UNCHANGED vars
  <2>1. SUFFICES ASSUME Waits \/ caller = "returning", NEW u \in Slots, ShareDone(u)
                 PROVE  ShareDone(u)'
    BY <1>11 DEF vars, RowInv, Waits
  <2>2. ShareUntouched(u)
    BY <1>11 DEF ShareUntouched, vars, workers
  <2> QED
    BY <2>1, <2>2, ShareKept
<1> QED
  BY <1>2, <1>3, <1>4, <1>5, <1>6, <1>7, <1>8, <1>9, <1>10, <1>11
  DEF Next, CallerStep, SlotStep, Gone

\* SharesHold: during a run every slot has begun its rows in order and once.
THEOREM SharesHold == Spec => []RowInv
<1>1. Init => RowInv
  BY DEF Init, RowInv, Waits
<1>2. Control /\ RowInv /\ [Next]_vars => RowInv'
  BY RowStep
<1> QED
  BY <1>1, <1>2, ControlHolds, PTL DEF Spec

-----------------------------------------------------------------------------
\* When run() returns, every slot has done its whole share or has stopped at a
\* failing row.
LEMMA SharesAtReturn ==
    ASSUME Control, RowInv, caller = "returning", NEW s \in Slots
    PROVE  /\ \A r \in SlotRows(s) :
                 /\ processed[r] = IF r < NextRow(s) THEN 1 ELSE 0
                 /\ r \in failing /\ r < NextRow(s) => m_errors[s] = r
           /\ m_errors[s] = None => NextRow(s) = SlotEnd(s)
           /\ m_errors[s] # None => /\ m_errors[s] \in failing
                                    /\ m_errors[s] < SlotEnd(s)
                                    /\ NextRow(s) = m_errors[s] + 1
<1>1. ShareDone(s) /\ ~NewGeneration(s) /\ pc[s] # "running"
  BY DEF Control, CallInv, RowInv, Waits, NewGeneration
<1> QED
  BY <1>1 DEF ShareDone, NextRow

\* Each row of the batch belongs to a slot that has got past it, or has stopped
\* at a failing row before it.
LEMMA SharesSuffice == Control /\ RowInv => RowsOnce
<1> SUFFICES ASSUME Control, RowInv, caller = "returning", NEW r \in Rows
             PROVE  /\ processed[r] <= 1
                    /\ (\A f \in failing : r <= f) => processed[r] = 1
  BY DEF RowsOnce
<1>1. PICK s \in Slots : r \in SlotRows(s)
  BY SlotsCover DEF SlotRows
<1>2. processed[r] = IF r < NextRow(s) THEN 1 ELSE 0
  BY <1>1, SharesAtReturn
<1>3. r \in Nat /\ SlotEnd(s) \in Nat /\ r < SlotEnd(s)
  BY <1>1, RowsOfSlots, SlotsAssumption, SMT DEF SlotRows, Rows
<1>4. ASSUME \A f \in failing : r <= f PROVE r < NextRow(s)
  <2>1. CASE m_errors[s] = None
    BY <1>3, <2>1, SharesAtReturn
  <2>2. CASE m_errors[s] # None
    <3>1. m_errors[s] \in failing /\ NextRow(s) = m_errors[s] + 1
      BY <2>2, SharesAtReturn
    <3>2. m_errors[s] \in Nat
      <4>1. m_errors[s] \in Rows
        BY <3>1 DEF Control, TypeOK
      <4> QED
        BY <4>1, SlotsAssumption, SMT DEF Rows
    <3>3. r <= m_errors[s]
      BY <1>4, <3>1
    <3> QED
      BY <1>3, <3>1, <3>2, <3>3, SMT
  <2> QED
    BY <2>1, <2>2
<1> QED
  BY <1>2, <1>4, SMT

\* RowsSharedOut: when run() returns, every row before the first failing one
\* was processed exactly once, and no row twice, for every number of slots and
\* rows.
THEOREM RowsSharedOut == Spec => []RowsOnce
  BY SharesSuffice, ControlHolds, SharesHold, PTL

\* The exception that run() rethrows.
LEMMA FirstRethrown ==
    ASSUME Control, RowInv, Rethrow
    PROVE  \/ failing = {} /\ raised' = None
           \/ /\ raised' \in failing
              /\ \A r \in failing : raised' <= r
<1>1. caller = "returning" /\ failing \subseteq Rows
  BY DEF Rethrow, Control, TypeOK
<1>2. CASE \A s \in Slots : m_errors[s] = None
  <2>1. raised' = None
    BY <1>2 DEF Rethrow
  <2>2. ASSUME NEW f \in failing PROVE FALSE
    <3>1. PICK s \in Slots : f \in SlotRows(s)
      BY <1>1, SlotsCover DEF SlotRows
    <3>2. f < NextRow(s)
      <4>1. NextRow(s) = SlotEnd(s) /\ SlotEnd(s) \in Nat /\ SlotBegin(s) \in Nat
        BY <1>1, <1>2, SharesAtReturn, RowsOfSlots
      <4> QED
        BY <3>1, <4>1, SMT DEF SlotRows
    <3>3. f = None
      BY <1>1, <1>2, <3>1, <3>2, SharesAtReturn
    <3> QED
      BY <1>1, <3>3, SlotsAssumption, SMT DEF None, Rows
  <2> QED
    BY <2>1, <2>2
<1>3. CASE \E s \in Slots : m_errors[s] # None
  <2> DEFINE s == FirstSlot
  <2>1. /\ s \in Slots /\ m_errors[s] # None
        /\ \A u \in Slots : u < s => m_errors[u] = None
    BY <1>3, FirstError
  <2>2. raised' = m_errors[s]
    BY <1>3 DEF Rethrow, FirstSlot
  <2> HIDE DEF s
  <2>3. /\ m_errors[s] \in failing /\ m_errors[s] < SlotEnd(s)
        /\ NextRow(s) = m_errors[s] + 1
    BY <1>1, <2>1, SharesAtReturn
  <2>4. ASSUME NEW r \in failing PROVE m_errors[s] <= r
    <3>1. PICK u \in Slots : r \in SlotRows(u)
      BY <1>1, SlotsCover DEF SlotRows
    <3>2. /\ r \in Nat /\ m_errors[s] \in Nat /\ s \in Nat /\ u \in Nat
          /\ SlotEnd(s) \in Nat /\ SlotBegin(u) \in Nat /\ SlotEnd(u) \in Nat
          /\ SlotBegin(u) <= r /\ r < SlotEnd(u)
      <4>1. r \in Rows /\ m_errors[s] \in Rows
        BY <1>1, <2>3
      <4>2. SlotEnd(s) \in Nat /\ SlotBegin(u) \in Nat /\ SlotEnd(u) \in Nat
        BY <2>1, <3>1, RowsOfSlots
      <4> QED
        BY <2>1, <3>1, <4>1, <4>2, SlotsAssumption, SMT DEF Slots, Rows, SlotRows
    <3>3. CASE s < u
      <4>1. SlotEnd(s) <= SlotBegin(u)
        BY <2>1, <3>1, <3>3, SlotsAscend
      <4> QED
        BY <2>3, <3>2, <4>1, SMT
    <3>4. CASE s = u
      <4>1. r < NextRow(s) => m_errors[s] = r
        BY <1>1, <3>1, <3>4, SharesAtReturn
      <4> QED
        BY <2>3, <3>2, <4>1, SMT
    <3>5. CASE u < s
      <4>1. m_errors[u] = None
        BY <2>1, <3>1, <3>5
      <4>2. r < NextRow(u)
        BY <1>1, <3>1, <3>2, <4>1, SharesAtReturn
      <4>3. r = None
        BY <1>1, <3>1, <4>1, <4>2, SharesAtReturn
      <4> QED
        BY <3>2, <4>3, SMT DEF None
    <3> QED
      BY <3>2, <3>3, <3>4, <3>5, SMT
  <2> QED
    BY <2>2, <2>3, <2>4
<1> QED
  BY <1>2, <1>3

\* EarliestFailure: run() rethrows the exception of the first failing row of
\* the batch, whatever the order in which the slots met their rows.
THEOREM EarliestFailure == Spec => FirstFailureSurfaces
<1>1. Control /\ RowInv /\ [Next]_vars =>
      [Rethrow => \/ failing = {} /\ raised' = None
                  \/ /\ raised' \in failing
                     /\ \A r \in failing : raised' <= r]_vars
  BY FirstRethrown
<1> QED
  BY <1>1, ControlHolds, SharesHold, PTL DEF Spec, FirstFailureSurfaces

-----------------------------------------------------------------------------
(***************************************************************************)
(* The two pools of MCPools.  The thread pool is an instance of ThreadPool *)
(* there, so what is proved of it (ThreadPoolProofs) is instantiated the   *)
(* same way.                                                               *)
(***************************************************************************)
ThreadsProved == INSTANCE ThreadPoolProofs WITH pc <- threadPc

\* The two instances say the same of where the threads begin, ...
LEMMA SameInit == ThreadsProved!Init <=> Threads!Init
  BY DEF ThreadsProved!Init, Threads!Init, ThreadsProved!Workers,
      Threads!Workers, ThreadsProved!Ids, Threads!Ids

\* ... of the types of their state, ...
LEMMA SameTypes == ThreadsProved!TypeOK => Threads!TypeOK
  BY DEF ThreadsProved!TypeOK, Threads!TypeOK, ThreadsProved!Workers,
      Threads!Workers, ThreadsProved!Ids, Threads!Ids,
      ThreadsProved!BoundedSeq, Threads!BoundedSeq, ThreadsProved!SeqOf,
      Threads!SeqOf

\* ... of the bound on the queue ...
LEMMA SameBound == ThreadsProved!QueueBounded => QueueBounded
  BY DEF QueueBounded, Threads!QueueBounded, ThreadsProved!QueueBounded

\* ... and of the steps.
LEMMA SameSteps == Threads!Next => ThreadsProved!Next
  BY Zenon
  DEF ThreadsProved!Workers, Threads!Workers, ThreadsProved!Ids,
      Threads!Ids, ThreadsProved!ownerVars, Threads!ownerVars,
      ThreadsProved!usage, Threads!usage, ThreadsProved!vars, Threads!vars,
      ThreadsProved!HasRoom, Threads!HasRoom, ThreadsProved!Emplace,
      Threads!Emplace, ThreadsProved!ThreadsWoken, Threads!ThreadsWoken,
      ThreadsProved!OwnerWoken, Threads!OwnerWoken, ThreadsProved!Add,
      Threads!Add, ThreadsProved!QueueEmpty, Threads!QueueEmpty,
      ThreadsProved!Idle, Threads!Idle, ThreadsProved!Await, Threads!Await,
      ThreadsProved!Join, Threads!Join, ThreadsProved!Notify,
      Threads!Notify, ThreadsProved!Joined, Threads!Joined,
      ThreadsProved!ClearTasks, Threads!ClearTasks, ThreadsProved!Go,
      Threads!Go, ThreadsProved!Destroyed, Threads!Destroyed,
      ThreadsProved!TakesIfRunning, Threads!TakesIfRunning,
      ThreadsProved!TakesTask, Threads!TakesTask, ThreadsProved!Take,
      Threads!Take, ThreadsProved!NobodyWoken, Threads!NobodyWoken,
      ThreadsProved!WokenBy, Threads!WokenBy, ThreadsProved!NotifyOwner,
      Threads!NotifyOwner, ThreadsProved!TaskAdds, Threads!TaskAdds,
      ThreadsProved!TaskNotifies, Threads!TaskNotifies,
      ThreadsProved!TaskEnds, Threads!TaskEnds, ThreadsProved!Uncounted,
      Threads!Uncounted, ThreadsProved!CountedOut, Threads!CountedOut,
      ThreadsProved!CountOut, Threads!CountOut, ThreadsProved!Spurious,
      Threads!Spurious, ThreadsProved!OwnerStep, Threads!OwnerStep,
      ThreadsProved!WorkerStep, Threads!WorkerStep,
      ThreadsProved!Terminated, Threads!Terminated, ThreadsProved!Next,
      Threads!Next, ThreadsProved!ToSet, Threads!ToSet

\* A step of the pools is one of either and leaves the other alone.
LEMMA PoolsSteps ==
    ASSUME [PoolsNext]_poolsVars
    PROVE  [Next]_vars /\ [ThreadsProved!Next]_(ThreadsProved!vars)
<1>1. CASE UNCHANGED poolsVars
  <2>1. UNCHANGED vars /\ UNCHANGED threadVars
    BY <1>1 DEF poolsVars
  <2> QED
    BY <2>1 DEF threadVars, ThreadsProved!vars, ThreadsProved!usage,
                ThreadsProved!ownerVars
<1>2. CASE PoolsNext
  <2>1. \/ Next /\ UNCHANGED threadVars
        \/ Threads!Next /\ UNCHANGED vars
    BY <1>2, Zenon
    DEF PoolsNext, OfSlots, OfThreads, Next, CallerStep, SlotStep,
        Threads!Next, Threads!OwnerStep, Threads!WorkerStep
  <2>2. UNCHANGED threadVars => UNCHANGED ThreadsProved!vars
    BY DEF threadVars, ThreadsProved!vars, ThreadsProved!usage,
           ThreadsProved!ownerVars
  <2> QED
    BY <2>1, <2>2, SameSteps
<1> QED
  BY <1>1, <1>2

\* The invariants of both pools hold together, ...
LEMMA PoolsHold ==
    PoolsSpec => [](Control /\ RowInv /\ ThreadsProved!IInv /\ ThreadsProved!RanOnce)
<1> DEFINE Inv == Control /\ RowInv /\ ThreadsProved!IInv /\ ThreadsProved!RanOnce
<1>1. ThreadsProved!PoolAssumption
  BY ThreadsAssumption DEF Threads!PoolAssumption, ThreadsProved!PoolAssumption
<1>2. PoolsInit => Inv
  <2> SUFFICES ASSUME PoolsInit PROVE Inv
    OBVIOUS
  <2>1. Init /\ ThreadsProved!Init
    BY SameInit DEF PoolsInit
  <2>2. ThreadsProved!IInv /\ ThreadsProved!RanOnce
    BY ONLY <1>1, <2>1, ThreadsProved!InitInvariant
  <2>3. RowInv
    BY <2>1 DEF Init, RowInv, Waits
  <2> QED
    BY <2>1, <2>2, <2>3, InitControl
<1>3. Inv /\ [PoolsNext]_poolsVars => Inv'
  <2> SUFFICES ASSUME Inv, [PoolsNext]_poolsVars PROVE Inv'
    OBVIOUS
  <2>1. [Next]_vars /\ [ThreadsProved!Next]_(ThreadsProved!vars)
    BY PoolsSteps
  <2>2. ThreadsProved!IInv' /\ ThreadsProved!RanOnce'
    BY <1>1, <2>1, ThreadsProved!PoolStep
  <2> QED
    BY <2>1, <2>2, ControlStep, RowStep
<1> QED
  BY <1>2, <1>3, PTL DEF PoolsSpec

\* PoolsTypeOK: neither pool counts a task, a slot or a thread twice.
THEOREM PoolsTyped == PoolsSpec => []PoolsTypeOK
<1>1. ThreadsProved!PoolAssumption
  BY ThreadsAssumption DEF Threads!PoolAssumption, ThreadsProved!PoolAssumption
<1>2. Control /\ ThreadsProved!IInv => PoolsTypeOK
  BY <1>1, ThreadsProved!TypesSuffice, SameTypes DEF Control, PoolsTypeOK
<1> QED
  BY <1>2, PoolsHold, PTL

\* NoDanglingTask, RowsOnce and QueueBounded: what is promised of each pool by
\* itself, for every number of slots, rows, threads, tasks and calls.
THEOREM PoolsSafe == PoolsSpec => [](NoDanglingTask /\ RowsOnce /\ QueueBounded)
<1>1. ThreadsProved!PoolAssumption
  BY ThreadsAssumption DEF Threads!PoolAssumption, ThreadsProved!PoolAssumption
<1>2. ThreadsProved!IInv => QueueBounded
  BY <1>1, ThreadsProved!BoundSuffices, SameBound
<1>3. Control => NoDanglingTask
  BY DEF Control, CallInv, SlotInv, Waits, NoDanglingTask
<1> QED
  BY <1>2, <1>3, SharesSuffice, PoolsHold, PTL

\* FirstFailureSurfaces: run() rethrows the exception of the first failing row.
THEOREM PoolsFailFirst == PoolsSpec => FirstFailureSurfaces
<1>1. Control /\ RowInv /\ [PoolsNext]_poolsVars =>
      [Rethrow => \/ failing = {} /\ raised' = None
                  \/ /\ raised' \in failing
                     /\ \A r \in failing : raised' <= r]_vars
  BY FirstRethrown, PoolsSteps
<1> QED
  BY <1>1, PoolsHold, PTL DEF PoolsSpec, FirstFailureSurfaces

-----------------------------------------------------------------------------
(***************************************************************************)
(* Liveness.                                                               *)
(***************************************************************************)
\* What a planned pipeline is made of.
LEMMA PlannedStages ==
    ASSUME NEW p, Planned(p)
    PROVE  /\ Len(p) \in Nat /\ Stages(p) = 1 .. Len(p)
           /\ \A i \in Stages(p) :
                 /\ p[i].role \in {"reader", "filter", "writer"}
                 /\ p[i].native \in BOOLEAN /\ p[i].device \in BOOLEAN
                 /\ p[i].grid \in BOOLEAN
                 /\ p[i].reads \subseteq Dims /\ p[i].writes \subseteq Dims
                 /\ p[i].inputs \subseteq 1 .. i - 1
                 /\ p[i].device => p[i].role = "filter"
<1>1. Len(p) \in Nat /\ Stages(p) = 1 .. Len(p)
      /\ \A i \in 1 .. Len(p) : p[i] \in Descriptor
  BY DEF Planned, Stages
<1>2. \A s \in Descriptor :
         /\ s.role \in {"reader", "filter", "writer"}
         /\ s.native \in BOOLEAN /\ s.device \in BOOLEAN /\ s.grid \in BOOLEAN
         /\ s.reads \subseteq Dims /\ s.writes \subseteq Dims
  BY DEF Descriptor
<1> QED
  BY <1>1, <1>2 DEF Planned

\* A stage's reads and writes are dimensions, it looks at what it is taken to
\* read, and what it is taken to write but does not change it is taken to read.
LEMMA ReadsAndWrites ==
    ASSUME NEW p, Planned(p), NEW i \in Stages(p)
    PROVE  /\ Reads(p, i) \subseteq Dims /\ Writes(p, i) \subseteq Dims
           /\ Looks(p, i) = Reads(p, i)
           /\ Writes(p, i) \subseteq Changes(p, i) \cup Reads(p, i)
           /\ Changes(p, i) \subseteq Dims
           /\ p[i].role # "reader" => Changes(p, i) = p[i].writes
<1>1. \A j \in Stages(p) : p[j].reads \subseteq Dims /\ p[j].writes \subseteq Dims
  BY PlannedStages
<1>2. /\ p[i].role \in {"reader", "filter", "writer"}
      /\ p[i].native \in BOOLEAN
  BY PlannedStages
<1>3. Touched(p) \subseteq Dims /\ FilterWrites(p) \subseteq Dims
  BY <1>1 DEF Touched, FilterWrites
<1>4. Reads(p, i) \subseteq Dims
  BY <1>1, <1>3 DEF Reads
<1>5. Writes(p, i) \subseteq Dims /\ Changes(p, i) \subseteq Dims
  BY <1>1, <1>3 DEF Writes, Changes
<1>6. Looks(p, i) = Reads(p, i)
  BY <1>2 DEF Looks, Reads, Foreign
<1>7. Writes(p, i) \subseteq Changes(p, i) \cup Reads(p, i)
  BY <1>2 DEF Writes, Changes, Reads, Foreign
<1>8. p[i].role # "reader" => Changes(p, i) = p[i].writes
  BY DEF Changes
<1> QED
  BY <1>4, <1>5, <1>6, <1>7, <1>8

\* The consumers of a stage come after it.
LEMMA ConsumersLater ==
    ASSUME NEW p, Planned(p), NEW i \in Stages(p)
    PROVE  Consumers(p, i) \subseteq i + 1 .. Len(p)
<1>1. ASSUME NEW j \in Consumers(p, i) PROVE j \in i + 1 .. Len(p)
  <2>1. /\ Len(p) \in Nat /\ i \in 1 .. Len(p) /\ j \in 1 .. Len(p)
        /\ i \in 1 .. j - 1
    BY PlannedStages, <1>1 DEF Consumers
  <2> QED
    BY <2>1, SMT
<1> QED
  BY <1>1

\* What is live before stage i, from what is live before its consumers.
LiveAt(p, live, i) ==
    ((UNION {live[j] : j \in Consumers(p, i)}) \ Writes(p, i)) \cup Reads(p, i)

\* The last k stages have what is live before them.
LiveFrom(p, k, live) ==
    LET stages == Len(p) - k + 1 .. Len(p)
    IN  /\ live \in [stages -> SUBSET Dims]
        /\ \A i \in stages : live[i] = LiveAt(p, live, i)

\* One more stage gets it from those.
LEMMA LiveOneMore ==
    ASSUME NEW p, Planned(p), NEW k \in Nat, k < Len(p), NEW live, LiveFrom(p, k, live)
    PROVE  \E more : LiveFrom(p, k + 1, more)
<1> DEFINE n == Len(p)
           i == n - k
           stages == n - k + 1 .. n
           more == [j \in i .. n |-> IF j = i THEN LiveAt(p, live, i) ELSE live[j]]
<1>1. n \in Nat /\ Stages(p) = 1 .. n /\ i \in Stages(p) /\ n - (k + 1) + 1 = i
      /\ stages = i + 1 .. n /\ i \in i .. n /\ i \notin stages
      /\ i .. n = {i} \cup stages /\ stages \subseteq Stages(p) /\ i .. n \subseteq Stages(p)
  <2>1. n \in Nat /\ Stages(p) = 1 .. n
    BY PlannedStages
  <2> QED
    BY <2>1, SMT
<1>2. live \in [stages -> SUBSET Dims] /\ \A j \in stages : live[j] = LiveAt(p, live, j)
  BY DEF LiveFrom
<1> HIDE DEF n, i, stages
<1>3. ASSUME NEW j \in i .. n PROVE Consumers(p, j) \subseteq stages
  <2>1. Consumers(p, j) \subseteq j + 1 .. n
    BY <1>1, <1>3, ConsumersLater DEF n
  <2>2. j + 1 .. n \subseteq i + 1 .. n
    BY <1>1, <1>3, SMT
  <2> QED
    BY <1>1, <2>1, <2>2
<1>4. \A j \in stages : more[j] = live[j]
  BY <1>1
<1>5. ASSUME NEW j \in i .. n PROVE LiveAt(p, more, j) = LiveAt(p, live, j)
  BY <1>3, <1>4, <1>5 DEF LiveAt
<1>6. LiveAt(p, live, i) \in SUBSET Dims
  <2>1. Reads(p, i) \subseteq Dims
    BY <1>1, ReadsAndWrites
  <2>2. \A j \in Consumers(p, i) : live[j] \subseteq Dims
    BY <1>1, <1>2, <1>3
  <2> QED
    BY <2>1, <2>2 DEF LiveAt
<1>7. more \in [i .. n -> SUBSET Dims]
  BY <1>1, <1>2, <1>6
<1>8. \A j \in i .. n : more[j] = LiveAt(p, more, j)
  <2>1. ASSUME NEW j \in i .. n PROVE more[j] = LiveAt(p, live, j)
    BY <1>1, <1>2, <2>1
  <2> QED
    BY <1>5, <2>1
<1> HIDE DEF more
<1>9. LiveFrom(p, k + 1, more)
  BY <1>1, <1>7, <1>8 DEF LiveFrom, n
<1> QED
  BY <1>9

\* So every stage does.
LEMMA LiveExists ==
    ASSUME NEW p, Planned(p)
    PROVE  \E live : LiveFrom(p, Len(p), live)
<1> DEFINE n == Len(p)
           Without == {k \in 0 .. n : ~\E live : LiveFrom(p, k, live)}
<1>1. n \in Nat
  BY PlannedStages
<1>2. ASSUME Without # {} PROVE FALSE
  <2>1. Without \in SUBSET Nat
    BY <1>1
  <2>2. PICK k \in Without : \A l \in Without : k <= l
    BY <1>2, <2>1, LeastMember
  <2>3. k # 0
    <3>1. n - 0 + 1 .. n = {}
      BY <1>1, SMT
    <3>2. LiveFrom(p, 0, [i \in {} |-> {}])
      BY <3>1 DEF LiveFrom
    <3> QED
      BY <2>2, <3>2
  <2>4. k \in 0 .. n /\ k - 1 \in 0 .. n /\ k - 1 \in Nat /\ k - 1 < n
        /\ (k - 1) + 1 = k /\ ~(k <= k - 1)
    BY <1>1, <2>2, <2>3, SMT
  <2>5. k - 1 \notin Without
    BY <2>2, <2>4
  <2>6. PICK live : LiveFrom(p, k - 1, live)
    BY <2>4, <2>5
  <2>7. \E more : LiveFrom(p, (k - 1) + 1, more)
    BY <2>4, <2>6, LiveOneMore
  <2> QED
    BY <2>2, <2>4, <2>7
<1>3. n \in 0 .. n
  BY <1>1, SMT
<1> QED
  BY <1>2, <1>3

\* LiveBefore satisfies its equation.
LEMMA LiveUnfolds ==
    ASSUME NEW p, Planned(p)
    PROVE  LiveBefore(p) = [i \in Stages(p) |-> LiveAt(p, LiveBefore(p), i)]
<1>1. PICK live : LiveFrom(p, Len(p), live)
  BY LiveExists
<1>2. Len(p) - Len(p) + 1 .. Len(p) = Stages(p)
  <2>1. Len(p) \in Nat /\ Stages(p) = 1 .. Len(p)
    BY PlannedStages
  <2> QED
    BY <2>1, SMT
<1>3. live = [i \in Stages(p) |-> LiveAt(p, live, i)]
  BY <1>1, <1>2 DEF LiveFrom
<1>4. LiveBefore(p) = CHOOSE f : f = [i \in Stages(p) |-> LiveAt(p, f, i)]
  BY DEF LiveBefore, LiveAt
<1> QED
  BY <1>3, <1>4

\* What is live are dimensions.
LEMMA LiveDims ==
    ASSUME NEW p, Planned(p), NEW i \in Stages(p)
    PROVE  LiveBefore(p)[i] \subseteq Dims
<1> DEFINE n == Len(p)
           live == LiveBefore(p)
           Others == {j \in Stages(p) : ~(live[j] \subseteq Dims)}
<1>1. n \in Nat /\ Stages(p) = 1 .. n
  BY PlannedStages
<1>2. \A j \in Stages(p) : live[j] = LiveAt(p, live, j)
  BY LiveUnfolds
<1> HIDE DEF live
<1>3. ASSUME Others # {} PROVE FALSE
  <2>1. Others \in SUBSET (0 .. n)
    BY <1>1, SMT
  <2>2. PICK j \in Others : \A k \in Others : k <= j
    BY <1>1, <1>3, <2>1, GreatestMember
  <2>3. ASSUME NEW k \in Consumers(p, j) PROVE live[k] \subseteq Dims
    <3>1. k \in j + 1 .. n /\ k \in Stages(p)
      BY <2>2, <2>3, ConsumersLater DEF Consumers
    <3>2. j \in Nat /\ ~(k <= j)
      BY <1>1, <2>2, <3>1, SMT
    <3>3. k \notin Others
      BY <2>2, <3>2
    <3> QED
      BY <3>1, <3>3
  <2>4. Reads(p, j) \subseteq Dims
    BY <2>2, ReadsAndWrites
  <2>5. live[j] = LiveAt(p, live, j)
    BY <1>2, <2>2
  <2>6. live[j] \subseteq Dims
    BY <2>3, <2>4, <2>5 DEF LiveAt
  <2> QED
    BY <2>2, <2>6
<1> QED
  BY <1>3 DEF live

\* What the theorems need to know of liveness.
LEMMA Liveness ==
    ASSUME NEW p, Planned(p), NEW i \in Stages(p)
    PROVE  /\ LiveBefore(p)[i] = (LiveAfter(p)[i] \ Writes(p, i)) \cup Reads(p, i)
           /\ LiveAfter(p)[i] = UNION {LiveBefore(p)[j] : j \in Consumers(p, i)}
           /\ LiveBefore(p)[i] \subseteq Dims /\ LiveAfter(p)[i] \subseteq Dims
           /\ WorkingSet(p, i) \subseteq Dims
<1>1. LiveAfter(p)[i] = UNION {LiveBefore(p)[j] : j \in Consumers(p, i)}
  BY DEF LiveAfter
<1>2. LiveBefore(p)[i] = LiveAt(p, LiveBefore(p), i)
  BY LiveUnfolds
<1>3. \A j \in Consumers(p, i) : LiveBefore(p)[j] \subseteq Dims
  BY LiveDims DEF Consumers
<1>4. LiveBefore(p)[i] \subseteq Dims /\ Writes(p, i) \subseteq Dims
  BY LiveDims, ReadsAndWrites
<1>5. LiveAfter(p)[i] \subseteq Dims
  BY <1>1, <1>3
<1>6. WorkingSet(p, i) \subseteq Dims
  BY <1>4, <1>5 DEF WorkingSet
<1>7. LiveBefore(p)[i] = (LiveAfter(p)[i] \ Writes(p, i)) \cup Reads(p, i)
  <2> DEFINE later == UNION {LiveBefore(p)[j] : j \in Consumers(p, i)}
  <2>1. LiveAt(p, LiveBefore(p), i) = (later \ Writes(p, i)) \cup Reads(p, i)
    BY DEF LiveAt
  <2> HIDE DEF later
  <2> QED
    BY <1>1, <1>2, <2>1 DEF later
<1> QED
  BY <1>1, <1>4, <1>5, <1>6, <1>7

-----------------------------------------------------------------------------
(***************************************************************************)
(* Regions and the lifetimes of columns, in any pipeline.                  *)
(***************************************************************************)
\* The first and the last of some stages.
LEMMA Extremes ==
    ASSUME NEW n \in Nat, NEW S \in SUBSET (1 .. n), S # {}
    PROVE  /\ Min(S) \in S /\ \A i \in S : Min(S) <= i
           /\ Max(S) \in S /\ \A i \in S : i <= Max(S)
<1>1. S \in SUBSET Nat /\ S \in SUBSET (0 .. n)
  BY SMT
<1>2. \E m \in S : \A i \in S : m <= i
  BY <1>1, LeastMember
<1>3. \E m \in S : \A i \in S : m >= i
  <2>1. PICK m \in S : \A i \in S : i <= m
    BY <1>1, GreatestMember
  <2>2. \A i \in S : m >= i
    BY <1>1, <2>1, SMT
  <2> QED
    BY <2>2
<1>4. Min(S) \in S /\ \A i \in S : Min(S) <= i
  BY <1>2 DEF Min
<1>5. Max(S) \in S /\ \A i \in S : Max(S) >= i
  BY <1>3 DEF Max
<1>6. \A i \in S : i <= Max(S)
  BY <1>1, <1>5, SMT
<1> QED
  BY <1>4, <1>5, <1>6

\* A device stage is of its region, and a region of device stages.
LEMMA RegionMembers ==
    ASSUME NEW p, Planned(p), NEW r
    PROVE  /\ RegionStages(p, r) \subseteq DeviceStages(p)
           /\ DeviceStages(p) \subseteq Stages(p)
           /\ \A i \in DeviceStages(p) :
                 /\ i \in RegionStages(p, RegionOf(p)[i])
                 /\ RegionOf(p)[i] \in ResidentRegions(p)
                 /\ i \in RegionStages(p, r) <=> RegionOf(p)[i] = r
  BY DEF RegionStages, ResidentRegions, DeviceStages

\* The first and the last stage of region r that use column d.
Earliest(p, r, d) == Min(Users(p, r, d))
Latest(p, r, d) == Max(Users(p, r, d))

\* The columns of region r whose first user is i, whose last user is i, and the
\* ones whose lifetime holds i.
Starting(p, r, i) == {d \in ColumnsOf(p, r) : Earliest(p, r, d) = i}
Ending(p, r, i) == {d \in ColumnsOf(p, r) : Latest(p, r, d) = i}
Spanning(p, r, i) ==
    {d \in ColumnsOf(p, r) : Earliest(p, r, d) <= i /\ i <= Latest(p, r, d)}

\* A column of a region has a first and a last user, which are of the region,
\* and is a dimension that its users have in their working sets.
LEMMA ColumnUsers ==
    ASSUME NEW p, Planned(p), NEW r
    PROVE  \A d \in ColumnsOf(p, r) :
              /\ Earliest(p, r, d) \in Users(p, r, d)
              /\ Latest(p, r, d) \in Users(p, r, d)
              /\ Users(p, r, d) \subseteq RegionStages(p, r)
              /\ Users(p, r, d) \subseteq 1 .. Len(p)
              /\ \A i \in Users(p, r, d) : Earliest(p, r, d) <= i /\ i <= Latest(p, r, d)
              /\ Earliest(p, r, d) <= Latest(p, r, d)
<1> SUFFICES ASSUME NEW d \in ColumnsOf(p, r)
             PROVE  /\ Earliest(p, r, d) \in Users(p, r, d)
                    /\ Latest(p, r, d) \in Users(p, r, d)
                    /\ Users(p, r, d) \subseteq RegionStages(p, r)
                    /\ Users(p, r, d) \subseteq 1 .. Len(p)
                    /\ \A i \in Users(p, r, d) :
                          Earliest(p, r, d) <= i /\ i <= Latest(p, r, d)
                    /\ Earliest(p, r, d) <= Latest(p, r, d)
  OBVIOUS
<1> DEFINE U == Users(p, r, d)
<1>1. Len(p) \in Nat /\ Stages(p) = 1 .. Len(p)
  BY PlannedStages
<1>2. U # {} /\ U \subseteq RegionStages(p, r)
  BY DEF ColumnsOf, Users
<1>3. U \in SUBSET (1 .. Len(p))
  BY <1>1, <1>2, RegionMembers
<1> HIDE DEF U
<1>4. /\ Min(U) \in U /\ \A i \in U : Min(U) <= i
      /\ Max(U) \in U /\ \A i \in U : i <= Max(U)
  BY ONLY <1>1, <1>2, <1>3, Extremes
<1> QED
  BY <1>2, <1>3, <1>4 DEF Earliest, Latest, U

\* What a device stage uses is a column of its region, and conversely.
LEMMA ColumnOfUser ==
    ASSUME NEW p, Planned(p), NEW i \in DeviceStages(p), NEW d
    PROVE  LET r == RegionOf(p)[i]
           IN  /\ d \in WorkingSet(p, i) <=> i \in Users(p, r, d)
               /\ d \in WorkingSet(p, i) => d \in ColumnsOf(p, r)
<1> DEFINE r == RegionOf(p)[i]
<1>1. i \in RegionStages(p, r) /\ i \in Stages(p)
  BY RegionMembers
<1>2. d \in WorkingSet(p, i) <=> i \in Users(p, r, d)
  BY <1>1 DEF Users
<1>3. WorkingSet(p, i) \subseteq Dims
  BY <1>1, Liveness
<1> HIDE DEF r
<1> QED
  BY <1>2, <1>3 DEF ColumnsOf, r

\* A column is materialized before its first user and retired after its last.
LEMMA Lifetimes ==
    ASSUME NEW p, Planned(p), NEW i \in DeviceStages(p)
    PROVE  LET r == RegionOf(p)[i]
           IN  /\ DeviceMaterialize(p, i) = Starting(p, r, i)
               /\ LastUse(p, i) = Ending(p, r, i)
<1> DEFINE r == RegionOf(p)[i]
<1>1. \A d \in WorkingSet(p, i) : d \in ColumnsOf(p, r)
  BY ColumnOfUser
<1>2. \A d \in ColumnsOf(p, r) : i \in Users(p, r, d) => d \in WorkingSet(p, i)
  BY ColumnOfUser
<1>3. \A d \in ColumnsOf(p, r) :
         Earliest(p, r, d) \in Users(p, r, d) /\ Latest(p, r, d) \in Users(p, r, d)
  BY ColumnUsers
<1>4. /\ DeviceMaterialize(p, i) = {d \in WorkingSet(p, i) : i = Earliest(p, r, d)}
      /\ LastUse(p, i) = {d \in WorkingSet(p, i) : i = Latest(p, r, d)}
  BY DEF DeviceMaterialize, LastUse, Earliest, Latest
<1> HIDE DEF r
<1>5. DeviceMaterialize(p, i) = {d \in ColumnsOf(p, r) : Earliest(p, r, d) = i}
  BY <1>1, <1>2, <1>3, <1>4
<1>6. LastUse(p, i) = {d \in ColumnsOf(p, r) : Latest(p, r, d) = i}
  BY <1>1, <1>2, <1>3, <1>4
<1> QED
  BY <1>5, <1>6 DEF r, Starting, Ending

\* Stage or spill boundary, what is retired is what was used last.
LEMMA RetiredAre ==
    ASSUME NEW p, NEW i
    PROVE  DeviceRelease(p, i) \cup ReleaseDimensions(p, i) = LastUse(p, i)
  BY DEF DeviceRelease, ReleaseDimensions

-----------------------------------------------------------------------------
(***************************************************************************)
(* What a region holds and has retired when stage i is next.               *)
(***************************************************************************)
HeldAt(p, r, i) ==
    {d \in ColumnsOf(p, r) : Earliest(p, r, d) < i /\ i <= Latest(p, r, d)}
RetiredAt(p, r, i) ==
    [d \in Dims |-> IF d \in ColumnsOf(p, r) /\ Latest(p, r, d) < i THEN 1 ELSE 0]

LifeInv ==
    /\ pipeline \in Pipelines
    /\ next \in 1 .. Len(pipeline) + 1
    /\ DOMAIN held = ResidentRegions(pipeline)
    /\ DOMAIN retired = ResidentRegions(pipeline)
    /\ \A r \in ResidentRegions(pipeline) :
          /\ held[r] = HeldAt(pipeline, r, next)
          /\ retired[r] = RetiredAt(pipeline, r, next)

\* The numbers of a column's users.
LEMMA UserNumbers ==
    ASSUME NEW p, Planned(p), NEW r, NEW d \in ColumnsOf(p, r)
    PROVE  /\ Earliest(p, r, d) \in 1 .. Len(p) /\ Latest(p, r, d) \in 1 .. Len(p)
           /\ Len(p) \in Nat /\ Earliest(p, r, d) <= Latest(p, r, d)
           /\ Earliest(p, r, d) \in RegionStages(p, r)
           /\ Latest(p, r, d) \in RegionStages(p, r)
<1>1. /\ Earliest(p, r, d) \in Users(p, r, d) /\ Latest(p, r, d) \in Users(p, r, d)
      /\ Users(p, r, d) \subseteq RegionStages(p, r)
      /\ Users(p, r, d) \subseteq 1 .. Len(p)
      /\ Earliest(p, r, d) <= Latest(p, r, d)
  BY ColumnUsers
<1>2. Len(p) \in Nat
  BY PlannedStages
<1> QED
  BY <1>1, <1>2

\* A stage of another region changes neither.
LEMMA LifeElsewhere ==
    ASSUME NEW p, Planned(p), NEW r, NEW i \in Stages(p), i \notin RegionStages(p, r)
    PROVE  HeldAt(p, r, i + 1) = HeldAt(p, r, i) /\ RetiredAt(p, r, i + 1) = RetiredAt(p, r, i)
<1>1. i \in 1 .. Len(p) /\ Len(p) \in Nat
  BY PlannedStages
<1>2. ASSUME NEW d \in ColumnsOf(p, r)
      PROVE  /\ Earliest(p, r, d) < i + 1 <=> Earliest(p, r, d) < i
             /\ i + 1 <= Latest(p, r, d) <=> i <= Latest(p, r, d)
             /\ Latest(p, r, d) < i + 1 <=> Latest(p, r, d) < i
  <2>1. /\ Earliest(p, r, d) \in 1 .. Len(p) /\ Latest(p, r, d) \in 1 .. Len(p)
        /\ Earliest(p, r, d) # i /\ Latest(p, r, d) # i
    BY <1>2, UserNumbers
  <2> QED
    BY <1>1, <2>1, SMT
<1>3. HeldAt(p, r, i + 1) = HeldAt(p, r, i)
  BY <1>2 DEF HeldAt
<1>4. RetiredAt(p, r, i + 1) = RetiredAt(p, r, i)
  BY <1>2 DEF RetiredAt
<1> QED
  BY <1>3, <1>4

\* A stage of the region materializes, then retires.
LEMMA LifeHere ==
    ASSUME NEW p, Planned(p), NEW r, NEW i \in RegionStages(p, r)
    PROVE  /\ HeldAt(p, r, i) \cup Starting(p, r, i) = Spanning(p, r, i)
           /\ HeldAt(p, r, i + 1)
                = (HeldAt(p, r, i) \cup Starting(p, r, i)) \ Ending(p, r, i)
           /\ RetiredAt(p, r, i + 1)
                = [d \in Dims |->
                      IF d \in Ending(p, r, i)
                      THEN RetiredAt(p, r, i)[d] + 1 ELSE RetiredAt(p, r, i)[d]]
<1>1. i \in 1 .. Len(p) /\ Len(p) \in Nat
  BY PlannedStages, RegionMembers
<1> DEFINE cols == ColumnsOf(p, r)
           f(d) == Earliest(p, r, d)
           l(d) == Latest(p, r, d)
<1>2. \A d \in cols : f(d) \in 1 .. Len(p) /\ l(d) \in 1 .. Len(p) /\ f(d) <= l(d)
  BY UserNumbers
<1>3. ASSUME NEW d \in cols
      PROVE  /\ ((f(d) < i /\ i <= l(d)) \/ f(d) = i) <=> (f(d) <= i /\ i <= l(d))
             /\ (f(d) < i + 1 /\ i + 1 <= l(d)) <=>
                   (((f(d) < i /\ i <= l(d)) \/ f(d) = i) /\ l(d) # i)
             /\ l(d) < i + 1 <=> (l(d) < i \/ l(d) = i)
             /\ l(d) = i => ~(l(d) < i)
  <2>1. f(d) \in 1 .. Len(p) /\ l(d) \in 1 .. Len(p) /\ f(d) <= l(d)
    BY <1>2
  <2> QED
    BY ONLY <1>1, <2>1, SMT
<1>4. \A d : d \in cols => d \in Dims
  BY DEF ColumnsOf
<1> HIDE DEF cols, f, l
<1>5. /\ HeldAt(p, r, i) = {d \in cols : f(d) < i /\ i <= l(d)}
      /\ HeldAt(p, r, i + 1) = {d \in cols : f(d) < i + 1 /\ i + 1 <= l(d)}
      /\ RetiredAt(p, r, i) = [d \in Dims |-> IF d \in cols /\ l(d) < i THEN 1 ELSE 0]
      /\ RetiredAt(p, r, i + 1) = [d \in Dims |-> IF d \in cols /\ l(d) < i + 1 THEN 1 ELSE 0]
  BY DEF HeldAt, RetiredAt, cols, f, l
<1>6. HeldAt(p, r, i) \cup {d \in cols : f(d) = i} = {d \in cols : f(d) <= i /\ i <= l(d)}
  BY ONLY <1>3, <1>5
<1>7. HeldAt(p, r, i + 1)
        = (HeldAt(p, r, i) \cup {d \in cols : f(d) = i}) \ {d \in cols : l(d) = i}
  BY ONLY <1>3, <1>5
<1>8. RetiredAt(p, r, i + 1)
        = [d \in Dims |-> IF d \in {e \in cols : l(e) = i}
                          THEN RetiredAt(p, r, i)[d] + 1 ELSE RetiredAt(p, r, i)[d]]
  <2>1. ASSUME NEW d \in Dims
        PROVE  (IF d \in cols /\ l(d) < i + 1 THEN 1 ELSE 0)
                  = IF d \in {e \in cols : l(e) = i}
                    THEN (IF d \in cols /\ l(d) < i THEN 1 ELSE 0) + 1
                    ELSE (IF d \in cols /\ l(d) < i THEN 1 ELSE 0)
    <3>1. CASE d \in cols
      <4>1. 0 + 1 = 1
        BY SMT
      <4> QED
        BY <1>3, <3>1, <4>1
    <3>2. CASE d \notin cols
      BY <3>2
    <3> QED
      BY <3>1, <3>2
  <2> QED
    BY <1>5, <2>1
<1> QED
  BY <1>6, <1>7, <1>8 DEF cols, f, l, Starting, Ending, Spanning

\* Before the first stage nothing is held and nothing retired.
LEMMA LifeInit == ASSUME PipelinesAssumption, WalkInit PROVE LifeInv
<1> DEFINE p == pipeline
<1>1. p \in Pipelines /\ Planned(p) /\ next = 1
  BY DEF WalkInit, PipelinesAssumption
<1>2. Len(p) \in Nat /\ 1 \in 1 .. Len(p) + 1
  <2>1. Len(p) \in Nat
    BY <1>1, PlannedStages
  <2> QED
    BY <2>1, SMT
<1>3. /\ held = [r \in ResidentRegions(p) |-> {}]
      /\ retired = [r \in ResidentRegions(p) |-> [d \in Dims |-> 0]]
  BY DEF WalkInit, Unset
<1>4. ASSUME NEW r PROVE HeldAt(p, r, 1) = {} /\ RetiredAt(p, r, 1) = [d \in Dims |-> 0]
  <2>1. ASSUME NEW d \in ColumnsOf(p, r)
        PROVE  ~(Earliest(p, r, d) < 1) /\ ~(Latest(p, r, d) < 1)
    <3>1. Earliest(p, r, d) \in 1 .. Len(p) /\ Latest(p, r, d) \in 1 .. Len(p)
      BY <1>1, <2>1, UserNumbers
    <3> QED
      BY <1>2, <3>1, SMT
  <2> QED
    BY <2>1 DEF HeldAt, RetiredAt
<1> QED
  BY <1>1, <1>2, <1>3, <1>4 DEF LifeInv

\* A device stage materializes and retires in its own region.
LEMMA LifeOfDevice ==
    ASSUME LifeInv, Planned(pipeline), DeviceStage
    PROVE  LifeInv'
<1> DEFINE p == pipeline
           i == next
           s == RegionOf(p)[i]
           fresh == DeviceMaterialize(p, i) \ held[s]
           kept == (held[s] \cup fresh) \ DeviceRelease(p, i)
           retiring == DeviceRelease(p, i) \cup ReleaseDimensions(p, i)
<1>1. i \in DeviceStages(p) /\ p' = p /\ next' = i + 1
  BY DEF DeviceStage
<1>2. i \in Stages(p) /\ i \in RegionStages(p, s) /\ s \in ResidentRegions(p)
      /\ \A r : r # s => i \notin RegionStages(p, r)
  BY <1>1, RegionMembers
<1>3. held' = [held EXCEPT ![s] = kept \ ReleaseDimensions(p, i)]
  BY DEF DeviceStage
<1>4. retired' = [retired EXCEPT ![s] =
          [d \in Dims |-> IF d \in retiring THEN @[d] + 1 ELSE @[d]]]
  BY DEF DeviceStage
<1>5. /\ DOMAIN held = ResidentRegions(p) /\ DOMAIN retired = ResidentRegions(p)
      /\ \A r \in ResidentRegions(p) :
            held[r] = HeldAt(p, r, i) /\ retired[r] = RetiredAt(p, r, i)
  BY DEF LifeInv
<1>6. retiring = LastUse(p, i)
  BY RetiredAre
<1>7. DeviceMaterialize(p, i) = Starting(p, s, i) /\ LastUse(p, i) = Ending(p, s, i)
  BY <1>1, Lifetimes
<1>8. kept \ ReleaseDimensions(p, i) = (held[s] \cup DeviceMaterialize(p, i)) \ retiring
  OBVIOUS
<1> HIDE DEF s, fresh, kept, retiring
<1>9. HeldAt(p, s, i + 1)
        = (HeldAt(p, s, i) \cup DeviceMaterialize(p, i)) \ LastUse(p, i)
      /\ RetiredAt(p, s, i + 1)
           = [d \in Dims |-> IF d \in LastUse(p, i)
                             THEN RetiredAt(p, s, i)[d] + 1 ELSE RetiredAt(p, s, i)[d]]
  BY <1>2, <1>7, LifeHere
<1>10. held'[s] = HeldAt(p, s, i + 1) /\ retired'[s] = RetiredAt(p, s, i + 1)
  BY <1>2, <1>3, <1>4, <1>5, <1>6, <1>8, <1>9
<1>11. ASSUME NEW r \in ResidentRegions(p), r # s
       PROVE  held'[r] = HeldAt(p, r, i + 1) /\ retired'[r] = RetiredAt(p, r, i + 1)
  <2>1. HeldAt(p, r, i + 1) = HeldAt(p, r, i) /\ RetiredAt(p, r, i + 1) = RetiredAt(p, r, i)
    BY <1>2, <1>11, LifeElsewhere
  <2> QED
    BY <1>3, <1>4, <1>5, <1>11, <2>1
<1>12. i + 1 \in 1 .. Len(p) + 1
  <2>1. Len(p) \in Nat /\ i \in 1 .. Len(p)
    BY <1>2, PlannedStages
  <2> QED
    BY <2>1, SMT
<1>13. DOMAIN held' = ResidentRegions(p) /\ DOMAIN retired' = ResidentRegions(p)
  BY <1>3, <1>4, <1>5
<1>14. p \in Pipelines
  BY DEF LifeInv
<1> HIDE DEF i
<1>15. \A r \in ResidentRegions(p) :
          held'[r] = HeldAt(p, r, i + 1) /\ retired'[r] = RetiredAt(p, r, i + 1)
  BY <1>10, <1>11
<1> QED
  BY <1>1, <1>12, <1>13, <1>14, <1>15 DEF LifeInv

\* A host stage touches no region.
LEMMA LifeOfHost ==
    ASSUME LifeInv, Planned(pipeline), HostStage
    PROVE  LifeInv'
<1> DEFINE p == pipeline
           i == next
<1>1. /\ i \in Stages(p) /\ i \notin DeviceStages(p)
      /\ p' = p /\ next' = i + 1 /\ held' = held /\ retired' = retired
  BY DEF HostStage
<1>2. i + 1 \in 1 .. Len(p) + 1
  <2>1. Len(p) \in Nat /\ i \in 1 .. Len(p)
    BY <1>1, PlannedStages
  <2> QED
    BY <2>1, SMT
<1>3. ASSUME NEW r
      PROVE  HeldAt(p, r, i + 1) = HeldAt(p, r, i) /\ RetiredAt(p, r, i + 1) = RetiredAt(p, r, i)
  <2>1. i \notin RegionStages(p, r)
    BY <1>1, RegionMembers
  <2> QED
    BY <1>1, <2>1, LifeElsewhere
<1> QED
  BY <1>1, <1>2, <1>3 DEF LifeInv

LEMMA LifeStep ==
    ASSUME PipelinesAssumption, LifeInv, [WalkNext]_walkVars
    PROVE  LifeInv'
<1>1. Planned(pipeline)
  BY DEF LifeInv, PipelinesAssumption
<1>2. CASE HostStage
  BY <1>1, <1>2, LifeOfHost
<1>3. CASE DeviceStage
  BY <1>1, <1>3, LifeOfDevice
<1>4. CASE UNCHANGED walkVars
  BY <1>4 DEF LifeInv, walkVars
<1> QED
  BY <1>2, <1>3, <1>4 DEF WalkNext, Finished

\* When every stage has run, nothing is held and each column is retired.
LEMMA LifeEnds == ASSUME PipelinesAssumption, LifeInv PROVE RetiredOnce
<1> DEFINE p == pipeline
<1> SUFFICES ASSUME next > Len(p), NEW r \in ResidentRegions(p)
             PROVE  /\ held[r] = {}
                    /\ \A d \in Dims :
                          retired[r][d] = IF d \in ColumnsOf(p, r) THEN 1 ELSE 0
  BY DEF RetiredOnce
<1>1. Planned(p) /\ held[r] = HeldAt(p, r, next) /\ retired[r] = RetiredAt(p, r, next)
  BY DEF LifeInv, PipelinesAssumption
<1>2. Len(p) \in Nat /\ next \in 1 .. Len(p) + 1
  BY <1>1, PlannedStages DEF LifeInv
<1>3. ASSUME NEW d \in ColumnsOf(p, r) PROVE Latest(p, r, d) < next /\ ~(next <= Latest(p, r, d))
  <2>1. Latest(p, r, d) \in 1 .. Len(p)
    BY <1>1, <1>3, UserNumbers
  <2> QED
    BY <1>2, <2>1, SMT
<1> QED
  BY <1>1, <1>3 DEF HeldAt, RetiredAt

\* At a device stage the region holds the planned columns.
LEMMA EstimateStep ==
    ASSUME PipelinesAssumption, LifeInv, DeviceStage
    PROVE  LET during == held[RegionOf(pipeline)[next]]
                            \cup DeviceMaterialize(pipeline, next)
           IN  /\ LiveBefore(pipeline)[next] \subseteq during
               /\ Cardinality(during) = DeviceColumns(pipeline, next)
<1> DEFINE p == pipeline
           i == next
           s == RegionOf(p)[i]
           now == Spanning(p, s, i)
<1>1. Planned(p) /\ i \in DeviceStages(p)
  BY DEF LifeInv, PipelinesAssumption, DeviceStage
<1>2. i \in RegionStages(p, s) /\ s \in ResidentRegions(p)
  BY <1>1, RegionMembers
<1>3. held[s] = HeldAt(p, s, i)
  BY <1>2 DEF LifeInv
<1>4. DeviceMaterialize(p, i) = Starting(p, s, i)
  BY <1>1, Lifetimes
<1>5. held[s] \cup DeviceMaterialize(p, i) = now
  <2>1. HeldAt(p, s, i) \cup Starting(p, s, i) = now
    BY <1>1, <1>2, LifeHere
  <2> QED
    BY ONLY <1>3, <1>4, <2>1
<1>6. DeviceColumns(p, i) = Cardinality(now)
  BY DEF DeviceColumns, Earliest, Latest, Spanning
<1>7. ASSUME NEW d \in WorkingSet(p, i) PROVE d \in now
  <2>1. i \in Users(p, s, d) /\ d \in ColumnsOf(p, s)
    BY <1>1, <1>7, ColumnOfUser
  <2> QED
    BY <1>1, <2>1, ColumnUsers DEF Spanning
<1>8. LiveBefore(p)[i] \subseteq WorkingSet(p, i)
  BY DEF WorkingSet
<1> QED
  BY <1>5, <1>6, <1>7, <1>8

-----------------------------------------------------------------------------
(***************************************************************************)
(* The regions of a chain.                                                 *)
(***************************************************************************)
\* Each stage feeds the next one.
LEMMA ChainConsumers ==
    ASSUME NEW p, Planned(p), Chain(p)
    PROVE  /\ \A i, j \in Stages(p) : i \in p[j].inputs <=> j = i + 1
           /\ \A i \in Stages(p) :
                 /\ i + 1 \in Stages(p) => Consumers(p, i) = {i + 1}
                 /\ i + 1 \notin Stages(p) => Consumers(p, i) = {}
<1>1. Len(p) \in Nat /\ Stages(p) = 1 .. Len(p)
  BY PlannedStages
<1>2. ASSUME NEW i \in Stages(p), NEW j \in Stages(p)
      PROVE  i \in p[j].inputs <=> j = i + 1
  <2>1. CASE j = 1
    <3>1. p[j].inputs \subseteq 1 .. j - 1
      BY PlannedStages
    <3> QED
      BY <1>1, <2>1, <3>1, SMT
  <2>2. CASE j # 1
    <3>1. p[j].inputs = {j - 1}
      BY <2>2 DEF Chain
    <3>2. i = j - 1 <=> j = i + 1
      BY <1>1, SMT
    <3> QED
      BY <3>1, <3>2
  <2> QED
    BY <2>1, <2>2
<1> QED
  BY <1>2 DEF Consumers

\* Every stage from i to j, or from j to i, is on the device and on the same
\* side of the grid limit.
Between(i, j, m) == (i <= m /\ m <= j) \/ (j <= m /\ m <= i)
Joined(p, i, j) ==
    \A m \in Stages(p) :
        Between(i, j, m) => p[m].device /\ p[m].grid = p[i].grid

\* In a chain the union steps go from a stage to its neighbours.
LEMMA ChainUnited ==
    ASSUME NEW p, Planned(p), Chain(p), NEW i \in Stages(p), NEW j \in Stages(p)
    PROVE  United(p, i, j) <=>
               \/ i = j
               \/ ((j = i + 1 \/ i = j + 1) /\ p[i].grid = p[j].grid)
<1>1. /\ i \in p[j].inputs <=> j = i + 1
      /\ j \in p[i].inputs <=> i = j + 1
  BY ChainConsumers
<1>2. ASSUME NEW k \in Stages(p), i \in Consumers(p, k), j \in Consumers(p, k)
      PROVE  i = j
  BY <1>2, ChainConsumers
<1>3. Siblings(p, i, j) => i = j
  BY <1>2 DEF Siblings
<1>4. Siblings(p, j, i) => i = j
  BY <1>2 DEF Siblings
<1> QED
  BY <1>1, <1>3, <1>4 DEF United, Feeds, Compose

LEMMA JoinedSelf ==
    ASSUME NEW p, Planned(p), NEW i \in DeviceStages(p)
    PROVE  Joined(p, i, i)
<1>1. ASSUME NEW m \in Stages(p), Between(i, i, m) PROVE m = i
  <2>1. Len(p) \in Nat /\ Stages(p) = 1 .. Len(p) /\ i \in Stages(p)
    BY PlannedStages DEF DeviceStages
  <2> QED
    BY <1>1, <2>1, SMT DEF Between
<1> QED
  BY <1>1 DEF Joined, DeviceStages

\* A run can be walked from its other end, or on to another run.
LEMMA JoinedOn ==
    ASSUME NEW p, Planned(p), NEW i \in Stages(p), NEW j \in Stages(p),
           NEW k \in Stages(p), Joined(p, i, j)
    PROVE  /\ p[i].grid = p[j].grid /\ Joined(p, j, i)
           /\ Joined(p, j, k) => Joined(p, i, k)
           /\ Between(i, j, k) => Joined(p, i, k)
<1>1. Len(p) \in Nat /\ Stages(p) = 1 .. Len(p)
  BY PlannedStages
<1>2. Between(i, j, j) /\ Between(i, j, i)
  BY <1>1, SMT DEF Between
<1>3. p[i].grid = p[j].grid
  BY <1>2 DEF Joined
<1>4. ASSUME NEW m \in Stages(p)
      PROVE  /\ Between(j, i, m) => Between(i, j, m)
             /\ Between(i, k, m) => Between(i, j, m) \/ Between(j, k, m)
             /\ Between(i, j, k) /\ Between(i, k, m) => Between(i, j, m)
  BY <1>1, SMT DEF Between
<1>5. Joined(p, j, i)
  BY <1>3, <1>4 DEF Joined
<1>6. Joined(p, j, k) => Joined(p, i, k)
  BY <1>3, <1>4 DEF Joined
<1>7. Between(i, j, k) => Joined(p, i, k)
  BY <1>4 DEF Joined
<1> QED
  BY <1>3, <1>5, <1>6, <1>7

\* What k union steps reach from stage i.
Reach(p, i, k) ==
    {j \in DeviceStages(p) : Joined(p, i, j) /\ j - i <= k /\ i - j <= k}

LEMMA ReachOneMore ==
    ASSUME NEW p, Planned(p), Chain(p), NEW i \in DeviceStages(p), NEW k \in Nat
    PROVE  Reach(p, i, k + 1)
             = {j \in DeviceStages(p) : \E m \in Reach(p, i, k) : United(p, m, j)}
<1>1. /\ Len(p) \in Nat /\ Stages(p) = 1 .. Len(p)
      /\ DeviceStages(p) \subseteq Stages(p) /\ i \in Stages(p)
      /\ \A j \in DeviceStages(p) : p[j].device
  BY PlannedStages DEF DeviceStages
<1>2. ASSUME NEW j \in Reach(p, i, k + 1)
      PROVE  \E m \in Reach(p, i, k) : United(p, m, j)
  <2>1. j \in DeviceStages(p) /\ j \in Stages(p) /\ Joined(p, i, j)
        /\ j - i <= k + 1 /\ i - j <= k + 1
    BY <1>1, <1>2 DEF Reach
  <2>2. CASE j - i <= k /\ i - j <= k
    <3>1. j \in Reach(p, i, k)
      BY <2>1, <2>2 DEF Reach
    <3> QED
      BY <3>1 DEF United
  <2>3. CASE ~(j - i <= k)
    <3>1. j - 1 \in Stages(p) /\ Between(i, j, j - 1) /\ (j - 1) - i <= k
          /\ i - (j - 1) <= k /\ j = (j - 1) + 1 /\ Between(i, j, j)
      BY <1>1, <2>1, <2>3, SMT DEF Between
    <3>2. p[j - 1].device /\ p[j - 1].grid = p[i].grid /\ p[j].grid = p[i].grid
      BY <2>1, <3>1 DEF Joined
    <3>3. Joined(p, i, j - 1)
      BY <1>1, <2>1, <3>1, JoinedOn
    <3>4. j - 1 \in Reach(p, i, k)
      BY <3>1, <3>2, <3>3 DEF Reach, DeviceStages
    <3>5. United(p, j - 1, j)
      BY <2>1, <3>1, <3>2, ChainUnited
    <3> QED
      BY <3>4, <3>5
  <2>4. CASE ~(i - j <= k)
    <3>1. j + 1 \in Stages(p) /\ Between(i, j, j + 1) /\ (j + 1) - i <= k
          /\ i - (j + 1) <= k /\ Between(i, j, j)
      BY <1>1, <2>1, <2>4, SMT DEF Between
    <3>2. p[j + 1].device /\ p[j + 1].grid = p[i].grid /\ p[j].grid = p[i].grid
      BY <2>1, <3>1 DEF Joined
    <3>3. Joined(p, i, j + 1)
      BY <1>1, <2>1, <3>1, JoinedOn
    <3>4. j + 1 \in Reach(p, i, k)
      BY <3>1, <3>2, <3>3 DEF Reach, DeviceStages
    <3>5. United(p, j + 1, j)
      BY <2>1, <3>1, <3>2, ChainUnited
    <3> QED
      BY <3>4, <3>5
  <2> QED
    BY <2>2, <2>3, <2>4
<1>3. ASSUME NEW j \in DeviceStages(p), NEW m \in Reach(p, i, k), United(p, m, j)
      PROVE  j \in Reach(p, i, k + 1)
  <2>1. m \in Stages(p) /\ j \in Stages(p) /\ Joined(p, i, m)
        /\ m \in DeviceStages(p) /\ m - i <= k /\ i - m <= k
    BY <1>1, <1>3 DEF Reach
  <2>2. m = j \/ ((j = m + 1 \/ m = j + 1) /\ p[m].grid = p[j].grid)
    BY <1>3, <2>1, ChainUnited
  <2>3. Joined(p, i, j)
    <3>1. p[i].grid = p[m].grid
      BY <1>1, <2>1, JoinedOn
    <3>2. p[j].device /\ p[j].grid = p[i].grid
      BY <1>1, <2>2, <3>1
    <3>3. ASSUME NEW l \in Stages(p), Between(i, j, l)
          PROVE  l = j \/ Between(i, m, l)
      BY <1>1, <2>1, <2>2, <3>3, SMT DEF Between
    <3> QED
      BY <2>1, <3>2, <3>3 DEF Joined
  <2>4. j - i <= k + 1 /\ i - j <= k + 1
    <3>1. /\ i \in Int /\ j \in Int /\ m \in Int /\ k \in Int
          /\ m - i <= k /\ i - m <= k
      BY <1>1, <2>1
    <3>2. m = j \/ j = m + 1 \/ m = j + 1
      BY <2>2
    <3> QED
      BY ONLY <3>1, <3>2, SMT
  <2> QED
    BY <2>3, <2>4 DEF Reach
<1>4. Reach(p, i, k + 1) \subseteq DeviceStages(p)
  BY DEF Reach
<1> QED
  BY <1>2, <1>3, <1>4

\* What the union steps from stage i find is its run.
LEMMA RegionIsRun ==
    ASSUME NEW p, Planned(p), Chain(p), NEW i \in DeviceStages(p)
    PROVE  RegionWithin(p, i) = {j \in DeviceStages(p) : Joined(p, i, j)}
<1> DEFINE n == Len(p)
           Body(f, k) ==
               IF k = 0 THEN {i}
               ELSE {j \in DeviceStages(p) : \E m \in f[k - 1] : United(p, m, j)}
           Is(f) == f = [k \in 0 .. n |-> Body(f, k)]
           near == CHOOSE f : Is(f)
           reach == [k \in 0 .. n |-> Reach(p, i, k)]
<1>1. /\ n \in Nat /\ Stages(p) = 1 .. n
      /\ DeviceStages(p) \subseteq Stages(p) /\ i \in Stages(p)
  BY PlannedStages DEF DeviceStages
<1>2. Reach(p, i, 0) = {i}
  <2>1. ASSUME NEW j \in DeviceStages(p) PROVE (j - i <= 0 /\ i - j <= 0) <=> j = i
    BY <1>1, SMT
  <2> QED
    BY <2>1, JoinedSelf DEF Reach
<1>3. ASSUME NEW k \in 0 .. n, k # 0
      PROVE  /\ k - 1 \in 0 .. n /\ k - 1 \in Nat
             /\ Reach(p, i, k)
                  = {j \in DeviceStages(p) :
                        \E m \in Reach(p, i, k - 1) : United(p, m, j)}
  <2>1. k - 1 \in 0 .. n /\ k - 1 \in Nat /\ (k - 1) + 1 = k
    BY <1>1, <1>3, SMT
  <2>2. Reach(p, i, (k - 1) + 1)
          = {j \in DeviceStages(p) : \E m \in Reach(p, i, k - 1) : United(p, m, j)}
    <3>1. Planned(p) /\ Chain(p) /\ i \in DeviceStages(p) /\ k - 1 \in Nat
      BY <2>1
    <3> QED
      BY ONLY <3>1, ReachOneMore
  <2> QED
    BY <2>1, <2>2
<1>4. RegionWithin(p, i) = near[n]
  BY DEF RegionWithin
<1>5. Is(reach)
  <2>1. ASSUME NEW k \in 0 .. n PROVE Reach(p, i, k) = Body(reach, k)
    BY <1>2, <1>3
  <2> QED
    BY <2>1
<1>6. Is(near)
  <2> HIDE DEF Is, reach
  <2> QED
    BY <1>5
<1>7. /\ DOMAIN near = 0 .. n
      /\ \A k \in 0 .. n : near[k] = Body(near, k)
  <2> HIDE DEF near, Body
  <2> QED
    BY <1>6
<1> DEFINE Others == {k \in 0 .. n : near[k] # Reach(p, i, k)}
<1> HIDE DEF near, Is
<1>8. ASSUME Others # {} PROVE FALSE
  <2>1. Others \in SUBSET Nat
    BY <1>1
  <2>2. PICK k \in Others : \A l \in Others : k <= l
    BY <1>8, <2>1, LeastMember
  <2>3. k # 0
    BY <1>2, <1>7, <2>2
  <2>4. k \in 0 .. n /\ ~(k <= k - 1)
    BY <1>1, <2>2, SMT
  <2>5. k - 1 \in 0 .. n
    BY <1>3, <2>3, <2>4
  <2>6. near[k - 1] = Reach(p, i, k - 1)
    BY <2>2, <2>4, <2>5
  <2>7. near[k] = Reach(p, i, k)
    <3>1. near[k] = {j \in DeviceStages(p) : \E m \in near[k - 1] : United(p, m, j)}
      BY <1>7, <2>3, <2>4
    <3> QED
      BY <1>3, <2>3, <2>4, <2>6, <3>1
  <2> QED
    BY <2>2, <2>7
<1>9. near[n] = Reach(p, i, n)
  <2>1. n \in 0 .. n
    BY <1>1, SMT
  <2> QED
    BY <1>8, <2>1
<1>10. ASSUME NEW j \in DeviceStages(p) PROVE j - i <= n /\ i - j <= n
  BY <1>1, SMT
<1> QED
  BY <1>4, <1>9, <1>10 DEF Reach

\* So two stages share a region when they are joined, and the stages of a
\* region are consecutive.
LEMMA RegionsAreRuns ==
    ASSUME NEW p, Planned(p), Chain(p), NEW i \in DeviceStages(p), NEW j \in DeviceStages(p)
    PROVE  RegionOf(p)[i] = RegionOf(p)[j] <=> Joined(p, i, j)
<1> DEFINE Stretch(k) == {m \in DeviceStages(p) : Joined(p, k, m)}
<1>1. DeviceStages(p) \subseteq Stages(p) /\ Len(p) \in Nat /\ Stages(p) = 1 .. Len(p)
  BY PlannedStages DEF DeviceStages
<1>2. \A k \in DeviceStages(p) : RegionOf(p)[k] = Min(Stretch(k))
  BY RegionIsRun DEF RegionOf
<1>3. ASSUME NEW k \in DeviceStages(p) PROVE Min(Stretch(k)) \in Stretch(k)
  <2>1. k \in Stretch(k) /\ Stretch(k) \in SUBSET (1 .. Len(p))
    BY <1>1, JoinedSelf
  <2> HIDE DEF Stretch
  <2> QED
    BY <1>1, <2>1, Extremes
<1>4. ASSUME Joined(p, i, j) PROVE Stretch(i) = Stretch(j)
  BY <1>1, <1>4, JoinedOn
<1>5. ASSUME RegionOf(p)[i] = RegionOf(p)[j] PROVE Joined(p, i, j)
  <2>1. PICK m \in DeviceStages(p) : Joined(p, i, m) /\ Joined(p, j, m)
    BY <1>2, <1>3, <1>5
  <2> QED
    BY <1>1, <2>1, JoinedOn
<1> QED
  BY <1>2, <1>4, <1>5

LEMMA RegionsConsecutive ==
    ASSUME NEW p, Planned(p), Chain(p), NEW r, NEW i \in RegionStages(p, r),
           NEW j \in RegionStages(p, r), NEW k \in Stages(p), i <= k, k <= j
    PROVE  k \in RegionStages(p, r)
<1>1. /\ i \in DeviceStages(p) /\ j \in DeviceStages(p)
      /\ i \in Stages(p) /\ j \in Stages(p)
      /\ RegionOf(p)[i] = r /\ RegionOf(p)[j] = r
  BY RegionMembers DEF RegionStages
<1>2. Joined(p, i, j)
  BY <1>1, RegionsAreRuns
<1>3. Between(i, j, k)
  BY DEF Between
<1>4. k \in DeviceStages(p) /\ Joined(p, i, k)
  <2>1. p[k].device
    BY <1>2, <1>3 DEF Joined
  <2>2. Joined(p, i, k)
    BY <1>1, <1>2, <1>3, JoinedOn
  <2> QED
    BY <2>1, <2>2 DEF DeviceStages
<1>5. RegionOf(p)[k] = r
  BY <1>1, <1>4, RegionsAreRuns
<1> QED
  BY <1>4, <1>5 DEF RegionStages

-----------------------------------------------------------------------------
(***************************************************************************)
(* What a chain's boundaries move.                                         *)
(***************************************************************************)
\* Stages i and j are of one region.
Together(p, i, j) ==
    i \in DeviceStages(p) /\ j \in DeviceStages(p) /\ RegionOf(p)[i] = RegionOf(p)[j]

LEMMA ChainLiveness ==
    ASSUME NEW p, Planned(p), Chain(p), NEW i \in Stages(p), i + 1 \in Stages(p)
    PROVE  LiveAfter(p)[i] = LiveBefore(p)[i + 1]
<1>1. Consumers(p, i) = {i + 1}
  BY ChainConsumers
<1>2. LiveAfter(p)[i] = UNION {LiveBefore(p)[j] : j \in Consumers(p, i)}
  BY Liveness
<1>3. UNION {LiveBefore(p)[j] : j \in {i + 1}} = LiveBefore(p)[i + 1]
  OBVIOUS
<1> QED
  BY <1>1, <1>2, <1>3

\* The first stage of a region uploads all its live inputs, and materializes
\* them: the region holds nothing yet.
LEMMA FirstOfRegion ==
    ASSUME NEW p, Planned(p), Chain(p), NEW i \in DeviceStages(p), i # 1,
           ~Together(p, i - 1, i)
    PROVE  LET r == RegionOf(p)[i]
           IN  /\ {k \in p[i].inputs : EntersRegion(p, k, i)} = {i - 1}
               /\ UploadDimensions(p, i - 1, r) = LiveBefore(p)[i]
               /\ HeldAt(p, r, i) = {}
               /\ LiveBefore(p)[i] \subseteq DeviceMaterialize(p, i)
               /\ \A j \in RegionStages(p, r) : i <= j
<1> DEFINE r == RegionOf(p)[i]
<1>1. /\ Len(p) \in Nat /\ Stages(p) = 1 .. Len(p)
      /\ i \in Stages(p) /\ i - 1 \in Stages(p) /\ (i - 1) + 1 = i
      /\ i - 1 <= i
  <2>1. Len(p) \in Nat /\ Stages(p) = 1 .. Len(p) /\ i \in Stages(p)
    BY PlannedStages DEF DeviceStages
  <2> QED
    BY <2>1, SMT
<1>2. EntersRegion(p, i - 1, i)
  BY DEF EntersRegion, Together
<1>3. p[i].inputs = {i - 1}
  BY <1>1 DEF Chain
<1>4. i \in RegionStages(p, r) /\ RegionStages(p, r) \subseteq Stages(p)
  BY RegionMembers
<1>5. Uploads(p, i - 1, r) = {i}
  <2>1. ASSUME NEW j \in RegionStages(p, r), i - 1 \in p[j].inputs PROVE j = i
    BY <1>1, <1>4, <2>1, ChainConsumers
  <2> HIDE DEF r
  <2> QED
    BY <1>2, <1>3, <1>4, <2>1 DEF Uploads
<1>6. UploadDimensions(p, i - 1, r) = LiveBefore(p)[i]
  <2> HIDE DEF r
  <2>1. UploadDimensions(p, i - 1, r)
          = UNION {LiveBefore(p)[j] : j \in Uploads(p, i - 1, r)}
    BY DEF UploadDimensions
  <2>2. UNION {LiveBefore(p)[j] : j \in {i}} = LiveBefore(p)[i]
    OBVIOUS
  <2> QED
    BY <1>5, <2>1, <2>2
<1>7. i - 1 \notin RegionStages(p, r)
  BY RegionMembers DEF Together
<1>8. ASSUME NEW j \in RegionStages(p, r) PROVE i <= j
  <2>1. j \in Stages(p)
    BY <1>4, <1>8
  <2>2. ASSUME ~(i <= j) PROVE FALSE
    <3>1. j <= i - 1
      BY <1>1, <2>1, <2>2, SMT
    <3>2. i - 1 \in RegionStages(p, r)
      <4> HIDE DEF r
      <4> QED
        BY ONLY Planned(p), Chain(p), <1>1, <1>4, <1>8, <3>1, RegionsConsecutive
    <3> QED
      BY <1>7, <3>2
  <2> QED
    BY <2>2
<1>9. ASSUME NEW d \in ColumnsOf(p, r) PROVE ~(Earliest(p, r, d) < i)
  <2>1. i <= Earliest(p, r, d) /\ Earliest(p, r, d) \in 1 .. Len(p)
    BY <1>8, <1>9, UserNumbers
  <2> QED
    BY <1>1, <2>1, SMT
<1>10. HeldAt(p, r, i) = {}
  BY <1>9 DEF HeldAt
<1>11. ASSUME NEW d \in LiveBefore(p)[i] PROVE d \in DeviceMaterialize(p, i)
  <2>1. d \in WorkingSet(p, i)
    BY <1>11 DEF WorkingSet
  <2>2. i \in Users(p, r, d) /\ d \in ColumnsOf(p, r)
    BY <2>1, ColumnOfUser
  <2>3. Earliest(p, r, d) <= i /\ i <= Earliest(p, r, d) /\ Earliest(p, r, d) \in 1 .. Len(p)
    BY <1>8, <2>2, ColumnUsers, UserNumbers
  <2>4. Earliest(p, r, d) = i
    BY <1>1, <2>3, SMT
  <2>5. DeviceMaterialize(p, i) = Starting(p, r, i)
    BY Lifetimes
  <2> QED
    BY <2>2, <2>4, <2>5 DEF Starting
<1> QED
  BY <1>2, <1>3, <1>6, <1>8, <1>10, <1>11

\* A later stage of the region materializes none of its live inputs, and the
\* stage before it spills nothing.
LEMMA InsideRegion ==
    ASSUME NEW p, Planned(p), Chain(p), NEW i \in DeviceStages(p), Together(p, i - 1, i)
    PROVE  /\ \A d \in LiveBefore(p)[i] : d \notin DeviceMaterialize(p, i)
           /\ ~Spilled(p, i - 1)
           /\ RepackDimensions(p, i - 1) = {}
<1> DEFINE r == RegionOf(p)[i]
<1>1. /\ Len(p) \in Nat /\ Stages(p) = 1 .. Len(p)
      /\ i \in Stages(p) /\ i - 1 \in Stages(p) /\ (i - 1) + 1 = i /\ ~(i <= i - 1)
  <2>1. Len(p) \in Nat /\ Stages(p) = 1 .. Len(p) /\ i \in Stages(p)
        /\ i - 1 \in Stages(p)
    BY PlannedStages DEF DeviceStages, Together
  <2> QED
    BY <2>1, SMT
<1>2. ASSUME NEW d \in LiveBefore(p)[i] PROVE d \notin DeviceMaterialize(p, i)
  <2>1. d \in LiveAfter(p)[i - 1]
    BY <1>1, <1>2, ChainLiveness
  <2>2. d \in WorkingSet(p, i - 1)
    BY <2>1 DEF WorkingSet
  <2>3. i - 1 \in DeviceStages(p) /\ RegionOf(p)[i - 1] = r
    BY DEF Together
  <2>4. i - 1 \in Users(p, r, d) /\ d \in ColumnsOf(p, r)
    BY <2>2, <2>3, ColumnOfUser
  <2>5. Earliest(p, r, d) <= i - 1 /\ Earliest(p, r, d) \in 1 .. Len(p)
    BY <2>4, ColumnUsers, UserNumbers
  <2>6. Earliest(p, r, d) # i
    BY <1>1, <2>5, SMT
  <2>7. DeviceMaterialize(p, i) = Starting(p, r, i)
    BY Lifetimes
  <2> QED
    BY <2>6, <2>7 DEF Starting
<1>3. Consumers(p, i - 1) = {i}
  BY <1>1, ChainConsumers
<1>4. ~LeavesRegion(p, i - 1, i)
  BY DEF LeavesRegion, Together
<1>5. ~Spilled(p, i - 1)
  BY <1>3, <1>4 DEF Spilled
<1> QED
  BY <1>2, <1>5 DEF RepackDimensions, ReleaseDimensions

\* The last stage of a region retires all that is live after it, and its spill
\* publishes what the region wrote of it.
LEMMA LastOfRegion ==
    ASSUME NEW p, Planned(p), Chain(p), NEW i \in DeviceStages(p), i + 1 \in Stages(p),
           ~Together(p, i, i + 1)
    PROVE  /\ Spilled(p, i)
           /\ ReleaseDimensions(p, i) = LiveAfter(p)[i]
           /\ RepackDimensions(p, i)
                = {d \in LiveAfter(p)[i] :
                      \E j \in RegionStages(p, RegionOf(p)[i]) : d \in p[j].writes}
<1> DEFINE r == RegionOf(p)[i]
<1>1. /\ Len(p) \in Nat /\ Stages(p) = 1 .. Len(p) /\ i \in Stages(p) /\ i <= i + 1
  <2>1. Len(p) \in Nat /\ Stages(p) = 1 .. Len(p) /\ i \in Stages(p)
    BY PlannedStages DEF DeviceStages
  <2> QED
    BY <2>1, SMT
<1>2. Consumers(p, i) = {i + 1}
  BY <1>1, ChainConsumers
<1>3. LeavesRegion(p, i, i + 1)
  BY DEF LeavesRegion, Together
<1>4. Spilled(p, i)
  BY <1>2, <1>3 DEF Spilled
<1>5. i \in RegionStages(p, r) /\ i + 1 \notin RegionStages(p, r)
      /\ RegionStages(p, r) \subseteq Stages(p)
  BY RegionMembers DEF Together
<1>6. ASSUME NEW j \in RegionStages(p, r) PROVE j <= i
  <2>1. j \in Stages(p)
    BY <1>5, <1>6
  <2>2. ASSUME ~(j <= i) PROVE FALSE
    <3>1. i + 1 <= j
      BY <1>1, <2>1, <2>2, SMT
    <3>2. i + 1 \in RegionStages(p, r)
      <4> HIDE DEF r
      <4> QED
        BY ONLY Planned(p), Chain(p), i + 1 \in Stages(p), <1>1, <1>5, <1>6, <3>1,
                RegionsConsecutive
    <3> QED
      BY <1>5, <3>2
  <2> QED
    BY <2>2
<1>7. ASSUME NEW d \in LiveAfter(p)[i] PROVE d \in LastUse(p, i)
  <2>1. d \in WorkingSet(p, i)
    BY <1>7 DEF WorkingSet
  <2>2. i \in Users(p, r, d) /\ d \in ColumnsOf(p, r)
    BY <2>1, ColumnOfUser
  <2>3. i <= Latest(p, r, d) /\ Latest(p, r, d) <= i /\ Latest(p, r, d) \in 1 .. Len(p)
    BY <1>6, <2>2, ColumnUsers, UserNumbers
  <2>4. Latest(p, r, d) = i
    BY <1>1, <2>3, SMT
  <2>5. LastUse(p, i) = Ending(p, r, i)
    BY Lifetimes
  <2> QED
    BY <2>2, <2>4, <2>5 DEF Ending
<1>8. ReleaseDimensions(p, i) = LiveAfter(p)[i]
  BY <1>4, <1>7 DEF ReleaseDimensions, SpillDimensions
<1> HIDE DEF r
<1>9. RepackDimensions(p, i)
        = LiveAfter(p)[i] \cap UNION {p[j].writes : j \in RegionStages(p, r)}
  BY <1>8 DEF RepackDimensions, r
<1> QED
  BY <1>4, <1>8, <1>9 DEF r

\* Values that are right where stage i looks are right after it where anything
\* is live; what it does not change was live before it.
LEMMA CarriedOn ==
    ASSUME NEW p, Planned(p), NEW i \in Stages(p), NEW d \in LiveAfter(p)[i],
           d \notin Changes(p, i)
    PROVE  d \in LiveBefore(p)[i]
<1>1. Writes(p, i) \subseteq Changes(p, i) \cup Reads(p, i)
  BY ReadsAndWrites
<1>2. LiveBefore(p)[i] = (LiveAfter(p)[i] \ Writes(p, i)) \cup Reads(p, i)
  BY Liveness
<1> QED
  BY <1>1, <1>2

-----------------------------------------------------------------------------
(***************************************************************************)
(* The values of a chain.                                                  *)
(***************************************************************************)
\* No stage of region r before stage i writes dimension d.
Unwritten(p, r, i, d) == \A j \in RegionStages(p, r) : j < i => d \notin p[j].writes

\* Inside a region what is live is right in its columns, and in the host record
\* too where the region has not written it.  Elsewhere the host record is right.
FreshAt(p, i) ==
    \A d \in LiveBefore(p)[i] :
        IF Together(p, i - 1, i)
        THEN LET r == RegionOf(p)[i]
             IN  /\ device[r][d] = right[d]
                 /\ Unwritten(p, r, i, d) => host[d] = right[d]
        ELSE host[d] = right[d]

\* Nothing is computed yet.
AllUnset ==
    \A d \in Dims :
        /\ host[d] = Unset /\ right[d] = Unset
        /\ \A r \in ResidentRegions(pipeline) :
              packed[r][d] = Unset /\ device[r][d] = Unset

FreshInv ==
    Chain(pipeline) =>
        /\ stale = {}
        /\ DOMAIN device = ResidentRegions(pipeline)
        /\ next = 1 => AllUnset
        /\ next \in Stages(pipeline) => FreshAt(pipeline, next)

\* What a device stage finds in the host record it is given and in its columns.
RecordOf(p, i) ==
    Overlay(packed[RegionOf(p)[i]], host,
            UNION {UploadDimensions(p, k, RegionOf(p)[i]) : k \in Entering(i)})
ColumnsBefore(p, i) ==
    Overlay(device[RegionOf(p)[i]], RecordOf(p, i),
            DeviceMaterialize(p, i) \ held[RegionOf(p)[i]])

LEMMA Overlaid ==
    ASSUME NEW old, NEW new, NEW dims, NEW d \in Dims
    PROVE  Overlay(old, new, dims)[d] = IF d \in dims THEN new[d] ELSE old[d]
BY DEF Overlay

LEMMA FreshColumns ==
    ASSUME LifeInv, FreshInv, Planned(pipeline), Chain(pipeline),
           next \in DeviceStages(pipeline),
           NEW d \in LiveBefore(pipeline)[next]
    PROVE  /\ ColumnsBefore(pipeline, next)[d] = right[d]
           /\ Unwritten(pipeline, RegionOf(pipeline)[next], next, d) => host[d] = right[d]
<1> DEFINE p == pipeline
           i == next
           r == RegionOf(p)[i]
<1>1. i \in Stages(p) /\ r \in ResidentRegions(p) /\ d \in Dims
  BY RegionMembers, Liveness
<1>2. held[r] = HeldAt(p, r, i)
  BY <1>1 DEF LifeInv
<1>3. FreshAt(p, i) /\ (i = 1 => AllUnset)
  BY <1>1 DEF FreshInv
<1>4. ColumnsBefore(p, i)[d]
        = IF d \in DeviceMaterialize(p, i) \ held[r] THEN RecordOf(p, i)[d] ELSE device[r][d]
  BY <1>1, Overlaid DEF ColumnsBefore
<1>5. CASE Together(p, i - 1, i)
  <2>1. d \notin DeviceMaterialize(p, i)
    BY <1>5, InsideRegion
  <2> QED
    BY <1>3, <1>4, <1>5, <2>1 DEF FreshAt
<1>6. CASE i # 1 /\ ~Together(p, i - 1, i)
  <2>1. /\ {k \in p[i].inputs : EntersRegion(p, k, i)} = {i - 1}
        /\ UploadDimensions(p, i - 1, r) = LiveBefore(p)[i]
        /\ HeldAt(p, r, i) = {} /\ d \in DeviceMaterialize(p, i)
    BY <1>6, FirstOfRegion
  <2>2. Entering(i) = {i - 1}
    BY <2>1 DEF Entering
  <2>3. RecordOf(p, i)[d] = host[d]
    <3>1. d \in UNION {UploadDimensions(p, k, r) : k \in Entering(i)}
      BY <2>1, <2>2
    <3> QED
      BY <1>1, <3>1, Overlaid DEF RecordOf
  <2>4. host[d] = right[d]
    BY <1>3, <1>6 DEF FreshAt
  <2> QED
    BY <1>2, <1>4, <2>1, <2>3, <2>4
<1>7. CASE i = 1
  <2>1. host[d] = Unset /\ right[d] = Unset /\ packed[r][d] = Unset /\ device[r][d] = Unset
    BY <1>1, <1>3, <1>7 DEF AllUnset
  <2>2. RecordOf(p, i)[d] = Unset
    BY <1>1, <2>1, Overlaid DEF RecordOf
  <2> QED
    BY <1>4, <2>1, <2>2
<1> QED
  BY <1>5, <1>6, <1>7

\* A device stage reads nothing stale, and leaves right what is live after it.
LEMMA FreshOfDevice ==
    ASSUME LifeInv, FreshInv, Planned(pipeline), Chain(pipeline), DeviceStage
    PROVE  /\ stale' = {} /\ DOMAIN device' = ResidentRegions(pipeline)
           /\ (next \in Stages(pipeline) => FreshAt(pipeline, next))'
<1> DEFINE p == pipeline
           i == next
           r == RegionOf(p)[i]
           before == ColumnsBefore(p, i)
           after == Computed(before, i)
<1>1. i \in DeviceStages(p) /\ i \in Stages(p) /\ r \in ResidentRegions(p)
      /\ i \in RegionStages(p, r)
  BY RegionMembers DEF DeviceStage
<1>2. /\ device' = [device EXCEPT ![r] = after]
      /\ host' = Overlay(host, after, RepackDimensions(p, i))
      /\ right' = Computed(right, i)
      /\ stale' = stale \cup Stale(before, i)
      /\ p' = p /\ i' = i + 1
  BY DEF DeviceStage, ColumnsBefore, RecordOf
<1>3. stale = {} /\ DOMAIN device = ResidentRegions(p)
  BY DEF FreshInv
<1>4. \A d \in LiveBefore(p)[i] :
         before[d] = right[d] /\ (Unwritten(p, r, i, d) => host[d] = right[d])
  BY <1>1, FreshColumns
<1> HIDE DEF before, after
<1>5. Stale(before, i) = {}
  <2>1. Looks(p, i) \subseteq LiveBefore(p)[i]
    BY <1>1, ReadsAndWrites, Liveness
  <2> QED
    BY <1>4, <2>1 DEF Stale
<1>6. Changes(p, i) = p[i].writes
  BY <1>1, PlannedStages, ReadsAndWrites DEF DeviceStages
<1>7. ASSUME NEW d \in LiveAfter(p)[i]
      PROVE  /\ d \in Dims /\ after[d] = right'[d]
             /\ d \notin p[i].writes => d \in LiveBefore(p)[i] /\ right'[d] = right[d]
  <2>1. d \in Dims
    BY <1>1, Liveness
  <2>2. /\ after[d] = IF d \in p[i].writes THEN [e \in Dims |-> i][d] ELSE before[d]
        /\ right'[d] = IF d \in p[i].writes THEN [e \in Dims |-> i][d] ELSE right[d]
    BY <1>2, <1>6, <2>1, Overlaid DEF Computed, after
  <2>3. d \notin p[i].writes => d \in LiveBefore(p)[i]
    BY <1>1, <1>6, CarriedOn
  <2> QED
    BY <1>4, <2>1, <2>2, <2>3
<1>8. ASSUME i + 1 \in Stages(p), Together(p, i, i + 1), NEW d \in LiveBefore(p)[i + 1]
      PROVE  /\ device'[r][d] = right'[d]
             /\ Unwritten(p, r, i + 1, d) => host'[d] = right'[d]
  <2>1. d \in LiveAfter(p)[i]
    BY <1>1, <1>8, ChainLiveness
  <2>2. device'[r][d] = right'[d]
    BY <1>1, <1>2, <1>3, <1>7, <2>1
  <2>3. i \in Nat /\ (i + 1) - 1 = i
    <3>1. i \in 1 .. Len(p)
      BY <1>1, PlannedStages
    <3> QED
      BY <3>1, SMT
  <2>4. RepackDimensions(p, i) = {}
    <3>1. i + 1 \in DeviceStages(p) /\ Together(p, (i + 1) - 1, i + 1)
      BY <1>8, <2>3 DEF Together
    <3>2. RepackDimensions(p, (i + 1) - 1) = {}
      BY <3>1, InsideRegion
    <3> QED
      BY <2>3, <3>2
  <2>5. host'[d] = host[d]
    BY <1>2, <1>7, <2>1, <2>4, Overlaid
  <2>6. ASSUME Unwritten(p, r, i + 1, d) PROVE d \notin p[i].writes /\ Unwritten(p, r, i, d)
    <3>1. \A j \in RegionStages(p, r) : j < i => j < i + 1
      <4>1. RegionStages(p, r) \subseteq 1 .. Len(p)
        BY RegionMembers, PlannedStages
      <4> QED
        BY <2>3, <4>1, SMT
    <3>2. i < i + 1
      BY <2>3, SMT
    <3> QED
      BY <1>1, <2>6, <3>1, <3>2 DEF Unwritten
  <2> QED
    BY <1>4, <1>7, <2>1, <2>2, <2>5, <2>6
<1>9. ASSUME i + 1 \in Stages(p), ~Together(p, i, i + 1), NEW d \in LiveBefore(p)[i + 1]
      PROVE  host'[d] = right'[d]
  <2>1. d \in LiveAfter(p)[i] /\ d \in Dims
    BY <1>1, <1>7, <1>9, ChainLiveness
  <2>2. d \in RepackDimensions(p, i) <=> \E j \in RegionStages(p, r) : d \in p[j].writes
    BY <1>1, <1>9, <2>1, LastOfRegion
  <2>3. host'[d] = IF d \in RepackDimensions(p, i) THEN after[d] ELSE host[d]
    BY <1>2, <2>1, Overlaid
  <2>4. d \notin RepackDimensions(p, i) => d \notin p[i].writes /\ Unwritten(p, r, i, d)
    BY <1>1, <2>2 DEF Unwritten
  <2> QED
    BY <1>4, <1>7, <2>1, <2>3, <2>4
<1>10. (next \in Stages(pipeline) => FreshAt(pipeline, next))'
  <2>1. (i + 1) - 1 = i
    <3>1. i \in 1 .. Len(p)
      BY <1>1, PlannedStages
    <3> QED
      BY <3>1, SMT
  <2>2. ASSUME i + 1 \in Stages(p), NEW d \in LiveBefore(p)[i + 1]
        PROVE  IF Together(p, (i + 1) - 1, i + 1)
               THEN LET s == RegionOf(p)[i + 1]
                    IN  /\ device'[s][d] = right'[d]
                        /\ Unwritten(p, s, i + 1, d) => host'[d] = right'[d]
               ELSE host'[d] = right'[d]
    <3>1. CASE Together(p, i, i + 1)
      <4>1. RegionOf(p)[i + 1] = r
        BY <3>1 DEF Together
      <4> QED
        BY <1>8, <2>1, <2>2, <3>1, <4>1
    <3>2. CASE ~Together(p, i, i + 1)
      BY <1>9, <2>1, <2>2, <3>2
    <3> QED
      BY <3>1, <3>2
  <2> QED
    BY <1>2, <2>2 DEF FreshAt
<1>11. stale' = {} /\ DOMAIN device' = ResidentRegions(p)
  BY <1>2, <1>3, <1>5
<1> QED
  BY <1>10, <1>11

\* So does a host stage.
LEMMA FreshOfHost ==
    ASSUME FreshInv, Planned(pipeline), Chain(pipeline), HostStage
    PROVE  /\ stale' = {} /\ DOMAIN device' = ResidentRegions(pipeline)
           /\ (next \in Stages(pipeline) => FreshAt(pipeline, next))'
<1> DEFINE p == pipeline
           i == next
<1>1. i \in Stages(p) /\ i \notin DeviceStages(p)
      /\ stale' = stale \cup Stale(host, i) /\ host' = Computed(host, i)
      /\ right' = Computed(right, i) /\ next' = i + 1
      /\ p' = p /\ device' = device
  BY DEF HostStage
<1>2. stale = {} /\ DOMAIN device = ResidentRegions(p)
      /\ \A d \in LiveBefore(p)[i] : host[d] = right[d]
  BY <1>1 DEF FreshInv, FreshAt, Together
<1>3. Stale(host, i) = {}
  <2>1. Looks(p, i) \subseteq LiveBefore(p)[i]
    BY <1>1, ReadsAndWrites, Liveness
  <2> QED
    BY <1>2, <2>1 DEF Stale
<1>4. ASSUME NEW d \in LiveAfter(p)[i] PROVE host'[d] = right'[d]
  <2>1. d \in Dims
    BY <1>1, Liveness
  <2>2. /\ host'[d] = IF d \in Changes(p, i) THEN [e \in Dims |-> i][d] ELSE host[d]
        /\ right'[d] = IF d \in Changes(p, i) THEN [e \in Dims |-> i][d] ELSE right[d]
    BY <1>1, <2>1, Overlaid DEF Computed
  <2>3. d \notin Changes(p, i) => d \in LiveBefore(p)[i]
    BY <1>1, CarriedOn
  <2> QED
    BY <1>2, <2>2, <2>3
<1>5. (i + 1) - 1 = i
  <2>1. i \in 1 .. Len(p)
    BY <1>1, PlannedStages
  <2> QED
    BY <2>1, SMT
<1>6. ASSUME i + 1 \in Stages(p), NEW d \in LiveBefore(p)[i + 1]
      PROVE  ~Together(p, (i + 1) - 1, i + 1) /\ host'[d] = right'[d]
  BY <1>1, <1>4, <1>5, <1>6, ChainLiveness DEF Together
<1>7. (next \in Stages(pipeline) => FreshAt(pipeline, next))'
  BY <1>1, <1>6 DEF FreshAt
<1> QED
  BY <1>1, <1>2, <1>3, <1>7

\* Nothing is stale to begin with.
LEMMA FreshInit == ASSUME Planned(pipeline), WalkInit PROVE FreshInv
<1>1. /\ stale = {} /\ next = 1
      /\ \A d \in Dims : host[d] = Unset /\ right[d] = Unset
      /\ packed = [r \in ResidentRegions(pipeline) |-> host]
      /\ device = packed
  BY DEF WalkInit
<1>2. AllUnset
  BY <1>1 DEF AllUnset
<1>3. ASSUME 1 \in Stages(pipeline) PROVE FreshAt(pipeline, 1)
  <2>1. LiveBefore(pipeline)[1] \subseteq Dims
    BY <1>3, Liveness
  <2>2. ~Together(pipeline, 1 - 1, 1)
    <3>1. 1 - 1 \notin 1 .. Len(pipeline)
      BY SMT
    <3>2. 1 - 1 \notin Stages(pipeline)
      BY <3>1, PlannedStages
    <3> QED
      BY <3>2 DEF Together, DeviceStages
  <2> QED
    BY <1>1, <2>1, <2>2 DEF FreshAt
<1> QED
  BY <1>1, <1>2, <1>3 DEF FreshInv

LEMMA FreshStep ==
    ASSUME PipelinesAssumption, LifeInv, FreshInv, [WalkNext]_walkVars
    PROVE  FreshInv'
<1>1. Planned(pipeline)
  BY DEF LifeInv, PipelinesAssumption
<1>2. CASE UNCHANGED walkVars
  BY <1>2 DEF walkVars, FreshInv, FreshAt, AllUnset
<1>3. ASSUME HostStage \/ DeviceStage PROVE FreshInv'
  <2>1. pipeline' = pipeline /\ next' # 1
    <3>1. pipeline' = pipeline /\ next \in Stages(pipeline) /\ next' = next + 1
      BY <1>3, RegionMembers, <1>1 DEF HostStage, DeviceStage
    <3>2. next \in 1 .. Len(pipeline)
      BY <1>1, <3>1, PlannedStages
    <3> QED
      BY <3>1, <3>2, SMT
  <2>2. ASSUME Chain(pipeline)
        PROVE  /\ stale' = {} /\ DOMAIN device' = ResidentRegions(pipeline)
               /\ (next \in Stages(pipeline) => FreshAt(pipeline, next))'
    BY <1>1, <1>3, <2>2, FreshOfDevice, FreshOfHost
  <2> QED
    BY <2>1, <2>2 DEF FreshInv
<1> QED
  BY <1>2, <1>3 DEF WalkNext, Finished

-----------------------------------------------------------------------------
(***************************************************************************)
(* The behaviours of MCPlan: a plan is carried out, or left alone.         *)
(***************************************************************************)
LEMMA WalkStarts == PlanInit => WalkInit
BY DEF PlanInit

LEMMA WalkSteps == [PlanNext]_planVars => [WalkNext]_walkVars
<1> SUFFICES ASSUME [PlanNext]_planVars PROVE [WalkNext]_walkVars
  OBVIOUS
<1>1. CASE UNCHANGED planVars
  BY <1>1 DEF planVars
<1>2. CASE Serve
  BY <1>2 DEF Serve
<1>3. CASE Served
  BY <1>3 DEF Served, planVars
<1>4. CASE OfProgram /\ (ExecuteBatch \/ ProgramEnded)
  BY <1>4 DEF OfProgram
<1>5. CASE OfPipeline /\ (HostStage \/ DeviceStage \/ Finished)
  BY <1>5 DEF WalkNext
<1> QED
  BY <1>1, <1>2, <1>3, <1>4, <1>5 DEF PlanNext

\* What a region holds and has retired is what its columns' lifetimes say, at
\* every stage (beginStage, endStage, releaseBoundary).
THEOREM LifetimesKept == PlanSpec => []LifeInv
<1>1. PlanInit => LifeInv
  BY WalkStarts, LifeInit, PipelinesAssumption
<1>2. LifeInv /\ [PlanNext]_planVars => LifeInv'
  BY WalkSteps, LifeStep, PipelinesAssumption
<1> QED
  BY <1>1, <1>2, PTL DEF PlanSpec

\* RetiredOnce: whatever the pipeline, every column of every region is retired
\* exactly once, by a stage or by a spill boundary (Pipeline.cpp, finishPlan).
THEOREM ColumnsRetiredOnce == PlanSpec => []RetiredOnce
<1>1. LifeInv => RetiredOnce
  BY LifeEnds, PipelinesAssumption
<1> QED
  BY <1>1, LifetimesKept, PTL

\* EstimateIsExact: at every device stage the region holds the live inputs that
\* beginStage insists on, and as many columns as the planner estimated.
THEOREM EstimatesExact == PlanSpec => EstimateIsExact
<1> DEFINE Exact ==
        LET during == held[RegionOf(pipeline)[next]]
                        \cup DeviceMaterialize(pipeline, next)
        IN  /\ LiveBefore(pipeline)[next] \subseteq during
            /\ Cardinality(during) = DeviceColumns(pipeline, next)
<1>1. LifeInv /\ DeviceStage => Exact
  BY EstimateStep, PipelinesAssumption
<1>2. LifeInv /\ [PlanNext]_planVars => [DeviceStage => Exact]_walkVars
  BY <1>1
<1>3. PlanSpec => [][DeviceStage => Exact]_walkVars
  BY <1>2, LifetimesKept, PTL DEF PlanSpec
<1> QED
  BY <1>3 DEF EstimateIsExact

\* FreshReads: whichever stages of a chain are placed on the device, and
\* whatever the plan leaves out of its uploads and spills, every stage reads
\* what the same pipeline computes on the host alone (Pipeline.cpp, finishPlan).
THEOREM ReadsFresh == PlanSpec => []FreshReads
<1>1. PlanInit => FreshInv
  <2>1. WalkInit => Planned(pipeline)
    BY PipelinesAssumption DEF WalkInit
  <2> QED
    BY <2>1, WalkStarts, FreshInit
<1>2. LifeInv /\ FreshInv /\ [PlanNext]_planVars => FreshInv'
  BY WalkSteps, FreshStep, PipelinesAssumption
<1>3. FreshInv => FreshReads
  BY DEF FreshInv, FreshReads
<1> QED
  BY <1>1, <1>2, <1>3, LifetimesKept, PTL DEF PlanSpec

-----------------------------------------------------------------------------
(***************************************************************************)
(* The plan of a region of a chain, as the executor takes it.              *)
(***************************************************************************)
\* A region of a chain is a run of stages, from the one that names it.
LEMMA RegionSpan ==
    ASSUME NEW p, Planned(p), Chain(p), NEW r \in ResidentRegions(p)
    PROVE  \E last \in 1 .. Len(p) :
              /\ r \in 1 .. last
              /\ RegionStages(p, r) = r .. last
<1>1. Len(p) \in Nat /\ Stages(p) = 1 .. Len(p)
      /\ DeviceStages(p) \subseteq 1 .. Len(p)
  BY PlannedStages, RegionMembers
<1>2. ASSUME NEW i \in DeviceStages(p), RegionOf(p)[i] = r
      PROVE  r \in RegionStages(p, r) /\ r <= i
  <2> DEFINE Stretch == {m \in DeviceStages(p) : Joined(p, i, m)}
  <2>1. r = Min(Stretch)
    BY <1>2, RegionIsRun DEF RegionOf
  <2>2. i \in Stretch /\ Stretch \in SUBSET (1 .. Len(p))
    BY <1>1, JoinedSelf
  <2>3. r \in Stretch /\ r <= i
    <3> HIDE DEF Stretch
    <3> QED
      BY <1>1, <2>1, <2>2, Extremes
  <2>4. RegionOf(p)[r] = r
    BY <1>2, <2>3, RegionsAreRuns
  <2> QED
    BY <2>3, <2>4 DEF RegionStages
<1>3. PICK i \in DeviceStages(p) : RegionOf(p)[i] = r
  BY DEF ResidentRegions
<1>4. r \in RegionStages(p, r) /\ RegionStages(p, r) \in SUBSET (1 .. Len(p))
  BY <1>1, <1>2, <1>3, RegionMembers
<1> DEFINE last == Max(RegionStages(p, r))
<1>5. last \in RegionStages(p, r) /\ \A j \in RegionStages(p, r) : j <= last
  BY <1>1, <1>4, Extremes
<1>6. ASSUME NEW j \in RegionStages(p, r) PROVE r <= j /\ j <= last
  BY <1>2, <1>5, <1>6 DEF RegionStages
<1> HIDE DEF last
<1>7. last \in 1 .. Len(p) /\ r \in 1 .. Len(p) /\ r <= last
  BY <1>4, <1>5, <1>6
<1>8. ASSUME NEW k \in r .. last PROVE k \in RegionStages(p, r)
  <2>1. k \in Stages(p) /\ r <= k /\ k <= last
    BY <1>1, <1>7, SMT
  <2> QED
    BY <1>4, <1>5, <2>1, RegionsConsecutive
<1>9. RegionStages(p, r) = r .. last
  <2>1. \A j \in RegionStages(p, r) : j \in r .. last
    BY <1>1, <1>4, <1>6, <1>7, SMT
  <2> QED
    BY <1>8, <2>1
<1>10. r \in 1 .. last
  BY <1>1, <1>7, SMT
<1> QED
  BY <1>7, <1>9, <1>10

\* Of a region's stages the last one alone spills, if the chain goes on after it.
LEMMA RegionSpills ==
    ASSUME NEW p, Planned(p), Chain(p), NEW r, NEW last \in 1 .. Len(p),
           r \in 1 .. last, RegionStages(p, r) = r .. last, last # Len(p)
    PROVE  /\ \A i \in r .. last : Spilled(p, i) <=> i = last
           /\ SpillingStage(p, r) = last
           /\ ReleaseDimensions(p, last) = LiveAfter(p)[last]
<1>1. Len(p) \in Nat /\ Stages(p) = 1 .. Len(p)
  BY PlannedStages
<1>2. last + 1 \in Stages(p) /\ last + 1 \notin r .. last /\ last \in r .. last
  BY <1>1, SMT
<1>3. \A i \in r .. last : i \in DeviceStages(p) /\ RegionOf(p)[i] = r
  BY RegionMembers DEF RegionStages
<1>4. ~Together(p, last, last + 1)
  BY <1>2, <1>3, RegionMembers DEF Together
<1>5. Spilled(p, last) /\ ReleaseDimensions(p, last) = LiveAfter(p)[last]
  BY <1>2, <1>3, <1>4, LastOfRegion
<1>6. ASSUME NEW i \in r .. last, i # last PROVE ~Spilled(p, i)
  <2>1. i + 1 \in r .. last /\ (i + 1) - 1 = i
    BY <1>1, <1>6, SMT
  <2>2. Together(p, (i + 1) - 1, i + 1)
    BY <1>3, <2>1 DEF Together
  <2>3. ~Spilled(p, (i + 1) - 1)
    BY <1>3, <2>1, <2>2, InsideRegion
  <2> QED
    BY <2>1, <2>3
<1>7. SpillingStage(p, r) = last
  BY <1>2, <1>5, <1>6 DEF SpillingStage
<1> QED
  BY <1>5, <1>6, <1>7

\* No stage of the pipeline needs more columns than the estimate says.
LEMMA WithinEstimate ==
    ASSUME IsFiniteSet(Dims), NEW p, Planned(p), NEW i \in DeviceStages(p)
    PROVE  /\ Cardinality(Spanning(p, RegionOf(p)[i], i)) <= PeakDeviceColumns(p)
           /\ PeakDeviceColumns(p) \in Nat
<1> DEFINE n == Cardinality(Dims)
           S == {0} \cup {DeviceColumns(p, j) : j \in DeviceStages(p)}
<1>1. n \in Nat
  BY FS_CardinalityType
<1>2. ASSUME NEW j \in DeviceStages(p)
      PROVE  /\ DeviceColumns(p, j) = Cardinality(Spanning(p, RegionOf(p)[j], j))
             /\ DeviceColumns(p, j) \in 0 .. n
  <2>1. DeviceColumns(p, j) = Cardinality(Spanning(p, RegionOf(p)[j], j))
    BY DEF DeviceColumns, Earliest, Latest, Spanning
  <2>2. Spanning(p, RegionOf(p)[j], j) \in SUBSET Dims
    BY DEF Spanning, ColumnsOf
  <2>3. Cardinality(Spanning(p, RegionOf(p)[j], j)) \in 0 .. n
    <3>1. /\ IsFiniteSet(Spanning(p, RegionOf(p)[j], j))
          /\ Cardinality(Spanning(p, RegionOf(p)[j], j)) <= n
      BY <2>2, FS_Subset
    <3>2. Cardinality(Spanning(p, RegionOf(p)[j], j)) \in Nat
      BY <3>1, FS_CardinalityType
    <3> QED
      BY <1>1, <3>1, <3>2
  <2> QED
    BY <2>1, <2>3
<1> HIDE DEF n
<1>3. S \in SUBSET (0 .. n) /\ S # {}
  BY <1>1, <1>2
<1> HIDE DEF S
<1>4. PICK m \in S : \A k \in S : k <= m
  BY ONLY <1>1, <1>3, GreatestMember
<1>5. \A k \in S : m >= k
  BY <1>1, <1>3, <1>4, SMT
<1>6. Max(S) \in S /\ \A k \in S : Max(S) >= k
  BY <1>5 DEF Max
<1>7. PeakDeviceColumns(p) = Max(S) /\ DeviceColumns(p, i) \in S
  BY DEF PeakDeviceColumns, S
<1>8. Max(S) \in Nat
  <2>1. S \in SUBSET Nat
    BY <1>1, <1>3, SMT
  <2> QED
    BY <1>6, <2>1
<1>9. DeviceColumns(p, i) \in Nat /\ DeviceColumns(p, i) <= Max(S)
  <2>1. DeviceColumns(p, i) \in Nat /\ Max(S) >= DeviceColumns(p, i)
    BY <1>1, <1>2, <1>6, <1>7
  <2> QED
    BY <1>8, <2>1, SMT
<1>10. DeviceColumns(p, i) = Cardinality(Spanning(p, RegionOf(p)[i], i))
  BY <1>2
<1> QED
  BY <1>7, <1>8, <1>9, <1>10

\* The executor of regions, as the planner sees it.
Executor == INSTANCE RegionPlan

\* What a region of a chain holds after k of its stages.
HeldAfterStages(p, r, last) ==
    [k \in 0 .. last - r + 1 |->
        IF k = last - r + 1 THEN LiveAfter(p)[last] ELSE HeldAt(p, r, r + k)]

\* What it holds at a stage, and what is left after that.
LEMMA HeldFromStageToStage ==
    ASSUME NEW p, Planned(p), Chain(p), NEW r \in 1 .. Len(p),
           NEW last \in r .. Len(p), RegionStages(p, r) = r .. last,
           last # Len(p), NEW k \in 1 .. last - r + 1
    PROVE  LET has == HeldAfterStages(p, r, last)
               i == r + k - 1
               during == has[k - 1] \cup DeviceMaterialize(p, i)
           IN  /\ i \in r .. last
               /\ RegionOf(p)[i] = r
               /\ has[k - 1] = HeldAt(p, r, i)
               /\ during = Spanning(p, r, i)
               /\ has[k] = during \ DeviceRelease(p, i)
<1> DEFINE has == HeldAfterStages(p, r, last)
           i == r + k - 1
           n == last - r + 1
           during == has[k - 1] \cup DeviceMaterialize(p, i)
<1>1. /\ Len(p) \in Nat /\ Stages(p) = 1 .. Len(p) /\ r \in 1 .. last
      /\ last \in 1 .. Len(p)
  <2>1. Len(p) \in Nat /\ Stages(p) = 1 .. Len(p)
    BY PlannedStages
  <2> QED
    BY <2>1, SMT
<1>2. /\ i \in r .. last /\ i \in Nat /\ n \in Nat /\ k - 1 \in 0 .. n /\ k - 1 # n
      /\ k \in 0 .. n /\ r + (k - 1) = i /\ r + k = i + 1 /\ (k = n <=> i = last)
  BY <1>1, SMT
<1>3. i \in RegionStages(p, r) /\ i \in DeviceStages(p) /\ RegionOf(p)[i] = r
  BY <1>2, RegionMembers DEF RegionStages
<1>4. /\ has[k - 1] = HeldAt(p, r, i)
      /\ has[k] = IF i = last THEN LiveAfter(p)[last] ELSE HeldAt(p, r, i + 1)
  BY <1>2 DEF HeldAfterStages
<1>5. DeviceMaterialize(p, i) = Starting(p, r, i) /\ LastUse(p, i) = Ending(p, r, i)
  BY <1>3, Lifetimes
<1>6. HeldAt(p, r, i) \cup Starting(p, r, i) = Spanning(p, r, i)
      /\ HeldAt(p, r, i + 1) = (HeldAt(p, r, i) \cup Starting(p, r, i)) \ Ending(p, r, i)
  BY <1>3, LifeHere
<1>7. during = Spanning(p, r, i)
  BY <1>4, <1>5, <1>6
<1>8. /\ \A j \in r .. last : Spilled(p, j) <=> j = last
      /\ ReleaseDimensions(p, last) = LiveAfter(p)[last]
  BY <1>1, RegionSpills
<1> HIDE DEF has, i, n, during
<1>9. has[k] = during \ DeviceRelease(p, i)
  <2>1. CASE i # last
    <3>1. DeviceRelease(p, i) = Ending(p, r, i)
      BY <1>2, <1>5, <1>8, <2>1 DEF DeviceRelease
    <3> QED
      BY <1>4, <1>6, <1>7, <2>1, <3>1
  <2>2. CASE i = last
    <3>1. /\ DeviceRelease(p, i) = Ending(p, r, i) \ LiveAfter(p)[i]
          /\ LiveAfter(p)[i] \subseteq Ending(p, r, i)
      BY <1>2, <1>5, <1>8, <2>2 DEF DeviceRelease, ReleaseDimensions, SpillDimensions
    <3>2. ASSUME NEW d \in Spanning(p, r, i) PROVE d \in Ending(p, r, i)
      <4>1. d \in ColumnsOf(p, r) /\ i <= Latest(p, r, d)
        BY <3>2 DEF Spanning
      <4>2. Latest(p, r, d) \in r .. last
        BY <4>1, UserNumbers
      <4>3. Latest(p, r, d) = i
        BY <1>1, <2>2, <4>1, <4>2, SMT
      <4> QED
        BY <4>1, <4>3 DEF Ending
    <3>3. ASSUME NEW d \in Ending(p, r, i) PROVE d \in Spanning(p, r, i)
      <4>1. d \in ColumnsOf(p, r) /\ Latest(p, r, d) = i
        BY <3>3 DEF Ending
      <4>2. Earliest(p, r, d) <= i /\ i <= i
        BY <1>2, <4>1, UserNumbers
      <4> QED
        BY <4>1, <4>2 DEF Spanning
    <3> QED
      BY <1>4, <1>7, <2>2, <3>1, <3>2, <3>3
  <2> QED
    BY <2>1, <2>2
<1> QED
  BY <1>2, <1>3, <1>4, <1>7, <1>9 DEF has, i, during

\* RegionsPlanned: whatever chain is planned, each of its regions that a host
\* stage follows and in which at most one stage drops points is a plan that the
\* executor accepts and that has the right values in place: the hypothesis under
\* which a tiled region keeps its promise (PromiseKept of ResidentLanesProofs).
THEOREM RegionsPlanned ==
    ASSUME IsFiniteSet(Dims), NEW p, Planned(p), Chain(p), ~p[Len(p)].device,
           NEW r \in ResidentRegions(p), NEW keep,
           \A i, j \in RegionStages(p, r) : p[i].predicate /\ p[j].predicate => i = j
    PROVE  Executor!ValuesPlanned(PlannedRegion(p, r, keep))
<1>1. PICK last \in 1 .. Len(p) : r \in 1 .. last /\ RegionStages(p, r) = r .. last
  BY RegionSpan
<1> DEFINE n == last - r + 1
           R == PlannedRegion(p, r, keep)
           has == HeldAfterStages(p, r, last)
           Nth(k) == PlannedStageOf(p, r + k - 1)
<1>2. /\ Len(p) \in Nat /\ Stages(p) = 1 .. Len(p)
      /\ r \in 1 .. Len(p) /\ last \in r .. Len(p) /\ last \in r .. last
      /\ n \in Nat \ {0} /\ r + n - 1 = last
      /\ Cardinality(r .. last) = n
  <2>1. Len(p) \in Nat /\ Stages(p) = 1 .. Len(p)
    BY PlannedStages
  <2>2. /\ r \in 1 .. Len(p) /\ last \in r .. Len(p) /\ last \in r .. last
        /\ r \in Int /\ last \in Int /\ ~(r > last)
        /\ n \in Nat \ {0} /\ r + n - 1 = last
    BY <1>1, <2>1, SMT
  <2>3. Cardinality(r .. last) = n
    BY <2>2, FS_Interval
  <2> QED
    BY <2>1, <2>2, <2>3
<1>3. last # Len(p)
  <2>1. p[last].device
    BY <1>1, <1>2, RegionMembers DEF DeviceStages
  <2> QED
    BY <2>1
<1>4. /\ SpillingStage(p, r) = last
      /\ ReleaseDimensions(p, last) = LiveAfter(p)[last]
  BY <1>1, <1>3, RegionSpills
<1>5. /\ R.stages = [k \in 1 .. n |-> Nth(k)]
      /\ R.releaseDimensions = LiveAfter(p)[last]
      /\ R.liveAfter = LiveAfter(p)[last]
      /\ R.deviceColumns = PeakDeviceColumns(p)
      /\ R.compacts = \E i \in r .. last : p[i].predicate
  BY <1>1, <1>2, <1>4 DEF PlannedRegion
<1>6. DOMAIN R.stages = 1 .. n /\ Len(R.stages) = n
      /\ \A k \in 1 .. n : R.stages[k] = Nth(k)
  <2> HIDE DEF R, Nth, n
  <2>1. DOMAIN R.stages = 1 .. n /\ \A k \in 1 .. n : R.stages[k] = Nth(k)
    BY <1>5
  <2>2. Len(R.stages) = n
    BY <1>2, <1>5, SMT
  <2> QED
    BY <2>1, <2>2
<1>7. \A k \in 1 .. n :
         /\ Nth(k).reads = p[r + k - 1].reads /\ Nth(k).writes = p[r + k - 1].writes
         /\ Nth(k).predicate = p[r + k - 1].predicate
         /\ Nth(k).deviceLiveBefore = LiveBefore(p)[r + k - 1]
         /\ Nth(k).deviceMaterialize = DeviceMaterialize(p, r + k - 1)
         /\ Nth(k).deviceRelease = DeviceRelease(p, r + k - 1)
  BY DEF PlannedStageOf
<1>8. ASSUME NEW k \in 1 .. n
      PROVE  /\ r + k - 1 \in r .. last /\ RegionOf(p)[r + k - 1] = r
             /\ r + k - 1 \in DeviceStages(p) /\ r + k - 1 \in Stages(p)
             /\ has[k - 1] = HeldAt(p, r, r + k - 1)
             /\ has[k - 1] \cup Nth(k).deviceMaterialize = Spanning(p, r, r + k - 1)
             /\ has[k] = (has[k - 1] \cup Nth(k).deviceMaterialize)
                             \ Nth(k).deviceRelease
  <2>1. /\ r + k - 1 \in r .. last /\ RegionOf(p)[r + k - 1] = r
        /\ has[k - 1] = HeldAt(p, r, r + k - 1)
        /\ has[k - 1] \cup DeviceMaterialize(p, r + k - 1) = Spanning(p, r, r + k - 1)
        /\ has[k] = (has[k - 1] \cup DeviceMaterialize(p, r + k - 1))
                        \ DeviceRelease(p, r + k - 1)
    BY <1>1, <1>2, <1>3, HeldFromStageToStage
  <2>2. r + k - 1 \in DeviceStages(p) /\ r + k - 1 \in Stages(p)
    BY <1>1, <2>1, RegionMembers
  <2> QED
    BY <1>7, <2>1, <2>2
<1>9. has[0] = {} /\ has[n] = LiveAfter(p)[last]
  <2>1. 0 \in 0 .. n /\ n \in 0 .. n /\ 0 # n /\ r + 0 = r
    BY <1>2
  <2>2. has[0] = HeldAt(p, r, r) /\ has[n] = LiveAfter(p)[last]
    BY <2>1 DEF HeldAfterStages
  <2>3. ASSUME NEW d \in ColumnsOf(p, r) PROVE ~(Earliest(p, r, d) < r)
    <3>1. Earliest(p, r, d) \in r .. last
      BY <1>1, UserNumbers
    <3> QED
      BY <1>2, <3>1, SMT
  <2> QED
    BY <2>2, <2>3 DEF HeldAt
<1>10. has \in [0 .. n -> SUBSET Dims]
  <2>1. LiveAfter(p)[last] \subseteq Dims
    BY <1>2, Liveness
  <2>2. \A i : HeldAt(p, r, i) \subseteq Dims
    BY DEF HeldAt, ColumnsOf
  <2> QED
    BY <2>1, <2>2 DEF HeldAfterStages
<1>11. ASSUME NEW k \in 1 .. n, NEW d \in WorkingSet(p, r + k - 1)
       PROVE  /\ d \in Spanning(p, r, r + k - 1)
              /\ r + k - 1 \in Users(p, r, d) /\ d \in ColumnsOf(p, r)
  <2>1. r + k - 1 \in Users(p, r, d) /\ d \in ColumnsOf(p, r)
    BY <1>8, <1>11, ColumnOfUser
  <2> QED
    BY <2>1, ColumnUsers DEF Spanning
<1>12. ASSUME NEW k \in 1 .. n
       PROVE  /\ Nth(k).deviceLiveBefore \subseteq WorkingSet(p, r + k - 1)
              /\ Nth(k).reads \subseteq WorkingSet(p, r + k - 1)
              /\ Nth(k).writes \subseteq WorkingSet(p, r + k - 1)
  <2> DEFINE i == r + k - 1
  <2>1. /\ p[i].device /\ p[i].role = "filter" /\ p[i].native \in BOOLEAN
        /\ i \in Stages(p)
    BY <1>8, PlannedStages DEF DeviceStages
  <2> HIDE DEF i
  <2>2. p[i].reads \subseteq Touched(p) /\ p[i].writes \subseteq Touched(p)
    BY <2>1 DEF Touched
  <2>3. p[i].reads \subseteq Reads(p, i) /\ p[i].writes \subseteq Writes(p, i)
    BY <2>1, <2>2 DEF Reads, Writes, Foreign
  <2>4. Reads(p, i) \subseteq LiveBefore(p)[i]
    BY <2>1, Liveness
  <2> QED
    BY <1>7, <2>3, <2>4 DEF WorkingSet, i
<1>13. Executor!ColumnSchedule(R, has)
  <2>1. ASSUME NEW k \in 1 .. n
        PROVE  LET during == has[k - 1] \cup Nth(k).deviceMaterialize
               IN  /\ Nth(k).deviceLiveBefore \subseteq during
                   /\ Cardinality(during) <= PeakDeviceColumns(p)
                   /\ has[k] = during \ Nth(k).deviceRelease
    BY <1>8, <1>11, <1>12, WithinEstimate
  <2>2. \A S : Executor!Cardinality(S) = Cardinality(S)
    BY DEF Executor!Cardinality, Cardinality
  <2> HIDE DEF R, has, Nth, n
  <2> QED
    BY <1>5, <1>6, <1>9, <2>1, <2>2 DEF Executor!ColumnSchedule
<1>14. ASSUME NEW s \in 1 .. n, NEW before \in 1 .. s - 1
       PROVE  Nth(before).writes \cap Nth(s).deviceMaterialize = {}
  <2>1. before \in 1 .. n /\ r + before - 1 < r + s - 1
        /\ r + before - 1 \in Nat /\ r + s - 1 \in Nat
    BY <1>2, SMT
  <2>2. ASSUME NEW d \in Nth(before).writes, d \in Nth(s).deviceMaterialize
        PROVE  FALSE
    <3>1. r + before - 1 \in Users(p, r, d) /\ d \in ColumnsOf(p, r)
      BY <1>11, <1>12, <2>1, <2>2
    <3>2. Earliest(p, r, d) <= r + before - 1 /\ Earliest(p, r, d) \in 1 .. Len(p)
      BY <3>1, ColumnUsers, UserNumbers
    <3>3. Earliest(p, r, d) = r + s - 1
      BY <1>7, <1>8, <2>2, Lifetimes DEF Starting
    <3> QED
      BY <2>1, <3>2, <3>3, SMT
  <2> QED
    BY <2>2
<1>15. Executor!ValueSchedule(R, has)
  <2>1. ASSUME NEW k \in 1 .. n
        PROVE  Nth(k).reads \subseteq has[k - 1] \cup Nth(k).deviceMaterialize
    BY <1>8, <1>11, <1>12
  <2>2. ASSUME NEW s \in 1 .. n, NEW u \in 1 .. n, Nth(s).predicate, Nth(u).predicate
        PROVE  s = u
    <3>1. r + s - 1 = r + u - 1
      BY <1>1, <1>7, <1>8, <2>2
    <3> QED
      BY <1>2, <3>1, SMT
  <2>3. R.compacts <=> \E k \in 1 .. n : Nth(k).predicate
    <3>1. ASSUME NEW i \in r .. last, p[i].predicate
          PROVE  \E k \in 1 .. n : Nth(k).predicate
      <4>1. i - r + 1 \in 1 .. n /\ r + (i - r + 1) - 1 = i
        BY <1>2, SMT
      <4> QED
        BY <1>7, <3>1, <4>1
    <3>2. ASSUME NEW k \in 1 .. n, Nth(k).predicate
          PROVE  \E i \in r .. last : p[i].predicate
      BY <1>7, <1>8, <3>2
    <3> QED
      BY <1>5, <3>1, <3>2
  <2> HIDE DEF R, has, Nth, n
  <2>4. \A s \in DOMAIN R.stages :
           /\ R.stages[s].reads \subseteq has[s - 1] \cup R.stages[s].deviceMaterialize
           /\ \A before \in 1 .. s - 1 :
                 R.stages[before].writes \cap R.stages[s].deviceMaterialize
                     \subseteq has[s - 1]
    <3> SUFFICES ASSUME NEW s \in 1 .. n
                 PROVE  /\ Nth(s).reads \subseteq has[s - 1] \cup Nth(s).deviceMaterialize
                        /\ \A before \in 1 .. s - 1 :
                              R.stages[before].writes \cap Nth(s).deviceMaterialize
                                  \subseteq has[s - 1]
      BY <1>6
    <3>1. \A before \in 1 .. s - 1 : before \in 1 .. n
      BY <1>2, SMT
    <3> QED
      BY <1>6, <1>14, <2>1, <3>1
  <2>5. has[Len(R.stages)] \cap Executor!WrittenDims(R)
          = R.liveAfter \cap Executor!WrittenDims(R)
    BY <1>5, <1>6, <1>9
  <2>6. \A s, u \in DOMAIN R.stages :
           R.stages[s].predicate /\ R.stages[u].predicate => s = u
    BY <1>6, <2>2
  <2>7. R.compacts <=> \E s \in DOMAIN R.stages : R.stages[s].predicate
    BY <1>6, <2>3
  <2> QED
    BY <2>4, <2>5, <2>6, <2>7 DEF Executor!ValueSchedule
<1> HIDE DEF R, has
<1> QED
  BY <1>6, <1>10, <1>13, <1>15 DEF Executor!ValuesPlanned, R
=============================================================================
