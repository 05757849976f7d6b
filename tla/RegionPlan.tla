----------------------------- MODULE RegionPlan -----------------------------
(***************************************************************************)
(* What stands between the planner and the executor of a region: what the  *)
(* lists of uploads, retirements and downloads of its stages must be, so   *)
(* that the executor never refuses one (ColumnsPlanned) and finds the      *)
(* right values in its columns (ValuesPlanned).  A region is a record with *)
(* the stages in order and what is known of its spill boundary; see        *)
(* PlannedRegion of ResidencyPlan and Region of ResidentLanes.             *)
(***************************************************************************)
EXTENDS Integers, Sequences, FiniteSets

CONSTANT Dims       \* the dimensions the planner touches

\* A plan that is consistent by itself: the lists of what each stage unpacks and
\* retires, followed from stage to stage, have the live inputs of every stage in
\* place, stay within the estimate and leave nothing that the spill boundary does
\* not retire.  held[s] is what is held after stage s.
ColumnSchedule(r, held) ==
    /\ held[0] = {}
    /\ \A s \in DOMAIN r.stages :
          LET during == held[s - 1] \cup r.stages[s].deviceMaterialize
          IN  /\ r.stages[s].deviceLiveBefore \subseteq during
              /\ Cardinality(during) <= r.deviceColumns
              /\ held[s] = during \ r.stages[s].deviceRelease
    /\ held[Len(r.stages)] \subseteq r.releaseDimensions

ColumnsPlanned(r) ==
    \E held \in [0 .. Len(r.stages) -> SUBSET Dims] : ColumnSchedule(r, held)

\* m_activeColumns whose "written" flag is set.
WrittenDims(region) ==
    UNION {region.stages[s].writes : s \in DOMAIN region.stages}

\* A plan that also has the right values in place: a stage reads what is held
\* during it, a column is not fetched from the host once the region has written
\* it, and the written columns that are left at the end are the ones that the
\* rest of the pipeline reads.  One stage at most drops points (preflight), and
\* then the region has an output.
ValueSchedule(r, held) ==
    /\ \A s \in DOMAIN r.stages :
          /\ r.stages[s].reads \subseteq
                held[s - 1] \cup r.stages[s].deviceMaterialize
          /\ \A before \in 1 .. s - 1 :
                r.stages[before].writes \cap r.stages[s].deviceMaterialize
                    \subseteq held[s - 1]
    /\ held[Len(r.stages)] \cap WrittenDims(r) = r.liveAfter \cap WrittenDims(r)
    /\ \A s, u \in DOMAIN r.stages :
          r.stages[s].predicate /\ r.stages[u].predicate => s = u
    /\ r.compacts <=> \E s \in DOMAIN r.stages : r.stages[s].predicate

ValuesPlanned(r) ==
    \E held \in [0 .. Len(r.stages) -> SUBSET Dims] :
        ColumnSchedule(r, held) /\ ValueSchedule(r, held)
=============================================================================
