-------------------------- MODULE MCResidentLanes --------------------------
(***************************************************************************)
(* Instances of ResidentLanes whose regions are the ones the planner       *)
(* derives from small pipelines.                                           *)
(***************************************************************************)
EXTENDS ResidentLanes

CONSTANTS a, b, t,      \* the dimensions; t is a custom (temporary) one
          Programs,     \* which of the pipelines to run
          KeepSets      \* the points a predicate may be true of

MCDims == {a, b, t}

Plan == INSTANCE ResidencyPlan WITH Custom <- {t}

Reader == [role |-> "reader", native |-> TRUE, device |-> FALSE,
           grid |-> FALSE, predicate |-> FALSE, inputs |-> {},
           reads |-> {}, writes |-> {}]
Writer(n) == [Reader EXCEPT !.role = "writer", !.inputs = {n - 1}]
Device(n, reads, writes) ==
    [role |-> "filter", native |-> TRUE, device |-> TRUE, grid |-> FALSE,
     predicate |-> writes = {}, inputs |-> {n - 1}, reads |-> reads,
     writes |-> writes]

\* assign: a value is computed from one that was computed before it.
\* filter: the predicate reads what the region computed.
\* scratch: a temporary column is retired before the region ends.
MCPipelines ==
    [assign  |-> <<Reader, Device(2, {a}, {b}), Device(3, {a, b}, {a}),
                   Writer(4)>>,
     filter  |-> <<Reader, Device(2, {a}, {b}), Device(3, {b}, {}),
                   Writer(4)>>,
     scratch |-> <<Reader, Device(2, {a}, {t}), Device(3, {t, b}, {b}),
                   Device(4, {a}, {}), Writer(5)>>]

MCRegions ==
    {Plan!PlannedRegion(MCPipelines[n], 2, keep) :
        n \in Programs, keep \in KeepSets}
=============================================================================
