----------------------------- MODULE MCPlanWalk -----------------------------
(***************************************************************************)
(* Every chain of at most MaxFilters filters over two dimensions, one of   *)
(* them custom, and the forks of two device filters that are joined by a   *)
(* writer or by a third one.                                               *)
(***************************************************************************)
EXTENDS PlanWalk

CONSTANTS a, t, MaxFilters

MCDims == {a, t}
MCCustom == {t}

Filter(native, onDevice, grid, predicate, reads, writes) ==
    [role |-> "filter", native |-> native, device |-> onDevice, grid |-> grid,
     predicate |-> predicate, inputs |-> {}, reads |-> reads,
     writes |-> writes]

Reader == [Filter(TRUE, FALSE, FALSE, FALSE, {}, {}) EXCEPT !.role = "reader"]
Writers == {[Reader EXCEPT !.role = "writer", !.native = native] :
                native \in BOOLEAN}

Written == {{a}, {t}}

Assigns == {Filter(TRUE, TRUE, FALSE, FALSE, reads, writes) :
                reads \in SUBSET MCDims, writes \in Written}
Predicates == {Filter(TRUE, TRUE, FALSE, TRUE, {d}, {}) : d \in MCDims}
Grids == {Filter(TRUE, TRUE, TRUE, FALSE, {a}, {t})}
HostFilters == {Filter(TRUE, FALSE, FALSE, FALSE, {a}, {t}),
                Filter(TRUE, FALSE, FALSE, FALSE, {t}, {a}),
                Filter(TRUE, FALSE, FALSE, FALSE, {}, {a}),
                Filter(FALSE, FALSE, FALSE, FALSE, {}, {})}
Filters == Assigns \cup Predicates \cup Grids \cup HostFilters

Linked(stages) ==
    [i \in DOMAIN stages |->
        [stages[i] EXCEPT !.inputs = IF i = 1 THEN {} ELSE {i - 1}]]

Chains ==
    {Linked(<<Reader>> \o middle \o <<writer>>) :
        middle \in UNION {[1 .. n -> Filters] : n \in 1 .. MaxFilters},
        writer \in Writers}

Fed(stage, inputs) == [stage EXCEPT !.inputs = inputs]

Makers == {stage \in Assigns : stage.reads = {a}}
Takers == {stage \in Assigns : stage.reads = {t}} \cup Predicates

Forks ==
    {<<Reader, Fed(f, {1}), Fed(g, {1}), Fed(w, {2, 3})>> :
        f \in Makers, g \in Takers, w \in Writers}
    \cup
    {<<Reader, Fed(f, {1}), Fed(g, {1}), Fed(h, {2, 3}), Fed(w, {4})>> :
        f \in Makers, g \in Predicates, h \in Takers, w \in Writers}

MCPipelines == Chains \cup Forks
=============================================================================
