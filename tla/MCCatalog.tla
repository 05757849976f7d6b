------------------------------ MODULE MCCatalog ------------------------------
(***************************************************************************)
(* The root has an item, two groups and a third in one of these; every     *)
(* group below has an item.                                                *)
(***************************************************************************)
EXTENDS Catalog, TLC

MCLinks == 0 :> <<1, 2, 10>> @@ 1 :> <<3, 11>> @@ 2 :> <<12>> @@ 3 :> <<13>>
MCItems == 10 .. 13

\* The root's own item is filtered out.
NestedCases == {[failing |-> {}, filtered |-> {10}]}
=============================================================================
