----------------------------- MODULE ViewOrder -----------------------------
(***************************************************************************)
(* The order in which a compacting region appends its survivors: that of   *)
(* the view, whose points are numbered (the loop of Lane::drain in         *)
(* src/src/pdal/PdgResidentContext.cpp).                                   *)
(***************************************************************************)
EXTENDS Integers, FiniteSets

\* The points of a finite set one after another.
InSourceOrder(points) ==
    [i \in 1 .. Cardinality(points) |->
        CHOOSE p \in points : Cardinality({q \in points : q < p}) = i - 1]
=============================================================================
