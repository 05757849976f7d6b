---------------------------- MODULE StableRegion ----------------------------
(***************************************************************************)
(* What a tiled region promises, with no tiles, lanes or streams: the      *)
(* points of the view are taken in their order; each taken point gets the  *)
(* results of the whole program, and a compacting region appends the       *)
(* survivors, and only them, to its output in the same order.  A dropped   *)
(* point is left as it was.  An exception may end the region after any     *)
(* number of points.                                                       *)
(***************************************************************************)
EXTENDS ViewOrder, Sequences

CONSTANT PointCount

VARIABLES
    program,    \* what the region computes; it never changes
    view,       \* the record of every point
    output,     \* the points appended to the compaction output
    taken,      \* how many points have been taken
    outcome     \* "active", "complete" or "aborted"

abstractVars == <<program, view, output, taken, outcome>>

Points == 0 .. PointCount - 1

\* before and after: the record of each point without and with the program.
Init ==
    /\ view = program.before
    /\ output = <<>>
    /\ taken = 0
    /\ outcome = "active"

Publishes(p) == program.compacts => p \in program.survivors

\* The next n points of the view are taken together.
Advance(n) ==
    /\ taken + n <= PointCount
    /\ view' = [p \in Points |->
                    IF p \in taken .. taken + n - 1 /\ Publishes(p)
                    THEN program.after[p] ELSE view[p]]
    /\ output' = IF program.compacts
                 THEN output \o InSourceOrder({p \in taken .. taken + n - 1 :
                                                  Publishes(p)})
                 ELSE output
    /\ taken' = taken + n

Take(n) ==
    /\ outcome = "active"
    /\ Advance(n)
    /\ UNCHANGED <<program, outcome>>

Complete ==
    /\ outcome = "active"
    /\ taken = PointCount
    /\ outcome' = "complete"
    /\ UNCHANGED <<program, view, output, taken>>

\* The call that fails may have taken points before.
Abort ==
    /\ outcome # "aborted"
    /\ outcome' = "aborted"
    /\ \/ UNCHANGED <<view, output, taken>>
       \/ outcome = "active" /\ \E n \in 1 .. PointCount : Advance(n)
    /\ UNCHANGED program

Next == \/ \E n \in 1 .. PointCount : Take(n)
        \/ Complete
        \/ Abort

Safety == Init /\ [][Next]_abstractVars

\* A region does not stop half way: it completes unless it is aborted.
Spec == Safety /\ WF_abstractVars(Complete \/ \E n \in 1 .. PointCount : Take(n))
=============================================================================
