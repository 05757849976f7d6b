---------------------------- MODULE PointBatches ----------------------------
(***************************************************************************)
(* An ordered program carried out on an input that comes in batches of any *)
(* size, as the host path of the point-program driver does it              *)
(* (executeHostOperations of src/src/pdal/PdgPointProgramFilter.cpp, from  *)
(* run and from processBatch).                                             *)
(***************************************************************************)
EXTENDS OrderedProgram

CONSTANT Programs       \* the programs to carry out

VARIABLES
    program,    \* what is carried out: operations, mode and number of points
    states,     \* the OrdinalState of each operation
    fed,        \* the points that have been in a batch
    emitted     \* the points that came out

programVars == <<program, states, fed, emitted>>

\* Streaming, the number of points is not known.
ProgramStart(p) ==
    /\ program = p
    /\ states = OrdinalStates(p.operations, p.mode,
                              IF p.mode = "standard" THEN p.total ELSE 0)
    /\ fed = 0
    /\ emitted = <<>>

\* A batch of any size goes through the operations (executeHostOperations).
ExecuteBatch ==
    \E size \in 1 .. program.total - fed :
        LET batch == SubSeq(FirstPoints(program.total), fed + 1, fed + size)
            Step(done, i) ==
                [points |-> Survivors(program.operations[i], states[i],
                                      done.points),
                 states |-> [done.states EXCEPT ![i] =
                     StateAfter(program.operations[i], @, done.points)]]
            result == FoldLeftDomain(Step, [points |-> batch, states |-> states],
                                     program.operations)
        IN  /\ emitted' = emitted \o result.points
            /\ states' = result.states
            /\ fed' = fed + size
            /\ UNCHANGED program

ProgramEnded == fed = program.total /\ UNCHANGED programVars

\* OrdinalsMatch: however the input is cut into batches, what came out is what
\* PDAL's filters keep of it: of the points so far in streaming mode, and of
\* all of them, as far as they have been seen, in standard mode.
OrdinalsMatch ==
    emitted =
        IF program.mode = "streaming"
        THEN Reference(program.operations, "streaming", FirstPoints(fed))
        ELSE SelectSeq(Reference(program.operations, "standard",
                                 FirstPoints(program.total)),
                       LAMBDA point : point < fed)
=============================================================================
