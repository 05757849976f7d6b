--------------------------- MODULE OrderedProgram ---------------------------
(***************************************************************************)
(* The point programs that drop points, carried out batch by batch: a      *)
(* sequence of operations, each of which keeps the points a predicate is   *)
(* true of or selects points by their place among those that reach it      *)
(* (src/src/stages/Ordinal.cpp), and hands the rest of the batch on.  The  *)
(* ordinal operations stand in for filters.decimation, head and tail of    *)
(* PDAL, which see the whole input; only an OrdinalState goes from one     *)
(* batch to the next.                                                      *)
(*                                                                         *)
(* A point is its index in the input.  Assignments, which neither count    *)
(* nor drop points, are left out.                                          *)
(***************************************************************************)
EXTENDS Integers, Sequences, SequencesExt

CONSTANTS
    StepUnit,   \* a decimation step is a multiple of 1 / StepUnit
    Unlimited   \* UINT64_MAX

ProgramAssumption == StepUnit \in Nat \ {0} /\ Unlimited \in Nat \ {0}

\* keep is of a predicate; step, offset and limit of a decimation; count and
\* invert of a head or a tail.
Operation(kind) ==
    [kind |-> kind, keep |-> {}, step |-> StepUnit, offset |-> 0,
     limit |-> Unlimited, count |-> 10, invert |-> FALSE]

Predicated(keep) == [Operation("predicate") EXCEPT !.keep = keep]
Decimation(step, offset, limit) ==
    [Operation("decimation") EXCEPT !.step = step, !.offset = offset,
                                    !.limit = limit]
EndOfInput(kind, count, invert) ==
    [Operation(kind) EXCEPT !.count = count, !.invert = invert]

IsOrdinal(operation) == operation.kind # "predicate"

Least(m, n) == IF m < n THEN m ELSE n

\* std::llround(numerator / denominator), of what is not negative.
Rounded(numerator, denominator) ==
    (2 * numerator + denominator) \div (2 * denominator)

-----------------------------------------------------------------------------
(***************************************************************************)
(* Ordinal.cpp.                                                            *)
(***************************************************************************)

\* The point that a decimation keeps as the one numbered "sequence".
Candidate(operation, sequence) ==
    LET distance == Rounded(sequence * operation.step, StepUnit)
    IN  IF distance > Unlimited - operation.offset
        THEN Unlimited
        ELSE operation.offset + distance

\* The binary search for the first of the sequences from range[1] to range[2]
\* whose candidate is not before "point"; range[2] if there is none.
FirstSequenceAtOrAfter(operation, first, sequenceLimit, point) ==
    LET distance == point - operation.offset
        high == IF point > operation.offset
                THEN Least(sequenceLimit, distance + 1)
                ELSE sequenceLimit
        search[range \in Nat \X Nat] ==
            LET middle == range[1] + (range[2] - range[1]) \div 2
            IN  IF range[1] >= range[2] THEN range[1]
                ELSE IF Candidate(operation, middle) < point
                THEN search[<<middle + 1, range[2]>>]
                ELSE search[<<range[1], middle>>]
    IN  IF first >= sequenceLimit \/ Candidate(operation, first) >= point
        THEN first
        ELSE IF high <= first THEN first ELSE search[<<first, high>>]

\* The number of points that the operation keeps of an input that is known.
StandardOutputCount(operation, inputCount) ==
    IF operation.kind = "decimation"
    THEN Rounded((Least(operation.limit, inputCount) - operation.offset)
                    * StepUnit, operation.step)
    ELSE LET selected == Least(operation.count, inputCount)
         IN  IF operation.invert THEN inputCount - selected ELSE selected

OrdinalState(operation, mode, inputTotal) ==
    [inputProcessed |-> 0, inputTotal |-> inputTotal, sequence |-> 0,
     sequenceLimit |-> IF operation.kind = "decimation" /\ mode = "standard"
                       THEN StandardOutputCount(operation, inputTotal)
                       ELSE Unlimited]

\* The sequence that the first point after a batch of "size" points may have.
SequenceEnd(operation, state, size) ==
    FirstSequenceAtOrAfter(operation, state.sequence, state.sequenceLimit,
        Least(state.inputProcessed + size, operation.limit))

\* Fault: the points are counted from the start in each batch.
StartsAgain(operation, state, size) ==
    [state EXCEPT !.sequence = IF operation.kind = "decimation"
                               THEN SequenceEnd(operation, state, size)
                               ELSE @]

Advanced(operation, state, size) ==
    [state EXCEPT !.inputProcessed = @ + size,
                  !.sequence = IF operation.kind = "decimation"
                               THEN SequenceEnd(operation, state, size)
                               ELSE @]

\* The places in the batch that evaluateOrdinal marks.
Marked(operation, state, size) ==
    LET begin == state.inputProcessed
        selected == Least(operation.count, state.inputTotal)
        Inside(place) ==
            IF operation.kind = "head"
            THEN begin + place < operation.count
            ELSE begin + place >= state.inputTotal - selected
        candidates ==
            {Candidate(operation, sequence) :
                sequence \in state.sequence
                                .. SequenceEnd(operation, state, size) - 1}
    IN  {place \in 0 .. size - 1 :
            IF operation.kind = "decimation"
            THEN /\ begin + place \in candidates
                 /\ begin + place < operation.limit
            ELSE Inside(place) # operation.invert}

-----------------------------------------------------------------------------
(***************************************************************************)
(* The drivers: the states of a program's operations, and one batch.       *)
(***************************************************************************)

\* Fault: every operation is told the points of the file.
AllOfFile(operations, mode, total) == [i \in DOMAIN operations |-> total]

\* The points that reach each operation, of those counted in advance.
InputTotals(operations, mode, total) ==
    LET totals[i \in DOMAIN operations] ==
            IF i = 1 THEN total
            ELSE IF mode = "standard" /\ IsOrdinal(operations[i - 1])
            THEN StandardOutputCount(operations[i - 1], totals[i - 1])
            ELSE totals[i - 1]
    IN  totals

OrdinalStates(operations, mode, total) ==
    [i \in DOMAIN operations |->
        OrdinalState(operations[i], mode,
                     InputTotals(operations, mode, total)[i])]

\* What the drivers take: a tail, and whatever counts after a predicate, only
\* in its mode; no decimation that starts after its own end.
Supports(operations, mode, total) ==
    \A i \in DOMAIN operations : IsOrdinal(operations[i]) =>
        IF mode = "streaming"
        THEN operations[i].kind # "tail"
        ELSE /\ \A j \in 1 .. i - 1 : IsOrdinal(operations[j])
             /\ operations[i].kind = "decimation" =>
                   operations[i].offset <=
                      Least(operations[i].limit,
                            InputTotals(operations, mode, total)[i])

\* One operation over a batch: the mask and the compaction by it.
Survivors(operation, state, points) ==
    LET kept == IF IsOrdinal(operation)
                THEN Marked(operation, state, Len(points))
                ELSE {i \in 0 .. Len(points) - 1 :
                         points[i + 1] \in operation.keep}
    IN  [i \in 1 .. Cardinality(kept) |->
            points[1 + CHOOSE place \in kept :
                Cardinality({p \in kept : p < place}) = i - 1]]

StateAfter(operation, state, points) ==
    IF IsOrdinal(operation) THEN Advanced(operation, state, Len(points))
                            ELSE state

-----------------------------------------------------------------------------
(***************************************************************************)
(* The filters of PDAL over the whole input.                               *)
(***************************************************************************)

\* processOne, point after point.
ProcessOne(operation, seen, point) ==
    LET keeps ==
            CASE operation.kind = "predicate" -> point \in operation.keep
              [] operation.kind = "head" ->
                    (seen.index < operation.count) # operation.invert
              [] operation.kind = "decimation" ->
                    /\ seen.index >= operation.offset
                    /\ seen.index < operation.limit
                    /\ seen.index = operation.offset
                          + Rounded(seen.kept * operation.step, StepUnit)
    IN  [index |-> seen.index + 1,
         kept |-> IF keeps THEN seen.kept + 1 ELSE seen.kept,
         output |-> IF keeps THEN Append(seen.output, point) ELSE seen.output]

Streamed(operation, points) ==
    FoldLeft(LAMBDA seen, point : ProcessOne(operation, seen, point),
             [index |-> 0, kept |-> 0, output |-> <<>>], points).output

\* run: a decimation and a tail look at the size of the view.
Decimated(operation, points) ==
    LET last == Least(operation.limit, Len(points))
        count == Rounded((last - operation.offset) * StepUnit, operation.step)
    IN  [i \in 1 .. count |->
            points[1 + operation.offset
                     + Rounded((i - 1) * operation.step, StepUnit)]]

TailOf(operation, points) ==
    LET cut == Len(points) - Least(operation.count, Len(points))
    IN  IF operation.invert THEN SubSeq(points, 1, cut)
                            ELSE SubSeq(points, cut + 1, Len(points))

RunOnView(operation, points) ==
    CASE operation.kind = "decimation" -> Decimated(operation, points)
      [] operation.kind = "tail" -> TailOf(operation, points)
      [] OTHER -> Streamed(operation, points)

Reference(operations, mode, points) ==
    FoldLeft(LAMBDA left, operation :
                IF mode = "streaming" THEN Streamed(operation, left)
                                      ELSE RunOnView(operation, left),
             points, operations)

FirstPoints(n) == [i \in 1 .. n |-> i - 1]
=============================================================================
