------------------------------- MODULE LasTiles -------------------------------
(***************************************************************************)
(* io/LasReader.cpp: the tasks of the pool read and decompress a chunk     *)
(* each into a tile, at most numThreads ahead of the reader, which takes   *)
(* the tiles in file order and hands out their points: as many as it was   *)
(* asked for in read(), until eof() in processOne() when streaming.        *)
(*                                                                         *)
(* A point is its number in the file.  "index" counts the points handed    *)
(* out, from 0 wherever reading starts.                                    *)
(***************************************************************************)
EXTENDS PoolTasks

CONSTANTS
    ChunkPoints,    \* points in a chunk
    FilePoints,     \* points in the file
    LasCases,       \* the ways of reading to check
    MaxReady        \* bounds how often the reader is made ready

LasCase == [compressed : BOOLEAN, streaming : BOOLEAN, start : Nat, count : Nat]

LasAssumption ==
    /\ ChunkPoints \in Nat \ {0}
    /\ FilePoints \in Nat
    /\ MaxReady \in Nat
    /\ LasCases \subseteq LasCase
    /\ \A c \in LasCases : c.start < FilePoints

VARIABLES
    las,            \* the case
    lasReader,      \* where the reading thread is
    readies,        \* how often it was made ready
    index,
    nextFetchChunk, nextFetchPoint, nextReadChunk,
    tiles,          \* a slot is NoTile when its tile was taken
    currentTile

lasState == <<las, lasReader, readies, index, nextFetchChunk, nextFetchPoint,
              nextReadChunk, tiles, currentTile>>
lasVars == <<lasState, poolVars>>

NumChunks == (FilePoints + ChunkPoints - 1) \div ChunkPoints
ChunkNumbers == 0 .. NumChunks - 1

\* next: the first point not handed out; last: the one after the tile's last;
\* round: which ready() asked for it.
TileType == [chunk : ChunkNumbers, next : 0 .. FilePoints,
             last : 0 .. FilePoints, round : 1 .. MaxReady]
NoTile == [chunk |-> -1]

LasTypeOK ==
    /\ las \in LasCase
    /\ lasReader \in {"readying", "clearing", "queueing", "outside", "seeking",
                      "asleep", "holding", "joining", "done", "gone"}
    /\ readies \in 0 .. MaxReady
    /\ index \in 0 .. FilePoints
    /\ nextFetchChunk \in 0 .. NumChunks
    /\ nextFetchPoint \in 0 .. FilePoints + ChunkPoints
    /\ nextReadChunk \in 0 .. NumChunks
    /\ Len(tiles) <= PoolThreads
    /\ ToSet(tiles) \subseteq TileType \cup {NoTile}
    /\ currentTile \in TileType \cup {NoTile}

LasInitAt(place) ==
    /\ lasReader = place
    /\ readies = 0 /\ index = 0
    /\ nextFetchChunk = 0 /\ nextFetchPoint = 0 /\ nextReadChunk = 0
    /\ tiles = <<>>
    /\ currentTile = NoTile

LasInit == las \in LasCases /\ LasInitAt("readying")

End == IF las.count < FilePoints - las.start THEN las.start + las.count
                                             ELSE FilePoints

Least(a, b) == IF a < b THEN a ELSE b

-----------------------------------------------------------------------------
(***************************************************************************)
(* ready(): resize() joins what an earlier reading left in the pool.       *)
(***************************************************************************)
Resize ==
    /\ lasReader = "readying"
    /\ \/ ClosePool
       \/ ~open /\ UNCHANGED poolVars
    /\ lasReader' = "clearing"
    /\ UNCHANGED <<las, readies, index, nextFetchChunk, nextFetchPoint,
                   nextReadChunk, tiles, currentTile>>

Clear ==
    /\ lasReader = "clearing"
    /\ Idle
    /\ open' = TRUE
    /\ readies' = readies + 1
    /\ currentTile' = NoTile
    /\ tiles' = <<>>
    /\ index' = 0
    /\ nextFetchChunk' = IF las.compressed THEN las.start \div ChunkPoints ELSE 0
    /\ nextReadChunk' = nextFetchChunk'
    /\ nextFetchPoint' = IF las.compressed THEN las.start % ChunkPoints
                                           ELSE las.start
    /\ lasReader' = "queueing"
    /\ UNCHANGED <<las, waiting, running>>

\* queueNextCompressedChunk() and queueNextStandardChunk(): the tile that the
\* next task reads, if there is one.
NextTiles ==
    IF las.compressed
    THEN IF nextFetchChunk >= NumChunks \/ nextFetchChunk * ChunkPoints >= End
         THEN <<>>
         ELSE <<[chunk |-> nextFetchChunk,
                 next  |-> nextFetchChunk * ChunkPoints + nextFetchPoint,
                 last  |-> Least((nextFetchChunk + 1) * ChunkPoints, FilePoints),
                 round |-> readies]>>
    ELSE IF nextFetchPoint >= End
         THEN <<>>
         ELSE <<[chunk |-> nextFetchChunk,
                 next  |-> nextFetchPoint,
                 last  |-> Least(nextFetchPoint + ChunkPoints, End),
                 round |-> readies]>>

QueueNext ==
    IF NextTiles = <<>>
    THEN UNCHANGED <<nextFetchChunk, nextFetchPoint, poolVars>>
    ELSE /\ AddTasks(NextTiles)
         /\ nextFetchChunk' = nextFetchChunk + 1
         /\ nextFetchPoint' = IF las.compressed THEN 0
                              ELSE nextFetchPoint + ChunkPoints

\* The loop at the end of ready() queues one read for each thread.
QueueFirst ==
    /\ lasReader = "queueing"
    /\ IF nextFetchChunk - nextReadChunk < PoolThreads /\ NextTiles # <<>>
       THEN QueueNext /\ UNCHANGED lasReader
       ELSE lasReader' = "outside"
            /\ UNCHANGED <<nextFetchChunk, nextFetchPoint, poolVars>>
    /\ UNCHANGED <<las, readies, index, nextReadChunk, tiles, currentTile>>

-----------------------------------------------------------------------------
(***************************************************************************)
(* The tasks.                                                              *)
(***************************************************************************)
StartTile(tile) == StartTask(tile) /\ UNCHANGED lasState

Empty  == {i \in DOMAIN tiles : tiles[i] = NoTile}
Filled == {i \in DOMAIN tiles : tiles[i] # NoTile}

\* A finished tile goes to the first empty slot; then the reader is notified.
TileReady(tile) ==
    /\ FinishTask(tile)
    /\ \/ Empty = {} /\ tiles' = Append(tiles, tile)
       \/ \E i \in Empty : /\ \A j \in Empty : i <= j
                           /\ tiles' = [tiles EXCEPT ![i] = tile]
    /\ lasReader' = IF lasReader = "asleep" THEN "seeking" ELSE lasReader
    /\ UNCHANGED <<las, readies, index, nextFetchChunk, nextFetchPoint,
                   nextReadChunk, currentTile>>

-----------------------------------------------------------------------------
(***************************************************************************)
(* The reading thread.                                                     *)
(***************************************************************************)
Wanted == index < End - las.start

\* read() asks for the points it lacks, a streaming executor until it is told
\* that there are no more or it needs no more.
AskPoint ==
    /\ lasReader = "outside"
    /\ \/ /\ las.streaming \/ Wanted
          /\ lasReader' = IF index >= End THEN "joining"
                          ELSE IF currentTile = NoTile THEN "seeking"
                          ELSE "holding"
       \/ ~Wanted /\ ~las.streaming /\ lasReader' = "joining"
       \/ las.streaming /\ lasReader' = "joining"
       \/ las.streaming /\ readies < MaxReady /\ lasReader' = "readying"
    /\ UNCHANGED <<las, readies, index, nextFetchChunk, nextFetchPoint,
                   nextReadChunk, tiles, currentTile, poolVars>>

\* Fault: any tile will do.
SomeTile == Filled

TheTile == {i \in DOMAIN tiles : tiles[i].chunk = nextReadChunk}

\* acquireCurrentTile(): the next tile in order, and another read is queued.
TakeTile ==
    /\ lasReader = "seeking"
    /\ \E i \in TheTile :
          /\ currentTile' = tiles[i]
          /\ tiles' = [tiles EXCEPT ![i] = NoTile]
    /\ nextReadChunk' = nextReadChunk + 1
    /\ QueueNext
    /\ lasReader' = "holding"
    /\ UNCHANGED <<las, readies, index>>

WaitForTile ==
    /\ lasReader = "seeking"
    /\ TheTile = {}
    /\ lasReader' = "asleep"
    /\ UNCHANGED <<las, readies, index, nextFetchChunk, nextFetchPoint,
                   nextReadChunk, tiles, currentTile, poolVars>>

\* A condition variable may wake without a notification.
Spurious ==
    /\ lasReader = "asleep"
    /\ lasReader' = "seeking"
    /\ UNCHANGED <<las, readies, index, nextFetchChunk, nextFetchPoint,
                   nextReadChunk, tiles, currentTile, poolVars>>

LoadPoint ==
    /\ lasReader = "holding"
    /\ index' = index + 1
    /\ currentTile' = IF currentTile.next + 1 = currentTile.last THEN NoTile
                      ELSE [currentTile EXCEPT !.next = @ + 1]
    /\ lasReader' = "outside"
    /\ UNCHANGED <<las, readies, nextFetchChunk, nextFetchPoint, nextReadChunk,
                   tiles, poolVars>>

\* done() joins the pool; the reader may be made ready once more.
Join ==
    /\ lasReader = "joining"
    /\ ClosePool
    /\ lasReader' = "done"
    /\ UNCHANGED <<las, readies, index, nextFetchChunk, nextFetchPoint,
                   nextReadChunk, tiles, currentTile>>

Done ==
    /\ lasReader = "done"
    /\ Idle
    /\ lasReader' \in {"gone"} \cup IF readies < MaxReady THEN {"readying"} ELSE {}
    /\ UNCHANGED <<las, readies, index, nextFetchChunk, nextFetchPoint,
                   nextReadChunk, tiles, currentTile, poolVars>>

-----------------------------------------------------------------------------
LasReaderStep == Resize \/ Clear \/ QueueFirst \/ AskPoint \/ TakeTile
                 \/ WaitForTile \/ LoadPoint \/ Join \/ Done
LasTaskStep(tile) == StartTile(tile) \/ TileReady(tile)
LasTasks == ToSet(waiting) \cup running
LasEnded == lasReader = "gone" /\ UNCHANGED lasVars

LasNext == LasReaderStep \/ (\E tile \in LasTasks : LasTaskStep(tile))
           \/ Spurious \/ LasEnded

\* The reader goes on, and while tasks wait or run one of them starts or ends:
\* no more come before the reader has taken a tile.
LasFairness == /\ WF_lasVars(LasReaderStep)
               /\ WF_lasVars(\E tile \in LasTasks : LasTaskStep(tile))

LasSpec == NoTasks(TRUE) /\ LasInit /\ [][LasNext]_lasVars /\ LasFairness

-----------------------------------------------------------------------------
\* InFileOrder: the points come in file order from the one reading starts at,
\* none twice and none left out, and none of an earlier reading.
InFileOrder ==
    /\ currentTile # NoTile =>
          /\ currentTile.next = las.start + index
          /\ currentTile.round = readies
    /\ \A i \in DOMAIN tiles : tiles[i] # NoTile => tiles[i].round = readies

\* WindowHolds: no more tiles than threads are read ahead of the reader.
WindowHolds ==
    /\ Len(waiting) + Cardinality(running) <= PoolThreads
    /\ Len(tiles) <= PoolThreads
    /\ lasReader \notin {"readying", "clearing"} =>
          nextFetchChunk - nextReadChunk
              = Len(waiting) + Cardinality(running) + Cardinality(Filled)

\* LasReturns: no call for a point waits for ever.
LasCalling == lasReader \in {"seeking", "readying"}
LasReturned == lasReader \in {"outside", "gone"}
LasReturns == LasCalling ~> LasReturned
===============================================================================
