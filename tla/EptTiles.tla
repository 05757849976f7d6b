------------------------------- MODULE EptTiles -------------------------------
(***************************************************************************)
(* io/EptReader.cpp: ready() walks the pages of the hierarchy with tasks   *)
(* of the pool, then adds a task for each tile found; read(), or           *)
(* processOne() when streaming, takes the tiles as they come.  A task that *)
(* finds "contents" full tries again every 50 ms until the reader is done. *)
(*                                                                         *)
(* "done" is atomic.  m_tileCount is not: the tasks lower it under the     *)
(* mutex, the reading thread without, so its load and its store are two    *)
(* steps and what a task stores between them is lost.                      *)
(***************************************************************************)
EXTENDS PoolTasks

CONSTANTS
    TileTotal,      \* the tiles, 1 .. TileTotal
    PageTiles,      \* for each page, named 0, -1, ..., the tiles it lists
    SubPages,       \*   and the pages it refers to
    EptCases        \* the ways of reading to check

EptTileSet == 1 .. TileTotal
Pages == DOMAIN PageTiles

\* count: the limit, in tiles; unreadable: the tiles whose read fails;
\* badPages: the pages that cannot be fetched.
EptCase == [streaming : BOOLEAN, ignoreUnreadable : BOOLEAN, count : Nat,
            unreadable : SUBSET EptTileSet, badPages : SUBSET Pages]

\* Every page is referred to from page 0 or from a page below it.
EptAssumption ==
    /\ TileTotal \in Nat
    /\ 0 \in Pages /\ Pages \cap EptTileSet = {}
    /\ PageTiles \in [Pages -> SUBSET EptTileSet]
    /\ SubPages \in [Pages -> Seq(Pages)]
    /\ \A found \in SUBSET Pages :
          (/\ 0 \in found
           /\ \A page \in found : ToSet(SubPages[page]) \subseteq found)
          => found = Pages
    /\ EptCases \subseteq EptCase

VARIABLES
    ept,            \* the case
    eptReader,      \* where the reading thread is
    hierarchy,      \* the tiles found
    loaded,         \* those that have a task
    m_tileCount,
    eptDone,
    eptContents,
    fetched,        \* the tiles whose task has read them and holds them
    told,           \* the tasks about to notify contentsCv
    eptTile,        \* the tile the reader took last
    oldCount,       \* the count it loaded to lower it
    numRead,        \* tiles it processed
    \* history
    eptRead, skipped, lost

eptState == <<ept, eptReader, hierarchy, loaded, m_tileCount, eptDone,
              eptContents, fetched, told, eptTile, oldCount, numRead, eptRead,
              skipped, lost>>
eptVars == <<eptState, poolVars>>
readerVars == <<eptReader, eptTile, oldCount, numRead, eptRead, lost>>
foundVars == <<hierarchy, loaded>>
tileVars == <<m_tileCount, eptDone, eptContents, fetched, told, skipped>>

EptTypeOK ==
    /\ ept \in EptCase
    /\ eptReader \in {"opening", "awaiting", "loading", "looping", "reading",
                      "asleep", "checking", "lowering", "storing", "failing",
                      "clearing", "stopping", "stopped", "finishing",
                      "terminated", "thrown", "gone"}
    /\ m_tileCount \in 0 .. TileTotal /\ oldCount \in 0 .. TileTotal
    /\ eptDone \in BOOLEAN /\ lost \in BOOLEAN
    /\ eptContents \in BoundedSeq(EptTileSet, PoolThreads)
    /\ \A tiles \in {hierarchy, loaded, fetched, told, eptRead, skipped} :
          tiles \subseteq EptTileSet
    /\ eptTile \in 0 .. TileTotal
    /\ numRead \in 0 .. TileTotal

EptInitAt(place) ==
    /\ eptReader = place
    /\ hierarchy = {} /\ loaded = {}
    /\ m_tileCount = 0 /\ eptDone = FALSE
    /\ eptContents = <<>> /\ fetched = {} /\ told = {}
    /\ eptTile = 0 /\ oldCount = 0 /\ numRead = 0
    /\ eptRead = {} /\ skipped = {} /\ lost = FALSE

EptInit == ept \in EptCases /\ EptInitAt("opening")

Go(place) == eptReader' = place

-----------------------------------------------------------------------------
(***************************************************************************)
(* overlaps(): each page adds its tiles to the hierarchy, a hash set, under *)
(* the mutex, and a task for each page it refers to.                       *)
(***************************************************************************)
AddPage(page) ==
    /\ hierarchy' = hierarchy \cup PageTiles[page]
    /\ AddTasks(SubPages[page])

\* The first page is read by the reader itself, which then awaits the others.
Open ==
    /\ eptReader = "opening"
    /\ IF 0 \in ept.badPages
       THEN Go("thrown") /\ UNCHANGED <<hierarchy, poolVars>>
       ELSE Go("awaiting") /\ AddPage(0)
    /\ UNCHANGED <<ept, loaded, tileVars, eptTile, oldCount, numRead, eptRead,
                   lost>>

Alive == eptReader # "terminated"

StartPage(page) == Alive /\ StartTask(page) /\ UNCHANGED eptState

ReadPage(page) ==
    /\ Alive
    /\ page \in running
    /\ page \notin ept.badPages
    /\ hierarchy' = hierarchy \cup PageTiles[page]
    /\ open
    /\ waiting' = waiting \o SubPages[page]
    /\ running' = running \ {page}
    /\ UNCHANGED <<ept, loaded, open, tileVars, readerVars>>

\* What a task throws ends the program; the catch of ready() never sees it.
PageFails(page) ==
    /\ Alive
    /\ page \in running
    /\ page \in ept.badPages
    /\ Go("terminated")
    /\ UNCHANGED <<ept, poolVars, foundVars, tileVars, eptTile, oldCount,
                   numRead, eptRead, lost>>

\* await() in overlaps(); the new pool of ready() joins the old one.
HierarchyRead ==
    /\ eptReader = "awaiting"
    /\ Idle
    /\ m_tileCount' = Cardinality(hierarchy)
    /\ Go("loading")
    /\ UNCHANGED <<ept, poolVars, foundVars, eptDone, eptContents, fetched,
                   told, skipped, eptTile, oldCount, numRead, eptRead, lost>>

-----------------------------------------------------------------------------
(***************************************************************************)
(* load(), in the order of the hash set, and its tasks.                    *)
(***************************************************************************)
Load ==
    /\ eptReader = "loading"
    /\ \/ \E tile \in hierarchy \ loaded :
             /\ AddTasks(<<tile>>)
             /\ loaded' = loaded \cup {tile}
             /\ UNCHANGED eptReader
       \/ /\ loaded = hierarchy
          /\ Go("looping")
          /\ UNCHANGED <<loaded, poolVars>>
    /\ UNCHANGED <<ept, hierarchy, tileVars, eptTile, oldCount, numRead,
                   eptRead, lost>>

\* The task reads its tile; whether that failed is known when it has.
EptStartTile(tile) ==
    /\ StartTask(tile)
    /\ fetched' = fetched \cup {tile}
    /\ UNCHANGED <<ept, foundVars, m_tileCount, eptDone, eptContents, told,
                   skipped, readerVars>>

Skips(tile) == tile \in ept.unreadable /\ ept.ignoreUnreadable

\* Fault: the tile stays with the task, which pushes it again.
KeepsTile(tile) == fetched

GivesTile(tile) == fetched \ {tile}

\* The loop that waits for room, left when the tile is pushed or the reader is
\* done.
Push(tile) ==
    /\ tile \in fetched
    /\ ~Skips(tile)
    /\ \/ /\ ~eptDone /\ Len(eptContents) < PoolThreads
          /\ eptContents' = Append(eptContents, tile)
       \/ eptDone /\ UNCHANGED eptContents
    /\ fetched' = GivesTile(tile)
    /\ told' = told \cup {tile}
    /\ UNCHANGED <<ept, foundVars, m_tileCount, eptDone, skipped, readerVars,
                   poolVars>>

\* It sleeps for 50 ms and tries again.
TryLater(tile) ==
    /\ tile \in fetched
    /\ ~Skips(tile) /\ ~eptDone /\ Len(eptContents) = PoolThreads
    /\ UNCHANGED eptVars

Skip(tile) ==
    /\ tile \in fetched
    /\ Skips(tile)
    /\ m_tileCount' = m_tileCount - 1
    /\ fetched' = fetched \ {tile}
    /\ told' = told \cup {tile}
    /\ skipped' = skipped \cup {tile}
    /\ UNCHANGED <<ept, foundVars, eptDone, eptContents, readerVars, poolVars>>

\* contentsCv.notify_one, and the task is over.
Notify(tile) ==
    /\ tile \in told
    /\ told' = told \ {tile}
    /\ FinishTask(tile)
    /\ Go(IF eptReader = "asleep" THEN "reading" ELSE eptReader)
    /\ UNCHANGED <<ept, foundVars, m_tileCount, eptDone, eptContents, fetched,
                   skipped, eptTile, oldCount, numRead, eptRead, lost>>

-----------------------------------------------------------------------------
(***************************************************************************)
(* The reading thread.                                                     *)
(***************************************************************************)
\* The condition of read()'s loop, and the start of processOne(), which need
\* not be called again.
Loop ==
    /\ eptReader = "looping"
    /\ \/ /\ m_tileCount > 0
          /\ ept.streaming \/ numRead <= ept.count
          /\ Go("reading")
       \/ m_tileCount = 0 /\ Go(IF ept.streaming THEN "finishing" ELSE "stopping")
       \/ ~ept.streaming /\ numRead > ept.count /\ Go("stopping")
       \/ ept.streaming /\ Go("finishing")
    /\ UNCHANGED <<ept, poolVars, foundVars, tileVars, eptTile, oldCount,
                   numRead, eptRead, lost>>

Pop ==
    /\ eptReader = "reading"
    /\ eptContents # <<>>
    /\ eptTile' = Head(eptContents)
    /\ eptContents' = Tail(eptContents)
    /\ Go("checking")
    /\ UNCHANGED <<ept, poolVars, foundVars, m_tileCount, eptDone, fetched,
                   told, skipped, oldCount, numRead, eptRead, lost>>

EptWaitForTile ==
    /\ eptReader = "reading"
    /\ eptContents = <<>>
    /\ Go(IF m_tileCount > 0 THEN "asleep" ELSE "looping")
    /\ UNCHANGED <<ept, poolVars, foundVars, tileVars, eptTile, oldCount,
                   numRead, eptRead, lost>>

\* checkTile() passes the tile and it is processed.
Process ==
    /\ eptReader = "checking"
    /\ eptTile \notin ept.unreadable
    /\ numRead' = numRead + 1
    /\ eptRead' = eptRead \cup {eptTile}
    /\ Go("lowering")
    /\ UNCHANGED <<ept, poolVars, foundVars, tileVars, eptTile, oldCount, lost>>

\* checkTile() throws, after "done", clearTasks() and stop().
CheckFails ==
    /\ eptReader = "checking"
    /\ eptTile \in ept.unreadable
    /\ eptDone' = TRUE
    /\ Go("clearing")
    /\ UNCHANGED <<ept, poolVars, foundVars, m_tileCount, eptContents, fetched,
                   told, skipped, eptTile, oldCount, numRead, eptRead, lost>>

ClearTiles ==
    /\ eptReader = "clearing"
    /\ DropWaiting
    /\ Go("failing")
    /\ UNCHANGED <<ept, foundVars, tileVars, eptTile, oldCount, numRead,
                   eptRead, lost>>

\* m_tileCount--, without the mutex.
LoadCount ==
    /\ eptReader = "lowering"
    /\ oldCount' = m_tileCount
    /\ Go("storing")
    /\ UNCHANGED <<ept, poolVars, foundVars, tileVars, eptTile, numRead,
                   eptRead, lost>>

StoreCount ==
    /\ eptReader = "storing"
    /\ m_tileCount' = oldCount - 1
    /\ lost' = (lost \/ m_tileCount # oldCount)
    /\ Go("looping")
    /\ UNCHANGED <<ept, poolVars, foundVars, eptDone, eptContents, fetched,
                   told, skipped, eptTile, oldCount, numRead, eptRead>>

\* pool->stop() at the end of read() and of checkTile().
Stop ==
    /\ eptReader \in {"stopping", "failing"}
    /\ open
    /\ ClosePool
    /\ UNCHANGED eptState

\* The join is over, and the queue is cleared.
Stopped ==
    /\ eptReader \in {"stopping", "failing"}
    /\ ~open
    /\ Idle
    /\ Go(IF eptReader = "failing" THEN "thrown" ELSE "finishing")
    /\ UNCHANGED <<ept, poolVars, foundVars, tileVars, eptTile, oldCount,
                   numRead, eptRead, lost>>

\* done(): the tasks that are left are let go and awaited.
EptFinish ==
    /\ eptReader = "finishing"
    /\ \/ ~eptDone /\ eptDone' = TRUE /\ UNCHANGED eptReader
       \/ eptDone /\ Idle /\ Go("gone") /\ UNCHANGED eptDone
    /\ UNCHANGED <<ept, poolVars, foundVars, m_tileCount, eptContents, fetched,
                   told, skipped, eptTile, oldCount, numRead, eptRead, lost>>

\* A condition variable may wake without a notification.
EptSpurious ==
    /\ eptReader = "asleep"
    /\ Go("reading")
    /\ UNCHANGED <<ept, poolVars, foundVars, tileVars, eptTile, oldCount,
                   numRead, eptRead, lost>>

-----------------------------------------------------------------------------
EptReaderStep == Open \/ HierarchyRead \/ Load \/ Loop \/ Pop \/ EptWaitForTile
                 \/ Process \/ CheckFails \/ ClearTiles \/ LoadCount
                 \/ StoreCount \/ Stop \/ Stopped \/ EptFinish
EptPageStep(page) == StartPage(page) \/ ReadPage(page) \/ PageFails(page)
EptTileStep(tile) == EptStartTile(tile) \/ Push(tile) \/ TryLater(tile)
                     \/ Skip(tile) \/ Notify(tile)
EptEnded == eptReader \in {"gone", "thrown", "terminated"} /\ UNCHANGED eptVars

EptNext == EptReaderStep \/ (\E page \in Pages : EptPageStep(page))
           \/ (\E tile \in EptTileSet : EptTileStep(tile)) \/ EptSpurious
           \/ EptEnded

\* Each thread goes on while it can.
EptFairness == /\ WF_eptVars(EptReaderStep)
               /\ \A page \in Pages : WF_eptVars(EptPageStep(page))
               /\ \A tile \in EptTileSet : WF_eptVars(EptTileStep(tile))

EptSpec == NoTasks(TRUE) /\ EptInit /\ [][EptNext]_eptVars /\ EptFairness

-----------------------------------------------------------------------------
\* EptTileOnce: every tile of the pages is found, and once it has a task it is
\* in one place: in the queue, with its task, in contents, in the reader's
\* hands, read, or skipped; unless the reader is done.
TileInHand == IF eptReader = "checking" THEN {eptTile} ELSE {}
EptPlaces == <<ToSet(waiting) \cap EptTileSet, fetched, ToSet(eptContents),
               TileInHand, eptRead, skipped>>
EptTileOnce ==
    /\ eptReader \in {"loading", "looping"} =>
          hierarchy = UNION {PageTiles[page] : page \in Pages}
    /\ \A i, j \in DOMAIN waiting :
          waiting[i] = waiting[j] /\ waiting[i] \in EptTileSet => i = j
    /\ IsInjective(eptContents)
    /\ \A i, j \in DOMAIN EptPlaces :
          EptPlaces[i] \cap EptPlaces[j] # {} => i = j
    /\ ~eptDone => loaded = UNION {EptPlaces[i] : i \in DOMAIN EptPlaces}

\* EptReturns: the reader never waits for ever for a tile, unless what a task
\* stored in m_tileCount was lost.
EptCalling == eptReader = "reading"
EptReturned == eptReader \in {"gone", "thrown"} \/ lost
EptReturns == EptCalling ~> EptReturned

\* SkipsUnreadable: with ignore_unreadable the tiles that cannot be read are
\* skipped and the rest is read to the end.
SkipsUnreadable ==
    eptReader = "reading" /\ ept.ignoreUnreadable ~> eptReader = "gone"

\* LimitEndsRead: when the count limit is hit, read() waits for the tiles that
\* are being read, starts no others, and returns.
LimitEndsRead == eptReader = "stopping" ~> eptReader = "gone"
===============================================================================
