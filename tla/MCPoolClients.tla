---------------------------- MODULE MCPoolClients ----------------------------
(***************************************************************************)
(* The readers and writers that give work to a ThreadPool, one at a time:  *)
(* a behaviour is that of the client chosen in its first state, over the   *)
(* pool of PoolTasks, while the others rest.                               *)
(***************************************************************************)
EXTENDS LazChunks, EptTiles, LasTiles, PageCache, Pyramid, Catalog, CopcTiles,
        TLC

VARIABLE client

\* Chunks that fail to compress.
MCFailingChunks == {{}, {1}, {2, 3}}

\* Page 0 lists the odd tiles and refers to page -1, which lists the even ones.
\* A limit that is hit leaves one tile: see EptLimit.cfg for more.
MCPageTiles == [page \in {0, -1} |-> {t \in EptTileSet : t % 2 = 1 + page}]
MCSubPages == [page \in {0, -1} |-> IF page = 0 THEN <<-1>> ELSE <<>>]
EptRead(streaming, ignoring, count, unreadable, badPages) ==
    [streaming |-> streaming, ignoreUnreadable |-> ignoring, count |-> count,
     unreadable |-> unreadable, badPages |-> badPages]
MCEptCases == {EptRead(FALSE, FALSE, TileTotal, {2}, {}),
               EptRead(FALSE, TRUE, TileTotal, {2}, {}),
               EptRead(FALSE, FALSE, 2, {}, {}),
               EptRead(TRUE, TRUE, TileTotal, {2}, {}),
               EptRead(FALSE, FALSE, TileTotal, {}, {0}),
               EptRead(FALSE, FALSE, TileTotal, {}, {-1})}

\* A streaming reader starts at the first point: see LasStart.cfg.
MCLasCases == {c \in [compressed : BOOLEAN, streaming : BOOLEAN,
                      start : {0, 1, 3}, count : {3, FilePoints}] :
                  c.streaming => c.start = 0}

MCWalks == {<<1, 2>>, <<3, 1>>}

MCCellSets == {<<0>> :> 1 @@ <<1, 0>> :> 2 @@ <<1, 1>> :> 1,
               <<0, 0>> :> 1 @@ <<1, 1>> :> 2,
               <<0, 1, 0>> :> 2 @@ <<0, 0>> :> 1 @@ <<1, 1>> :> 1,
               <<0, 1>> :> 3 @@ <<1, 0>> :> 1 @@ <<1, 1>> :> 2}

\* The root links two groups and an item, the first group a third; each group
\* links an item.
MCLinks == 0 :> <<1, 2, 4>> @@ 1 :> <<3, 5>> @@ 2 :> <<6>> @@ 3 :> <<7>>
MCItems == 4 .. 7
MCCatalogCases ==
    [failing : {{}, {2}, {3}, {7}}, filtered : {{}, {3}, {4}, {6}}]

MCFailingSets == {{}, {1}, {1, 2}}

ASSUME ClientsAssumption ==
    /\ ChunksAssumption /\ EptAssumption /\ LasAssumption
    /\ PageAssumption /\ PyramidAssumption
    /\ CatalogAssumption /\ CopcAssumption

Clients == {"laz", "ept", "las", "page", "pyramid", "catalog", "copc"}
Off == {}

clientVars == <<client, poolVars, lazState, eptState, lasState, pageState,
                pyramidState, catalogState, copcVars>>

Init ==
    /\ client \in Clients
    /\ NoTasks(TRUE)
    /\ IF client = "laz" THEN LazInit
       ELSE parallel = FALSE /\ failingChunks = {} /\ LazInitAt("gone")
    /\ IF client = "ept" THEN EptInit
       ELSE ept = Off /\ EptInitAt("gone")
    /\ IF client = "las" THEN LasInit
       ELSE las = Off /\ LasInitAt("gone")
    /\ IF client = "page" THEN PageInit
       ELSE wants = Off /\ PageInitAt("gone")
    /\ IF client = "pyramid" THEN PyramidInit
       ELSE cells = Off /\ PyramidInitAt("gone")
    /\ IF client = "catalog" THEN CatalogInit
       ELSE catalog = Off /\ CatalogInitAt("gone")
    /\ IF client = "copc" THEN CopcInit
       ELSE orderedDecode = FALSE /\ failing = {} /\ CopcInitAt("gone")

\* A step of this client.
Of(c) ==
    /\ client = c
    /\ UNCHANGED client
    /\ IF c = "laz" THEN TRUE ELSE UNCHANGED lazState
    /\ IF c = "ept" THEN TRUE ELSE UNCHANGED eptState
    /\ IF c = "las" THEN TRUE ELSE UNCHANGED lasState
    /\ IF c = "page" THEN TRUE ELSE UNCHANGED pageState
    /\ IF c = "pyramid" THEN TRUE ELSE UNCHANGED pyramidState
    /\ IF c = "catalog" THEN TRUE ELSE UNCHANGED catalogState
    /\ IF c = "copc" THEN UNCHANGED poolVars ELSE UNCHANGED copcVars

-----------------------------------------------------------------------------
Next ==
    \/ Of("laz") /\ CompressSerial
    \/ Of("laz") /\ DoneSerial
    \/ Of("laz") /\ CompressParallel
    \/ Of("laz") /\ DoneParallel
    \/ Of("laz") /\ SubmitChunk
    \/ Of("laz") /\ WriteNext
    \/ Of("laz") /\ JoinPool
    \/ Of("laz") /\ PoolJoined
    \/ Of("laz") /\ WriteTable
    \/ \E chunk \in Chunks : Of("laz") /\ StartChunk(chunk)
    \/ \E chunk \in Chunks : Of("laz") /\ ChunkReady(chunk)
    \/ Of("laz") /\ LazEnded
    \/ Of("ept") /\ Open
    \/ Of("ept") /\ HierarchyRead
    \/ Of("ept") /\ Load
    \/ Of("ept") /\ Loop
    \/ Of("ept") /\ Pop
    \/ Of("ept") /\ EptWaitForTile
    \/ Of("ept") /\ Process
    \/ Of("ept") /\ CheckFails
    \/ Of("ept") /\ ClearTiles
    \/ Of("ept") /\ LoadCount
    \/ Of("ept") /\ StoreCount
    \/ Of("ept") /\ Stop
    \/ Of("ept") /\ Stopped
    \/ Of("ept") /\ EptFinish
    \/ Of("ept") /\ EptSpurious
    \/ \E page \in Pages : Of("ept") /\ StartPage(page)
    \/ \E page \in Pages : Of("ept") /\ ReadPage(page)
    \/ \E page \in Pages : Of("ept") /\ PageFails(page)
    \/ \E tile \in EptTileSet : Of("ept") /\ EptStartTile(tile)
    \/ \E tile \in EptTileSet : Of("ept") /\ Push(tile)
    \/ \E tile \in EptTileSet : Of("ept") /\ TryLater(tile)
    \/ \E tile \in EptTileSet : Of("ept") /\ Skip(tile)
    \/ \E tile \in EptTileSet : Of("ept") /\ Notify(tile)
    \/ Of("ept") /\ EptEnded
    \/ Of("las") /\ Resize
    \/ Of("las") /\ Clear
    \/ Of("las") /\ QueueFirst
    \/ Of("las") /\ AskPoint
    \/ Of("las") /\ TakeTile
    \/ Of("las") /\ WaitForTile
    \/ Of("las") /\ LoadPoint
    \/ Of("las") /\ Join
    \/ Of("las") /\ Done
    \/ Of("las") /\ Spurious
    \/ Of("las") /\ \E tile \in LasTasks : StartTile(tile)
    \/ Of("las") /\ \E tile \in LasTasks : TileReady(tile)
    \/ Of("las") /\ LasEnded
    \/ \E w \in Walkers : Of("page") /\ NotePage(w)
    \/ \E w \in Walkers : Of("page") /\ Evict(w)
    \/ \E w \in Walkers : Of("page") /\ AddFetch(w)
    \/ \E w \in Walkers : Of("page") /\ GetPage(w)
    \/ \E w \in Walkers : Of("page") /\ WalkEnds(w)
    \/ \E w \in Walkers : Of("page") /\ SpuriousWalker(w)
    \/ \E p \in NodePages : Of("page") /\ StartFetch(p)
    \/ \E p \in NodePages : Of("page") /\ PageComes(p)
    \/ Of("page") /\ AllGone
    \/ Of("pyramid") /\ QueueWork
    \/ Of("pyramid") /\ TakeOctant
    \/ Of("pyramid") /\ ProcessOctant
    \/ Of("pyramid") /\ Finish
    \/ Of("pyramid") /\ \E key \in VoxelTasks : StartVoxel(key)
    \/ Of("pyramid") /\ \E key \in VoxelTasks : WriteVoxel(key)
    \/ Of("pyramid") /\ \E key \in VoxelTasks : QueueVoxel(key)
    \/ Of("pyramid") /\ PyramidEnded
    \/ Of("catalog") /\ StartRoot
    \/ Of("catalog") /\ AwaitLinks
    \/ Of("catalog") /\ JoinLinks
    \/ Of("catalog") /\ Hoist
    \/ Of("catalog") /\ CollectErrors
    \/ Of("catalog") /\ Extract
    \/ \E link \in CatalogNodes : Of("catalog") /\ StartLink(link)
    \/ \E link \in CatalogNodes : Of("catalog") /\ LinkFails(link)
    \/ \E link \in CatalogNodes : Of("catalog") /\ LinkFiltered(link)
    \/ \E link \in CatalogNodes : Of("catalog") /\ HandleItem(link)
    \/ \E link \in CatalogNodes : Of("catalog") /\ OpenGroup(link)
    \/ \E link \in CatalogNodes : Of("catalog") /\ KeepGroup(link)
    \/ Of("catalog") /\ CatalogEnded
    \/ \E r \in Requesters : Of("copc") /\ TakeRequest(r)
    \/ \E r \in Requesters : Of("copc") /\ MayProceed(r)
    \/ \E r \in Requesters : Of("copc") /\ MustWait(r)
    \/ \E r \in Requesters : Of("copc") /\ FallAsleep(r)
    \/ \E r \in Requesters : Of("copc") /\ NotifyContents(r)
    \/ \E r \in Requesters : Of("copc") /\ Fetch(r)
    \/ \E d \in Decoders : Of("copc") /\ TakeDecode(d)
    \/ \E d \in Decoders : Of("copc") /\ Decoded(d)
    \/ \E d \in Decoders : Of("copc") /\ NotifyDecoded(d)
    \/ Of("copc") /\ CopcLoad
    \/ Of("copc") /\ CopcPop
    \/ Of("copc") /\ CopcWaitForTile
    \/ Of("copc") /\ NotifyConsumed
    \/ Of("copc") /\ CopcProcess
    \/ Of("copc") /\ CopcCheckFails
    \/ Of("copc") /\ Release
    \/ Of("copc") /\ CopcStop
    \/ Of("copc") /\ StopDecode
    \/ Of("copc") /\ CopcSpurious
    \/ Of("copc") /\ Gone

-----------------------------------------------------------------------------
(***************************************************************************)
(* The fairness of each client: the client stays the same, so one          *)
(* condition on the i-th thread or task of whichever it is will do.        *)
(***************************************************************************)
OwnerStep(i) ==
    \/ client = "laz" /\ i = 1 /\ LazWriterStep
    \/ client = "ept" /\ i = 1 /\ EptReaderStep
    \/ client = "las" /\ i = 1 /\ LasReaderStep
    \/ client = "page" /\ i \in Walkers /\ WalkerStep(i)
    \/ client = "pyramid" /\ i = 1 /\ RunnerStep
    \/ client = "catalog" /\ i = 1 /\ StacReaderStep

TaskStep(i) ==
    \/ client = "laz" /\ i \in Chunks /\ LazTaskStep(i)
    \/ client = "ept" /\ i \in EptTileSet /\ EptTileStep(i)
    \/ client = "ept" /\ i \in Pages /\ EptPageStep(i)
    \/ client = "las" /\ i = 0 /\ \E tile \in LasTasks : LasTaskStep(tile)
    \/ client = "page" /\ i \in NodePages /\ FetchStep(i)
    \/ client = "pyramid" /\ i = 0
          /\ \E key \in VoxelTasks : VoxelStep(key)
    \/ client = "catalog" /\ i \in CatalogNodes /\ LinkStep(i)
Tasks == {0} \cup Chunks \cup EptTileSet \cup Pages \cup NodePages \cup CatalogNodes

CopcStep(i) ==
    /\ client = "copc"
    /\ \/ i = 0 /\ MainStep
       \/ i \in Threads /\ RequestStep(i)
       \/ i - Requests \in Decoders /\ DecodeStep(i - Requests)

Fairness ==
    /\ \A i \in {1} \cup Walkers : WF_clientVars(OwnerStep(i) /\ Of(client))
    /\ \A i \in Tasks : WF_clientVars(TaskStep(i) /\ Of(client))
    /\ \A i \in 0 .. Requests + DecodeWorkers :
          SF_clientVars(CopcStep(i) /\ Of(client))

Spec == Init /\ [][Next]_clientVars /\ Fairness

-----------------------------------------------------------------------------
\* Each client's state has its type.
TypeOK ==
    CASE client = "laz"     -> LazTypeOK
      [] client = "ept"     -> EptTypeOK
      [] client = "las"     -> LasTypeOK
      [] client = "page"    -> PageTypeOK
      [] client = "pyramid" -> PyramidTypeOK
      [] client = "catalog" -> CatalogTypeOK
      [] client = "copc"    -> CopcTypeOK

\* InOrder: what pools finish in any order is used in its own: a LAZ file has
\* its chunks as one thread would have written them, the LAS reader and the
\* ordered COPC reader hand out the file's points and tiles as they stand in it.
InOrder ==
    /\ client = "laz" => SerialFile
    /\ client = "las" => InFileOrder
    /\ client = "copc" => EmittedInOrder

\* TileOnce: no tile of an EPT or COPC reader is lost or read twice.
TileOnce ==
    /\ client = "ept" => EptTileOnce
    /\ client = "copc" => EachTileOnce

\* Bounded: the memory that the LAZ writer and the LAS and COPC readers hold
\* for work in progress has the bound they were given.
Bounded ==
    /\ client = "laz" => OneChunkPerWorker
    /\ client = "las" => WindowHolds
    /\ client = "copc" => KeepAliveHolds

\* FetchedOnce: no page is fetched twice at a time, and an entry of the page
\* cache that has no page has a fetch on its way.
FetchedOnce == client = "page" => OneFetchEach

\* HierarchyConnected: the COPC writer loses no point on the way up, and every
\* chunk it wrote is in the hierarchy.
HierarchyConnected ==
    client = "pyramid" => NoPointLost /\ ChunksConnected

\* CatalogComplete: a STAC reader gets every item of its catalogs, or throws
\* what went wrong in any of them.
CatalogComplete == client = "catalog" => EveryItemRead

\* CallsReturn: no call of a client waits for ever.  Of the COPC reader that is
\* the reading, not the join of its pools, and of the EPT reader a reading that
\* has lost no decrement of m_tileCount: the runs copc_error, ept_limit and
\* ept_skip are about the rest.
Calling ==
    \/ client = "laz" /\ ~LazReturned
    \/ client = "ept" /\ EptCalling
    \/ client = "las" /\ LasCalling
    \/ client = "page" /\ SomeGetting
    \/ client = "pyramid" /\ PyramidRuns
    \/ client = "catalog" /\ CatalogAwaits
    \/ client = "copc" /\ main = "reading"
Returned ==
    \/ client = "laz" /\ LazReturned
    \/ client = "ept" /\ EptReturned
    \/ client = "las" /\ LasReturned
    \/ client = "page" /\ WalksEnded
    \/ client = "pyramid" /\ runner = "gone"
    \/ client = "catalog" /\ CatalogRead
    \/ client = "copc" /\ ReadReturned
CallsReturn == Calling ~> Returned
==============================================================================
