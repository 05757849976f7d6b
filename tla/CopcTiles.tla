----------------------------- MODULE CopcTiles -----------------------------
(***************************************************************************)
(* The tile queue of io/CopcReader.cpp.  ready() adds one task for each    *)
(* selected tile to a pool; the reading thread takes the tiles as they     *)
(* come and finally stops the pool.                                        *)
(*                                                                         *)
(* "parallel": the pool's threads fetch and decompress a tile each and     *)
(* push it on "contents", in any order.  "ordered" (requests = 1): the one *)
(* request thread fetches, a decode pool decompresses, and the tiles are   *)
(* handed out in the order they were loaded.  Either way a request thread  *)
(* waits on consumedCv while KeepAlive tiles are unconsumed.               *)
(*                                                                         *)
(* The pools behave as ThreadPool shows: tasks start in the order they     *)
(* were added, and stop() returns when all of them have run.  "done" is an *)
(* atomic that is set without the mutex, so the test of a wait and the     *)
(* sleep that follows it are two steps.                                    *)
(***************************************************************************)
EXTENDS Integers, Sequences, FiniteSets, SequencesExt

CONSTANTS
    TileCount,      \* the tiles the hierarchy selects
    Requests,       \* the request threads of a parallel reader
    DecodeWorkers,  \* the threads of the decode pool
    KeepAlive,      \* m_args->keepAliveChunkCount
    Ways,           \* the ways of reading to check
    FailingSets     \* the sets of tiles that may be unreadable

CopcAssumption ==
    /\ TileCount \in Nat
    /\ DecodeWorkers \in Nat \ {0, 1}
    /\ Requests \in Nat \ {0, 1}
    /\ KeepAlive \in Nat /\ Requests <= KeepAlive
    /\ Ways \subseteq {"ordered", "parallel"}
    /\ FailingSets \subseteq SUBSET (0 .. TileCount - 1)

Tiles    == 0 .. TileCount - 1
Threads  == 1 .. Requests
Decoders == 1 .. DecodeWorkers
NoCopcTile   == -1

VARIABLES
    orderedDecode,
    failing,        \* the tiles whose fetch or decompression fails
    main,           \* where the reading thread is
    copcTile,       \* the tile it took last
    nextSeq,        \* tiles are numbered in the order they are loaded
    nextEmit, pending, done,
    tilesLeft,      \* tileCount
    requests,       \* the queue of the request pool
    request,        \* where each request thread is
    requested,      \* its tile
    decodes,        \* the queue of the decode pool
    decode, decoded,    \* the same for the decode threads
    contents,       \* the tiles ready to take, of a parallel reader
    ordered,        \* and of an ordered one
    emitted         \* history: the tiles taken, in order

threadVars == <<requests, request, requested>>
decodeVars == <<decodes, decode, decoded>>
readyVars  == <<contents, ordered, nextEmit, pending>>
copcVars == <<orderedDecode, failing, main, copcTile, nextSeq, done,
              tilesLeft, threadVars, decodeVars, readyVars, emitted>>

CopcTypeOK ==
    /\ orderedDecode \in BOOLEAN
    /\ failing \subseteq Tiles
    /\ main \in {"loading", "reading", "asleep", "popped", "checking",
                 "releasing", "stopping", "stoppingDecode", "gone"}
    /\ copcTile \in {NoCopcTile} \cup Tiles
    /\ nextSeq \in 0 .. TileCount
    /\ nextEmit \in 0 .. TileCount
    /\ pending \in 0 .. KeepAlive
    /\ done \in BOOLEAN
    /\ tilesLeft \in 0 .. TileCount
    /\ request \in [Threads -> {"free", "testing", "falling", "asleep",
                                "fetching", "notifying"}]
    /\ requested \in [Threads -> {NoCopcTile} \cup Tiles]
    /\ decode \in [Decoders -> {"free", "decoding", "notifying"}]
    /\ decoded \in [Decoders -> {NoCopcTile} \cup Tiles]
    /\ ordered \subseteq Tiles
    /\ \A queue \in {requests, decodes, contents, emitted} :
          queue \in BoundedSeq(Tiles, TileCount)

CopcInitAt(place) ==
    /\ main = place
    /\ copcTile = NoCopcTile
    /\ nextSeq = 0 /\ nextEmit = 0 /\ pending = 0
    /\ done = FALSE
    /\ tilesLeft = TileCount
    /\ requests = <<>> /\ decodes = <<>> /\ contents = <<>> /\ emitted = <<>>
    /\ ordered = {}
    /\ request = [r \in Threads |-> "free"]
    /\ requested = [r \in Threads |-> NoCopcTile]
    /\ decode = [d \in Decoders |-> "free"]
    /\ decoded = [d \in Decoders |-> NoCopcTile]

\* ready() has found the tiles and is about to load them.
CopcInit ==
    /\ orderedDecode \in {way = "ordered" : way \in Ways}
    /\ failing \in FailingSets
    /\ CopcInitAt("loading")

\* An ordered reader has one request thread.
Requesters == IF orderedDecode THEN {1} ELSE Threads

\* A thread that is about to sleep holds the mutex until it does.
MutexFree == \A r \in Threads : request[r] # "falling"

-----------------------------------------------------------------------------
(***************************************************************************)
(* The tasks that load() adds.                                             *)
(***************************************************************************)
CopcLoad ==
    /\ main = "loading"
    /\ IF nextSeq < TileCount
       THEN /\ requests' = Append(requests, nextSeq)
            /\ nextSeq' = nextSeq + 1
            /\ UNCHANGED main
       ELSE main' = "reading" /\ UNCHANGED <<requests, nextSeq>>
    /\ UNCHANGED <<orderedDecode, failing, copcTile, done, tilesLeft,
                   request, requested, decodeVars, readyVars, emitted>>

\* A request thread takes a task; a parallel one also reads the tile.
TakeRequest(r) ==
    /\ request[r] = "free"
    /\ requests # <<>>
    /\ requested' = [requested EXCEPT ![r] = Head(requests)]
    /\ requests' = Tail(requests)
    /\ request' = [request EXCEPT ![r] = "testing"]
    /\ UNCHANGED <<orderedDecode, failing, main, copcTile, nextSeq, done,
                   tilesLeft, decodeVars, readyVars, emitted>>

\* Fault: one tile too many is kept alive.
RoomForOneMore == IF orderedDecode THEN pending <= KeepAlive
                                   ELSE Len(contents) <= KeepAlive

HasRoom == IF orderedDecode THEN pending < KeepAlive
                            ELSE Len(contents) < KeepAlive

\* Fault: a fetched tile is not counted.
NotCounted == pending

CountedFetch == pending + 1

\* The condition of consumedCv, and what follows it under the mutex.
MayProceed(r) ==
    /\ request[r] = "testing"
    /\ MutexFree
    /\ done \/ HasRoom
    /\ IF orderedDecode
       THEN /\ pending' = IF done THEN pending ELSE CountedFetch
            /\ request' = [request EXCEPT ![r] = IF done THEN "free"
                                                         ELSE "fetching"]
            /\ UNCHANGED contents
       ELSE /\ contents' = Append(contents, requested[r])
            /\ request' = [request EXCEPT ![r] = "notifying"]
            /\ UNCHANGED pending
    /\ UNCHANGED <<orderedDecode, failing, main, copcTile, nextSeq, done,
                   tilesLeft, requests, requested, decodeVars, ordered,
                   nextEmit, emitted>>

MustWait(r) ==
    /\ request[r] = "testing"
    /\ MutexFree
    /\ ~(done \/ HasRoom)
    /\ request' = [request EXCEPT ![r] = "falling"]
    /\ UNCHANGED <<orderedDecode, failing, main, copcTile, nextSeq, done,
                   tilesLeft, requests, requested, decodeVars, readyVars,
                   emitted>>

FallAsleep(r) ==
    /\ request[r] = "falling"
    /\ request' = [request EXCEPT ![r] = "asleep"]
    /\ UNCHANGED <<orderedDecode, failing, main, copcTile, nextSeq, done,
                   tilesLeft, requests, requested, decodeVars, readyVars,
                   emitted>>

MainWoken == IF main = "asleep" THEN "reading" ELSE main

\* The task of a parallel reader ends with contentsCv.notify_one.
NotifyContents(r) ==
    /\ request[r] = "notifying"
    /\ request' = [request EXCEPT ![r] = "free"]
    /\ main' = MainWoken
    /\ UNCHANGED <<orderedDecode, failing, copcTile, nextSeq, done,
                   tilesLeft, requests, requested, decodeVars, readyVars,
                   emitted>>

\* The task of an ordered reader fetches and hands the tile on.
Fetch(r) ==
    /\ request[r] = "fetching"
    /\ decodes' = Append(decodes, requested[r])
    /\ request' = [request EXCEPT ![r] = "free"]
    /\ UNCHANGED <<orderedDecode, failing, main, copcTile, nextSeq, done,
                   tilesLeft, requests, requested, decode, decoded, readyVars,
                   emitted>>

-----------------------------------------------------------------------------
(***************************************************************************)
(* The tasks of the decode pool.                                           *)
(***************************************************************************)
TakeDecode(d) ==
    /\ decode[d] = "free"
    /\ decodes # <<>>
    /\ decoded' = [decoded EXCEPT ![d] = Head(decodes)]
    /\ decodes' = Tail(decodes)
    /\ decode' = [decode EXCEPT ![d] = "decoding"]
    /\ UNCHANGED <<orderedDecode, failing, main, copcTile, nextSeq, done,
                   tilesLeft, threadVars, readyVars, emitted>>

Decoded(d) ==
    /\ decode[d] = "decoding"
    /\ MutexFree
    /\ ordered' = ordered \cup {decoded[d]}
    /\ decode' = [decode EXCEPT ![d] = "notifying"]
    /\ UNCHANGED <<orderedDecode, failing, main, copcTile, nextSeq, done,
                   tilesLeft, threadVars, decodes, decoded, contents, nextEmit,
                   pending, emitted>>

NotifyDecoded(d) ==
    /\ decode[d] = "notifying"
    /\ decode' = [decode EXCEPT ![d] = "free"]
    /\ main' = MainWoken
    /\ UNCHANGED <<orderedDecode, failing, copcTile, nextSeq, done,
                   tilesLeft, threadVars, decodes, decoded, readyVars, emitted>>

-----------------------------------------------------------------------------
(***************************************************************************)
(* The reading thread: read() and processOne(), checkTile() and done().    *)
(***************************************************************************)
\* Fault: any decoded tile will do.
AnyContents == IF orderedDecode THEN ordered
            ELSE IF contents = <<>> THEN {} ELSE {Head(contents)}

\* tileAvailable(): the tile that popTile() takes, if it is there.
Available == IF orderedDecode THEN ordered \cap {nextEmit}
             ELSE IF contents = <<>> THEN {} ELSE {Head(contents)}

\* Fault: the tile stays where it was.
StaysReady == contents

Popped == Tail(contents)

CopcPop ==
    /\ main = "reading"
    /\ MutexFree
    /\ \E tile \in Available :
          /\ copcTile' = tile
          /\ emitted' = Append(emitted, tile)
          /\ IF orderedDecode
             THEN /\ ordered' = ordered \ {tile}
                  /\ nextEmit' = nextEmit + 1
                  /\ pending' = pending - 1
                  /\ UNCHANGED contents
             ELSE contents' = Popped /\ UNCHANGED <<ordered, nextEmit, pending>>
    /\ main' = "popped"
    /\ UNCHANGED <<orderedDecode, failing, nextSeq, done, tilesLeft,
                   threadVars, decodeVars>>

CopcWaitForTile ==
    /\ main = "reading"
    /\ MutexFree
    /\ Available = {}
    /\ main' = "asleep"
    /\ UNCHANGED <<orderedDecode, failing, copcTile, nextSeq, done,
                   tilesLeft, threadVars, decodeVars, readyVars, emitted>>

Sleepers == {r \in Threads : request[r] = "asleep"}

\* Fault: the notification is lost.
NobodyWoken == {}

OneWoken == Sleepers

\* consumedCv.notify_one
NotifyConsumed ==
    /\ main = "popped"
    /\ \/ /\ OneWoken = {}
          /\ UNCHANGED request
       \/ \E r \in OneWoken : request' = [request EXCEPT ![r] = "testing"]
    /\ main' = "checking"
    /\ UNCHANGED <<orderedDecode, failing, copcTile, nextSeq, done,
                   tilesLeft, requests, requested, decodeVars, readyVars,
                   emitted>>

\* The tile is good; reading goes on, or ends because every tile was read or
\* because enough points were.
CopcProcess ==
    /\ main = "checking"
    /\ copcTile \notin failing
    /\ tilesLeft' = tilesLeft - 1
    /\ \/ tilesLeft' > 0 /\ main' = "reading" /\ UNCHANGED done
       \/ main' = "releasing" /\ done' = TRUE
    /\ UNCHANGED <<orderedDecode, failing, copcTile, nextSeq, threadVars,
                   decodeVars, readyVars, emitted>>

\* checkTile finds an error: an ordered reader releases its request thread, a
\* parallel one does not; then the pools are stopped and the error is thrown.
CopcCheckFails ==
    /\ main = "checking"
    /\ copcTile \in failing
    /\ done' = orderedDecode
    /\ main' = IF orderedDecode THEN "releasing" ELSE "stopping"
    /\ UNCHANGED <<orderedDecode, failing, copcTile, nextSeq, tilesLeft,
                   threadVars, decodeVars, readyVars, emitted>>

\* consumedCv.notify_all
Release ==
    /\ main = "releasing"
    /\ request' = [r \in Threads |-> IF request[r] = "asleep" THEN "testing"
                                                              ELSE request[r]]
    /\ main' = "stopping"
    /\ UNCHANGED <<orderedDecode, failing, copcTile, nextSeq, done,
                   tilesLeft, requests, requested, decodeVars, readyVars,
                   emitted>>

\* stop() of the request pool, then of the decode pool.
CopcStop ==
    /\ main = "stopping"
    /\ requests = <<>>
    /\ \A r \in Threads : request[r] = "free"
    /\ main' = IF orderedDecode THEN "stoppingDecode" ELSE "gone"
    /\ UNCHANGED <<orderedDecode, failing, copcTile, nextSeq, done,
                   tilesLeft, threadVars, decodeVars, readyVars, emitted>>

StopDecode ==
    /\ main = "stoppingDecode"
    /\ decodes = <<>>
    /\ \A d \in Decoders : decode[d] = "free"
    /\ main' = "gone"
    /\ UNCHANGED <<orderedDecode, failing, copcTile, nextSeq, done,
                   tilesLeft, threadVars, decodeVars, readyVars, emitted>>

\* Condition variables may wake without a notification.
CopcSpurious ==
    /\ \/ /\ main = "asleep"
          /\ main' = "reading"
          /\ UNCHANGED request
       \/ \E r \in Sleepers : /\ request' = [request EXCEPT ![r] = "testing"]
                              /\ UNCHANGED main
    /\ UNCHANGED <<orderedDecode, failing, copcTile, nextSeq, done,
                   tilesLeft, requests, requested, decodeVars, readyVars,
                   emitted>>

-----------------------------------------------------------------------------
RequestStep(r) ==
    /\ r \in Requesters
    /\ \/ TakeRequest(r) \/ MayProceed(r) \/ MustWait(r) \/ FallAsleep(r)
       \/ NotifyContents(r) \/ Fetch(r)
DecodeStep(d) == TakeDecode(d) \/ Decoded(d) \/ NotifyDecoded(d)
MainStep == CopcLoad \/ CopcPop \/ CopcWaitForTile \/ NotifyConsumed \/ CopcProcess
            \/ CopcCheckFails \/ Release \/ CopcStop \/ StopDecode
Gone == main = "gone" /\ UNCHANGED copcVars

CopcNext == \/ MainStep
            \/ \E r \in Threads : RequestStep(r)
            \/ \E d \in Decoders : DecodeStep(d)
            \/ CopcSpurious
            \/ Gone

\* Every thread that can go on does, and one that waits for the mutex gets it
\* in the end although others take it again and again.  Nobody has to wake by
\* itself.
CopcFairness == /\ SF_copcVars(MainStep)
                /\ \A r \in Threads : SF_copcVars(RequestStep(r))
                /\ \A d \in Decoders : SF_copcVars(DecodeStep(d))

CopcSpec == CopcInit /\ [][CopcNext]_copcVars /\ CopcFairness

-----------------------------------------------------------------------------
\* EmittedInOrder: an ordered reader hands the tiles out in the order it was
\* asked for them, so it is the first unreadable tile whose error is thrown,
\* after all good tiles before it were read.
EmittedInOrder ==
    orderedDecode =>
        /\ \A i \in DOMAIN emitted : emitted[i] = i - 1
        /\ \A t \in Tiles : t < copcTile => t \notin failing

\* The threads that have a tile in hand, and where tiles may be.
Askers == {r \in Threads : request[r] \in {"testing", "falling", "asleep",
                                           "fetching"}}
Fetchers == {r \in Threads : request[r] = "fetching"}
Unpackers == {d \in Decoders : decode[d] = "decoding"}

Places == <<ToSet(requests), {requested[r] : r \in Askers}, ToSet(decodes),
            {decoded[d] : d \in Unpackers}, ordered, ToSet(contents),
            ToSet(emitted)>>

\* EachTileOnce: no tile is handed out twice or is in two places, and until the
\* reader is told to stop no loaded tile is lost.
EachTileOnce ==
    /\ \A queue \in {requests, decodes, contents, emitted} : IsInjective(queue)
    /\ \A r, q \in Askers : requested[r] = requested[q] => r = q
    /\ \A d, e \in Unpackers : decoded[d] = decoded[e] => d = e
    /\ \A i, j \in DOMAIN Places : i # j => Places[i] \cap Places[j] = {}
    /\ ~done => UNION {Places[i] : i \in DOMAIN Places} = 0 .. nextSeq - 1

\* KeepAliveHolds: no more than KeepAlive fetched tiles are unconsumed, and an
\* ordered reader's count of them is exact.
KeepAliveHolds ==
    /\ ~done => Len(contents) <= KeepAlive
    /\ pending <= KeepAlive
    /\ pending = Cardinality(Fetchers) + Len(decodes) + Cardinality(Unpackers)
                 + Cardinality(ordered)

\* ReadReturns: read() never waits for ever for a tile.
ReadReturned == main \in {"releasing", "stopping"}
ReadReturns == main = "reading" ~> ReadReturned

\* ErrorSurfaces: once a tile turned out to be unreadable the pools stop and
\* the error reaches the caller.
ErrorSurfaces ==
    main = "checking" /\ copcTile \in failing ~> main = "gone"
=============================================================================
