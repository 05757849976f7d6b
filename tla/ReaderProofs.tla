----------------------------- MODULE ReaderProofs -----------------------------
(***************************************************************************)
(* Proofs about the readers whose tasks come in any order, for every       *)
(* number of threads, tiles, pages and links.                              *)
(*                                                                         *)
(* The tile queues of the COPC reader (CopcTiles) and of the EPT reader    *)
(* (EptTiles): a tile moves from place to place, so it is never in two,    *)
(* and the readers count the tiles they keep or lack.  The STAC catalog    *)
(* (Catalog): the links make a tree, so every link that can be reached is  *)
(* added once and what it led to is in the list of its group; hoisting     *)
(* then gives the root each opened group once.                             *)
(***************************************************************************)
EXTENDS CopcTiles, EptTiles, Catalog, TileArithmetic, FiniteSetTheorems

-----------------------------------------------------------------------------
(***************************************************************************)
(* The tile queue of the COPC reader.                                      *)
(***************************************************************************)
CopcTypes ==
    /\ orderedDecode \in BOOLEAN
    /\ failing \subseteq Tiles
    /\ main \in {"loading", "reading", "asleep", "popped", "checking",
                 "releasing", "stopping", "stoppingDecode", "gone"}
    /\ copcTile \in {NoCopcTile} \cup Tiles
    /\ nextSeq \in 0 .. TileCount
    /\ nextEmit \in Nat
    /\ pending \in Nat
    /\ done \in BOOLEAN
    /\ request \in [Threads -> {"free", "testing", "falling", "asleep",
                                "fetching", "notifying"}]
    /\ requested \in [Threads -> {NoCopcTile} \cup Tiles]
    /\ decode \in [Decoders -> {"free", "decoding", "notifying"}]
    /\ decoded \in [Decoders -> {NoCopcTile} \cup Tiles]
    /\ ordered \subseteq Tiles
    /\ \A queue \in {requests, decodes, contents, emitted} : queue \in Seq(Tiles)

\* Each way of reading has its own queues, and done is for the way out.
WayInv ==
    /\ orderedDecode =>
          /\ contents = <<>>
          /\ \A r \in Threads : request[r] # "notifying"
    /\ ~orderedDecode =>
          /\ decodes = <<>> /\ ordered = {} /\ Unpackers = {} /\ Fetchers = {}
    /\ done => main \in {"releasing", "stopping", "stoppingDecode", "gone"}

\* Each loaded tile has its place, and no other tile has one.
PlaceInv ==
    /\ EachTileOnce
    /\ \A i \in 1 .. 7 : Places[i] \subseteq Tiles /\ Places[i] \subseteq 0 .. nextSeq - 1

\* An ordered reader has taken the first tiles, all good but perhaps the last.
OrderInv ==
    orderedDecode =>
        /\ Len(emitted) = nextEmit
        /\ \A i \in 1 .. nextEmit : emitted[i] = i - 1
        /\ copcTile = nextEmit - 1
        /\ \A t \in failing : t >= nextEmit - 1
        /\ main \in {"loading", "reading", "asleep"} =>
              \A t \in failing : t >= nextEmit

CopcInv == CopcTypes /\ WayInv /\ PlaceInv /\ OrderInv /\ KeepAliveHolds

-----------------------------------------------------------------------------
(***************************************************************************)
(* Queues and hands.                                                       *)
(***************************************************************************)
\* A new element joins a queue that does not have it.
LEMMA Joins ==
    ASSUME NEW S, NEW s \in Seq(S), NEW x \in S, IsInjective(s), x \notin ToSet(s)
    PROVE  /\ Append(s, x) \in Seq(S)
           /\ Len(Append(s, x)) = Len(s) + 1
           /\ IsInjective(Append(s, x))
           /\ ToSet(Append(s, x)) = ToSet(s) \cup {x}
<1> DEFINE t == Append(s, x)
<1>1. /\ t \in Seq(S) /\ Len(t) = Len(s) + 1 /\ Len(s) \in Nat
      /\ \A i \in 1 .. Len(s) : t[i] = s[i]
      /\ t[Len(s) + 1] = x
      /\ DOMAIN t = 1 .. Len(t) /\ DOMAIN s = 1 .. Len(s)
  BY SMT
<1> HIDE DEF t
<1>2. 1 .. Len(t) = 1 .. Len(s) \cup {Len(s) + 1}
  BY ONLY <1>1, SMT
<1>3. \A i \in 1 .. Len(s) : s[i] # x
  BY <1>1 DEF ToSet
<1>4. \A i, j \in 1 .. Len(s) : s[i] = s[j] => i = j
  BY <1>1 DEF IsInjective
<1>5. IsInjective(t)
  <2> SUFFICES ASSUME NEW i \in 1 .. Len(t), NEW j \in 1 .. Len(t), t[i] = t[j]
               PROVE  i = j
    BY <1>1 DEF IsInjective
  <2> QED
    BY <1>1, <1>2, <1>3, <1>4
<1>6. ToSet(t) = ToSet(s) \cup {x}
  BY <1>1, <1>2 DEF ToSet
<1> QED
  BY <1>1, <1>5, <1>6 DEF t

\* The oldest element leaves a queue.
LEMMA LeavesQueue ==
    ASSUME NEW S, NEW s \in Seq(S), s # <<>>, IsInjective(s)
    PROVE  /\ Head(s) \in S /\ Head(s) \in ToSet(s)
           /\ Tail(s) \in Seq(S)
           /\ Len(Tail(s)) = Len(s) - 1
           /\ IsInjective(Tail(s))
           /\ ToSet(Tail(s)) = ToSet(s) \ {Head(s)}
<1> DEFINE t == Tail(s)
<1>1. /\ Len(s) \in Nat \ {0} /\ Head(s) = s[1] /\ Head(s) \in S
      /\ t \in Seq(S) /\ Len(t) = Len(s) - 1
      /\ \A i \in 1 .. Len(t) : t[i] = s[i + 1]
      /\ DOMAIN t = 1 .. Len(t) /\ DOMAIN s = 1 .. Len(s)
  BY SMT
<1> HIDE DEF t
<1>2. 1 \in 1 .. Len(s) /\ \A i \in 1 .. Len(t) : i + 1 \in 1 .. Len(s) /\ i + 1 # 1
  BY ONLY <1>1, SMT
<1>3. \A i \in 1 .. Len(s) : i # 1 => i - 1 \in 1 .. Len(t) /\ i = (i - 1) + 1
  BY ONLY <1>1, SMT
<1>4. \A i, j \in 1 .. Len(s) : s[i] = s[j] => i = j
  BY <1>1 DEF IsInjective
<1>5. \A i, j \in 1 .. Len(t) : i + 1 = j + 1 => i = j
  BY ONLY <1>1, SMT
<1>6. IsInjective(t)
  BY <1>1, <1>2, <1>4, <1>5 DEF IsInjective
<1>7. ToSet(t) = {s[i] : i \in 1 .. Len(s)} \ {s[1]}
  <2>1. ASSUME NEW i \in 1 .. Len(t)
        PROVE  t[i] \in {s[k] : k \in 1 .. Len(s)} \ {s[1]}
    BY <1>1, <1>2, <1>4
  <2>2. ASSUME NEW i \in 1 .. Len(s), s[i] # s[1]
        PROVE  s[i] \in {t[k] : k \in 1 .. Len(t)}
    <3>1. i - 1 \in 1 .. Len(t) /\ s[i] = t[i - 1]
      BY <1>1, <1>3, <2>2
    <3> QED
      BY <3>1
  <2>3. {t[i] : i \in 1 .. Len(t)} = {s[i] : i \in 1 .. Len(s)} \ {s[1]}
    BY ONLY <2>1, <2>2
  <2> QED
    BY <1>1, <2>3 DEF ToSet
<1>8. ToSet(s) = {s[i] : i \in 1 .. Len(s)} /\ s[1] \in ToSet(s)
  BY <1>1, <1>2 DEF ToSet
<1> QED
  BY <1>1, <1>6, <1>7, <1>8 DEF t

\* One of those who hold different things has its hands free again.
LEMMA Dropped ==
    ASSUME NEW A, NEW r \in A, NEW f, \A p, q \in A : f[p] = f[q] => p = q
    PROVE  {f[p] : p \in A \ {r}} = {f[p] : p \in A} \ {f[r]}
  OBVIOUS

\* Somebody takes a thing that nobody holds.
LEMMA PickedUp ==
    ASSUME NEW A, NEW r, r \notin A, NEW f, NEW g,
           \A p \in A : g[p] = f[p],
           g[r] \notin {f[p] : p \in A},
           \A p, q \in A : f[p] = f[q] => p = q
    PROVE  /\ {g[p] : p \in A \cup {r}} = {f[p] : p \in A} \cup {g[r]}
           /\ \A p, q \in A \cup {r} : g[p] = g[q] => p = q
<1>1. \A p \in A : g[p] \in {f[q] : q \in A}
  OBVIOUS
<1> QED
  BY <1>1

Apart(P) == \A i, j \in 1 .. 7 : i # j => P[i] \cap P[j] = {}
Everywhere(P) == UNION {P[i] : i \in 1 .. 7}

\* A thing that goes from one place to another is in one place, as before.
LEMMA PlacesMoved ==
    ASSUME NEW P, NEW Q, NEW a \in 1 .. 7, NEW b \in 1 .. 7, a # b,
           Apart(P), NEW x \in P[a],
           Q[a] = P[a] \ {x}, Q[b] = P[b] \cup {x},
           \A i \in 1 .. 7 : i \notin {a, b} => Q[i] = P[i]
    PROVE  Apart(Q) /\ Everywhere(Q) = Everywhere(P)
<1>1. \A i \in 1 .. 7 : x \in P[i] => i = a
  BY DEF Apart
<1>2. ASSUME NEW i \in 1 .. 7, NEW j \in 1 .. 7, i # j, NEW y \in Q[i], y \in Q[j]
      PROVE  FALSE
  <2>1. \A k \in 1 .. 7 : y \in Q[k] /\ y # x => y \in P[k]
    OBVIOUS
  <2>2. \A k \in 1 .. 7 : x \in Q[k] => k = b
    BY <1>1
  <2> QED
    BY <1>2, <2>1, <2>2 DEF Apart
<1>3. Apart(Q)
  BY <1>2 DEF Apart
<1>4. \A y : y \in Everywhere(Q) <=> y \in Everywhere(P)
  <2>1. ASSUME NEW i \in 1 .. 7, NEW y \in Q[i] PROVE y \in Everywhere(P)
    <3>1. CASE y = x
      BY <3>1 DEF Everywhere
    <3>2. CASE y # x
      BY <2>1, <3>2 DEF Everywhere
    <3> QED
      BY <3>1, <3>2
  <2>2. ASSUME NEW i \in 1 .. 7, NEW y \in P[i] PROVE y \in Everywhere(Q)
    <3>1. CASE y = x
      BY <3>1 DEF Everywhere
    <3>2. CASE y # x
      BY <2>2, <3>2 DEF Everywhere
    <3> QED
      BY <3>1, <3>2
  <2> QED
    BY <2>1, <2>2 DEF Everywhere
<1> QED
  BY <1>3, <1>4

-----------------------------------------------------------------------------
(***************************************************************************)
(* The state as queues and hands.                                          *)
(***************************************************************************)
LEMMA PlaceNames ==
    /\ DOMAIN Places = 1 .. 7
    /\ Places[1] = ToSet(requests) /\ Places[2] = {requested[r] : r \in Askers}
    /\ Places[3] = ToSet(decodes) /\ Places[4] = {decoded[d] : d \in Unpackers}
    /\ Places[5] = ordered /\ Places[6] = ToSet(contents)
    /\ Places[7] = ToSet(emitted)
  BY DEF Places

LEMMA PlaceNamesNext ==
    /\ Places'[1] = ToSet(requests') /\ Places'[2] = {requested'[r] : r \in Askers'}
    /\ Places'[3] = ToSet(decodes') /\ Places'[4] = {decoded'[d] : d \in Unpackers'}
    /\ Places'[5] = ordered' /\ Places'[6] = ToSet(contents')
    /\ Places'[7] = ToSet(emitted') /\ DOMAIN Places' = 1 .. 7
  BY DEF Places

\* What EachTileOnce says, with the queues one by one.
QueuesInjective ==
    /\ IsInjective(requests) /\ IsInjective(decodes)
    /\ IsInjective(contents) /\ IsInjective(emitted)
HandsDiffer ==
    /\ \A r, q \in Askers : requested[r] = requested[q] => r = q
    /\ \A d, e \in Unpackers : decoded[d] = decoded[e] => d = e
Loaded == Everywhere(Places) \subseteq 0 .. nextSeq - 1 /\ Everywhere(Places) \subseteq Tiles

LEMMA PlaceParts ==
    PlaceInv <=> /\ QueuesInjective /\ HandsDiffer /\ Apart(Places) /\ Loaded
                 /\ ~done => Everywhere(Places) = 0 .. nextSeq - 1
  BY PlaceNames DEF PlaceInv, EachTileOnce, QueuesInjective, HandsDiffer, Apart,
                    Everywhere, Loaded

LEMMA PlacePartsNext ==
    PlaceInv' <=> /\ QueuesInjective' /\ HandsDiffer' /\ Apart(Places') /\ Loaded'
                  /\ ~done' => Everywhere(Places') = 0 .. nextSeq' - 1
  BY PlaceNamesNext DEF PlaceInv, EachTileOnce, QueuesInjective, HandsDiffer, Apart,
                    Everywhere, Loaded

\* The sets of threads are finite, and their sizes are numbers.
LEMMA Counted ==
    ASSUME CopcAssumption, CopcTypes
    PROVE  /\ IsFiniteSet(Fetchers) /\ IsFiniteSet(Unpackers) /\ IsFiniteSet(ordered)
           /\ Cardinality(Fetchers) \in Nat /\ Cardinality(Unpackers) \in Nat
           /\ Cardinality(ordered) \in Nat
<1>1. IsFiniteSet(Threads) /\ IsFiniteSet(Decoders) /\ IsFiniteSet(Tiles)
  BY FS_Interval DEF CopcAssumption, Threads, Decoders, Tiles
<1>2. Fetchers \subseteq Threads /\ Unpackers \subseteq Decoders /\ ordered \subseteq Tiles
  BY DEF Fetchers, Unpackers, CopcTypes
<1>3. IsFiniteSet(Fetchers) /\ IsFiniteSet(Unpackers) /\ IsFiniteSet(ordered)
  BY <1>1, <1>2, FS_Subset
<1> QED
  BY <1>3, FS_CardinalityType

\* A step that moves no tile leaves the places as they were.
LEMMA PlacesUntouched ==
    ASSUME PlaceInv, ~done' => ~done,
           UNCHANGED <<requests, decodes, contents, emitted, ordered, requested,
                       decoded, nextSeq>>,
           Askers' = Askers, Unpackers' = Unpackers
    PROVE  PlaceInv'
<1>1. Places' = Places
  BY DEF Places
<1>2. QueuesInjective' /\ HandsDiffer' /\ Loaded'
  BY <1>1, PlaceParts DEF QueuesInjective, HandsDiffer, Loaded
<1> QED
  BY <1>1, <1>2, PlaceParts, PlacePartsNext

LEMMA KeptUntouched ==
    ASSUME KeepAliveHolds, ~done' => ~done,
           UNCHANGED <<pending, decodes, contents, ordered>>,
           Fetchers' = Fetchers, Unpackers' = Unpackers
    PROVE  KeepAliveHolds'
  BY DEF KeepAliveHolds

\* The first state has all tiles still to load.
LEMMA InitCopc ==
    ASSUME CopcAssumption, CopcInit
    PROVE  CopcInv
<1> USE DEF CopcInit, CopcInitAt
<1>1. Askers = {} /\ Unpackers = {} /\ Fetchers = {}
  BY DEF Askers, Unpackers, Fetchers
<1>2. /\ 0 \in 0 .. TileCount /\ 0 \in Nat /\ 0 <= KeepAlive
      /\ 0 .. 0 - 1 = {} /\ NoCopcTile = 0 - 1 /\ TileCount \in Nat
  BY SMT DEF CopcAssumption, NoCopcTile
<1>3. failing \subseteq Tiles
  BY DEF CopcAssumption, Tiles
<1>4. <<>> \in Seq(Tiles) /\ IsInjective(<<>>) /\ ToSet(<<>>) = {} /\ Len(<<>>) = 0
  BY DEF IsInjective, ToSet
<1>5. CopcTypes
  BY <1>2, <1>3, <1>4 DEF CopcTypes
<1>6. WayInv
  BY <1>1 DEF WayInv
<1>7. PlaceInv
  <2>1. \A i \in 1 .. 7 : Places[i] = {}
    <3>1. /\ Places[1] = {} /\ Places[2] = {} /\ Places[3] = {} /\ Places[4] = {}
          /\ Places[5] = {} /\ Places[6] = {} /\ Places[7] = {}
      BY <1>1, <1>4, PlaceNames
    <3> QED
      BY <3>1, SMT
  <2>2. QueuesInjective /\ HandsDiffer /\ Apart(Places) /\ Loaded
    BY <1>1, <1>4, <2>1 DEF QueuesInjective, HandsDiffer, Apart, Loaded, Everywhere
  <2>3. Everywhere(Places) = 0 .. nextSeq - 1
    BY <1>2, <2>1 DEF Everywhere
  <2> QED
    BY <2>2, <2>3, PlaceParts
<1>8. OrderInv
  <2>1. \A t \in failing : t >= 0 - 1 /\ t >= 0
    BY <1>2, <1>3, SMT DEF Tiles
  <2>2. 1 .. 0 = {}
    BY SMT
  <2> QED
    BY <1>2, <1>4, <2>1, <2>2 DEF OrderInv
<1>9. KeepAliveHolds
  <2>1. Cardinality({}) = 0
    BY FS_EmptySet
  <2> QED
    BY <1>1, <1>2, <1>4, <2>1, SMT DEF KeepAliveHolds
<1> QED
  BY <1>5, <1>6, <1>7, <1>8, <1>9 DEF CopcInv

-----------------------------------------------------------------------------
(***************************************************************************)
(* Steps that move no tile.                                                *)
(***************************************************************************)
\* A request thread in hand of a tile goes on with it.
LEMMA StillAsking ==
    ASSUME CopcAssumption, CopcInv, NEW r \in Threads, NEW to,
           request[r] \in {"testing", "falling", "asleep"},
           to \in {"testing", "falling", "asleep"},
           request' = [request EXCEPT ![r] = to],
           UNCHANGED <<orderedDecode, failing, main, copcTile, nextSeq, done,
                       tilesLeft, requests, requested, decodeVars, readyVars,
                       emitted>>
    PROVE  CopcInv'
<1>1. UNCHANGED <<decodes, decode, decoded, contents, ordered, nextEmit, pending>>
  BY DEF decodeVars, readyVars
<1>2. request \in [Threads -> {"free", "testing", "falling", "asleep",
                               "fetching", "notifying"}]
  BY DEF CopcInv, CopcTypes
<1>3. Askers' = Askers /\ Fetchers' = Fetchers
  BY <1>2 DEF Askers, Fetchers
<1>4. Unpackers' = Unpackers
  BY <1>1 DEF Unpackers
<1>5. CopcTypes'
  BY <1>1, <1>2 DEF CopcInv, CopcTypes
<1>6. WayInv'
  BY <1>1, <1>2, <1>3, <1>4 DEF CopcInv, WayInv
<1>7. PlaceInv'
  BY <1>1, <1>3, <1>4, PlacesUntouched DEF CopcInv
<1>8. OrderInv'
  BY <1>1 DEF CopcInv, OrderInv
<1>9. KeepAliveHolds'
  BY <1>1, <1>3, <1>4, KeptUntouched DEF CopcInv
<1> QED
  BY <1>5, <1>6, <1>7, <1>8, <1>9 DEF CopcInv

\* The reading thread goes on, and perhaps says that it is done.
LEMMA MainGoesOn ==
    ASSUME CopcAssumption, CopcInv,
           main' \in {"loading", "reading", "asleep", "popped", "checking",
                      "releasing", "stopping", "stoppingDecode", "gone"},
           done' \in BOOLEAN,
           ~done' => ~done,
           done' => main' \in {"releasing", "stopping", "stoppingDecode", "gone"},
           UNCHANGED <<orderedDecode, failing, copcTile, nextSeq, requests,
                       requested, decodeVars, readyVars, emitted>>,
           \/ UNCHANGED request
           \/ request' = [r \in Threads |-> IF request[r] = "asleep" THEN "testing"
                                                                     ELSE request[r]]
           \/ \E r \in Threads : /\ request[r] = "notifying"
                                 /\ request' = [request EXCEPT ![r] = "free"]
           \/ \E r \in Threads : /\ request[r] = "asleep"
                                 /\ request' = [request EXCEPT ![r] = "testing"],
           main' \in {"loading", "reading", "asleep"} =>
              \/ main \in {"loading", "reading", "asleep"}
              \/ copcTile \notin failing
    PROVE  CopcInv'
<1>1. UNCHANGED <<decodes, decode, decoded, contents, ordered, nextEmit, pending>>
  BY DEF decodeVars, readyVars
<1>2. request \in [Threads -> {"free", "testing", "falling", "asleep",
                               "fetching", "notifying"}]
  BY DEF CopcInv, CopcTypes
<1>3. /\ request' \in [Threads -> {"free", "testing", "falling", "asleep",
                                   "fetching", "notifying"}]
      /\ Askers' = Askers /\ Fetchers' = Fetchers
      /\ \A r \in Threads : request'[r] = "notifying" => request[r] = "notifying"
  <2>1. CASE UNCHANGED request
    BY <1>2, <2>1 DEF Askers, Fetchers
  <2>2. CASE request' = [r \in Threads |-> IF request[r] = "asleep" THEN "testing"
                                                                    ELSE request[r]]
    BY <1>2, <2>2 DEF Askers, Fetchers
  <2>3. CASE \E r \in Threads : /\ request[r] = "notifying"
                                /\ request' = [request EXCEPT ![r] = "free"]
    BY <1>2, <2>3 DEF Askers, Fetchers
  <2>4. CASE \E r \in Threads : /\ request[r] = "asleep"
                                /\ request' = [request EXCEPT ![r] = "testing"]
    BY <1>2, <2>4 DEF Askers, Fetchers
  <2> QED
    BY <2>1, <2>2, <2>3, <2>4
<1>4. Unpackers' = Unpackers
  BY <1>1 DEF Unpackers
<1>5. CopcTypes'
  BY <1>1, <1>3 DEF CopcInv, CopcTypes
<1>6. WayInv'
  BY <1>1, <1>3, <1>4 DEF CopcInv, WayInv
<1>7. PlaceInv'
  BY <1>1, <1>3, <1>4, PlacesUntouched DEF CopcInv
<1>8. OrderInv'
  <2> SUFFICES ASSUME orderedDecode, main' \in {"loading", "reading", "asleep"},
                      NEW t \in failing
               PROVE  t >= nextEmit
    BY <1>1 DEF CopcInv, OrderInv
  <2>1. t >= nextEmit - 1 /\ t \in Int /\ nextEmit \in Nat /\ copcTile = nextEmit - 1
    BY DEF CopcInv, CopcTypes, OrderInv, Tiles
  <2>2. CASE main \in {"loading", "reading", "asleep"}
    BY <2>2 DEF CopcInv, OrderInv
  <2>3. CASE copcTile \notin failing
    BY <2>1, <2>3, SMT
  <2> QED
    BY <2>2, <2>3
<1>9. KeepAliveHolds'
  BY <1>1, <1>3, <1>4, KeptUntouched DEF CopcInv
<1> QED
  BY <1>5, <1>6, <1>7, <1>8, <1>9 DEF CopcInv

\* Waking up, processing, failing and stopping.
LEMMA MainKept ==
    ASSUME CopcAssumption, CopcInv,
           \/ CopcWaitForTile \/ CopcProcess \/ CopcCheckFails \/ Release \/ CopcStop \/ StopDecode
    PROVE  CopcInv'
<1>1. CASE CopcWaitForTile
  <2>1. ~done
    BY <1>1 DEF CopcInv, WayInv, CopcWaitForTile
  <2>2. /\ main = "reading" /\ main' = "asleep" /\ done' = FALSE
        /\ UNCHANGED <<orderedDecode, failing, copcTile, nextSeq, requests,
                       requested, decodeVars, readyVars, emitted>>
        /\ UNCHANGED request
    BY <1>1, <2>1 DEF CopcWaitForTile, threadVars
  <2> QED
    BY <2>1, <2>2, MainGoesOn
<1>2. CASE CopcProcess
  <2>1. done = FALSE
    BY <1>2 DEF CopcInv, CopcTypes, WayInv, CopcProcess
  <2>2. \/ main' = "reading" /\ done' = done
        \/ main' = "releasing" /\ done' = TRUE
    BY <1>2 DEF CopcProcess
  <2>3. /\ copcTile \notin failing
        /\ UNCHANGED <<orderedDecode, failing, copcTile, nextSeq, requests,
                       requested, decodeVars, readyVars, emitted>>
        /\ UNCHANGED request
    BY <1>2 DEF CopcProcess, threadVars
  <2>4. CASE main' = "reading" /\ done' = FALSE
    BY <2>1, <2>3, <2>4, MainGoesOn
  <2>5. CASE main' = "releasing" /\ done' = TRUE
    BY <2>1, <2>3, <2>5, MainGoesOn
  <2> QED
    BY <2>1, <2>2, <2>4, <2>5
<1>3. CASE CopcCheckFails
  <2>1. ~done /\ orderedDecode \in BOOLEAN
    BY <1>3 DEF CopcInv, CopcTypes, WayInv, CopcCheckFails
  <2>2. done' = orderedDecode /\ main' \in {"releasing", "stopping"}
    BY <1>3 DEF CopcCheckFails
  <2> QED
    BY <1>3, <2>1, <2>2, MainGoesOn DEF CopcCheckFails, threadVars
<1>4. CASE Release
  BY <1>4, MainGoesOn DEF Release, CopcInv, CopcTypes
<1>5. CASE CopcStop
  <2>1. main' \in {"stoppingDecode", "gone"}
    BY <1>5 DEF CopcStop
  <2> QED
    BY <1>5, <2>1, MainGoesOn DEF CopcStop, threadVars, CopcInv, CopcTypes
<1>6. CASE StopDecode
  BY <1>6, MainGoesOn DEF StopDecode, threadVars, CopcInv, CopcTypes
<1> QED
  BY <1>1, <1>2, <1>3, <1>4, <1>5, <1>6

LEMMA QuietKept ==
    ASSUME CopcAssumption, CopcInv,
           \/ \E r \in Threads : MustWait(r) \/ FallAsleep(r) \/ NotifyContents(r)
           \/ NotifyConsumed \/ CopcSpurious
    PROVE  CopcInv'
<1>1. ASSUME NEW r \in Threads, MustWait(r) \/ FallAsleep(r) PROVE CopcInv'
  BY <1>1, StillAsking DEF MustWait, FallAsleep
<1>2. ASSUME NEW r \in Threads, NotifyContents(r) PROVE CopcInv'
  <2>1. /\ main' = main \/ (main = "asleep" /\ main' = "reading")
        /\ main \in {"loading", "reading", "asleep", "popped", "checking",
                     "releasing", "stopping", "stoppingDecode", "gone"}
        /\ done \in BOOLEAN
        /\ done => main \in {"releasing", "stopping", "stoppingDecode", "gone"}
    BY <1>2 DEF NotifyContents, MainWoken, CopcInv, CopcTypes, WayInv
  <2> QED
    BY <1>2, <2>1, MainGoesOn DEF NotifyContents
<1>3. ASSUME NotifyConsumed PROVE CopcInv'
  <2>1. ~done /\ main' = "checking"
    BY <1>3 DEF CopcInv, WayInv, NotifyConsumed
  <2>2. \/ UNCHANGED request
        \/ \E r \in Threads : /\ request[r] = "asleep"
                              /\ request' = [request EXCEPT ![r] = "testing"]
    BY <1>3 DEF NotifyConsumed, OneWoken, Sleepers
  <2>3. /\ done' = FALSE
        /\ UNCHANGED <<orderedDecode, failing, copcTile, nextSeq, requests,
                       requested, decodeVars, readyVars, emitted>>
    BY <1>3, <2>1 DEF NotifyConsumed
  <2> QED
    BY <2>1, <2>2, <2>3, MainGoesOn
<1>4. ASSUME CopcSpurious PROVE CopcInv'
  <2>1. /\ main' = main \/ (main = "asleep" /\ main' = "reading")
        /\ main \in {"loading", "reading", "asleep", "popped", "checking",
                     "releasing", "stopping", "stoppingDecode", "gone"}
        /\ done \in BOOLEAN
        /\ done => main \in {"releasing", "stopping", "stoppingDecode", "gone"}
    BY <1>4 DEF CopcSpurious, CopcInv, CopcTypes, WayInv
  <2>2. \/ UNCHANGED request
        \/ \E r \in Threads : /\ request[r] = "asleep"
                              /\ request' = [request EXCEPT ![r] = "testing"]
    BY <1>4 DEF CopcSpurious, Sleepers
  <2> QED
    BY <1>4, <2>1, <2>2, MainGoesOn DEF CopcSpurious
<1> QED
  BY <1>1, <1>2, <1>3, <1>4

-----------------------------------------------------------------------------
(***************************************************************************)
(* Steps that move a tile.                                                 *)
(***************************************************************************)
\* A tile that goes from one place to another: what PlaceInv needs.
LEMMA TileMoves ==
    ASSUME PlaceInv, NEW a \in 1 .. 7, NEW b \in 1 .. 7, a # b,
           NEW x \in Places[a], Places'[a] = Places[a] \ {x},
           Places'[b] = Places[b] \cup {x},
           \A i \in 1 .. 7 : i \notin {a, b} => Places'[i] = Places[i],
           QueuesInjective', HandsDiffer', ~done' => ~done,
           nextSeq' = nextSeq
    PROVE  PlaceInv'
<1>1. Apart(Places) /\ Loaded
  BY PlaceParts
<1> DEFINE P == Places
           Q == Places'
<1>2. Apart(Q) /\ Everywhere(Q) = Everywhere(P)
  <2> HIDE DEF P, Q
  <2>1. /\ x \in P[a] /\ Q[a] = P[a] \ {x} /\ Q[b] = P[b] \cup {x}
        /\ \A i \in 1 .. 7 : i \notin {a, b} => Q[i] = P[i]
        /\ Apart(P)
    BY <1>1 DEF P, Q
  <2> QED
    BY <2>1, PlacesMoved
<1>3. Loaded'
  BY <1>1, <1>2 DEF Loaded, Tiles
<1>4. ~done' => Everywhere(Places') = 0 .. nextSeq' - 1
  BY <1>2, PlaceParts
<1> QED
  BY <1>2, <1>3, <1>4, PlacePartsNext

\* load() numbers the next tile and asks for it.
LEMMA LoadKept ==
    ASSUME CopcAssumption, CopcInv, CopcLoad
    PROVE  CopcInv'
<1>1. /\ main = "loading"
      /\ UNCHANGED <<orderedDecode, failing, copcTile, done, request, requested,
                     decodeVars, readyVars, emitted>>
      /\ UNCHANGED <<decodes, decode, decoded, contents, ordered, nextEmit, pending>>
  BY DEF CopcLoad, decodeVars, readyVars
<1>2. CASE ~(nextSeq < TileCount)
  <2>1. main' = "reading" /\ UNCHANGED <<requests, nextSeq>> /\ done = FALSE
    BY <1>1, <1>2 DEF CopcLoad, CopcInv, CopcTypes, WayInv
  <2> QED
    BY <1>1, <2>1, MainGoesOn
<1>3. CASE nextSeq < TileCount
  <2>1. /\ requests' = Append(requests, nextSeq)
        /\ nextSeq' = nextSeq + 1 /\ UNCHANGED main
    BY <1>3 DEF CopcLoad
  <2>2. /\ TileCount \in Nat /\ nextSeq \in 0 .. TileCount
        /\ requests \in Seq(Tiles)
    BY DEF CopcAssumption, CopcInv, CopcTypes
  <2>3. /\ nextSeq \in Tiles /\ nextSeq' \in 0 .. TileCount
        /\ nextSeq \notin 0 .. nextSeq - 1
        /\ 0 .. nextSeq' - 1 = (0 .. nextSeq - 1) \cup {nextSeq}
    BY <1>3, <2>1, <2>2, SMT DEF Tiles
  <2>4. PlaceInv
    BY DEF CopcInv
  <2>5. \A i \in 1 .. 7 : nextSeq \notin Places[i]
    BY <2>3, <2>4 DEF PlaceInv
  <2>6. nextSeq \notin ToSet(requests) /\ IsInjective(requests)
    BY <2>4, <2>5, PlaceNames, PlaceParts, 1 \in 1 .. 7 DEF QueuesInjective
  <2>7. /\ requests' \in Seq(Tiles) /\ IsInjective(requests')
        /\ ToSet(requests') = ToSet(requests) \cup {nextSeq}
    BY <2>1, <2>2, <2>3, <2>6, Joins
  <2>8. Askers' = Askers /\ Unpackers' = Unpackers /\ Fetchers' = Fetchers
    BY <1>1 DEF Askers, Unpackers, Fetchers
  <2>9. CopcTypes'
    BY <1>1, <2>1, <2>3, <2>7 DEF CopcInv, CopcTypes
  <2>10. WayInv'
    BY <1>1, <2>1, <2>8 DEF CopcInv, WayInv
  <2>11. PlaceInv'
    <3>1. /\ Places'[1] = Places[1] \cup {nextSeq}
          /\ Places'[2] = Places[2] /\ Places'[3] = Places[3]
          /\ Places'[4] = Places[4] /\ Places'[5] = Places[5]
          /\ Places'[6] = Places[6] /\ Places'[7] = Places[7]
      BY <1>1, <2>7, <2>8, PlaceNames, PlaceNamesNext
    <3>2. \A i \in 1 .. 7 : i # 1 => Places'[i] = Places[i]
      BY <3>1, SMT
    <3>3. Apart(Places) /\ Loaded
      BY <2>4, PlaceParts
    <3>4. Apart(Places')
      BY <2>5, <3>1, <3>2, <3>3 DEF Apart
    <3>5. Everywhere(Places') = Everywhere(Places) \cup {nextSeq}
      <4>1. 1 \in 1 .. 7
        OBVIOUS
      <4> QED
        BY <3>1, <3>2, <4>1 DEF Everywhere
    <3>6. Loaded'
      BY <2>3, <3>3, <3>5 DEF Loaded, Tiles
    <3>7. QueuesInjective' /\ HandsDiffer'
      BY <1>1, <2>4, <2>7, <2>8, PlaceParts DEF QueuesInjective, HandsDiffer
    <3>8. ~done' => Everywhere(Places') = 0 .. nextSeq' - 1
      BY <1>1, <2>3, <2>4, <3>5, PlaceParts
    <3> QED
      BY <3>4, <3>6, <3>7, <3>8, PlacePartsNext
  <2>12. OrderInv'
    BY <1>1, <2>1 DEF CopcInv, OrderInv
  <2>13. KeepAliveHolds'
    BY <1>1, <2>8, KeptUntouched DEF CopcInv
  <2> QED
    BY <2>9, <2>10, <2>11, <2>12, <2>13 DEF CopcInv
<1> QED
  BY <1>2, <1>3

\* A request thread takes the oldest request.
LEMMA TakeRequestKept ==
    ASSUME CopcAssumption, CopcInv, NEW r \in Threads, TakeRequest(r)
    PROVE  CopcInv'
<1> DEFINE x == Head(requests)
<1>1. /\ request[r] = "free" /\ requests # <<>>
      /\ requested' = [requested EXCEPT ![r] = x]
      /\ requests' = Tail(requests)
      /\ request' = [request EXCEPT ![r] = "testing"]
      /\ UNCHANGED <<orderedDecode, failing, main, copcTile, nextSeq, done, emitted>>
      /\ UNCHANGED <<decodes, decode, decoded, contents, ordered, nextEmit, pending>>
  BY DEF TakeRequest, decodeVars, readyVars
<1>2. /\ request \in [Threads -> {"free", "testing", "falling", "asleep",
                                  "fetching", "notifying"}]
      /\ requested \in [Threads -> {NoCopcTile} \cup Tiles]
      /\ requests \in Seq(Tiles)
  BY DEF CopcInv, CopcTypes
<1>3. QueuesInjective /\ HandsDiffer /\ Apart(Places) /\ PlaceInv
  BY PlaceParts DEF CopcInv
<1>4. /\ x \in Tiles /\ x \in ToSet(requests)
      /\ requests' \in Seq(Tiles) /\ IsInjective(requests')
      /\ ToSet(requests') = ToSet(requests) \ {x}
  BY <1>1, <1>2, <1>3, LeavesQueue DEF QueuesInjective
<1> HIDE DEF x
<1>5. /\ r \notin Askers /\ Askers' = Askers \cup {r} /\ Unpackers' = Unpackers
      /\ Fetchers' = Fetchers
  BY <1>1, <1>2 DEF Askers, Unpackers, Fetchers
<1>6. \A q \in Askers : requested'[q] = requested[q]
  BY <1>1, <1>2, <1>5 DEF Askers
<1>7. requested'[r] = x
  BY <1>1, <1>2
<1>8. x \in Places[1] /\ x \notin Places[2]
  BY <1>3, <1>4, PlaceNames, 1 \in 1 .. 7, 2 \in 1 .. 7, 1 # 2 DEF Apart
<1>9. /\ {requested'[q] : q \in Askers'} = {requested[q] : q \in Askers} \cup {x}
      /\ \A p, q \in Askers' : requested'[p] = requested'[q] => p = q
  <2>1. /\ requested'[r] \notin {requested[p] : p \in Askers}
        /\ \A p, q \in Askers : requested[p] = requested[q] => p = q
    BY <1>3, <1>7, <1>8, PlaceNames DEF HandsDiffer
  <2>2. /\ {requested'[q] : q \in Askers \cup {r}}
              = {requested[q] : q \in Askers} \cup {requested'[r]}
        /\ \A p, q \in Askers \cup {r} : requested'[p] = requested'[q] => p = q
    BY <1>5, <1>6, <2>1, PickedUp
  <2> QED
    BY <1>5, <1>7, <2>2
<1>10. CopcTypes'
  BY <1>1, <1>2, <1>4 DEF CopcInv, CopcTypes
<1>11. WayInv'
  BY <1>1, <1>2, <1>5 DEF CopcInv, WayInv
<1>12. PlaceInv'
  <2>1. /\ Places'[1] = Places[1] \ {x} /\ Places'[2] = Places[2] \cup {x}
        /\ Places'[3] = Places[3] /\ Places'[4] = Places[4]
        /\ Places'[5] = Places[5] /\ Places'[6] = Places[6]
        /\ Places'[7] = Places[7]
    <3>1. Places'[1] = Places[1] \ {x}
      BY <1>4, PlaceNames, PlaceNamesNext
    <3>2. Places'[2] = Places[2] \cup {x}
      BY <1>9, PlaceNames, PlaceNamesNext
    <3>3. /\ Places'[3] = Places[3] /\ Places'[4] = Places[4]
          /\ Places'[5] = Places[5] /\ Places'[6] = Places[6]
          /\ Places'[7] = Places[7]
      BY <1>1, <1>5, PlaceNames, PlaceNamesNext
    <3> QED
      BY <3>1, <3>2, <3>3
  <2>2. \A i \in 1 .. 7 : i \notin {1, 2} => Places'[i] = Places[i]
    BY <2>1, SMT
  <2>3. QueuesInjective' /\ HandsDiffer'
    BY <1>1, <1>3, <1>4, <1>5, <1>9 DEF QueuesInjective, HandsDiffer
  <2>4. 1 \in 1 .. 7 /\ 2 \in 1 .. 7 /\ 1 # 2
    BY SMT
  <2> QED
    BY <1>1, <1>3, <1>8, <2>1, <2>2, <2>3, <2>4, TileMoves
<1>13. OrderInv'
  BY <1>1 DEF CopcInv, OrderInv
<1>14. KeepAliveHolds'
  BY <1>1, <1>5, KeptUntouched DEF CopcInv
<1> QED
  BY <1>10, <1>11, <1>12, <1>13, <1>14 DEF CopcInv

\* What is known of a request thread with a tile in hand.
LEMMA Asking ==
    ASSUME CopcInv, NEW r \in Askers
    PROVE  /\ requested[r] \in Tiles /\ requested[r] \in Places[2]
           /\ \A i \in 1 .. 7 : i # 2 => requested[r] \notin Places[i]
           /\ {requested[q] : q \in Askers \ {r}} = Places[2] \ {requested[r]}
<1>1. PlaceInv /\ Apart(Places) /\ HandsDiffer /\ 2 \in 1 .. 7
  BY PlaceParts, SMT DEF CopcInv
<1>2. requested[r] \in Places[2]
  BY PlaceNames
<1>3. requested[r] \in Tiles
  BY <1>1, <1>2 DEF PlaceInv
<1>4. \A i \in 1 .. 7 : i # 2 => requested[r] \notin Places[i]
  BY <1>1, <1>2 DEF Apart
<1>5. \A p, q \in Askers : requested[p] = requested[q] => p = q
  BY <1>1 DEF HandsDiffer
<1>6. {requested[q] : q \in Askers \ {r}} = {requested[q] : q \in Askers} \ {requested[r]}
  BY <1>5, Dropped
<1> QED
  BY <1>2, <1>3, <1>4, <1>6, PlaceNames

\* An ordered reader that is done drops the tile it has not fetched.
LEMMA GivesUp ==
    ASSUME CopcAssumption, CopcInv, NEW r \in Threads, MayProceed(r),
           orderedDecode, done
    PROVE  CopcInv'
<1>1. /\ request[r] = "testing" /\ request' = [request EXCEPT ![r] = "free"]
      /\ UNCHANGED <<orderedDecode, failing, main, copcTile, nextSeq, done,
                     requests, requested, decodes, decode, decoded, contents,
                     ordered, nextEmit, pending, emitted>>
  BY DEF MayProceed, decodeVars
<1>2. request \in [Threads -> {"free", "testing", "falling", "asleep",
                               "fetching", "notifying"}]
  BY DEF CopcInv, CopcTypes
<1>3. /\ r \in Askers /\ Askers' = Askers \ {r} /\ Fetchers' = Fetchers
      /\ Unpackers' = Unpackers
  BY <1>1, <1>2 DEF Askers, Fetchers, Unpackers
<1>4. CopcTypes'
  BY <1>1, <1>2 DEF CopcInv, CopcTypes
<1>5. WayInv'
  BY <1>1, <1>2, <1>3 DEF CopcInv, WayInv
<1>6. PlaceInv'
  <2>1. PlaceInv /\ Apart(Places) /\ HandsDiffer /\ Loaded /\ QueuesInjective
    BY PlaceParts DEF CopcInv
  <2>2. /\ Places'[1] = Places[1] /\ Places'[2] \subseteq Places[2]
        /\ Places'[3] = Places[3] /\ Places'[4] = Places[4]
        /\ Places'[5] = Places[5] /\ Places'[6] = Places[6]
        /\ Places'[7] = Places[7]
    BY <1>1, <1>3, PlaceNames, PlaceNamesNext
  <2>3. \A i \in 1 .. 7 : Places'[i] \subseteq Places[i]
    BY <2>2, SMT
  <2>4. Apart(Places') /\ Everywhere(Places') \subseteq Everywhere(Places)
    BY <2>1, <2>3 DEF Apart, Everywhere
  <2>5. Loaded' /\ QueuesInjective' /\ HandsDiffer'
    BY <1>1, <1>3, <2>1, <2>4 DEF Loaded, QueuesInjective, HandsDiffer, Tiles
  <2> QED
    BY <1>1, <2>4, <2>5, PlacePartsNext
<1>7. OrderInv'
  BY <1>1 DEF CopcInv, OrderInv
<1>8. KeepAliveHolds'
  BY <1>1, <1>3, KeptUntouched DEF CopcInv
<1> QED
  BY <1>4, <1>5, <1>6, <1>7, <1>8 DEF CopcInv

\* It counts the tile it is about to fetch.
LEMMA BeginsFetch ==
    ASSUME CopcAssumption, CopcInv, NEW r \in Threads, MayProceed(r),
           orderedDecode, ~done
    PROVE  CopcInv'
<1>1. /\ request[r] = "testing" /\ request' = [request EXCEPT ![r] = "fetching"]
      /\ pending' = pending + 1 /\ pending < KeepAlive
      /\ UNCHANGED <<orderedDecode, failing, main, copcTile, nextSeq, done,
                     requests, requested, decodes, decode, decoded, contents,
                     ordered, nextEmit, emitted>>
  BY DEF MayProceed, decodeVars, HasRoom, CountedFetch
<1>2. /\ request \in [Threads -> {"free", "testing", "falling", "asleep",
                                  "fetching", "notifying"}]
      /\ pending \in Nat /\ KeepAlive \in Nat
  BY DEF CopcInv, CopcTypes, CopcAssumption
<1>3. /\ Askers' = Askers /\ r \notin Fetchers /\ Fetchers' = Fetchers \cup {r}
      /\ Unpackers' = Unpackers
  BY <1>1, <1>2 DEF Askers, Fetchers, Unpackers
<1>4. pending' \in Nat
  BY <1>1, <1>2, SMT
<1>5. CopcTypes'
  BY <1>1, <1>2, <1>4 DEF CopcInv, CopcTypes
<1>6. WayInv'
  BY <1>1, <1>2, <1>3 DEF CopcInv, WayInv
<1>7. PlaceInv'
  BY <1>1, <1>3, PlacesUntouched DEF CopcInv
<1>8. OrderInv'
  BY <1>1 DEF CopcInv, OrderInv
<1>9. KeepAliveHolds'
  <2>1. /\ Cardinality(Fetchers') = Cardinality(Fetchers) + 1
        /\ Cardinality(Fetchers) \in Nat /\ Cardinality(Unpackers) \in Nat
        /\ Cardinality(ordered) \in Nat
    BY <1>3, Counted, FS_AddElement DEF CopcInv
  <2>2. /\ pending = Cardinality(Fetchers) + Len(decodes)
                        + Cardinality(Unpackers) + Cardinality(ordered)
        /\ ~done => Len(contents) <= KeepAlive
        /\ Len(decodes) \in Nat
    BY DEF CopcInv, KeepAliveHolds, CopcTypes
  <2>3. /\ pending' <= KeepAlive
        /\ pending' = (Cardinality(Fetchers) + 1) + Len(decodes)
                        + Cardinality(Unpackers) + Cardinality(ordered)
    BY ONLY <1>1, <1>2, <2>1, <2>2, SMT
  <2> QED
    BY <1>1, <1>3, <2>1, <2>2, <2>3 DEF KeepAliveHolds
<1> QED
  BY <1>5, <1>6, <1>7, <1>8, <1>9 DEF CopcInv

\* A parallel one puts its tile into contents.
LEMMA PushesContents ==
    ASSUME CopcAssumption, CopcInv, NEW r \in Threads, MayProceed(r), ~orderedDecode
    PROVE  CopcInv'
<1> DEFINE x == requested[r]
<1>1. /\ request[r] = "testing" /\ request' = [request EXCEPT ![r] = "notifying"]
      /\ contents' = Append(contents, x)
      /\ done \/ Len(contents) < KeepAlive
      /\ UNCHANGED <<orderedDecode, failing, main, copcTile, nextSeq, done,
                     requests, requested, decodes, decode, decoded, pending,
                     ordered, nextEmit, emitted>>
  BY DEF MayProceed, decodeVars, HasRoom
<1>2. /\ request \in [Threads -> {"free", "testing", "falling", "asleep",
                                  "fetching", "notifying"}]
      /\ contents \in Seq(Tiles) /\ KeepAlive \in Nat
  BY DEF CopcInv, CopcTypes, CopcAssumption
<1>3. /\ r \in Askers /\ Askers' = Askers \ {r} /\ Fetchers' = Fetchers
      /\ Unpackers' = Unpackers
  BY <1>1, <1>2 DEF Askers, Fetchers, Unpackers
<1>4. QueuesInjective /\ HandsDiffer /\ PlaceInv
  BY PlaceParts DEF CopcInv
<1>5. /\ x \in Tiles /\ x \in Places[2]
      /\ \A i \in 1 .. 7 : i # 2 => x \notin Places[i]
      /\ {requested[q] : q \in Askers \ {r}} = Places[2] \ {x}
  BY <1>3, Asking
<1> HIDE DEF x
<1>6. 2 \in 1 .. 7 /\ 6 \in 1 .. 7 /\ 2 # 6
  BY SMT
<1>7. /\ contents' \in Seq(Tiles) /\ IsInjective(contents')
      /\ ToSet(contents') = ToSet(contents) \cup {x}
      /\ Len(contents') = Len(contents) + 1 /\ Len(contents) \in Nat
  <2>1. x \notin ToSet(contents) /\ IsInjective(contents)
    BY <1>4, <1>5, <1>6, PlaceNames DEF QueuesInjective
  <2> QED
    BY <1>1, <1>2, <1>5, <2>1, Joins
<1>8. CopcTypes'
  BY <1>1, <1>2, <1>7 DEF CopcInv, CopcTypes
<1>9. WayInv'
  BY <1>1, <1>3 DEF CopcInv, WayInv
<1>10. PlaceInv'
  <2>1. /\ Places'[2] = Places[2] \ {x} /\ Places'[6] = Places[6] \cup {x}
    <3>1. Places'[2] = Places[2] \ {x}
      BY <1>1, <1>3, <1>5, PlaceNamesNext
    <3>2. Places'[6] = Places[6] \cup {x}
      BY <1>7, PlaceNames, PlaceNamesNext
    <3> QED
      BY <3>1, <3>2
  <2>2. \A i \in 1 .. 7 : i \notin {2, 6} => Places'[i] = Places[i]
    <3>1. /\ Places'[1] = Places[1] /\ Places'[3] = Places[3]
          /\ Places'[4] = Places[4] /\ Places'[5] = Places[5]
          /\ Places'[7] = Places[7]
      BY <1>1, <1>3, PlaceNames, PlaceNamesNext
    <3> QED
      BY <3>1, SMT
  <2>3. QueuesInjective' /\ HandsDiffer'
    BY <1>1, <1>3, <1>4, <1>7 DEF QueuesInjective, HandsDiffer
  <2> QED
    BY <1>1, <1>4, <1>5, <1>6, <2>1, <2>2, <2>3, TileMoves
<1>11. OrderInv'
  BY <1>1 DEF CopcInv, OrderInv
<1>12. KeepAliveHolds'
  <2>1. ~done => Len(contents') <= KeepAlive
    BY ONLY <1>1, <1>2, <1>7, SMT
  <2> QED
    BY <1>1, <1>3, <2>1 DEF CopcInv, KeepAliveHolds
<1> QED
  BY <1>8, <1>9, <1>10, <1>11, <1>12 DEF CopcInv

\* The task of an ordered reader hands its tile on to the decoders.
LEMMA FetchKept ==
    ASSUME CopcAssumption, CopcInv, NEW r \in Threads, Fetch(r)
    PROVE  CopcInv'
<1> DEFINE x == requested[r]
<1>1. /\ request[r] = "fetching" /\ request' = [request EXCEPT ![r] = "free"]
      /\ decodes' = Append(decodes, x)
      /\ UNCHANGED <<orderedDecode, failing, main, copcTile, nextSeq, done,
                     requests, requested, decode, decoded, contents, pending,
                     ordered, nextEmit, emitted>>
  BY DEF Fetch, readyVars
<1>2. /\ request \in [Threads -> {"free", "testing", "falling", "asleep",
                                  "fetching", "notifying"}]
      /\ decodes \in Seq(Tiles)
  BY DEF CopcInv, CopcTypes
<1>3. /\ r \in Askers /\ Askers' = Askers \ {r} /\ r \in Fetchers
      /\ Fetchers' = Fetchers \ {r} /\ Unpackers' = Unpackers
  BY <1>1, <1>2 DEF Askers, Fetchers, Unpackers
<1>4. QueuesInjective /\ HandsDiffer /\ PlaceInv /\ orderedDecode
  BY <1>3, PlaceParts DEF CopcInv, WayInv
<1>5. /\ x \in Tiles /\ x \in Places[2]
      /\ \A i \in 1 .. 7 : i # 2 => x \notin Places[i]
      /\ {requested[q] : q \in Askers \ {r}} = Places[2] \ {x}
  BY <1>3, Asking
<1> HIDE DEF x
<1>6. 2 \in 1 .. 7 /\ 3 \in 1 .. 7 /\ 2 # 3
  BY SMT
<1>7. /\ decodes' \in Seq(Tiles) /\ IsInjective(decodes')
      /\ ToSet(decodes') = ToSet(decodes) \cup {x}
      /\ Len(decodes') = Len(decodes) + 1 /\ Len(decodes) \in Nat
  <2>1. x \notin ToSet(decodes) /\ IsInjective(decodes)
    BY <1>4, <1>5, <1>6, PlaceNames DEF QueuesInjective
  <2> QED
    BY <1>1, <1>2, <1>5, <2>1, Joins
<1>8. CopcTypes'
  BY <1>1, <1>2, <1>7 DEF CopcInv, CopcTypes
<1>9. WayInv'
  BY <1>1, <1>2, <1>4 DEF CopcInv, WayInv
<1>10. PlaceInv'
  <2>1. /\ Places'[2] = Places[2] \ {x} /\ Places'[3] = Places[3] \cup {x}
    <3>1. Places'[2] = Places[2] \ {x}
      BY <1>1, <1>3, <1>5, PlaceNamesNext
    <3>2. Places'[3] = Places[3] \cup {x}
      BY <1>7, PlaceNames, PlaceNamesNext
    <3> QED
      BY <3>1, <3>2
  <2>2. \A i \in 1 .. 7 : i \notin {2, 3} => Places'[i] = Places[i]
    <3>1. /\ Places'[1] = Places[1] /\ Places'[6] = Places[6]
          /\ Places'[4] = Places[4] /\ Places'[5] = Places[5]
          /\ Places'[7] = Places[7]
      BY <1>1, <1>3, PlaceNames, PlaceNamesNext
    <3> QED
      BY <3>1, SMT
  <2>3. QueuesInjective' /\ HandsDiffer'
    BY <1>1, <1>3, <1>4, <1>7 DEF QueuesInjective, HandsDiffer
  <2> QED
    BY <1>1, <1>4, <1>5, <1>6, <2>1, <2>2, <2>3, TileMoves
<1>11. OrderInv'
  BY <1>1 DEF CopcInv, OrderInv
<1>12. KeepAliveHolds'
  <2>1. /\ Cardinality(Fetchers') = Cardinality(Fetchers) - 1
        /\ Cardinality(Fetchers) \in Nat /\ Cardinality(Unpackers) \in Nat
        /\ Cardinality(ordered) \in Nat
    BY <1>3, Counted, FS_RemoveElement DEF CopcInv
  <2>2. pending = Cardinality(Fetchers) + Len(decodes)
                      + Cardinality(Unpackers) + Cardinality(ordered)
    BY DEF CopcInv, KeepAliveHolds
  <2>3. pending = (Cardinality(Fetchers) - 1) + (Len(decodes) + 1)
                      + Cardinality(Unpackers) + Cardinality(ordered)
    BY ONLY <1>7, <2>1, <2>2, SMT
  <2> QED
    BY <1>1, <1>3, <1>7, <2>1, <2>3 DEF CopcInv, KeepAliveHolds
<1> QED
  BY <1>8, <1>9, <1>10, <1>11, <1>12 DEF CopcInv

\* A decoder takes the oldest fetched tile.
LEMMA TakeDecodeKept ==
    ASSUME CopcAssumption, CopcInv, NEW d \in Decoders, TakeDecode(d)
    PROVE  CopcInv'
<1> DEFINE x == Head(decodes)
<1>1. /\ decode[d] = "free" /\ decodes # <<>>
      /\ decoded' = [decoded EXCEPT ![d] = x]
      /\ decodes' = Tail(decodes)
      /\ decode' = [decode EXCEPT ![d] = "decoding"]
      /\ UNCHANGED <<orderedDecode, failing, main, copcTile, nextSeq, done, emitted>>
      /\ UNCHANGED <<requests, request, requested, contents, ordered, nextEmit, pending>>
  BY DEF TakeDecode, threadVars, readyVars
<1>2. /\ decode \in [Decoders -> {"free", "decoding", "notifying"}]
      /\ decoded \in [Decoders -> {NoCopcTile} \cup Tiles]
      /\ decodes \in Seq(Tiles) /\ orderedDecode
  BY <1>1 DEF CopcInv, CopcTypes, WayInv
<1>3. QueuesInjective /\ HandsDiffer /\ Apart(Places) /\ PlaceInv
  BY PlaceParts DEF CopcInv
<1>4. /\ x \in Tiles /\ x \in ToSet(decodes)
      /\ decodes' \in Seq(Tiles) /\ IsInjective(decodes')
      /\ Len(decodes') = Len(decodes) - 1
      /\ ToSet(decodes') = ToSet(decodes) \ {x}
  BY <1>1, <1>2, <1>3, LeavesQueue DEF QueuesInjective
<1> HIDE DEF x
<1>5. /\ d \notin Unpackers /\ Unpackers' = Unpackers \cup {d}
      /\ Askers' = Askers /\ Fetchers' = Fetchers
  BY <1>1, <1>2 DEF Askers, Unpackers, Fetchers
<1>6. \A e \in Unpackers : decoded'[e] = decoded[e]
  BY <1>1, <1>2, <1>5 DEF Unpackers
<1>7. decoded'[d] = x
  BY <1>1, <1>2
<1>8. 3 \in 1 .. 7 /\ 4 \in 1 .. 7 /\ 3 # 4
  BY SMT
<1>9. x \in Places[3] /\ x \notin Places[4]
  BY <1>3, <1>4, <1>8, PlaceNames DEF Apart
<1>10. /\ {decoded'[e] : e \in Unpackers'} = {decoded[e] : e \in Unpackers} \cup {x}
       /\ \A c, e \in Unpackers' : decoded'[c] = decoded'[e] => c = e
  <2>1. /\ decoded'[d] \notin {decoded[e] : e \in Unpackers}
        /\ \A c, e \in Unpackers : decoded[c] = decoded[e] => c = e
    BY <1>3, <1>7, <1>9, PlaceNames DEF HandsDiffer
  <2>2. /\ {decoded'[e] : e \in Unpackers \cup {d}}
              = {decoded[e] : e \in Unpackers} \cup {decoded'[d]}
        /\ \A c, e \in Unpackers \cup {d} : decoded'[c] = decoded'[e] => c = e
    BY <1>5, <1>6, <2>1, PickedUp
  <2> QED
    BY <1>5, <1>7, <2>2
<1>11. CopcTypes'
  BY <1>1, <1>2, <1>4 DEF CopcInv, CopcTypes
<1>12. WayInv'
  BY <1>1, <1>2 DEF CopcInv, WayInv
<1>13. PlaceInv'
  <2>1. Places'[3] = Places[3] \ {x}
    BY <1>4, PlaceNames, PlaceNamesNext
  <2>2. Places'[4] = Places[4] \cup {x}
    BY <1>10, PlaceNames, PlaceNamesNext
  <2>3. \A i \in 1 .. 7 : i \notin {3, 4} => Places'[i] = Places[i]
    <3>1. /\ Places'[1] = Places[1] /\ Places'[2] = Places[2]
          /\ Places'[5] = Places[5] /\ Places'[6] = Places[6]
          /\ Places'[7] = Places[7]
      BY <1>1, <1>5, PlaceNames, PlaceNamesNext
    <3> QED
      BY <3>1, SMT
  <2>4. QueuesInjective' /\ HandsDiffer'
    BY <1>1, <1>3, <1>4, <1>5, <1>10 DEF QueuesInjective, HandsDiffer
  <2> QED
    BY <1>1, <1>3, <1>8, <1>9, <2>1, <2>2, <2>3, <2>4, TileMoves
<1>14. OrderInv'
  BY <1>1 DEF CopcInv, OrderInv
<1>15. KeepAliveHolds'
  <2>1. /\ Cardinality(Unpackers') = Cardinality(Unpackers) + 1
        /\ Cardinality(Fetchers) \in Nat /\ Cardinality(Unpackers) \in Nat
        /\ Cardinality(ordered) \in Nat
    BY <1>5, Counted, FS_AddElement DEF CopcInv
  <2>2. /\ pending = Cardinality(Fetchers) + Len(decodes)
                        + Cardinality(Unpackers) + Cardinality(ordered)
        /\ Len(decodes) \in Nat
    BY <1>2 DEF CopcInv, KeepAliveHolds
  <2>3. pending = Cardinality(Fetchers) + (Len(decodes) - 1)
                      + (Cardinality(Unpackers) + 1) + Cardinality(ordered)
    BY ONLY <2>1, <2>2, SMT
  <2> QED
    BY <1>1, <1>4, <1>5, <2>1, <2>3 DEF CopcInv, KeepAliveHolds
<1> QED
  BY <1>11, <1>12, <1>13, <1>14, <1>15 DEF CopcInv

\* A decoded tile is put by for its turn.
LEMMA DecodedKept ==
    ASSUME CopcAssumption, CopcInv, NEW d \in Decoders, Decoded(d)
    PROVE  CopcInv'
<1> DEFINE x == decoded[d]
<1>1. /\ decode[d] = "decoding" /\ decode' = [decode EXCEPT ![d] = "notifying"]
      /\ ordered' = ordered \cup {x}
      /\ UNCHANGED <<orderedDecode, failing, main, copcTile, nextSeq, done, emitted>>
      /\ UNCHANGED <<requests, request, requested, decodes, decoded, contents,
                     nextEmit, pending>>
  BY DEF Decoded, threadVars
<1>2. decode \in [Decoders -> {"free", "decoding", "notifying"}]
  BY DEF CopcInv, CopcTypes
<1>3. QueuesInjective /\ HandsDiffer /\ Apart(Places) /\ PlaceInv
  BY PlaceParts DEF CopcInv
<1>4. /\ d \in Unpackers /\ Unpackers' = Unpackers \ {d}
      /\ Askers' = Askers /\ Fetchers' = Fetchers
  BY <1>1, <1>2 DEF Askers, Unpackers, Fetchers
<1>5. 4 \in 1 .. 7 /\ 5 \in 1 .. 7 /\ 4 # 5
  BY SMT
<1>6. x \in Places[4] /\ x \in Tiles /\ x \notin Places[5]
  <2>1. x \in Places[4]
    BY <1>4, PlaceNames
  <2> QED
    BY <1>3, <1>5, <2>1 DEF PlaceInv, Apart
<1>7. {decoded[e] : e \in Unpackers'} = Places[4] \ {x}
  <2>1. \A c, e \in Unpackers : decoded[c] = decoded[e] => c = e
    BY <1>3 DEF HandsDiffer
  <2>2. {decoded[e] : e \in Unpackers \ {d}} = {decoded[e] : e \in Unpackers} \ {x}
    BY <1>4, <2>1, Dropped
  <2> QED
    BY <1>4, <2>2, PlaceNames
<1> HIDE DEF x
<1>8. orderedDecode
  BY <1>4 DEF CopcInv, WayInv
<1>9. CopcTypes'
  BY <1>1, <1>2, <1>6 DEF CopcInv, CopcTypes
<1>10. WayInv'
  BY <1>1, <1>8 DEF CopcInv, WayInv
<1>11. PlaceInv'
  <2>1. Places'[4] = Places[4] \ {x}
    BY <1>1, <1>7, PlaceNamesNext
  <2>2. Places'[5] = Places[5] \cup {x}
    BY <1>1, PlaceNames, PlaceNamesNext
  <2>3. \A i \in 1 .. 7 : i \notin {4, 5} => Places'[i] = Places[i]
    <3>1. /\ Places'[1] = Places[1] /\ Places'[2] = Places[2]
          /\ Places'[3] = Places[3] /\ Places'[6] = Places[6]
          /\ Places'[7] = Places[7]
      BY <1>1, <1>4, PlaceNames, PlaceNamesNext
    <3> QED
      BY <3>1, SMT
  <2>4. QueuesInjective' /\ HandsDiffer'
    BY <1>1, <1>3, <1>4 DEF QueuesInjective, HandsDiffer
  <2> QED
    BY <1>1, <1>3, <1>5, <1>6, <2>1, <2>2, <2>3, <2>4, TileMoves
<1>12. OrderInv'
  BY <1>1 DEF CopcInv, OrderInv
<1>13. KeepAliveHolds'
  <2>1. x \notin ordered
    BY <1>6, PlaceNames
  <2>2. /\ Cardinality(Unpackers') = Cardinality(Unpackers) - 1
        /\ Cardinality(Fetchers) \in Nat /\ Cardinality(Unpackers) \in Nat
        /\ Cardinality(ordered) \in Nat
        /\ Cardinality(ordered') = Cardinality(ordered) + 1
    BY <1>1, <1>4, <2>1, Counted, FS_AddElement, FS_RemoveElement DEF CopcInv
  <2>3. /\ pending = Cardinality(Fetchers) + Len(decodes)
                        + Cardinality(Unpackers) + Cardinality(ordered)
        /\ Len(decodes) \in Nat
    BY DEF CopcInv, CopcTypes, KeepAliveHolds
  <2>4. pending = Cardinality(Fetchers) + Len(decodes)
                      + (Cardinality(Unpackers) - 1) + (Cardinality(ordered) + 1)
    BY ONLY <2>2, <2>3, SMT
  <2> QED
    BY <1>1, <1>4, <2>2, <2>4 DEF CopcInv, KeepAliveHolds
<1> QED
  BY <1>9, <1>10, <1>11, <1>12, <1>13 DEF CopcInv

\* A decoder has told the reading thread.
LEMMA NotifyDecodedKept ==
    ASSUME CopcAssumption, CopcInv, NEW d \in Decoders, NotifyDecoded(d)
    PROVE  CopcInv'
<1>1. /\ decode[d] = "notifying" /\ decode' = [decode EXCEPT ![d] = "free"]
      /\ main' = main \/ (main = "asleep" /\ main' = "reading")
      /\ UNCHANGED <<orderedDecode, failing, copcTile, nextSeq, done, emitted>>
      /\ UNCHANGED <<requests, request, requested, decodes, decoded, contents,
                     ordered, nextEmit, pending>>
  BY DEF NotifyDecoded, MainWoken, threadVars, readyVars
<1>2. decode \in [Decoders -> {"free", "decoding", "notifying"}]
  BY DEF CopcInv, CopcTypes
<1>3. Unpackers' = Unpackers /\ Askers' = Askers /\ Fetchers' = Fetchers
  BY <1>1, <1>2 DEF Askers, Unpackers, Fetchers
<1>4. CopcTypes'
  BY <1>1, <1>2 DEF CopcInv, CopcTypes
<1>5. WayInv'
  BY <1>1, <1>3 DEF CopcInv, WayInv
<1>6. PlaceInv'
  BY <1>1, <1>3, PlacesUntouched DEF CopcInv
<1>7. OrderInv'
  BY <1>1 DEF CopcInv, OrderInv
<1>8. KeepAliveHolds'
  BY <1>1, <1>3, KeptUntouched DEF CopcInv
<1> QED
  BY <1>4, <1>5, <1>6, <1>7, <1>8 DEF CopcInv

\* The reading thread takes the tile that is next.
LEMMA PopOrdered ==
    ASSUME CopcAssumption, CopcInv, CopcPop, orderedDecode
    PROVE  CopcInv'
<1> DEFINE x == nextEmit
<1>1. /\ main = "reading" /\ main' = "popped" /\ x \in ordered
      /\ copcTile' = x /\ emitted' = Append(emitted, x)
      /\ ordered' = ordered \ {x} /\ nextEmit' = x + 1 /\ pending' = pending - 1
      /\ UNCHANGED <<orderedDecode, failing, nextSeq, done, contents>>
      /\ UNCHANGED <<requests, request, requested, decodes, decode, decoded>>
  BY DEF CopcPop, Available, threadVars, decodeVars
<1>2. /\ ordered \subseteq Tiles /\ x \in Tiles /\ nextEmit \in Nat /\ pending \in Nat
      /\ emitted \in Seq(Tiles) /\ KeepAlive \in Nat
  BY <1>1 DEF CopcInv, CopcTypes, CopcAssumption
<1>3. QueuesInjective /\ HandsDiffer /\ Apart(Places) /\ PlaceInv
  BY PlaceParts DEF CopcInv
<1>4. 5 \in 1 .. 7 /\ 7 \in 1 .. 7 /\ 5 # 7
  BY SMT
<1>5. x \in Places[5] /\ x \notin ToSet(emitted)
  BY <1>1, <1>3, <1>4, PlaceNames DEF Apart
<1>6. /\ emitted' \in Seq(Tiles) /\ IsInjective(emitted')
      /\ ToSet(emitted') = ToSet(emitted) \cup {x}
  BY <1>1, <1>2, <1>3, <1>5, Joins DEF QueuesInjective
<1>7. Unpackers' = Unpackers /\ Askers' = Askers /\ Fetchers' = Fetchers
  BY <1>1 DEF Askers, Unpackers, Fetchers
<1>8. /\ Cardinality(ordered') = Cardinality(ordered) - 1
      /\ Cardinality(Fetchers) \in Nat /\ Cardinality(Unpackers) \in Nat
      /\ Cardinality(ordered) \in Nat /\ Cardinality(ordered') \in Nat
      /\ pending = Cardinality(Fetchers) + Len(decodes)
                      + Cardinality(Unpackers) + Cardinality(ordered)
      /\ Len(decodes) \in Nat /\ pending <= KeepAlive
  <2>1. /\ IsFiniteSet(ordered) /\ Cardinality(ordered) \in Nat
        /\ Cardinality(Fetchers) \in Nat /\ Cardinality(Unpackers) \in Nat
    BY Counted DEF CopcInv
  <2>2. /\ IsFiniteSet(ordered') /\ Cardinality(ordered') = Cardinality(ordered) - 1
    BY <1>1, <2>1, FS_RemoveElement
  <2>3. Cardinality(ordered') \in Nat
    BY <2>2, FS_CardinalityType
  <2> QED
    BY <2>1, <2>2, <2>3 DEF CopcInv, CopcTypes, KeepAliveHolds
<1>9. /\ pending' \in Nat /\ nextEmit' \in Nat /\ pending' <= KeepAlive
      /\ pending' = Cardinality(Fetchers) + Len(decodes)
                        + Cardinality(Unpackers) + Cardinality(ordered')
  <2>1. pending' = pending - 1 /\ nextEmit' = nextEmit + 1
        /\ KeepAlive \in Nat /\ nextEmit \in Nat
    BY <1>1, <1>2
  <2>2. nextEmit' \in Nat
    BY ONLY <2>1, SMT
  <2> QED
    BY ONLY <1>8, <2>1, <2>2, SMT
<1>10. CopcTypes'
  BY <1>1, <1>2, <1>6, <1>9 DEF CopcInv, CopcTypes
<1>11. WayInv'
  BY <1>1, <1>7 DEF CopcInv, WayInv
<1>12. PlaceInv'
  <2>1. Places'[5] = Places[5] \ {x}
    BY <1>1, PlaceNames, PlaceNamesNext
  <2>2. Places'[7] = Places[7] \cup {x}
    BY <1>6, PlaceNames, PlaceNamesNext
  <2>3. \A i \in 1 .. 7 : i \notin {5, 7} => Places'[i] = Places[i]
    <3>1. /\ Places'[1] = Places[1] /\ Places'[2] = Places[2]
          /\ Places'[3] = Places[3] /\ Places'[6] = Places[6]
          /\ Places'[4] = Places[4]
      BY <1>1, <1>7, PlaceNames, PlaceNamesNext
    <3> QED
      BY <3>1, SMT
  <2>4. QueuesInjective' /\ HandsDiffer'
    BY <1>1, <1>3, <1>6, <1>7 DEF QueuesInjective, HandsDiffer
  <2> QED
    BY <1>1, <1>3, <1>4, <1>5, <2>1, <2>2, <2>3, <2>4, TileMoves
<1>13. OrderInv'
  <2>1. /\ Len(emitted) = nextEmit
        /\ \A i \in 1 .. nextEmit : emitted[i] = i - 1
        /\ \A t \in failing : t >= nextEmit
    BY <1>1 DEF CopcInv, OrderInv
  <2>2. /\ Len(emitted') = nextEmit + 1
        /\ \A i \in 1 .. nextEmit : emitted'[i] = emitted[i]
        /\ emitted'[nextEmit + 1] = nextEmit
    BY <1>1, <1>2, <2>1, SMT
  <2>3. ASSUME NEW i \in 1 .. nextEmit + 1 PROVE emitted'[i] = i - 1
    <3>1. CASE i \in 1 .. nextEmit
      BY <2>1, <2>2, <3>1
    <3>2. CASE i = nextEmit + 1
      BY <1>2, <2>2, <3>2, SMT
    <3> QED
      BY <1>2, <3>1, <3>2, SMT
  <2>4. (nextEmit + 1) - 1 = nextEmit
    BY <1>2, SMT
  <2> QED
    BY <1>1, <2>1, <2>2, <2>3, <2>4 DEF OrderInv
<1>14. KeepAliveHolds'
  BY <1>1, <1>7, <1>9 DEF CopcInv, KeepAliveHolds
<1> QED
  BY <1>10, <1>11, <1>12, <1>13, <1>14 DEF CopcInv

LEMMA PopParallel ==
    ASSUME CopcAssumption, CopcInv, CopcPop, ~orderedDecode
    PROVE  CopcInv'
<1> DEFINE x == Head(contents)
<1>1. /\ main = "reading" /\ main' = "popped" /\ contents # <<>>
      /\ copcTile' = x /\ emitted' = Append(emitted, x)
      /\ contents' = Tail(contents)
      /\ UNCHANGED <<orderedDecode, failing, nextSeq, done, ordered, nextEmit, pending>>
      /\ UNCHANGED <<requests, request, requested, decodes, decode, decoded>>
  BY DEF CopcPop, Available, Popped, threadVars, decodeVars
<1>2. /\ contents \in Seq(Tiles) /\ emitted \in Seq(Tiles) /\ KeepAlive \in Nat
  BY DEF CopcInv, CopcTypes, CopcAssumption
<1>3. QueuesInjective /\ HandsDiffer /\ Apart(Places) /\ PlaceInv
  BY PlaceParts DEF CopcInv
<1>4. 6 \in 1 .. 7 /\ 7 \in 1 .. 7 /\ 6 # 7
  BY SMT
<1>5. /\ x \in Tiles /\ x \in ToSet(contents)
      /\ contents' \in Seq(Tiles) /\ IsInjective(contents')
      /\ Len(contents') = Len(contents) - 1 /\ Len(contents) \in Nat
      /\ ToSet(contents') = ToSet(contents) \ {x}
  BY <1>1, <1>2, <1>3, LeavesQueue DEF QueuesInjective
<1> HIDE DEF x
<1>6. x \in Places[6] /\ x \notin ToSet(emitted)
  BY <1>3, <1>4, <1>5, PlaceNames DEF Apart
<1>7. /\ emitted' \in Seq(Tiles) /\ IsInjective(emitted')
      /\ ToSet(emitted') = ToSet(emitted) \cup {x}
  BY <1>1, <1>2, <1>3, <1>5, <1>6, Joins DEF QueuesInjective
<1>8. Unpackers' = Unpackers /\ Askers' = Askers /\ Fetchers' = Fetchers
  BY <1>1 DEF Askers, Unpackers, Fetchers
<1>9. CopcTypes'
  BY <1>1, <1>2, <1>5, <1>7 DEF CopcInv, CopcTypes
<1>10. WayInv'
  BY <1>1, <1>8 DEF CopcInv, WayInv
<1>11. PlaceInv'
  <2>1. Places'[6] = Places[6] \ {x}
    BY <1>5, PlaceNames, PlaceNamesNext
  <2>2. Places'[7] = Places[7] \cup {x}
    BY <1>7, PlaceNames, PlaceNamesNext
  <2>3. \A i \in 1 .. 7 : i \notin {6, 7} => Places'[i] = Places[i]
    <3>1. /\ Places'[1] = Places[1] /\ Places'[2] = Places[2]
          /\ Places'[3] = Places[3] /\ Places'[5] = Places[5]
          /\ Places'[4] = Places[4]
      BY <1>1, <1>8, PlaceNames, PlaceNamesNext
    <3> QED
      BY <3>1, SMT
  <2>4. QueuesInjective' /\ HandsDiffer'
    BY <1>1, <1>3, <1>5, <1>7, <1>8 DEF QueuesInjective, HandsDiffer
  <2> QED
    BY <1>1, <1>3, <1>4, <1>6, <2>1, <2>2, <2>3, <2>4, TileMoves
<1>12. OrderInv'
  BY <1>1 DEF OrderInv
<1>13. KeepAliveHolds'
  <2>1. ~done => Len(contents) <= KeepAlive
    BY DEF CopcInv, KeepAliveHolds
  <2>2. ~done => Len(contents') <= KeepAlive
    BY ONLY <1>2, <1>5, <2>1, SMT
  <2> QED
    BY <1>1, <1>8, <2>2 DEF CopcInv, KeepAliveHolds
<1> QED
  BY <1>9, <1>10, <1>11, <1>12, <1>13 DEF CopcInv

-----------------------------------------------------------------------------
(***************************************************************************)
(* The theorems.                                                           *)
(***************************************************************************)
LEMMA StepKept ==
    ASSUME CopcAssumption, CopcInv, [CopcNext]_copcVars
    PROVE  CopcInv'
<1>1. CASE MainStep
  <2>1. CASE CopcLoad
    BY <2>1, LoadKept
  <2>2. CASE CopcPop
    BY <2>2, PopOrdered, PopParallel
  <2>3. CASE NotifyConsumed
    BY <2>3, QuietKept
  <2>4. CASE CopcWaitForTile \/ CopcProcess \/ CopcCheckFails \/ Release \/ CopcStop \/ StopDecode
    BY <2>4, MainKept
  <2> QED
    BY <1>1, <2>1, <2>2, <2>3, <2>4 DEF MainStep
<1>2. ASSUME NEW r \in Threads, RequestStep(r) PROVE CopcInv'
  <2>1. CASE TakeRequest(r)
    BY <2>1, TakeRequestKept
  <2>2. CASE MayProceed(r)
    BY <2>2, GivesUp, BeginsFetch, PushesContents
  <2>3. CASE MustWait(r) \/ FallAsleep(r) \/ NotifyContents(r)
    BY <2>3, QuietKept
  <2>4. CASE Fetch(r)
    BY <2>4, FetchKept
  <2> QED
    BY <1>2, <2>1, <2>2, <2>3, <2>4 DEF RequestStep
<1>3. ASSUME NEW d \in Decoders, DecodeStep(d) PROVE CopcInv'
  BY <1>3, TakeDecodeKept, DecodedKept, NotifyDecodedKept DEF DecodeStep
<1>4. CASE CopcSpurious
  BY <1>4, QuietKept
<1>5. CASE UNCHANGED copcVars
  <2>1. UNCHANGED <<orderedDecode, failing, main, copcTile, nextSeq, done, emitted,
                    requests, request, requested, decodes, decode, decoded,
                    contents, ordered, nextEmit, pending>>
    BY <1>5 DEF copcVars, threadVars, decodeVars, readyVars
  <2>2. Unpackers' = Unpackers /\ Askers' = Askers /\ Fetchers' = Fetchers
    BY <2>1 DEF Askers, Unpackers, Fetchers
  <2>3. CopcTypes' /\ WayInv' /\ OrderInv'
    BY <2>1, <2>2 DEF CopcInv, CopcTypes, WayInv, OrderInv
  <2>4. PlaceInv' /\ KeepAliveHolds'
    BY <2>1, <2>2, PlacesUntouched, KeptUntouched DEF CopcInv
  <2> QED
    BY <2>3, <2>4 DEF CopcInv
<1> QED
  BY <1>1, <1>2, <1>3, <1>4, <1>5 DEF CopcNext, Gone

\* CopcHolds: the inductive invariant of the COPC reader's tile queue.
THEOREM CopcHolds == ASSUME CopcAssumption PROVE CopcSpec => []CopcInv
  BY InitCopc, StepKept, PTL DEF CopcSpec

\* No tile is in two places.
LEMMA TilesOne == ASSUME CopcAssumption PROVE CopcInv => EachTileOnce
<1>1. CopcInv => EachTileOnce
  BY DEF CopcInv, PlaceInv
<1> QED
  BY <1>1

\* TilesOnce: whatever the threads do, no tile is in two places or handed out
\* twice, and until the reader is told to stop none is lost.
THEOREM TilesOnce == ASSUME CopcAssumption PROVE CopcSpec => []EachTileOnce
  BY TilesOne, CopcHolds, PTL

\* The kept tiles are counted.
LEMMA TilesCounted == ASSUME CopcAssumption PROVE CopcInv => KeepAliveHolds
<1>1. CopcInv => KeepAliveHolds
  BY DEF CopcInv
<1> QED
  BY <1>1

\* TilesKept: no more tiles are kept than keep_alive allows, and an ordered
\* reader counts them exactly.
THEOREM TilesKept == ASSUME CopcAssumption PROVE CopcSpec => []KeepAliveHolds
  BY TilesCounted, CopcHolds, PTL

\* The tiles handed out are the first ones.
LEMMA TilesOrdered == ASSUME CopcAssumption PROVE CopcInv => EmittedInOrder
<1>1. CopcInv => EmittedInOrder
  <2> SUFFICES ASSUME CopcInv, orderedDecode PROVE EmittedInOrder
    BY DEF EmittedInOrder
  <2>1. /\ Len(emitted) = nextEmit /\ emitted \in Seq(Tiles)
        /\ \A i \in 1 .. nextEmit : emitted[i] = i - 1
        /\ copcTile = nextEmit - 1 /\ nextEmit \in Nat
        /\ \A t \in failing : t >= nextEmit - 1
    BY DEF CopcInv, CopcTypes, OrderInv
  <2>2. DOMAIN emitted = 1 .. nextEmit
    BY <2>1
  <2>3. ASSUME NEW t \in Tiles, t < copcTile PROVE t \notin failing
    BY <2>1, <2>3, SMT DEF Tiles
  <2> QED
    BY <2>1, <2>2, <2>3 DEF EmittedInOrder
<1> QED
  BY <1>1

\* TilesInOrder: an ordered reader hands out the tiles in the order it asked
\* for them, and the error it throws is that of the first unreadable tile.
THEOREM TilesInOrder == ASSUME CopcAssumption PROVE CopcSpec => []EmittedInOrder
  BY TilesOrdered, CopcHolds, PTL

-----------------------------------------------------------------------------
(***************************************************************************)
(* The EPT reader.                                                         *)
(*                                                                         *)
(* Until the hierarchy is read the pool has pages, then it has tiles.      *)
(* Every tile of the hierarchy is in one of seven places, and until the    *)
(* reader is told to stop none is lost; m_tileCount never falls below the  *)
(* number of tiles that are still to come.                                 *)
(***************************************************************************)
Early == {"opening", "awaiting", "terminated"}
EptPlacesOf == {"opening", "awaiting", "loading", "looping", "reading", "asleep",
                "checking", "lowering", "storing", "failing", "clearing",
                "stopping", "stopped", "finishing", "terminated", "thrown", "gone"}

EptTypes ==
    /\ ept \in EptCases
    /\ eptReader \in EptPlacesOf
    /\ hierarchy \subseteq EptTileSet /\ loaded \subseteq hierarchy
    /\ told \subseteq EptTileSet
    /\ eptContents \in Seq(EptTileSet) /\ Len(eptContents) <= PoolThreads
    /\ IsInjective(eptContents)
    /\ eptDone \in BOOLEAN /\ lost \in BOOLEAN
    /\ eptTile \in 0 .. TileTotal /\ oldCount \in 0 .. TileTotal
    /\ eptReader = "checking" => eptTile \in EptTileSet
    /\ eptReader \in {"clearing", "failing"} => eptDone

\* The pages that were read, or are to be, have their subpages in the pool.
PagesFound ==
    \E found \in SUBSET Pages :
        /\ 0 \in found
        /\ hierarchy = UNION {PageTiles[page] : page \in found}
        /\ \A page \in found :
              ToSet(SubPages[page]) \subseteq found \cup ToSet(waiting) \cup running

FoundInv ==
    /\ eptReader \in Early =>
          /\ waiting \in Seq(Pages) /\ running \subseteq Pages
          /\ loaded = {} /\ fetched = {} /\ eptContents = <<>> /\ told = {}
          /\ eptRead = {} /\ skipped = {} /\ m_tileCount = 0 /\ numRead = 0
    /\ eptReader \notin Early =>
          /\ waiting \in Seq(EptTileSet) /\ running \subseteq EptTileSet
          /\ IsInjective(waiting)
    /\ eptReader = "opening" => hierarchy = {} /\ Idle
    /\ eptReader = "awaiting" => PagesFound
    /\ eptReader \notin Early \cup {"opening", "thrown"} =>
          hierarchy = UNION {PageTiles[page] : page \in Pages}

\* The places of EptPlaces, and that of a tile without a task.
EptQueue == ToSet(waiting) \cap EptTileSet
Seven == <<hierarchy \ loaded, EptQueue, fetched, ToSet(eptContents), TileInHand,
           eptRead, skipped>>
SevenInv ==
    /\ Apart(Seven)
    /\ Everywhere(Seven) \subseteq hierarchy
    /\ ~eptDone => Everywhere(Seven) = hierarchy

\* What the readers may still lower m_tileCount by.
TilesLeft == hierarchy \ (eptRead \cup skipped)
Lowering == IF eptReader \in {"lowering", "storing"} THEN 1 ELSE 0
EptCountInv ==
    /\ m_tileCount \in 0 .. TileTotal
    /\ eptReader \notin Early => Cardinality(TilesLeft) + Lowering <= m_tileCount
    /\ eptReader = "storing" => m_tileCount <= oldCount
    /\ numRead = Cardinality(eptRead)

EptInv == EptTypes /\ FoundInv /\ SevenInv /\ EptCountInv


-----------------------------------------------------------------------------
(***************************************************************************)
(* The places of the tiles.                                               *)
(***************************************************************************)
LEMMA SevenNames ==
    /\ Seven[1] = hierarchy \ loaded /\ Seven[2] = EptQueue /\ Seven[3] = fetched
    /\ Seven[4] = ToSet(eptContents) /\ Seven[5] = TileInHand /\ Seven[6] = eptRead
    /\ Seven[7] = skipped
  BY DEF Seven

LEMMA SevenNamesNext ==
    /\ Seven'[1] = hierarchy' \ loaded' /\ Seven'[2] = EptQueue'
    /\ Seven'[3] = fetched' /\ Seven'[4] = ToSet(eptContents') /\ Seven'[5] = TileInHand'
    /\ Seven'[6] = eptRead' /\ Seven'[7] = skipped'
  BY DEF Seven

\* Things that are taken away leave the others where they are.
LEMMA PlacesLess ==
    ASSUME NEW P, NEW Q, Apart(P), \A i \in 1 .. 7 : Q[i] \subseteq P[i]
    PROVE  Apart(Q) /\ Everywhere(Q) \subseteq Everywhere(P)
<1>1. Apart(Q)
  BY DEF Apart
<1>2. Everywhere(Q) \subseteq Everywhere(P)
  BY DEF Everywhere
<1> QED
  BY <1>1, <1>2

\* Each tile that is somewhere is in the hierarchy; the places differ.
LEMMA SevenApart ==
    ASSUME SevenInv
    PROVE  /\ \A i, j \in 1 .. 7 : i # j => Seven[i] \cap Seven[j] = {}
           /\ \A i \in 1 .. 7 : Seven[i] \subseteq hierarchy
  BY DEF SevenInv, Apart, Everywhere

\* A tile that goes from one place to another.
LEMMA SevenMoved ==
    ASSUME SevenInv, NEW a \in 1 .. 7, NEW b \in 1 .. 7, a # b,
           NEW tile \in Seven[a],
           Seven'[a] = Seven[a] \ {tile}, Seven'[b] = Seven[b] \cup {tile},
           \A i \in 1 .. 7 : i \notin {a, b} => Seven'[i] = Seven[i],
           hierarchy' = hierarchy, ~eptDone' => ~eptDone
    PROVE  SevenInv'
<1>1. Apart(Seven)
  BY DEF SevenInv
<1>2. Apart(Seven') /\ Everywhere(Seven') = Everywhere(Seven)
  BY ONLY <1>1, PlacesMoved, a \in 1 .. 7, b \in 1 .. 7, a # b, tile \in Seven[a],
     Seven'[a] = Seven[a] \ {tile}, Seven'[b] = Seven[b] \cup {tile},
     \A i \in 1 .. 7 : i \notin {a, b} => Seven'[i] = Seven[i]
<1> QED
  BY <1>2 DEF SevenInv, Apart, Everywhere

LEMMA SevenLess ==
    ASSUME SevenInv, \A i \in 1 .. 7 : Seven'[i] \subseteq Seven[i],
           hierarchy' = hierarchy,
           eptDone' \/ (~eptDone /\ \A i \in 1 .. 7 : Seven'[i] = Seven[i])
    PROVE  SevenInv'
<1>1. Apart(Seven)
  BY DEF SevenInv
<1>2. Apart(Seven') /\ Everywhere(Seven') \subseteq Everywhere(Seven)
  BY <1>1, PlacesLess
<1>3. ~eptDone' => Everywhere(Seven') = Everywhere(Seven)
  BY DEF Everywhere
<1> QED
  BY <1>2, <1>3 DEF SevenInv, Apart, Everywhere

\* Sets of tiles are finite and no larger than the number of tiles.
LEMMA TilesFinite ==
    ASSUME EptAssumption, NEW some \in SUBSET EptTileSet
    PROVE  IsFiniteSet(some) /\ Cardinality(some) \in 0 .. TileTotal
<1>1. TileTotal \in Nat
  BY DEF EptAssumption
<1>2. IsFiniteSet(EptTileSet) /\ Cardinality(EptTileSet) = TileTotal
  BY <1>1, FS_Interval DEF EptTileSet
<1>3. IsFiniteSet(some) /\ Cardinality(some) <= Cardinality(EptTileSet)
  BY <1>2, FS_Subset
<1>4. Cardinality(some) \in Nat
  BY <1>3, FS_CardinalityType
<1> QED
  BY <1>1, <1>2, <1>3, <1>4

\* One tile less is left.
LEMMA OneLess ==
    ASSUME EptAssumption, NEW some \in SUBSET EptTileSet, NEW tile \in some
    PROVE  /\ Cardinality(some \ {tile}) = Cardinality(some) - 1
           /\ Cardinality(some) \in 1 .. TileTotal
           /\ Cardinality(some \ {tile}) \in Nat
<1>1. IsFiniteSet(some) /\ Cardinality(some) \in 0 .. TileTotal
  BY TilesFinite
<1>2. Cardinality(some \ {tile}) = Cardinality(some) - 1
  BY <1>1, FS_RemoveElement
<1>3. Cardinality(some \ {tile}) \in Nat
  BY TilesFinite
<1> QED
  BY <1>1, <1>2, <1>3

LEMMA EptFacts ==
    EptAssumption => /\ TileTotal \in Nat
                     /\ \A e \in EptCases : e.badPages \subseteq Pages
                     /\ 0 \notin EptTileSet /\ PoolThreads \in Nat \ {0}
  BY PoolTasksAssumption DEF EptAssumption, EptCase, EptTileSet

LEMMA InitEpt == ASSUME EptAssumption, NoTasks(TRUE), EptInit PROVE EptInv
<1> USE DEF EptInit, EptInitAt, NoTasks
<1>1. TileTotal \in Nat /\ PoolThreads \in Nat
  BY EptFacts
<1>2. EptTypes
  <2>1. <<>> \in Seq(EptTileSet) /\ IsInjective(<<>>) /\ Len(<<>>) = 0
    BY DEF IsInjective
  <2>2. 0 \in 0 .. TileTotal /\ 0 <= PoolThreads
    BY <1>1, SMT
  <2> QED
    BY <2>1, <2>2 DEF EptTypes, EptPlacesOf
<1>3. FoundInv
  BY DEF FoundInv, Early, Idle
<1>4. EptQueue = {} /\ ToSet(eptContents) = {} /\ TileInHand = {}
  <2>1. ToSet(<<>>) = {}
    BY DEF ToSet
  <2> QED
    BY <2>1 DEF EptQueue, TileInHand
<1>5. \A i \in 1 .. 7 : Seven[i] = {}
  BY <1>4, SevenNames
<1>6. SevenInv
  BY <1>5 DEF SevenInv, Apart, Everywhere
<1>7. EptCountInv
  BY <1>1, FS_EmptySet DEF EptCountInv, Early
<1> QED
  BY <1>2, <1>3, <1>6, <1>7 DEF EptInv


-----------------------------------------------------------------------------
(***************************************************************************)
(* The steps of the reading thread that move no tile.                      *)
(***************************************************************************)
EptQuiet == {"loading", "looping", "reading", "asleep", "failing", "clearing",
             "stopping", "finishing", "thrown", "gone"}

\* The reader goes on, past the hierarchy, with nothing in its hands.
LEMMA EptGoesOn ==
    ASSUME EptAssumption, EptInv, eptReader \notin Early, eptReader' \in EptQuiet,
           UNCHANGED <<ept, hierarchy, loaded, m_tileCount, eptContents, fetched,
                       told, skipped, eptTile, oldCount, numRead, eptRead, lost,
                       waiting, running>>,
           eptDone' \in BOOLEAN, ~eptDone' => ~eptDone /\ eptReader # "checking",
           eptReader' \in {"clearing", "failing"} => eptDone',
           eptReader = "thrown" => eptReader' = "thrown"
    PROVE  EptInv'
<1> USE DEF EptInv
<1>1. EptTypes'
  BY DEF EptTypes, EptPlacesOf, EptQuiet
<1>2. FoundInv'
  BY DEF FoundInv, Early, EptQuiet
<1>3. TileInHand' = {} /\ (~eptDone' => TileInHand = {})
  BY DEF TileInHand, EptQuiet
<1>4. SevenInv'
  <2>1. Seven[1] = Seven'[1] /\ Seven[2] = Seven'[2] /\ Seven[3] = Seven'[3]
        /\ Seven[4] = Seven'[4] /\ Seven[6] = Seven'[6] /\ Seven[7] = Seven'[7]
    BY SevenNames, SevenNamesNext DEF EptQueue
  <2>2. Seven'[5] = {} /\ (~eptDone' => Seven[5] = {})
    BY <1>3, SevenNames, SevenNamesNext
  <2>3. \A i \in 1 .. 7 : i = 1 \/ i = 2 \/ i = 3 \/ i = 4 \/ i = 5 \/ i = 6 \/ i = 7
    BY SMT
  <2>4. /\ \A i \in 1 .. 7 : Seven'[i] \subseteq Seven[i]
        /\ ~eptDone' => \A i \in 1 .. 7 : Seven'[i] = Seven[i]
    BY <2>1, <2>2, <2>3
  <2> QED
    BY <2>4, SevenLess
<1>5. EptCountInv'
  <2>1. TilesLeft' = TilesLeft /\ Lowering' = 0
    BY DEF TilesLeft, Lowering, EptQuiet
  <2>2. eptReader' # "storing"
    BY DEF EptQuiet
  <2>3. Lowering = 0 \/ Lowering = 1
    BY DEF Lowering
  <2>4. TilesLeft \subseteq hierarchy
    BY DEF TilesLeft
  <2>5. Cardinality(TilesLeft) \in 0 .. TileTotal /\ TileTotal \in Nat
    BY <2>4, TilesFinite, EptFacts DEF EptTypes
  <2>6. /\ m_tileCount \in 0 .. TileTotal
        /\ Cardinality(TilesLeft) + Lowering <= m_tileCount
        /\ numRead = Cardinality(eptRead)
    BY DEF EptCountInv
  <2>7. Cardinality(TilesLeft) + 0 <= m_tileCount
    BY <2>3, <2>5, <2>6, SMT
  <2> QED
    BY <2>1, <2>2, <2>6, <2>7 DEF EptCountInv
<1> QED
  BY <1>1, <1>2, <1>4, <1>5

LEMMA EptReaderGoesOn ==
    ASSUME EptAssumption, EptInv,
           \/ Loop \/ EptWaitForTile \/ CheckFails \/ Stop \/ Stopped
           \/ EptFinish \/ EptSpurious
    PROVE  EptInv'
<1>1. eptReader \notin Early /\ eptReader # "thrown"
  BY DEF Early, Loop, EptWaitForTile, CheckFails, Stop, Stopped, EptFinish, EptSpurious
<1>2. UNCHANGED <<ept, hierarchy, loaded, m_tileCount, eptContents, fetched, told,
                  skipped, eptTile, oldCount, numRead, eptRead, lost, waiting, running>>
  BY DEF Loop, EptWaitForTile, CheckFails, Stop, Stopped, EptFinish, EptSpurious,
         poolVars, foundVars, tileVars, readerVars, eptState, ClosePool
<1>3. eptDone' \in BOOLEAN /\ (~eptDone' => ~eptDone)
  BY DEF EptInv, EptTypes, Loop, EptWaitForTile, CheckFails, Stop, Stopped, EptFinish,
         EptSpurious, tileVars, eptState
<1>4. eptReader' \in EptQuiet
  BY DEF Loop, EptWaitForTile, CheckFails, Stop, Stopped, EptFinish, EptSpurious,
         Go, EptQuiet, eptState
<1>5. ~eptDone' => eptReader # "checking"
  BY DEF Loop, EptWaitForTile, CheckFails, Stop, Stopped, EptFinish, EptSpurious
<1>6. eptReader' \in {"clearing", "failing"} => eptDone'
  BY DEF EptInv, EptTypes, Loop, EptWaitForTile, CheckFails, Stop, Stopped, EptFinish,
         EptSpurious, Go, tileVars, eptState
<1> QED
  BY <1>1, <1>2, <1>3, <1>4, <1>5, <1>6, EptGoesOn

LEMMA EptStays == ASSUME EptInv, UNCHANGED eptVars PROVE EptInv'
<1> USE DEF eptVars, eptState, poolVars
<1>1. EptTypes'
  BY DEF EptInv, EptTypes
<1>2. FoundInv'
  BY DEF EptInv, FoundInv, PagesFound, Idle
<1>3. Seven' = Seven
  BY DEF Seven, EptQueue, TileInHand
<1>4. SevenInv'
  BY <1>3 DEF EptInv, SevenInv, Apart, Everywhere
<1>5. EptCountInv'
  BY DEF EptInv, EptCountInv, TilesLeft, Lowering
<1> QED
  BY <1>1, <1>2, <1>4, <1>5 DEF EptInv

\* clearTasks(): those who wait are done with.
LEMMA EptClears == ASSUME EptAssumption, EptInv, ClearTiles PROVE EptInv'
<1> USE DEF EptInv
<1>1. /\ eptReader = "clearing" /\ eptReader' = "failing"
      /\ UNCHANGED <<ept, hierarchy, loaded, m_tileCount, eptContents, fetched, told,
                     skipped, eptTile, oldCount, numRead, eptRead, lost, running, eptDone>>
      /\ waiting' = <<>>
  BY DEF ClearTiles, DropWaiting, Go, foundVars, tileVars
<1>2. eptDone /\ eptReader \notin Early
  BY <1>1 DEF EptTypes, Early
<1>3. EptTypes'
  BY <1>1, <1>2 DEF EptTypes, EptPlacesOf
<1>4. <<>> \in Seq(EptTileSet) /\ IsInjective(<<>>) /\ ToSet(<<>>) = {}
  BY DEF IsInjective, ToSet
<1>5. FoundInv'
  BY <1>1, <1>2, <1>4 DEF FoundInv, Early
<1>6. EptQueue' = {} /\ TileInHand' = {}
  BY <1>1, <1>4 DEF EptQueue, TileInHand
<1>7. SevenInv'
  <2>1. Seven[1] = Seven'[1] /\ Seven'[2] = {} /\ Seven[3] = Seven'[3]
        /\ Seven[4] = Seven'[4] /\ Seven'[5] = {} /\ Seven[6] = Seven'[6]
        /\ Seven[7] = Seven'[7]
    BY <1>1, <1>6, SevenNames, SevenNamesNext
  <2>2. \A i \in 1 .. 7 : i = 1 \/ i = 2 \/ i = 3 \/ i = 4 \/ i = 5 \/ i = 6 \/ i = 7
    BY SMT
  <2>3. \A i \in 1 .. 7 : Seven'[i] \subseteq Seven[i]
    BY <2>1, <2>2
  <2> QED
    BY <1>1, <1>2, <2>3, SevenLess
<1>8. EptCountInv'
  BY <1>1, <1>2 DEF EptCountInv, TilesLeft, Lowering, Early
<1> QED
  BY <1>3, <1>5, <1>7, <1>8


-----------------------------------------------------------------------------
(***************************************************************************)
(* The hierarchy.                                                          *)
(***************************************************************************)
\* Until the hierarchy is read the places are empty but that of the tiles found.
LEMMA EarlyPlaces ==
    ASSUME EptAssumption, FoundInv, eptReader \in Early PROVE SevenInv /\ EptCountInv
<1>1. ToSet(waiting) \cap EptTileSet = {}
  <2>1. ToSet(waiting) \subseteq Pages
    BY DEF FoundInv, ToSet
  <2> QED
    BY <2>1 DEF EptAssumption
<1>2. ToSet(<<>>) = {}
  BY DEF ToSet
<1>3. /\ Seven[1] = hierarchy /\ Seven[2] = {} /\ Seven[3] = {} /\ Seven[4] = {}
      /\ Seven[5] = {} /\ Seven[6] = {} /\ Seven[7] = {}
  BY <1>1, <1>2, SevenNames DEF FoundInv, EptQueue, TileInHand, Early
<1>4. \A i \in 1 .. 7 : i = 1 \/ i = 2 \/ i = 3 \/ i = 4 \/ i = 5 \/ i = 6 \/ i = 7
  BY SMT
<1>5. \A i \in 1 .. 7 : i # 1 => Seven[i] = {}
  BY <1>3, <1>4
<1>6. Apart(Seven)
  BY <1>5 DEF Apart
<1>7. Everywhere(Seven) = hierarchy
  BY <1>3, <1>5 DEF Everywhere
<1>8. EptCountInv
  <2>1. 0 \in 0 .. TileTotal /\ Cardinality({}) = 0
    BY FS_EmptySet, EptFacts
  <2>2. m_tileCount = 0 /\ numRead = 0 /\ eptRead = {} /\ eptReader # "storing"
    BY DEF FoundInv, Early
  <2> QED
    BY ONLY <2>1, <2>2, eptReader \in Early DEF EptCountInv
<1> QED
  BY <1>6, <1>7, <1>8 DEF SevenInv

LEMMA EarlyPlacesNext ==
    ASSUME EptAssumption, FoundInv', eptReader' \in Early PROVE SevenInv' /\ EptCountInv'
<1>1. ToSet(waiting') \cap EptTileSet = {}
  <2>1. ToSet(waiting') \subseteq Pages
    BY DEF FoundInv, ToSet
  <2> QED
    BY <2>1 DEF EptAssumption
<1>2. ToSet(<<>>) = {}
  BY DEF ToSet
<1>3. /\ Seven'[1] = hierarchy' /\ Seven'[2] = {} /\ Seven'[3] = {} /\ Seven'[4] = {}
      /\ Seven'[5] = {} /\ Seven'[6] = {} /\ Seven'[7] = {}
  BY <1>1, <1>2, SevenNamesNext DEF FoundInv, EptQueue, TileInHand, Early
<1>4. \A i \in 1 .. 7 : i = 1 \/ i = 2 \/ i = 3 \/ i = 4 \/ i = 5 \/ i = 6 \/ i = 7
  BY SMT
<1>5. \A i \in 1 .. 7 : i # 1 => Seven'[i] = {}
  BY <1>3, <1>4
<1>6. Apart(Seven')
  BY <1>5 DEF Apart
<1>7. Everywhere(Seven') = hierarchy'
  BY <1>3, <1>5 DEF Everywhere
<1>8. EptCountInv'
  <2>1. 0 \in 0 .. TileTotal /\ Cardinality({}) = 0
    BY FS_EmptySet, EptFacts
  <2>2. m_tileCount' = 0 /\ numRead' = 0 /\ eptRead' = {} /\ eptReader' # "storing"
    BY DEF FoundInv, Early
  <2> QED
    BY ONLY <2>1, <2>2, eptReader' \in Early DEF EptCountInv, Early
<1> QED
  BY <1>6, <1>7, <1>8 DEF SevenInv, Apart, Everywhere

\* What is appended to a queue.
LEMMA JoinedSets ==
    ASSUME NEW S, NEW s \in Seq(S), NEW t \in Seq(S)
    PROVE  s \o t \in Seq(S) /\ ToSet(s \o t) = ToSet(s) \cup ToSet(t)
<1> DEFINE u == s \o t
<1>1. /\ u \in Seq(S) /\ Len(u) = Len(s) + Len(t) /\ Len(s) \in Nat /\ Len(t) \in Nat
      /\ \A i \in 1 .. Len(s) : u[i] = s[i]
      /\ \A i \in 1 .. Len(t) : u[Len(s) + i] = t[i]
      /\ DOMAIN u = 1 .. Len(u) /\ DOMAIN s = 1 .. Len(s) /\ DOMAIN t = 1 .. Len(t)
  BY SMT
<1> HIDE DEF u
<1>2. \A i \in 1 .. Len(u) : i \in 1 .. Len(s)
                             \/ (i - Len(s) \in 1 .. Len(t) /\ i = Len(s) + (i - Len(s)))
  BY ONLY <1>1, SMT
<1>3. \A i \in 1 .. Len(s) : i \in 1 .. Len(u)
  BY ONLY <1>1, SMT
<1>4. \A i \in 1 .. Len(t) : Len(s) + i \in 1 .. Len(u)
  BY ONLY <1>1, SMT
<1>5. ASSUME NEW x \in ToSet(u) PROVE x \in ToSet(s) \cup ToSet(t)
  <2>1. PICK i \in 1 .. Len(u) : x = u[i]
    BY <1>1 DEF ToSet
  <2>2. CASE i \in 1 .. Len(s)
    BY <1>1, <2>1, <2>2 DEF ToSet
  <2>3. CASE i - Len(s) \in 1 .. Len(t) /\ i = Len(s) + (i - Len(s))
    <3>1. u[i] = t[i - Len(s)]
      BY <1>1, <2>3
    <3> QED
      BY <1>1, <2>1, <2>3, <3>1 DEF ToSet
  <2> QED
    BY <1>2, <2>2, <2>3
<1>6. ASSUME NEW x \in ToSet(s) PROVE x \in ToSet(u)
  <2>1. PICK i \in 1 .. Len(s) : x = s[i]
    BY <1>1 DEF ToSet
  <2> QED
    BY <1>1, <1>3, <2>1 DEF ToSet
<1>7. ASSUME NEW x \in ToSet(t) PROVE x \in ToSet(u)
  <2>1. PICK i \in 1 .. Len(t) : x = t[i]
    BY <1>1 DEF ToSet
  <2> QED
    BY <1>1, <1>4, <2>1 DEF ToSet
<1>8. ToSet(u) = ToSet(s) \cup ToSet(t)
  BY <1>5, <1>6, <1>7
<1> QED
  BY <1>1, <1>8 DEF u

\* The oldest element of a queue, and the rest of it.
LEMMA HeadAndTail ==
    ASSUME NEW S, NEW s \in Seq(S), s # <<>>
    PROVE  /\ Head(s) \in S /\ Tail(s) \in Seq(S)
           /\ ToSet(s) = ToSet(Tail(s)) \cup {Head(s)}
<1> DEFINE t == Tail(s)
<1>1. /\ Len(s) \in Nat \ {0} /\ Head(s) = s[1] /\ Head(s) \in S
      /\ t \in Seq(S) /\ Len(t) = Len(s) - 1
      /\ \A i \in 1 .. Len(t) : t[i] = s[i + 1]
      /\ DOMAIN t = 1 .. Len(t) /\ DOMAIN s = 1 .. Len(s)
  BY SMT
<1> HIDE DEF t
<1>2. 1 \in 1 .. Len(s) /\ \A i \in 1 .. Len(t) : i + 1 \in 1 .. Len(s)
  BY ONLY <1>1, SMT
<1>3. \A i \in 1 .. Len(s) : i # 1 => i - 1 \in 1 .. Len(t) /\ i = (i - 1) + 1
  BY ONLY <1>1, SMT
<1>4. ASSUME NEW x \in ToSet(s), x # s[1] PROVE x \in ToSet(t)
  <2>1. PICK i \in 1 .. Len(s) : x = s[i]
    BY <1>1 DEF ToSet
  <2>2. i - 1 \in 1 .. Len(t) /\ t[i - 1] = s[i]
    BY <1>1, <1>3, <1>4, <2>1
  <2> QED
    BY <1>1, <2>1, <2>2 DEF ToSet
<1>5. ASSUME NEW x \in ToSet(t) PROVE x \in ToSet(s)
  <2>1. PICK i \in 1 .. Len(t) : x = t[i]
    BY <1>1 DEF ToSet
  <2> QED
    BY <1>1, <1>2, <2>1 DEF ToSet
<1>6. s[1] \in ToSet(s)
  BY <1>1, <1>2 DEF ToSet
<1> QED
  BY <1>1, <1>4, <1>5, <1>6 DEF t

LEMMA EptOpens == ASSUME EptAssumption, EptInv, Open PROVE EptInv'
<1> USE DEF EptInv
<1>1. /\ eptReader = "opening" /\ hierarchy = {} /\ waiting = <<>> /\ running = {}
      /\ loaded = {}
      /\ UNCHANGED <<ept, loaded, fetched, told, eptContents, eptRead, skipped,
                     m_tileCount, numRead, eptTile, oldCount, eptDone, lost>>
  BY DEF Open, FoundInv, Idle, Early, tileVars
<1>2. eptReader' \in {"thrown", "awaiting"} /\ eptReader' # "checking"
  BY DEF Open, Go
<1>3. CASE 0 \in ept.badPages
  <2>1. eptReader' = "thrown" /\ hierarchy' = {} /\ waiting' = <<>> /\ running' = {}
    BY <1>1, <1>3 DEF Open, Go, poolVars
  <2>2. <<>> \in Seq(EptTileSet) /\ IsInjective(<<>>) /\ ToSet(<<>>) = {}
    BY DEF IsInjective, ToSet
  <2>3. EptTypes'
    BY <1>1, <2>1 DEF EptTypes, EptPlacesOf
  <2>4. FoundInv'
    BY <1>1, <2>1, <2>2 DEF FoundInv, Early
  <2>5. EptQueue' = {} /\ TileInHand' = {} /\ ToSet(eptContents') = {} /\ eptRead' = {}
        /\ skipped' = {} /\ fetched' = {}
    BY <1>1, <2>1, <2>2 DEF EptQueue, TileInHand, FoundInv, Early
  <2>6. \A i \in 1 .. 7 : Seven'[i] = {}
    BY <2>1, <2>5, SevenNamesNext
  <2>7. SevenInv'
    BY <2>1, <2>6 DEF SevenInv, Apart, Everywhere
  <2>8. TilesLeft' = {} /\ Lowering' = 0
    BY <2>1 DEF TilesLeft, Lowering
  <2>9. EptCountInv'
    <3>1. m_tileCount' = 0 /\ numRead' = 0 /\ 0 \in 0 .. TileTotal
      BY <1>1, EptFacts DEF FoundInv, Early
    <3> QED
      BY <2>1, <2>5, <2>8, <3>1, FS_EmptySet DEF EptCountInv
  <2> QED
    BY <2>3, <2>4, <2>7, <2>9
<1>4. CASE 0 \notin ept.badPages
  <2>1. eptReader' = "awaiting" /\ hierarchy' = PageTiles[0]
        /\ waiting' = <<>> \o SubPages[0] /\ running' = {}
    BY <1>1, <1>4 DEF Open, Go, AddPage, AddTasks
  <2>2. SubPages[0] \in Seq(Pages) /\ PageTiles[0] \subseteq EptTileSet /\ 0 \in Pages
    BY DEF EptAssumption
  <2>3. <<>> \o SubPages[0] = SubPages[0]
    BY <2>2
  <2>4. EptTypes'
    BY <1>1, <2>1, <2>2 DEF EptTypes, EptPlacesOf
  <2>5. PagesFound'
    <3>1. hierarchy' = UNION {PageTiles[page] : page \in {0}}
      BY <2>1
    <3>2. \A page \in {0} : ToSet(SubPages[page]) \subseteq {0} \cup ToSet(waiting') \cup running'
      BY <2>1, <2>3
    <3>3. {0} \in SUBSET Pages /\ 0 \in {0}
      BY <2>2
    <3> QED
      BY ONLY <3>1, <3>2, <3>3 DEF PagesFound
  <2>6. FoundInv'
    BY <1>1, <2>1, <2>2, <2>3, <2>5 DEF FoundInv, Early
  <2> QED
    BY <2>1, <2>4, <2>6, EarlyPlacesNext DEF Early
<1> QED
  BY <1>3, <1>4

LEMMA EptStartsPage ==
    ASSUME EptAssumption, EptInv, NEW page \in Pages, StartPage(page) PROVE EptInv'
<1> USE DEF EptInv
<1>1. /\ waiting # <<>> /\ page = Head(waiting) /\ waiting' = Tail(waiting)
      /\ running' = running \cup {page} /\ UNCHANGED eptState
  BY DEF StartPage, StartTask
<1>2. eptReader \in Early
  <2> SUFFICES ASSUME eptReader \notin Early PROVE FALSE
    OBVIOUS
  <2>1. waiting \in Seq(EptTileSet)
    BY DEF FoundInv
  <2>2. Head(waiting) \in EptTileSet
    BY <1>1, <2>1, HeadAndTail
  <2> QED
    BY <1>1, <2>2 DEF EptAssumption
<1>3. /\ waiting \in Seq(Pages) /\ waiting' \in Seq(Pages)
      /\ ToSet(waiting) = ToSet(waiting') \cup {page}
  <2>1. waiting \in Seq(Pages)
    BY <1>2 DEF FoundInv
  <2> QED
    BY <1>1, <2>1, HeadAndTail
<1>4. eptReader # "opening"
  BY <1>1 DEF FoundInv, Idle
<1>5. EptTypes'
  BY <1>1 DEF EptTypes, eptState
<1>6. eptReader = "awaiting" => PagesFound'
  <2> SUFFICES ASSUME eptReader = "awaiting" PROVE PagesFound'
    OBVIOUS
  <2>1. PagesFound
    BY DEF FoundInv
  <2> QED
    BY <1>1, <1>3, <2>1 DEF PagesFound, eptState
<1>7. FoundInv'
  BY <1>1, <1>2, <1>3, <1>4, <1>6 DEF FoundInv, Early, eptState
<1> QED
  BY <1>1, <1>2, <1>5, <1>7, EarlyPlacesNext DEF eptState

LEMMA EptReadsPage ==
    ASSUME EptAssumption, EptInv, NEW page \in Pages, ReadPage(page) PROVE EptInv'
<1> USE DEF EptInv
<1>1. /\ page \in running /\ hierarchy' = hierarchy \cup PageTiles[page]
      /\ waiting' = waiting \o SubPages[page] /\ running' = running \ {page}
      /\ eptReader # "terminated"
      /\ UNCHANGED <<ept, loaded, eptReader, tileVars, eptTile, oldCount, numRead,
                     eptRead, lost>>
  BY DEF ReadPage, Alive, readerVars
<1>2. eptReader \in Early
  <2> SUFFICES ASSUME eptReader \notin Early PROVE FALSE
    OBVIOUS
  <2>1. running \subseteq EptTileSet
    BY DEF FoundInv
  <2> QED
    BY <1>1, <2>1 DEF EptAssumption
<1>3. eptReader = "awaiting"
  BY <1>1, <1>2 DEF FoundInv, Idle, Early
<1>4. /\ waiting \in Seq(Pages) /\ SubPages[page] \in Seq(Pages)
      /\ PageTiles[page] \subseteq EptTileSet
  BY <1>2 DEF FoundInv, EptAssumption
<1>5. /\ waiting' \in Seq(Pages)
      /\ ToSet(waiting') = ToSet(waiting) \cup ToSet(SubPages[page])
  BY <1>1, <1>4, JoinedSets
<1>6. EptTypes'
  BY <1>1, <1>4 DEF EptTypes, tileVars
<1>7. PagesFound'
  <2>1. PICK found \in SUBSET Pages :
           /\ 0 \in found
           /\ hierarchy = UNION {PageTiles[p] : p \in found}
           /\ \A p \in found : ToSet(SubPages[p]) \subseteq found \cup ToSet(waiting) \cup running
    BY <1>3 DEF FoundInv, PagesFound
  <2> DEFINE more == found \cup {page}
  <2>2. more \in SUBSET Pages /\ 0 \in more
    BY <2>1
  <2>3. hierarchy' = UNION {PageTiles[p] : p \in more}
    BY <1>1, <2>1
  <2>4. \A p \in more : ToSet(SubPages[p]) \subseteq more \cup ToSet(waiting') \cup running'
    BY <1>1, <1>5, <2>1
  <2> HIDE DEF more
  <2> QED
    BY ONLY <2>2, <2>3, <2>4 DEF PagesFound
<1>8. FoundInv'
  BY <1>1, <1>3, <1>4, <1>5, <1>7 DEF FoundInv, Early, tileVars
<1> QED
  BY <1>1, <1>2, <1>6, <1>8, EarlyPlacesNext

LEMMA EptPageFails ==
    ASSUME EptAssumption, EptInv, NEW page \in Pages, PageFails(page) PROVE EptInv'
<1> USE DEF EptInv
<1>1. /\ page \in running /\ eptReader' = "terminated"
      /\ UNCHANGED <<ept, poolVars, foundVars, tileVars, eptTile, oldCount,
                     numRead, eptRead, lost>>
  BY DEF PageFails, Go
<1>2. eptReader \in Early
  <2> SUFFICES ASSUME eptReader \notin Early PROVE FALSE
    OBVIOUS
  <2>1. running \subseteq EptTileSet
    BY DEF FoundInv
  <2> QED
    BY <1>1, <2>1 DEF EptAssumption
<1>3. EptTypes'
  BY <1>1 DEF EptTypes, EptPlacesOf, foundVars, tileVars
<1>4. FoundInv'
  BY <1>1, <1>2 DEF FoundInv, Early, poolVars, foundVars, tileVars
<1> QED
  BY <1>1, <1>3, <1>4, EarlyPlacesNext DEF Early

\* await() returns when every page was read.
LEMMA EptHierarchyRead == ASSUME EptAssumption, EptInv, HierarchyRead PROVE EptInv'
<1> USE DEF EptInv
<1>1. /\ eptReader = "awaiting" /\ waiting = <<>> /\ running = {}
      /\ m_tileCount' = Cardinality(hierarchy) /\ eptReader' = "loading"
      /\ UNCHANGED <<ept, poolVars, foundVars, eptDone, eptContents, fetched,
                     told, skipped, eptTile, oldCount, numRead, eptRead, lost>>
  BY DEF HierarchyRead, Idle, Go
<1>2. <<>> \in Seq(EptTileSet) /\ IsInjective(<<>>) /\ ToSet(<<>>) = {}
  BY DEF IsInjective, ToSet
<1>3. hierarchy = UNION {PageTiles[page] : page \in Pages}
  <2>1. PICK found \in SUBSET Pages :
           /\ 0 \in found
           /\ hierarchy = UNION {PageTiles[p] : p \in found}
           /\ \A p \in found : ToSet(SubPages[p]) \subseteq found \cup ToSet(waiting) \cup running
    BY <1>1 DEF FoundInv, PagesFound
  <2>2. \A p \in found : ToSet(SubPages[p]) \subseteq found
    BY <1>1, <1>2, <2>1
  <2>3. found = Pages
    BY <2>1, <2>2 DEF EptAssumption
  <2> QED
    BY <2>1, <2>3
<1>4. SevenInv /\ loaded = {} /\ eptRead = {} /\ skipped = {} /\ numRead = 0
  BY <1>1 DEF FoundInv, Early
<1>5. EptTypes'
  BY <1>1 DEF EptTypes, EptPlacesOf, foundVars
<1>6. FoundInv'
  BY <1>1, <1>2, <1>3 DEF FoundInv, Early, poolVars, foundVars
<1>7. Seven' = Seven
  BY <1>1 DEF Seven, EptQueue, TileInHand, poolVars, foundVars
<1>8. SevenInv'
  BY <1>1, <1>4, <1>7 DEF SevenInv, Apart, Everywhere, foundVars
<1>9. EptCountInv'
  <2>1. Cardinality(hierarchy) \in 0 .. TileTotal /\ TileTotal \in Nat
    BY TilesFinite, EptFacts DEF EptTypes
  <2>2. hierarchy' = hierarchy /\ TilesLeft' = hierarchy /\ Lowering' = 0
    BY <1>1, <1>4 DEF TilesLeft, Lowering, foundVars
  <2>3. Cardinality(hierarchy) + 0 <= Cardinality(hierarchy)
    BY <2>1
  <2> QED
    BY <1>1, <1>4, <2>1, <2>2, <2>3, FS_EmptySet DEF EptCountInv
<1> QED
  BY <1>5, <1>6, <1>8, <1>9


-----------------------------------------------------------------------------
(***************************************************************************)
(* The tiles.                                                              *)
(***************************************************************************)
SevenIndices == \A i \in 1 .. 7 : i = 1 \/ i = 2 \/ i = 3 \/ i = 4 \/ i = 5 \/ i = 6 \/ i = 7

LEMMA IndexIsOne == SevenIndices
  BY SMT DEF SevenIndices

\* Where the reader is no longer at the hierarchy, the queue has tiles only.
LEMMA LateQueue ==
    ASSUME EptInv, eptReader \notin Early
    PROVE  /\ EptQueue = ToSet(waiting) /\ waiting \in Seq(EptTileSet)
           /\ IsInjective(waiting)
<1>1. waiting \in Seq(EptTileSet) /\ IsInjective(waiting)
  BY DEF EptInv, FoundInv
<1>2. ToSet(waiting) \subseteq EptTileSet
  BY <1>1 DEF ToSet
<1> QED
  BY <1>1, <1>2 DEF EptQueue

\* Who has a tile in one of the places is past the hierarchy.
LEMMA HasTile ==
    ASSUME EptInv, fetched # {} \/ told # {} \/ eptContents # <<>>
    PROVE  eptReader \notin Early
  BY DEF EptInv, FoundInv

\* The counts stay while neither what is left nor what lowers it changes.
LEMMA CountsStay ==
    ASSUME EptCountInv, eptReader \notin Early, hierarchy' = hierarchy,
           eptRead' = eptRead, skipped' = skipped, numRead' = numRead,
           m_tileCount' = m_tileCount, Lowering' = Lowering,
           eptReader' = "storing" => eptReader = "storing" /\ oldCount' = oldCount
    PROVE  EptCountInv'
<1>1. TilesLeft' = TilesLeft
  BY DEF TilesLeft
<1> QED
  BY <1>1 DEF EptCountInv

LEMMA EptLoads == ASSUME EptAssumption, EptInv, Load PROVE EptInv'
<1> USE DEF EptInv
<1>1. /\ eptReader = "loading" /\ eptReader \notin Early
      /\ UNCHANGED <<ept, hierarchy, tileVars, eptTile, oldCount, numRead,
                     eptRead, lost>>
  BY DEF Load, Early
<1>2. CASE loaded = hierarchy /\ eptReader' = "looping" /\ UNCHANGED <<loaded, poolVars>>
  <2>1. UNCHANGED <<waiting, running, m_tileCount, eptContents, fetched, told, skipped,
                    eptDone>>
    BY <1>1, <1>2 DEF poolVars, tileVars
  <2>2. eptReader' \in EptQuiet /\ eptDone \in BOOLEAN
    BY <1>2 DEF EptQuiet, EptTypes
  <2> QED
    BY <1>1, <1>2, <2>1, <2>2, EptGoesOn
<1>3. ASSUME NEW tile \in hierarchy \ loaded, AddTasks(<<tile>>),
             loaded' = loaded \cup {tile}, eptReader' = eptReader
      PROVE  EptInv'
  <2>1. /\ waiting \in Seq(EptTileSet) /\ IsInjective(waiting) /\ EptQueue = ToSet(waiting)
        /\ tile \in EptTileSet
    BY <1>1, LateQueue DEF EptTypes
  <2>2. tile \in Seven[1] /\ tile \notin Seven[2]
    BY SevenNames, SevenApart
  <2>3. waiting' = Append(waiting, tile) /\ running' = running
    <3>1. Append(waiting, tile) = waiting \o <<tile>>
      BY ONLY <2>1
    <3> QED
      BY <1>3, <3>1 DEF AddTasks
  <2>4. /\ waiting' \in Seq(EptTileSet) /\ IsInjective(waiting')
        /\ ToSet(waiting') = ToSet(waiting) \cup {tile}
    BY <2>1, <2>2, <2>3, SevenNames, Joins
  <2>5. EptTypes'
    BY <1>1, <1>3 DEF EptTypes, tileVars
  <2>6. FoundInv'
    BY <1>1, <1>3, <2>3, <2>4 DEF FoundInv, Early, tileVars
  <2>7. EptQueue' = EptQueue \cup {tile}
    BY <2>1, <2>4 DEF EptQueue
  <2>8. Seven'[1] = Seven[1] \ {tile} /\ Seven'[2] = Seven[2] \cup {tile}
        /\ Seven'[3] = Seven[3] /\ Seven'[4] = Seven[4] /\ Seven'[5] = Seven[5]
        /\ Seven'[6] = Seven[6] /\ Seven'[7] = Seven[7]
    BY <1>1, <1>3, <2>7, SevenNames, SevenNamesNext DEF TileInHand, tileVars
  <2>9. SevenInv'
    <3>1. \A i \in 1 .. 7 : i \notin {1, 2} => Seven'[i] = Seven[i]
      BY <2>8, IndexIsOne DEF SevenIndices
    <3> QED
      BY <1>1, <2>2, <2>8, <3>1, SevenMoved DEF tileVars
  <2>10. EptCountInv'
    BY <1>1, <1>3, CountsStay DEF Lowering, tileVars
  <2> QED
    BY <2>5, <2>6, <2>9, <2>10
<1> QED
  BY <1>2, <1>3 DEF Load, Go

LEMMA EptStartsTile ==
    ASSUME EptAssumption, EptInv, NEW tile \in EptTileSet, EptStartTile(tile) PROVE EptInv'
<1> USE DEF EptInv
<1>1. /\ waiting # <<>> /\ tile = Head(waiting) /\ waiting' = Tail(waiting)
      /\ running' = running \cup {tile} /\ fetched' = fetched \cup {tile}
      /\ UNCHANGED <<ept, foundVars, m_tileCount, eptDone, eptContents, told, skipped,
                     readerVars>>
  BY DEF EptStartTile, StartTask
<1>2. eptReader \notin Early
  <2> SUFFICES ASSUME eptReader \in Early PROVE FALSE
    OBVIOUS
  <2>1. waiting \in Seq(Pages)
    BY DEF FoundInv
  <2>2. Head(waiting) \in Pages
    BY <1>1, <2>1, HeadAndTail
  <2> QED
    BY <1>1, <2>2 DEF EptAssumption
<1>3. /\ waiting \in Seq(EptTileSet) /\ IsInjective(waiting) /\ EptQueue = ToSet(waiting)
  BY <1>2, LateQueue
<1>4. /\ waiting' \in Seq(EptTileSet) /\ IsInjective(waiting') /\ tile \in ToSet(waiting)
      /\ ToSet(waiting') = ToSet(waiting) \ {tile}
  BY <1>1, <1>3, LeavesQueue
<1>5. EptTypes'
  BY <1>1 DEF EptTypes, foundVars, readerVars
<1>6. FoundInv'
  BY <1>1, <1>2, <1>4 DEF FoundInv, Early, foundVars, readerVars
<1>7. EptQueue' = EptQueue \ {tile} /\ tile \in EptQueue
  BY <1>3, <1>4 DEF EptQueue
<1>8. /\ Seven'[1] = Seven[1] /\ Seven'[2] = Seven[2] \ {tile}
      /\ Seven'[3] = Seven[3] \cup {tile} /\ Seven'[4] = Seven[4] /\ Seven'[5] = Seven[5]
      /\ Seven'[6] = Seven[6] /\ Seven'[7] = Seven[7] /\ tile \in Seven[2]
  BY <1>1, <1>7, SevenNames, SevenNamesNext DEF TileInHand, foundVars, readerVars
<1>9. SevenInv'
  <2>1. \A i \in 1 .. 7 : i \notin {2, 3} => Seven'[i] = Seven[i]
    BY <1>8, IndexIsOne DEF SevenIndices
  <2> QED
    BY <1>1, <1>8, <2>1, SevenMoved DEF foundVars
<1>10. EptCountInv'
  BY <1>1, <1>2, CountsStay DEF Lowering, foundVars, readerVars
<1> QED
  BY <1>5, <1>6, <1>9, <1>10

LEMMA EptPushes ==
    ASSUME EptAssumption, EptInv, NEW tile \in EptTileSet, Push(tile) PROVE EptInv'
<1> USE DEF EptInv
<1>1. /\ tile \in fetched /\ fetched' = fetched \ {tile} /\ told' = told \cup {tile}
      /\ UNCHANGED <<ept, foundVars, m_tileCount, eptDone, skipped, readerVars, poolVars>>
  BY DEF Push, GivesTile
<1>2. eptReader \notin Early
  BY <1>1, HasTile
<1>3. PoolThreads \in Nat /\ eptContents \in Seq(EptTileSet) /\ IsInjective(eptContents)
  BY EptFacts DEF EptTypes
<1>4. FoundInv'
  BY <1>1, <1>2 DEF FoundInv, Early, foundVars, readerVars, poolVars
<1>5. EptCountInv'
  BY <1>1, <1>2, CountsStay DEF Lowering, foundVars, readerVars
<1>6. /\ Seven'[1] = Seven[1] /\ Seven'[2] = Seven[2] /\ Seven'[3] = Seven[3] \ {tile}
      /\ Seven'[5] = Seven[5] /\ Seven'[6] = Seven[6] /\ Seven'[7] = Seven[7]
      /\ tile \in Seven[3]
  BY <1>1, SevenNames, SevenNamesNext DEF TileInHand, EptQueue, foundVars, readerVars, poolVars
<1>7. CASE ~eptDone /\ Len(eptContents) < PoolThreads /\ eptContents' = Append(eptContents, tile)
  <2>1. tile \notin ToSet(eptContents)
    BY <1>6, SevenNames, SevenApart
  <2>2. /\ eptContents' \in Seq(EptTileSet) /\ IsInjective(eptContents')
        /\ Len(eptContents') = Len(eptContents) + 1
        /\ ToSet(eptContents') = ToSet(eptContents) \cup {tile}
    BY <1>3, <1>7, <2>1, Joins
  <2>3. Len(eptContents') <= PoolThreads
    <3>1. Len(eptContents) \in Nat
      BY <1>3
    <3> QED
      BY <1>3, <1>7, <2>2, <3>1, SMT
  <2>4. EptTypes'
    BY <1>1, <2>2, <2>3 DEF EptTypes, foundVars, readerVars
  <2>5. Seven'[4] = Seven[4] \cup {tile}
    BY <2>2, SevenNames, SevenNamesNext
  <2>6. SevenInv'
    <3>1. \A i \in 1 .. 7 : i \notin {3, 4} => Seven'[i] = Seven[i]
      BY <1>6, IndexIsOne DEF SevenIndices
    <3> QED
      BY <1>1, <1>6, <2>5, <3>1, SevenMoved DEF foundVars
  <2> QED
    BY <1>4, <1>5, <2>4, <2>6
<1>8. CASE eptDone /\ UNCHANGED eptContents
  <2>1. EptTypes'
    BY <1>1, <1>8 DEF EptTypes, foundVars, readerVars
  <2>2. Seven'[4] = Seven[4]
    BY <1>8, SevenNames, SevenNamesNext
  <2>3. \A i \in 1 .. 7 : Seven'[i] \subseteq Seven[i]
    BY <1>6, <2>2, IndexIsOne DEF SevenIndices
  <2>4. SevenInv'
    BY <1>1, <1>8, <2>3, SevenLess DEF foundVars
  <2> QED
    BY <1>4, <1>5, <2>1, <2>4
<1> QED
  BY <1>7, <1>8 DEF Push

LEMMA EptSkips ==
    ASSUME EptAssumption, EptInv, NEW tile \in EptTileSet, Skip(tile) PROVE EptInv'
<1> USE DEF EptInv
<1>1. /\ tile \in fetched /\ fetched' = fetched \ {tile} /\ told' = told \cup {tile}
      /\ skipped' = skipped \cup {tile} /\ m_tileCount' = m_tileCount - 1
      /\ UNCHANGED <<ept, foundVars, eptDone, eptContents, readerVars, poolVars>>
  BY DEF Skip
<1>2. eptReader \notin Early
  BY <1>1, HasTile
<1>3. EptTypes'
  BY <1>1 DEF EptTypes, foundVars, readerVars
<1>4. FoundInv'
  BY <1>1, <1>2 DEF FoundInv, Early, foundVars, readerVars, poolVars
<1>5. /\ Seven'[1] = Seven[1] /\ Seven'[2] = Seven[2] /\ Seven'[3] = Seven[3] \ {tile}
      /\ Seven'[4] = Seven[4] /\ Seven'[5] = Seven[5] /\ Seven'[6] = Seven[6]
      /\ Seven'[7] = Seven[7] \cup {tile} /\ tile \in Seven[3]
  BY <1>1, SevenNames, SevenNamesNext DEF TileInHand, EptQueue, foundVars, readerVars, poolVars
<1>6. SevenInv'
  <2>1. \A i \in 1 .. 7 : i \notin {3, 7} => Seven'[i] = Seven[i]
    BY <1>5, IndexIsOne DEF SevenIndices
  <2> QED
    BY <1>1, <1>5, <2>1, SevenMoved DEF foundVars
<1>7. tile \in TilesLeft
  BY <1>5, SevenNames, SevenApart DEF TilesLeft
<1>8. TilesLeft' = TilesLeft \ {tile} /\ TilesLeft \subseteq EptTileSet
  BY <1>1 DEF TilesLeft, foundVars, readerVars, EptTypes
<1>9. EptCountInv'
  <2>1. Cardinality(TilesLeft') = Cardinality(TilesLeft) - 1
        /\ Cardinality(TilesLeft) \in 1 .. TileTotal /\ TileTotal \in Nat
    BY <1>7, <1>8, OneLess, EptFacts
  <2>2. Lowering' = Lowering /\ Lowering \in {0, 1}
    BY <1>1 DEF Lowering, readerVars
  <2>3. /\ m_tileCount \in 0 .. TileTotal /\ oldCount \in 0 .. TileTotal
        /\ Cardinality(TilesLeft) + Lowering <= m_tileCount
        /\ eptReader = "storing" => m_tileCount <= oldCount
        /\ numRead = Cardinality(eptRead)
    BY <1>2 DEF EptCountInv, EptTypes
  <2>4. /\ m_tileCount - 1 \in 0 .. TileTotal
        /\ Cardinality(TilesLeft') + Lowering' <= m_tileCount - 1
        /\ eptReader = "storing" => m_tileCount - 1 <= oldCount
    BY ONLY <2>1, <2>2, <2>3, SMT
  <2> QED
    BY <1>1, <2>3, <2>4 DEF EptCountInv, readerVars
<1> QED
  BY <1>3, <1>4, <1>6, <1>9

LEMMA EptNotifies ==
    ASSUME EptAssumption, EptInv, NEW tile \in EptTileSet, Notify(tile) PROVE EptInv'
<1> USE DEF EptInv
<1>1. /\ tile \in told /\ told' = told \ {tile}
      /\ running' = running \ {tile} /\ waiting' = waiting
      /\ eptReader' = IF eptReader = "asleep" THEN "reading" ELSE eptReader
      /\ UNCHANGED <<ept, foundVars, m_tileCount, eptDone, eptContents, fetched,
                     skipped, eptTile, oldCount, numRead, eptRead, lost>>
  BY DEF Notify, FinishTask, Go
<1>2. eptReader \notin Early
  BY <1>1, HasTile
<1>3. EptTypes'
  BY <1>1 DEF EptTypes, EptPlacesOf, foundVars
<1>4. FoundInv'
  BY <1>1, <1>2 DEF FoundInv, Early, foundVars
<1>5. Seven' = Seven
  BY <1>1 DEF Seven, EptQueue, TileInHand, foundVars
<1>6. SevenInv'
  BY <1>1, <1>5 DEF SevenInv, Apart, Everywhere, foundVars
<1>7. EptCountInv'
  BY <1>1, <1>2, CountsStay DEF Lowering, foundVars
<1> QED
  BY <1>3, <1>4, <1>6, <1>7


LEMMA EptPops == ASSUME EptAssumption, EptInv, Pop PROVE EptInv'
<1> USE DEF EptInv
<1> DEFINE tile == Head(eptContents)
<1>1. /\ eptReader = "reading" /\ eptContents # <<>> /\ eptTile' = tile
      /\ eptContents' = Tail(eptContents) /\ eptReader' = "checking"
      /\ UNCHANGED <<ept, poolVars, foundVars, m_tileCount, eptDone, fetched,
                     told, skipped, oldCount, numRead, eptRead, lost>>
  BY DEF Pop, Go
<1>2. eptReader \notin Early
  BY <1>1 DEF Early
<1>3. PoolThreads \in Nat /\ eptContents \in Seq(EptTileSet) /\ IsInjective(eptContents)
      /\ Len(eptContents) <= PoolThreads /\ TileTotal \in Nat
  BY EptFacts DEF EptTypes
<1>4. /\ tile \in EptTileSet /\ tile \in ToSet(eptContents)
      /\ eptContents' \in Seq(EptTileSet) /\ IsInjective(eptContents')
      /\ Len(eptContents') = Len(eptContents) - 1
      /\ ToSet(eptContents') = ToSet(eptContents) \ {tile}
  BY <1>1, <1>3, LeavesQueue
<1> HIDE DEF tile
<1>5. Len(eptContents') <= PoolThreads /\ tile \in 0 .. TileTotal
  <2>1. Len(eptContents) \in Nat
    BY <1>3
  <2> QED
    BY <1>3, <1>4, <2>1, SMT DEF EptTileSet
<1>6. EptTypes'
  BY <1>1, <1>4, <1>5 DEF EptTypes, EptPlacesOf, foundVars
<1>7. FoundInv'
  BY <1>1, <1>2 DEF FoundInv, Early, foundVars, poolVars
<1>8. /\ Seven'[1] = Seven[1] /\ Seven'[2] = Seven[2] /\ Seven'[3] = Seven[3]
      /\ Seven'[4] = Seven[4] \ {tile} /\ Seven'[5] = Seven[5] \cup {tile}
      /\ Seven'[6] = Seven[6] /\ Seven'[7] = Seven[7] /\ tile \in Seven[4]
  BY <1>1, <1>4, SevenNames, SevenNamesNext DEF TileInHand, EptQueue, foundVars, poolVars
<1>9. SevenInv'
  <2>1. \A i \in 1 .. 7 : i \notin {4, 5} => Seven'[i] = Seven[i]
    BY <1>8, IndexIsOne DEF SevenIndices
  <2> QED
    BY <1>1, <1>8, <2>1, SevenMoved DEF foundVars
<1>10. EptCountInv'
  BY <1>1, <1>2, CountsStay DEF Lowering, foundVars
<1> QED
  BY <1>6, <1>7, <1>9, <1>10

LEMMA EptProcesses == ASSUME EptAssumption, EptInv, Process PROVE EptInv'
<1> USE DEF EptInv
<1>1. /\ eptReader = "checking" /\ numRead' = numRead + 1
      /\ eptRead' = eptRead \cup {eptTile} /\ eptReader' = "lowering"
      /\ UNCHANGED <<ept, poolVars, foundVars, tileVars, eptTile, oldCount, lost>>
  BY DEF Process, Go
<1>2. eptReader \notin Early /\ eptTile \in EptTileSet
  BY <1>1 DEF Early, EptTypes
<1>3. EptTypes'
  BY <1>1 DEF EptTypes, EptPlacesOf, foundVars, tileVars
<1>4. FoundInv'
  BY <1>1, <1>2 DEF FoundInv, Early, foundVars, poolVars, tileVars
<1>5. /\ Seven'[1] = Seven[1] /\ Seven'[2] = Seven[2] /\ Seven'[3] = Seven[3]
      /\ Seven'[4] = Seven[4] /\ Seven'[5] = Seven[5] \ {eptTile}
      /\ Seven'[6] = Seven[6] \cup {eptTile} /\ Seven'[7] = Seven[7]
      /\ eptTile \in Seven[5]
  BY <1>1, SevenNames, SevenNamesNext DEF TileInHand, EptQueue, foundVars, poolVars, tileVars
<1>6. SevenInv'
  <2>1. \A i \in 1 .. 7 : i \notin {5, 6} => Seven'[i] = Seven[i]
    BY <1>5, IndexIsOne DEF SevenIndices
  <2> QED
    BY <1>1, <1>5, <2>1, SevenMoved DEF foundVars, tileVars
<1>7. eptTile \in TilesLeft /\ eptTile \notin eptRead
  BY <1>5, SevenNames, SevenApart DEF TilesLeft
<1>8. /\ TilesLeft' = TilesLeft \ {eptTile} /\ TilesLeft \subseteq EptTileSet
      /\ eptRead \subseteq EptTileSet
  <2>1. eptRead \subseteq hierarchy
    BY SevenNames, SevenApart
  <2> QED
    BY <1>1, <2>1 DEF TilesLeft, foundVars, tileVars, EptTypes
<1>9. EptCountInv'
  <2>1. Cardinality(TilesLeft') = Cardinality(TilesLeft) - 1
        /\ Cardinality(TilesLeft) \in 1 .. TileTotal /\ TileTotal \in Nat
    BY <1>7, <1>8, OneLess, EptFacts
  <2>2. Lowering = 0 /\ Lowering' = 1
    BY <1>1 DEF Lowering
  <2>3. /\ m_tileCount \in 0 .. TileTotal
        /\ Cardinality(TilesLeft) + Lowering <= m_tileCount
        /\ numRead = Cardinality(eptRead)
    BY <1>2 DEF EptCountInv
  <2>4. Cardinality(TilesLeft') + Lowering' <= m_tileCount
    BY ONLY <2>1, <2>2, <2>3, SMT
  <2>5. Cardinality(eptRead') = Cardinality(eptRead) + 1
    <3>1. IsFiniteSet(eptRead)
      BY <1>8, TilesFinite
    <3> QED
      BY <1>1, <1>7, <3>1, FS_AddElement
  <2>6. m_tileCount' = m_tileCount /\ eptReader' # "storing"
    BY <1>1 DEF tileVars
  <2> QED
    BY <1>1, <2>3, <2>4, <2>5, <2>6 DEF EptCountInv
<1> QED
  BY <1>3, <1>4, <1>6, <1>9

\* The reader lowers m_tileCount in two steps; what a task lowered between them
\* is lost, and the count is too high but never too low.
LEMMA EptLowers == ASSUME EptAssumption, EptInv, LoadCount \/ StoreCount PROVE EptInv'
<1> USE DEF EptInv
<1>1. /\ eptReader \in {"lowering", "storing"} /\ eptReader' \in {"storing", "looping"}
      /\ eptReader = "storing" <=> eptReader' = "looping"
      /\ UNCHANGED <<ept, poolVars, foundVars, eptDone, eptContents, fetched, told,
                     skipped, eptTile, numRead, eptRead>>
      /\ lost' \in BOOLEAN
  BY DEF LoadCount, StoreCount, Go, tileVars, EptTypes
<1>2. eptReader \notin Early
  BY <1>1 DEF Early
<1>3. /\ TileTotal \in Nat /\ m_tileCount \in 0 .. TileTotal /\ oldCount \in 0 .. TileTotal
      /\ Cardinality(TilesLeft) + 1 <= m_tileCount
      /\ eptReader = "storing" => m_tileCount <= oldCount
      /\ Cardinality(TilesLeft) \in Nat
      /\ numRead = Cardinality(eptRead)
  <2>1. Cardinality(TilesLeft) \in 0 .. TileTotal
    BY TilesFinite DEF TilesLeft, EptTypes
  <2>2. Lowering = 1
    BY <1>1 DEF Lowering
  <2> QED
    BY <1>2, <2>1, <2>2, EptFacts DEF EptCountInv, EptTypes
<1>4. /\ m_tileCount' \in 0 .. TileTotal /\ oldCount' \in 0 .. TileTotal
      /\ Cardinality(TilesLeft) + Lowering' <= m_tileCount'
      /\ eptReader' = "storing" => m_tileCount' <= oldCount'
  <2>1. CASE eptReader = "lowering"
    <3>1. oldCount' = m_tileCount /\ m_tileCount' = m_tileCount /\ eptReader' = "storing"
      BY <2>1 DEF LoadCount, StoreCount, Go, tileVars
    <3>2. Lowering' = 1
      BY <3>1 DEF Lowering
    <3>3. m_tileCount <= m_tileCount
      BY <1>3
    <3> QED
      BY <1>3, <3>1, <3>2, <3>3
  <2>2. CASE eptReader = "storing"
    <3>1. oldCount' = oldCount /\ m_tileCount' = oldCount - 1 /\ eptReader' = "looping"
      BY <2>2 DEF LoadCount, StoreCount, Go
    <3>2. Lowering' = 0
      BY <3>1 DEF Lowering
    <3>3. oldCount - 1 \in 0 .. TileTotal /\ Cardinality(TilesLeft) + 0 <= oldCount - 1
      BY <1>3, <2>2, SMT
    <3> QED
      BY <1>3, <3>1, <3>2, <3>3
  <2> QED
    BY <1>1, <2>1, <2>2
<1>5. EptTypes'
  BY <1>1, <1>4 DEF EptTypes, EptPlacesOf, foundVars
<1>6. FoundInv'
  BY <1>1, <1>2 DEF FoundInv, Early, foundVars, poolVars
<1>7. Seven' = Seven
  BY <1>1 DEF Seven, EptQueue, TileInHand, foundVars, poolVars
<1>8. SevenInv'
  BY <1>1, <1>7 DEF SevenInv, Apart, Everywhere, foundVars
<1>9. EptCountInv'
  <2>1. TilesLeft' = TilesLeft
    BY <1>1 DEF TilesLeft, foundVars
  <2> QED
    BY <1>1, <1>3, <1>4, <2>1 DEF EptCountInv
<1> QED
  BY <1>5, <1>6, <1>8, <1>9

LEMMA EptSteps == ASSUME EptAssumption, EptInv, [EptNext]_eptVars PROVE EptInv'
<1>1. CASE EptReaderStep
  BY <1>1, EptOpens, EptHierarchyRead, EptLoads, EptReaderGoesOn, EptPops, EptProcesses,
     EptClears, EptLowers DEF EptReaderStep
<1>2. ASSUME NEW page \in Pages, EptPageStep(page) PROVE EptInv'
  BY <1>2, EptStartsPage, EptReadsPage, EptPageFails DEF EptPageStep
<1>3. ASSUME NEW tile \in EptTileSet, EptTileStep(tile) PROVE EptInv'
  <2>1. CASE TryLater(tile)
    BY <2>1, EptStays DEF TryLater
  <2> QED
    BY <1>3, <2>1, EptStartsTile, EptPushes, EptSkips, EptNotifies DEF EptTileStep
<1>4. CASE EptEnded \/ UNCHANGED eptVars
  BY <1>4, EptStays DEF EptEnded
<1>5. CASE EptSpurious
  BY <1>5, EptReaderGoesOn
<1> QED
  BY <1>1, <1>2, <1>3, <1>4, <1>5 DEF EptNext

\* EptHolds: the hierarchy has the tiles of the pages read, every tile of it is
\* in one place, and m_tileCount is never below the tiles that are left.
THEOREM EptHolds == ASSUME EptAssumption PROVE EptSpec => []EptInv
<1>1. NoTasks(TRUE) /\ EptInit => EptInv
  BY InitEpt
<1>2. EptInv /\ [EptNext]_eptVars => EptInv'
  BY EptSteps
<1> QED
  BY <1>1, <1>2, PTL DEF EptSpec

LEMMA EptTilesOne == ASSUME EptAssumption PROVE EptInv => EptTileOnce
<1> SUFFICES ASSUME EptInv PROVE EptTileOnce
  OBVIOUS
<1> USE DEF EptInv
<1>1. eptReader \in {"loading", "looping"} =>
         hierarchy = UNION {PageTiles[page] : page \in Pages}
  BY DEF FoundInv, Early
<1>2. \A i, j \in DOMAIN waiting :
         waiting[i] = waiting[j] /\ waiting[i] \in EptTileSet => i = j
  <2>1. CASE eptReader \in Early
    <3>1. waiting \in Seq(Pages)
      BY <2>1 DEF FoundInv
    <3>2. \A i \in DOMAIN waiting : waiting[i] \in Pages
      BY <3>1
    <3> QED
      BY <3>2 DEF EptAssumption
  <2>2. CASE eptReader \notin Early
    BY <2>2 DEF FoundInv, IsInjective
  <2> QED
    BY <2>1, <2>2
<1>3. IsInjective(eptContents)
  BY DEF EptTypes
<1>4. /\ DOMAIN EptPlaces = 1 .. 6
      /\ EptPlaces[1] = Seven[2] /\ EptPlaces[2] = Seven[3] /\ EptPlaces[3] = Seven[4]
      /\ EptPlaces[4] = Seven[5] /\ EptPlaces[5] = Seven[6] /\ EptPlaces[6] = Seven[7]
  BY DEF EptPlaces, Seven, EptQueue
<1>5. \A i \in 1 .. 6 : (i = 1 \/ i = 2 \/ i = 3 \/ i = 4 \/ i = 5 \/ i = 6)
                        /\ i + 1 \in 1 .. 7 /\ i + 1 # 1
  BY SMT
<1>6. \A i \in 1 .. 6 : EptPlaces[i] = Seven[i + 1]
  <2>1. 1 + 1 = 2 /\ 2 + 1 = 3 /\ 3 + 1 = 4 /\ 4 + 1 = 5 /\ 5 + 1 = 6 /\ 6 + 1 = 7
    BY SMT
  <2> QED
    BY <1>4, <1>5, <2>1
<1>7. \A i, j \in 1 .. 6 : EptPlaces[i] \cap EptPlaces[j] # {} => i = j
  <2>1. \A i, j \in 1 .. 6 : i # j => i + 1 # j + 1
    BY SMT
  <2> QED
    BY <1>5, <1>6, <2>1, SevenApart
<1>8. ~eptDone => loaded = UNION {EptPlaces[i] : i \in 1 .. 6}
  <2> SUFFICES ASSUME ~eptDone PROVE loaded = UNION {EptPlaces[i] : i \in 1 .. 6}
    OBVIOUS
  <2>1. Everywhere(Seven) = hierarchy /\ loaded \subseteq hierarchy
    BY DEF SevenInv, EptTypes
  <2>2. ASSUME NEW tile \in loaded PROVE \E i \in 1 .. 6 : tile \in EptPlaces[i]
    <3>1. PICK i \in 1 .. 7 : tile \in Seven[i]
      BY <2>1 DEF Everywhere
    <3>2. i # 1
      BY <3>1, SevenNames
    <3>3. i = 2 \/ i = 3 \/ i = 4 \/ i = 5 \/ i = 6 \/ i = 7
      BY <3>1, <3>2, IndexIsOne DEF SevenIndices
    <3> QED
      BY <1>4, <3>1, <3>3
  <2>3. ASSUME NEW i \in 1 .. 6, NEW tile \in EptPlaces[i] PROVE tile \in loaded
    <3>1. tile \in Seven[i + 1]
      BY <1>6
    <3>2. tile \in hierarchy /\ tile \notin Seven[1]
      BY <1>5, <3>1, SevenApart
    <3> QED
      BY <3>2, SevenNames
  <2> QED
    BY <2>2, <2>3
<1> QED
  BY <1>1, <1>2, <1>3, <1>4, <1>7, <1>8 DEF EptTileOnce

\* The type invariant of the EPT reader.
LEMMA EptTyped == ASSUME EptAssumption PROVE EptInv => EptTypeOK
<1> SUFFICES ASSUME EptInv PROVE EptTypeOK
  OBVIOUS
<1> USE DEF EptInv
<1>1. ept \in EptCase /\ TileTotal \in Nat /\ PoolThreads \in Nat
  BY EptFacts DEF EptTypes, EptAssumption
<1>2. fetched \subseteq hierarchy /\ eptRead \subseteq hierarchy /\ skipped \subseteq hierarchy
  BY SevenNames, SevenApart
<1>3. hierarchy \subseteq EptTileSet /\ loaded \subseteq EptTileSet /\ told \subseteq EptTileSet
  BY DEF EptTypes
<1>4. numRead \in 0 .. TileTotal
  <2>1. Cardinality(eptRead) \in 0 .. TileTotal
    BY <1>2, <1>3, TilesFinite
  <2> QED
    BY <2>1 DEF EptCountInv
<1>5. eptContents \in BoundedSeq(EptTileSet, PoolThreads)
  <2>1. eptContents \in Seq(EptTileSet) /\ Len(eptContents) <= PoolThreads
    BY DEF EptTypes
  <2>2. Len(eptContents) \in 0 .. PoolThreads /\ eptContents \in [1 .. Len(eptContents) -> EptTileSet]
    BY <1>1, <2>1
  <2> QED
    BY <2>2 DEF BoundedSeq, SeqOf
<1> QED
  BY <1>1, <1>2, <1>3, <1>4, <1>5 DEF EptTypeOK, EptTypes, EptPlacesOf, EptCountInv

-----------------------------------------------------------------------------
(***************************************************************************)
(* The reader of a STAC catalog.                                           *)
(*                                                                         *)
(* A link that was added is in the queue, with a thread, or ended; what    *)
(* ended is in the list of its group that it belongs to.                   *)
(***************************************************************************)
StacPlaces == {"starting", "awaiting", "joining", "hoisting", "collecting",
               "extracting", "rejecting", "undefined", "thrown", "rejected", "gone"}
LinksOf(g) == ToSet(CatalogLinks[g])
LeftOut == catalog.failing \cup catalog.filtered
Openers == (IF stacReader = "starting" THEN {} ELSE {RootGroup}) \cup opened
Added == UNION {LinksOf(g) : g \in Openers}
InPool == ToSet(waiting) \cup running
Ended == Added \ InPool

LinkInv ==
    /\ catalog \in CatalogCases
    /\ stacReader \in StacPlaces
    /\ waiting \in Seq(CatalogNodes \ {RootGroup}) /\ IsInjective(waiting)
    /\ ToSet(waiting) \cap running = {}
    /\ InPool \subseteq Added /\ Added \subseteq Reachable
    /\ opened \subseteq (Groups \cap Added) \ LeftOut
    /\ opened \cap ToSet(waiting) = {}
    /\ (Ended \cap Groups) \ LeftOut \subseteq opened
    /\ stacReader = "starting" => opened = {}
    /\ stacReader \notin {"starting", "awaiting"} => Idle

\* What ended and is wanted, in the list of its group.
ListOf(list, g, kind) ==
    /\ list \in Seq(kind) /\ IsInjective(list)
    /\ ToSet(list) = (Ended \cap LinksOf(g) \cap kind) \ LeftOut

Gathering == {"starting", "awaiting", "joining", "hoisting"}
Ending == {"extracting", "rejecting", "thrown", "rejected", "gone"}
ListInv ==
    /\ DOMAIN m_itemList = Groups /\ DOMAIN m_subCatalogs = Groups
    /\ DOMAIN m_errors = Groups
    /\ \A g \in Groups : ListOf(m_itemList[g], g, CatalogItems)
    /\ \A g \in Groups : (stacReader \in Gathering \cup {"undefined"} \/ g # RootGroup) =>
                            ListOf(m_subCatalogs[g], g, Groups)
    /\ \A g \in Groups : (stacReader \notin Ending \/ g # RootGroup) =>
                            m_errors[g] = Ended \cap LinksOf(g) \cap catalog.failing

\* After hoisting the root has every group, then every error.
RootInv ==
    /\ stacReader \in {"collecting"} \cup Ending =>
          /\ m_subCatalogs[RootGroup] \in Seq(Groups)
          /\ IsInjective(m_subCatalogs[RootGroup])
          /\ ToSet(m_subCatalogs[RootGroup]) = opened
    /\ stacReader \in Ending => m_errors[RootGroup] = Added \cap catalog.failing
    /\ stacReader = "rejecting" => m_itemList[RootGroup] = <<>>
    /\ stacReader \in {"thrown", "rejected", "gone"} =>
          (stacReader = "thrown") = (m_errors[RootGroup] # {})

ExtractedInv ==
    /\ extracted \in Seq(CatalogItems)
    /\ stacReader \in {"thrown", "gone"} /\ m_itemList[RootGroup] # <<>> =>
          IsInjective(extracted) /\ ToSet(extracted) = WantedItems

CatalogInv == LinkInv /\ ListInv /\ RootInv /\ ExtractedInv

-----------------------------------------------------------------------------
(***************************************************************************)
(* Sequences one after another.                                            *)
(***************************************************************************)
LEMMA JoinedInjective ==
    ASSUME NEW S, NEW s \in Seq(S), NEW t \in Seq(S), IsInjective(s), IsInjective(t),
           ToSet(s) \cap ToSet(t) = {}
    PROVE  IsInjective(s \o t)
<1> DEFINE u == s \o t
<1>1. /\ u \in Seq(S) /\ Len(u) = Len(s) + Len(t) /\ Len(s) \in Nat /\ Len(t) \in Nat
      /\ \A i \in 1 .. Len(s) : u[i] = s[i]
      /\ \A i \in 1 .. Len(t) : u[Len(s) + i] = t[i]
      /\ DOMAIN u = 1 .. Len(u) /\ DOMAIN s = 1 .. Len(s) /\ DOMAIN t = 1 .. Len(t)
  BY SMT
<1> HIDE DEF u
<1>2. \A i \in 1 .. Len(u) : i \in 1 .. Len(s)
                             \/ (i - Len(s) \in 1 .. Len(t) /\ i = Len(s) + (i - Len(s)))
  BY ONLY <1>1, SMT
<1>3. \A i, j \in 1 .. Len(s) : s[i] = s[j] => i = j
  BY <1>1 DEF IsInjective
<1>4. \A i, j \in 1 .. Len(t) : t[i] = t[j] => i = j
  BY <1>1 DEF IsInjective
<1>5. \A i \in 1 .. Len(s), j \in 1 .. Len(t) : s[i] # t[j]
  BY <1>1 DEF ToSet
<1>6. ASSUME NEW i \in 1 .. Len(u), NEW j \in 1 .. Len(u), u[i] = u[j] PROVE i = j
  <2>1. CASE i \in 1 .. Len(s) /\ j \in 1 .. Len(s)
    BY <1>1, <1>3, <1>6, <2>1
  <2>2. CASE i \in 1 .. Len(s) /\ j - Len(s) \in 1 .. Len(t) /\ j = Len(s) + (j - Len(s))
    <3>1. u[j] = t[j - Len(s)] /\ u[i] = s[i]
      BY <1>1, <2>2
    <3> QED
      BY <1>5, <1>6, <2>2, <3>1
  <2>3. CASE j \in 1 .. Len(s) /\ i - Len(s) \in 1 .. Len(t) /\ i = Len(s) + (i - Len(s))
    <3>1. u[i] = t[i - Len(s)] /\ u[j] = s[j]
      BY <1>1, <2>3
    <3> QED
      BY <1>5, <1>6, <2>3, <3>1
  <2>4. CASE /\ i - Len(s) \in 1 .. Len(t) /\ i = Len(s) + (i - Len(s))
             /\ j - Len(s) \in 1 .. Len(t) /\ j = Len(s) + (j - Len(s))
    <3>1. u[i] = t[i - Len(s)] /\ u[j] = t[j - Len(s)]
      BY <1>1, <2>4
    <3>2. i - Len(s) = j - Len(s)
      BY <1>4, <1>6, <2>4, <3>1
    <3> QED
      BY <2>4, <3>2
  <2> QED
    BY <1>2, <2>1, <2>2, <2>3, <2>4
<1> QED
  BY <1>1, <1>6 DEF IsInjective, u

LEMMA JoinedQueues ==
    ASSUME NEW S, NEW s \in Seq(S), NEW t \in Seq(S), IsInjective(s), IsInjective(t),
           ToSet(s) \cap ToSet(t) = {}
    PROVE  /\ s \o t \in Seq(S) /\ IsInjective(s \o t)
           /\ ToSet(s \o t) = ToSet(s) \cup ToSet(t)
<1>1. s \o t \in Seq(S) /\ ToSet(s \o t) = ToSet(s) \cup ToSet(t)
  BY JoinedSets
<1>2. IsInjective(s \o t)
  BY JoinedInjective
<1> QED
  BY <1>1, <1>2

FlatBody(ss, f, i) == IF i = 1 THEN ss[i] ELSE f[i - 1] \o ss[i]
IsFlat(ss, n, f) == f = [i \in 1 .. n |-> FlatBody(ss, f, i)]

LEMMA FlatExists ==
    ASSUME NEW ss, NEW n \in Nat PROVE \E f : IsFlat(ss, n, f)
<1> DEFINE good == {k \in 0 .. n : \E f : IsFlat(ss, k, f)}
<1>1. 0 \in good
  <2>1. 1 .. 0 = {}
    BY SMT
  <2>2. IsFlat(ss, 0, [i \in 1 .. 0 |-> 0])
    BY <2>1 DEF IsFlat
  <2>3. \E f : IsFlat(ss, 0, f)
    BY <2>2
  <2> QED
    BY <2>3
<1>2. PICK m \in good : \A k \in good : k <= m
  <2>1. good \in SUBSET (0 .. n) /\ good # {}
    BY <1>1
  <2> HIDE DEF good
  <2> QED
    BY ONLY <2>1, GreatestMember, n \in Nat
<1>3. CASE m = n
  BY <1>2, <1>3
<1>4. CASE m # n
  <2>1. PICK f : IsFlat(ss, m, f)
    BY <1>2
  <2>2. m \in Nat /\ m + 1 \in 0 .. n
    BY <1>2, <1>4
  <2> DEFINE h == [i \in 1 .. m + 1 |-> FlatBody(ss, f, i)]
  <2>3. \A i \in 1 .. m : i \in 1 .. m + 1 /\ f[i] = h[i]
    <3>1. \A i \in 1 .. m : i \in 1 .. m + 1
      BY <2>2, SMT
    <3>2. \A i \in 1 .. m : f[i] = FlatBody(ss, f, i)
      BY <2>1 DEF IsFlat
    <3> QED
      BY <3>1, <3>2
  <2>4. ASSUME NEW i \in 1 .. m + 1 PROVE h[i] = FlatBody(ss, h, i)
    <3>1. i = 1 \/ i - 1 \in 1 .. m
      BY <2>2, SMT
    <3>2. i # 1 => f[i - 1] = h[i - 1]
      BY <2>3, <3>1
    <3>3. h[i] = FlatBody(ss, f, i)
      OBVIOUS
    <3> HIDE DEF h
    <3> QED
      BY ONLY <3>2, <3>3 DEF FlatBody
  <2>5. IsFlat(ss, m + 1, h)
    <3>1. h = [i \in 1 .. m + 1 |-> h[i]]
      OBVIOUS
    <3> HIDE DEF h
    <3> QED
      BY ONLY <2>4, <3>1 DEF IsFlat
  <2>6. \E g : IsFlat(ss, m + 1, g)
    BY <2>5
  <2>7. m + 1 \in good
    BY <2>2, <2>6
  <2>8. m + 1 <= m
    BY <1>2, <2>7
  <2> QED
    BY <2>2, <2>8, SMT
<1> QED
  BY <1>3, <1>4

\* What FlattenSeq makes of sequences that share nothing.
LEMMA FlattenFacts ==
    ASSUME NEW S, NEW ss \in Seq(Seq(S)),
           \A i \in DOMAIN ss : IsInjective(ss[i]),
           \A i, j \in DOMAIN ss : i # j => ToSet(ss[i]) \cap ToSet(ss[j]) = {}
    PROVE  /\ FlattenSeq(ss) \in Seq(S) /\ IsInjective(FlattenSeq(ss))
           /\ ToSet(FlattenSeq(ss)) = UNION {ToSet(ss[i]) : i \in DOMAIN ss}
<1> DEFINE n == Len(ss)
<1>1. n \in Nat /\ DOMAIN ss = 1 .. n /\ \A i \in 1 .. n : ss[i] \in Seq(S)
  OBVIOUS
<1>2. CASE n = 0
  <2>1. ss = <<>> /\ DOMAIN ss = {}
    BY <1>2
  <2>2. FlattenSeq(ss) = ss
    BY <1>2 DEF FlattenSeq
  <2>3. <<>> \in Seq(S) /\ IsInjective(<<>>) /\ ToSet(<<>>) = {}
    BY DEF IsInjective, ToSet
  <2>4. UNION {ToSet(ss[i]) : i \in {}} = {}
    OBVIOUS
  <2> QED
    BY ONLY <2>1, <2>2, <2>3, <2>4
<1>3. CASE n # 0
  <2>1. FlattenSeq(ss) = (CHOOSE f : IsFlat(ss, n, f))[n]
    BY <1>3 DEF FlattenSeq, IsFlat, FlatBody
  <2> DEFINE f == CHOOSE g : IsFlat(ss, n, g)
  <2>2. IsFlat(ss, n, f)
    BY <1>1, FlatExists
  <2> HIDE DEF f, n
  <2>3. \A i \in 1 .. n : f[i] = FlatBody(ss, f, i)
    BY <2>2 DEF IsFlat
  <2> DEFINE Flat(i) == /\ f[i] \in Seq(S) /\ IsInjective(f[i])
                        /\ ToSet(f[i]) = UNION {ToSet(ss[j]) : j \in 1 .. i}
             bad == {i \in 1 .. n : ~Flat(i)}
  <2>4. bad = {}
    <3> SUFFICES ASSUME bad # {} PROVE FALSE
      OBVIOUS
    <3>1. PICK i \in bad : \A k \in bad : i <= k
      <4>1. bad \in SUBSET Nat
        BY <1>1
      <4> HIDE DEF bad
      <4> QED
        BY <4>1, LeastMember
    <3>2. i \in 1 .. n /\ ~Flat(i)
      BY <3>1
    <3>3. CASE i = 1
      <4>1. f[i] = ss[1] /\ 1 .. i = {1}
        BY <2>3, <3>2, <3>3 DEF FlatBody
      <4> QED
        BY <1>1, <3>2, <3>3, <4>1
    <3>4. CASE i # 1
      <4>1. i - 1 \in 1 .. n /\ 1 .. i = 1 .. i - 1 \cup {i} /\ ~(i <= i - 1) /\ i \notin 1 .. i - 1
            /\ \A j \in 1 .. i - 1 : j \in 1 .. n
        BY <1>1, <3>2, <3>4, SMT
      <4>2. Flat(i - 1)
        BY <3>1, <4>1
      <4>3. f[i] = f[i - 1] \o ss[i] /\ ss[i] \in Seq(S)
        BY <1>1, <2>3, <3>2, <3>4 DEF FlatBody
      <4>4. ToSet(f[i - 1]) \cap ToSet(ss[i]) = {}
        <5>1. \A j \in 1 .. i - 1 : ToSet(ss[j]) \cap ToSet(ss[i]) = {}
          BY <1>1, <3>2, <4>1
        <5> QED
          BY <4>2, <5>1
      <4>5. IsInjective(ss[i])
        BY <1>1, <3>2
      <4> DEFINE s == f[i - 1]
                 t == ss[i]
      <4>6. /\ s \in Seq(S) /\ t \in Seq(S) /\ IsInjective(s) /\ IsInjective(t)
            /\ ToSet(s) \cap ToSet(t) = {}
        BY <4>2, <4>3, <4>4, <4>5
      <4> HIDE DEF s, t
      <4>7. s \o t \in Seq(S) /\ IsInjective(s \o t) /\ ToSet(s \o t) = ToSet(s) \cup ToSet(t)
        BY ONLY <4>6, JoinedQueues
      <4>8. ToSet(f[i]) = UNION {ToSet(ss[j]) : j \in 1 .. i}
        BY <4>1, <4>2, <4>3, <4>7 DEF s, t
      <4> QED
        BY <3>2, <4>3, <4>7, <4>8 DEF s, t
    <3> QED
      BY <3>3, <3>4
  <2>5. n \in 1 .. n
    BY <1>1, <1>3
  <2>6. Flat(n)
    BY <2>4, <2>5
  <2> QED
    BY <1>1, <2>1, <2>6 DEF f
<1> QED
  BY <1>2, <1>3

-----------------------------------------------------------------------------
(***************************************************************************)
(* The tree of the links.                                                  *)
(***************************************************************************)
LEMMA LinkFacts ==
    ASSUME CatalogAssumption
    PROVE  /\ RootGroup \in Groups /\ Groups \subseteq CatalogNodes
           /\ \A n \in CatalogNodes : n \in Groups \/ n \in CatalogItems
           /\ Groups \cap CatalogItems = {}
           /\ \A g \in Groups : /\ CatalogLinks[g] \in Seq(CatalogNodes \ {RootGroup})
                                /\ IsInjective(CatalogLinks[g])
                                /\ LinksOf(g) \subseteq CatalogNodes \ {RootGroup}
<1>1. /\ RootGroup \in Groups /\ Groups \subseteq CatalogNodes
      /\ \A n \in CatalogNodes : n \in Groups \/ n \in CatalogItems
      /\ Groups \cap CatalogItems = {}
  BY DEF CatalogAssumption, CatalogNodes
<1>2. \A g \in Groups : CatalogLinks[g] \in Seq(CatalogNodes \ {RootGroup})
  BY DEF CatalogAssumption
<1>3. ASSUME NEW g \in Groups PROVE IsInjective(CatalogLinks[g])
  BY DEF CatalogAssumption, IsInjective
<1>4. ASSUME NEW g \in Groups PROVE LinksOf(g) \subseteq CatalogNodes \ {RootGroup}
  <2>1. \A i \in DOMAIN CatalogLinks[g] : CatalogLinks[g][i] \in CatalogNodes \ {RootGroup}
    BY <1>2
  <2> QED
    BY <2>1 DEF LinksOf, ToSet
<1> QED
  BY <1>1, <1>2, <1>3, <1>4

\* Each link belongs to one group.
LEMMA AboveIs ==
    ASSUME CatalogAssumption, NEW g \in Groups, NEW l \in LinksOf(g)
    PROVE  Above(l) = g
<1>1. CatalogLinks \in [Groups -> Seq(CatalogNodes \ {RootGroup})]
  BY DEF CatalogAssumption
<1>2. ASSUME NEW h \in Groups
      PROVE  Contains(CatalogLinks[h], l) <=> l \in LinksOf(h)
  <2>1. DOMAIN CatalogLinks[h] = 1 .. Len(CatalogLinks[h])
    BY <1>1
  <2> QED
    BY <2>1 DEF Contains, LinksOf, ToSet
<1>3. ASSUME NEW h \in Groups, l \in LinksOf(h) PROVE h = g
  <2>1. PICK i \in DOMAIN CatalogLinks[g] : l = CatalogLinks[g][i]
    BY DEF LinksOf, ToSet
  <2>2. PICK j \in DOMAIN CatalogLinks[h] : l = CatalogLinks[h][j]
    BY <1>3 DEF LinksOf, ToSet
  <2> QED
    BY <2>1, <2>2 DEF CatalogAssumption
<1>4. /\ \A h \in Groups : Contains(CatalogLinks[h], l) => h = g
      /\ Contains(CatalogLinks[g], l)
  BY <1>2, <1>3
<1> QED
  BY <1>4 DEF Above

\* What holds of the root and, below a group of which it holds, of its links,
\* holds of all.
LEMMA TreeInduction ==
    ASSUME CatalogAssumption, NEW found \in SUBSET CatalogNodes, RootGroup \in found,
           \A g \in found \cap Groups : \A l \in LinksOf(g) : l \in found
    PROVE  \A n \in CatalogNodes : n \in found
<1>1. \A g \in found \cap Groups : ToSet(CatalogLinks[g]) \subseteq found
  BY DEF LinksOf
<1> QED
  BY <1>1 DEF CatalogAssumption

LEMMA HasAbove ==
    ASSUME CatalogAssumption, NEW l \in CatalogNodes, l # RootGroup
    PROVE  Above(l) \in Groups /\ l \in LinksOf(Above(l))
<1> DEFINE found == {RootGroup} \cup {k \in CatalogNodes : \E g \in Groups : k \in LinksOf(g)}
<1>1. found \in SUBSET CatalogNodes /\ RootGroup \in found
  BY LinkFacts
<1>2. \A g \in found \cap Groups : \A k \in LinksOf(g) : k \in found
  BY LinkFacts
<1>3. l \in found
  <2> HIDE DEF found
  <2> QED
    BY <1>1, <1>2, TreeInduction
<1>4. PICK g \in Groups : l \in LinksOf(g)
  BY <1>3
<1> QED
  BY <1>4, AboveIs

\* The groups above a link: its own and those above that one.
AboveBody(f, l) == IF l = RootGroup THEN {} ELSE {Above(l)} \cup f[Above(l)]
IsAbove(f) == f = [l \in CatalogNodes |-> AboveBody(f, l)]

LEMMA AboveExists == ASSUME CatalogAssumption PROVE \E f : IsAbove(f)
<1> DEFINE Closed(T) == \A k \in T : k # RootGroup => Above(k) \in T
           From(x) == {g \in Groups : \A T \in SUBSET CatalogNodes :
                                         x \in T /\ Closed(T) => g \in T}
           f == [l \in CatalogNodes |-> IF l = RootGroup THEN {} ELSE From(Above(l))]
<1>1. RootGroup \in Groups /\ Groups \subseteq CatalogNodes
  BY LinkFacts
<1>2. ASSUME NEW l \in CatalogNodes PROVE f[l] = AboveBody(f, l)
  <2>1. CASE l = RootGroup
    BY <2>1 DEF AboveBody
  <2>2. CASE l # RootGroup
    <3> DEFINE a == Above(l)
    <3>1. a \in Groups /\ a \in CatalogNodes
      BY <1>1, <2>2, HasAbove
    <3> HIDE DEF a
    <3>2. a \in From(a)
      BY <3>1
    <3>3. From(a) = {a} \cup f[a]
      <4>1. CASE a = RootGroup
        <5>1. {a} \in SUBSET CatalogNodes /\ Closed({a})
          BY <3>1, <4>1
        <5>2. From(a) \subseteq {a}
          BY <5>1
        <5>3. f[a] = {}
          BY <3>1, <4>1
        <5> HIDE DEF From, f
        <5> QED
          BY <3>2, <5>2, <5>3
      <4>2. CASE a # RootGroup
        <5> DEFINE b == Above(a)
        <5>1. f[a] = From(b) /\ b \in Groups /\ b \in CatalogNodes
          BY <1>1, <3>1, <4>2, HasAbove
        <5>b. b = Above(a)
          OBVIOUS
        <5> HIDE DEF b
        <5>2. ASSUME NEW g \in From(a), g # a PROVE g \in From(b)
          <6> SUFFICES ASSUME NEW T \in SUBSET CatalogNodes, b \in T, Closed(T)
                       PROVE  g \in T
            BY <5>2
          <6>1. T \cup {a} \in SUBSET CatalogNodes /\ Closed(T \cup {a})
            BY <3>1, <5>b
          <6>2. g \in T \cup {a}
            BY <5>2, <6>1
          <6> QED
            BY <5>2, <6>2
        <5>3. ASSUME NEW g \in From(b) PROVE g \in From(a)
          <6> SUFFICES ASSUME NEW T \in SUBSET CatalogNodes, a \in T, Closed(T)
                       PROVE  g \in T
            BY <5>3
          <6>1. b \in T
            BY <4>2, <5>b
          <6> QED
            BY <5>3, <6>1
        <5> HIDE DEF From, f
        <5> QED
          BY <3>2, <5>1, <5>2, <5>3
      <4> QED
        BY <4>1, <4>2
    <3>4. f[l] = From(a)
      BY <2>2 DEF a
    <3> HIDE DEF From, f
    <3> QED
      BY <2>2, <3>3, <3>4 DEF AboveBody, a
  <2> QED
    BY <2>1, <2>2
<1>3. f = [l \in CatalogNodes |-> f[l]]
  OBVIOUS
<1> HIDE DEF f
<1>4. IsAbove(f)
  BY ONLY <1>2, <1>3 DEF IsAbove
<1> QED
  BY <1>4

LEMMA LinksAboveIs ==
    ASSUME CatalogAssumption
    PROVE  /\ LinksAbove[RootGroup] = {}
           /\ \A g \in Groups : \A l \in LinksOf(g) :
                 LinksAbove[l] = {g} \cup LinksAbove[g]
<1>1. LinksAbove = CHOOSE f : IsAbove(f)
  BY DEF LinksAbove, IsAbove, AboveBody
<1>2. IsAbove(LinksAbove)
  BY <1>1, AboveExists
<1>3. \A l \in CatalogNodes : LinksAbove[l] = AboveBody(LinksAbove, l)
  BY <1>2 DEF IsAbove
<1>4. LinksAbove[RootGroup] = {}
  BY <1>3, LinkFacts DEF AboveBody
<1>5. ASSUME NEW g \in Groups, NEW l \in LinksOf(g)
      PROVE  LinksAbove[l] = {g} \cup LinksAbove[g]
  BY <1>3, LinkFacts, AboveIs DEF AboveBody
<1> QED
  BY <1>4, <1>5

\* Nothing is above itself, and what is above a group is above its links.
AboveOrdered ==
    \A n \in CatalogNodes :
       /\ LinksAbove[n] \subseteq Groups
       /\ n \notin LinksAbove[n]
       /\ \A a \in LinksAbove[n] : LinksAbove[a] \subseteq LinksAbove[n]

LEMMA AboveIsOrder == ASSUME CatalogAssumption PROVE AboveOrdered
<1> DEFINE Fine(n) == /\ LinksAbove[n] \subseteq Groups
                      /\ n \notin LinksAbove[n]
                      /\ \A a \in LinksAbove[n] : LinksAbove[a] \subseteq LinksAbove[n]
           found == {n \in CatalogNodes : Fine(n)}
<1>1. RootGroup \in found
  BY LinkFacts, LinksAboveIs
<1>2. ASSUME NEW g \in found \cap Groups, NEW l \in LinksOf(g) PROVE l \in found
  <2>1. LinksAbove[l] = {g} \cup LinksAbove[g] /\ l \in CatalogNodes
    BY LinkFacts, LinksAboveIs
  <2>2. Fine(g)
    OBVIOUS
  <2>3. l \notin LinksAbove[l]
    <3> SUFFICES ASSUME l \in LinksAbove[l] PROVE FALSE
      OBVIOUS
    <3>1. CASE l = g
      BY <2>1, <2>2, <3>1
    <3>2. CASE l \in LinksAbove[g]
      BY <2>1, <2>2, <3>2
    <3> QED
      BY <2>1, <3>1, <3>2
  <2>4. ASSUME NEW a \in LinksAbove[l] PROVE LinksAbove[a] \subseteq LinksAbove[l]
    BY <2>1, <2>2
  <2>5. LinksAbove[l] \subseteq Groups
    BY <2>1, <2>2
  <2> QED
    BY <2>1, <2>3, <2>4, <2>5
<1>3. found \in SUBSET CatalogNodes
  OBVIOUS
<1>4. \A n \in CatalogNodes : n \in found
  <2> HIDE DEF found
  <2> QED
    BY <1>1, <1>2, <1>3, TreeInduction
<1> QED
  BY <1>4 DEF AboveOrdered

\* The root is above all, and a group is above a link by one of its own.
LEMMA Branches ==
    ASSUME CatalogAssumption, NEW n \in CatalogNodes
    PROVE  /\ n # RootGroup => RootGroup \in LinksAbove[n]
           /\ \A g \in LinksAbove[n] :
                 n \in LinksOf(g) \/ \E c \in LinksOf(g) \cap Groups : c \in LinksAbove[n]
<1> DEFINE Fine(k) == /\ k # RootGroup => RootGroup \in LinksAbove[k]
                      /\ \A g \in LinksAbove[k] :
                            \/ k \in LinksOf(g)
                            \/ \E c \in LinksOf(g) \cap Groups : c \in LinksAbove[k]
           found == {k \in CatalogNodes : Fine(k)}
<1>1. RootGroup \in found
  BY LinkFacts, LinksAboveIs
<1>2. ASSUME NEW g \in found \cap Groups, NEW l \in LinksOf(g) PROVE l \in found
  <2>1. LinksAbove[l] = {g} \cup LinksAbove[g] /\ l \in CatalogNodes
    BY LinkFacts, LinksAboveIs
  <2>2. Fine(g)
    OBVIOUS
  <2>3. RootGroup \in LinksAbove[l]
    BY <2>1, <2>2
  <2>4. ASSUME NEW h \in LinksAbove[l]
        PROVE  l \in LinksOf(h) \/ \E c \in LinksOf(h) \cap Groups : c \in LinksAbove[l]
    <3>1. CASE h = g
      BY <3>1
    <3>2. CASE h \in LinksAbove[g]
      BY <2>1, <2>2, <3>2
    <3> QED
      BY <2>1, <3>1, <3>2
  <2> QED
    BY <2>1, <2>3, <2>4
<1>3. found \in SUBSET CatalogNodes
  OBVIOUS
<1>4. n \in found
  <2> HIDE DEF found
  <2> QED
    BY <1>1, <1>2, <1>3, TreeInduction
<1> QED
  BY <1>4

\* A link and the groups above it.
UpTo(n) == ({n} \cup LinksAbove[n]) \ {RootGroup}

\* On the way up from a link, one link of each group.
LEMMA OneBranch ==
    ASSUME CatalogAssumption, NEW n \in CatalogNodes,
           NEW g \in Groups, NEW c \in LinksOf(g), NEW d \in LinksOf(g),
           c \in UpTo(n), d \in UpTo(n)
    PROVE  c = d
<1> DEFINE Fine(k) == \A x, y \in UpTo(k) : \A h \in Groups :
                         x \in LinksOf(h) /\ y \in LinksOf(h) => x = y
           found == {k \in CatalogNodes : Fine(k)}
<1>1. RootGroup \in found
  <2>1. UpTo(RootGroup) = {}
    BY LinksAboveIs DEF UpTo
  <2> QED
    BY <2>1, LinkFacts
<1>2. ASSUME NEW k \in found \cap Groups, NEW l \in LinksOf(k) PROVE l \in found
  <2>1. LinksAbove[l] = {k} \cup LinksAbove[k] /\ l \in CatalogNodes /\ k \in CatalogNodes
    BY LinkFacts, LinksAboveIs
  <2>2. Fine(k)
    OBVIOUS
  <2>3. UpTo(l) \subseteq {l} \cup UpTo(k)
    BY <2>1 DEF UpTo
  <2>4. ASSUME NEW y \in UpTo(k), NEW h \in Groups, l \in LinksOf(h), y \in LinksOf(h)
        PROVE  FALSE
    <3>1. h = k
      BY <2>4, AboveIs
    <3>2. k \in LinksAbove[y]
      BY <2>4, <3>1, LinksAboveIs
    <3>3. LinksAbove[y] \subseteq LinksAbove[k]
      BY <2>1, AboveIsOrder DEF AboveOrdered, UpTo
    <3> QED
      BY <2>1, <3>2, <3>3, AboveIsOrder DEF AboveOrdered
  <2>5. Fine(l)
    BY <2>2, <2>3, <2>4
  <2> QED
    BY <2>1, <2>5
<1>3. found \in SUBSET CatalogNodes
  OBVIOUS
<1>4. n \in found
  <2> HIDE DEF found
  <2> QED
    BY <1>1, <1>2, <1>3, TreeInduction
<1> QED
  BY <1>4

\* Among some groups, one that is above none of the others.
LEMMA Deepest ==
    ASSUME CatalogAssumption, NEW some \in SUBSET Groups, some # {}
    PROVE  \E g \in some : \A h \in some : g \notin LinksAbove[h]
<1> DEFINE depths == {Cardinality(LinksAbove[g]) : g \in some}
           N == Cardinality(Groups)
<1>1. IsFiniteSet(Groups) /\ N \in Nat
  <2>1. IsFiniteSet(Groups)
    BY FS_Subset, LinkFacts DEF CatalogAssumption
  <2> QED
    BY <2>1, FS_CardinalityType
<1>2. ASSUME NEW g \in some
      PROVE  IsFiniteSet(LinksAbove[g]) /\ Cardinality(LinksAbove[g]) \in 0 .. N
  <2>1. LinksAbove[g] \subseteq Groups
    BY LinkFacts, AboveIsOrder DEF AboveOrdered
  <2>2. IsFiniteSet(LinksAbove[g]) /\ Cardinality(LinksAbove[g]) <= N
    BY <1>1, <2>1, FS_Subset
  <2>3. Cardinality(LinksAbove[g]) \in Nat
    BY <2>2, FS_CardinalityType
  <2> QED
    BY ONLY <1>1, <2>2, <2>3, SMT
<1>3. PICK m \in depths : \A k \in depths : k <= m
  <2>1. depths \in SUBSET (0 .. N) /\ depths # {}
    BY <1>2
  <2> HIDE DEF depths, N
  <2> QED
    BY <1>1, <2>1, GreatestMember
<1>4. PICK g \in some : m = Cardinality(LinksAbove[g])
  BY <1>3
<1>5. ASSUME NEW h \in some, g \in LinksAbove[h] PROVE FALSE
  <2>1. LinksAbove[g] \subseteq LinksAbove[h] /\ g \notin LinksAbove[g]
    BY <1>5, LinkFacts, AboveIsOrder DEF AboveOrdered
  <2>2. LinksAbove[g] # LinksAbove[h]
    BY <1>5, <2>1
  <2>3. /\ Cardinality(LinksAbove[g]) <= Cardinality(LinksAbove[h])
        /\ Cardinality(LinksAbove[g]) # Cardinality(LinksAbove[h])
    BY <1>2, <2>1, <2>2, FS_Subset
  <2>4. Cardinality(LinksAbove[h]) <= Cardinality(LinksAbove[g])
    BY <1>3, <1>4
  <2>5. Cardinality(LinksAbove[g]) \in 0 .. N /\ Cardinality(LinksAbove[h]) \in 0 .. N
    BY <1>2
  <2> QED
    BY ONLY <1>1, <2>3, <2>4, <2>5, SMT
<1> QED
  BY <1>5

\* A link can be reached when its group can be and is not left out.
LEMMA Reaches ==
    ASSUME CatalogAssumption, catalog \in CatalogCases, NEW g \in Groups, NEW l \in LinksOf(g)
    PROVE  l \in Reachable <=> (g = RootGroup \/ g \in Reachable) /\ g \notin LeftOut
<1>1. RootGroup \notin LeftOut
  BY DEF CatalogAssumption, CatalogCase, LeftOut
<1>2. LinksAbove[l] = {g} \cup LinksAbove[g] /\ l \in CatalogNodes \ {RootGroup}
      /\ g \in CatalogNodes
  BY LinkFacts, LinksAboveIs
<1>3. l \in Reachable <=> LinksAbove[l] \cap LeftOut = {}
  BY <1>2 DEF Reachable, LeftOut
<1>4. g \in Reachable <=> g # RootGroup /\ LinksAbove[g] \cap LeftOut = {}
  BY <1>2 DEF Reachable, LeftOut
<1>5. LinksAbove[RootGroup] = {}
  BY LinksAboveIs
<1> QED
  BY <1>1, <1>2, <1>3, <1>4, <1>5

LEMMA StacFacts ==
    ASSUME CatalogAssumption, LinkInv
    PROVE  /\ Openers \subseteq Groups /\ Added \subseteq CatalogNodes \ {RootGroup}
           /\ opened \subseteq Groups /\ RootGroup \notin opened
           /\ RootGroup \notin LeftOut
           /\ Openers \cap LeftOut = {}
           /\ \A g \in Groups : \A l \in LinksOf(g) : l \in Added <=> g \in Openers
<1>1. opened \subseteq Groups /\ opened \subseteq Added /\ opened \cap LeftOut = {}
  BY DEF LinkInv
<1>2. RootGroup \notin LeftOut
  BY DEF LinkInv, CatalogAssumption, CatalogCase, LeftOut
<1>3. Openers \subseteq Groups
  BY <1>1, LinkFacts DEF Openers
<1>4. Added \subseteq CatalogNodes \ {RootGroup}
  BY <1>3, LinkFacts DEF Added
<1>5. ASSUME NEW g \in Groups, NEW l \in LinksOf(g), l \in Added PROVE g \in Openers
  <2>1. PICK h \in Openers : l \in LinksOf(h)
    BY <1>5 DEF Added
  <2> QED
    BY <1>3, <2>1, AboveIs
<1>6. \A g \in Openers : \A l \in LinksOf(g) : l \in Added
  BY DEF Added
<1>7. Openers \cap LeftOut = {}
  BY <1>1, <1>2 DEF Openers
<1> QED
  BY <1>1, <1>2, <1>3, <1>4, <1>5, <1>6, <1>7

\* The groups above one that was opened have been opened.
LEMMA OpenedAbove ==
    ASSUME CatalogAssumption, LinkInv, NEW n \in opened
    PROVE  LinksAbove[n] \subseteq opened \cup {RootGroup}
<1> DEFINE found == {k \in CatalogNodes :
                        k \in opened => LinksAbove[k] \subseteq opened \cup {RootGroup}}
<1>1. RootGroup \in found
  BY StacFacts, LinkFacts
<1>2. ASSUME NEW g \in found \cap Groups, NEW l \in LinksOf(g) PROVE l \in found
  <2>1. LinksAbove[l] = {g} \cup LinksAbove[g] /\ l \in CatalogNodes
    BY LinkFacts, LinksAboveIs
  <2>2. ASSUME l \in opened PROVE g = RootGroup \/ g \in opened
    <3>1. l \in Added
      BY <2>2 DEF LinkInv
    <3>2. g \in Openers
      BY <3>1, StacFacts
    <3> QED
      BY <3>2 DEF Openers
  <2> QED
    BY <2>1, <2>2, LinksAboveIs
<1>3. found \in SUBSET CatalogNodes
  OBVIOUS
<1>4. n \in CatalogNodes
  BY StacFacts, LinkFacts
<1>5. n \in found
  <2> HIDE DEF found
  <2> QED
    BY <1>1, <1>2, <1>3, <1>4, TreeInduction
<1> QED
  BY <1>5

\* When the pool is idle, every link that can be reached has been added.
LEMMA AllAdded ==
    ASSUME CatalogAssumption, LinkInv, Idle, stacReader # "starting"
    PROVE  Added = Reachable /\ Ended = Added
<1>1. InPool = {} /\ Ended = Added
  <2>1. ToSet(<<>>) = {}
    BY DEF ToSet
  <2> QED
    BY <2>1 DEF Idle, InPool, Ended
<1> DEFINE found == {k \in CatalogNodes : k \in Reachable => k \in Added}
<1>2. RootGroup \in found
  BY LinkFacts DEF Reachable
<1>3. ASSUME NEW g \in found \cap Groups, NEW l \in LinksOf(g) PROVE l \in found
  <2>1. l \in CatalogNodes
    BY LinkFacts
  <2>2. ASSUME l \in Reachable PROVE l \in Added
    <3>1. (g = RootGroup \/ g \in Reachable) /\ g \notin LeftOut
      BY <2>2, Reaches DEF LinkInv
    <3>2. g \in Openers
      <4>1. CASE g = RootGroup
        BY <4>1 DEF Openers
      <4>2. CASE g \in Reachable
        <5>1. g \in (Ended \cap Groups) \ LeftOut
          BY <1>1, <3>1, <4>2
        <5> QED
          BY <5>1 DEF LinkInv, Openers
      <4> QED
        BY <3>1, <4>1, <4>2
    <3> QED
      BY <3>2, StacFacts
  <2> QED
    BY <2>1, <2>2
<1>4. found \in SUBSET CatalogNodes
  OBVIOUS
<1>5. \A n \in CatalogNodes : n \in found
  <2> HIDE DEF found
  <2> QED
    BY <1>2, <1>3, <1>4, TreeInduction
<1>6. Reachable \subseteq CatalogNodes /\ Added \subseteq Reachable
  BY DEF Reachable, LinkInv
<1> QED
  BY <1>1, <1>5, <1>6

-----------------------------------------------------------------------------
(***************************************************************************)
(* Hoisting: each group's list gets every opened group below it.           *)
(***************************************************************************)
SubsFine ==
    \A g \in Groups : /\ m_subCatalogs[g] \in Seq(Groups)
                      /\ IsInjective(m_subCatalogs[g])
                      /\ ToSet(m_subCatalogs[g]) = opened \cap LinksOf(g)

HoistBody(f, g) ==
    m_subCatalogs[g] \o FlattenSeq([i \in DOMAIN m_subCatalogs[g] |->
                                       f[m_subCatalogs[g][i]]])
IsHoisted(f) == f = [g \in Groups |-> HoistBody(f, g)]
Below(g) == {d \in opened : g \in LinksAbove[d]}

\* Only what a group's own list has counts for it.
LEMMA SameBelow ==
    ASSUME NEW g, NEW f, NEW h, \A s \in ToSet(m_subCatalogs[g]) : f[s] = h[s]
    PROVE  HoistBody(f, g) = HoistBody(h, g)
<1>1. \A i \in DOMAIN m_subCatalogs[g] : f[m_subCatalogs[g][i]] = h[m_subCatalogs[g][i]]
  BY DEF ToSet
<1>2. [i \in DOMAIN m_subCatalogs[g] |-> f[m_subCatalogs[g][i]]]
      = [i \in DOMAIN m_subCatalogs[g] |-> h[m_subCatalogs[g][i]]]
  BY <1>1
<1> QED
  BY <1>2 DEF HoistBody

LEMMA HoistExists == ASSUME CatalogAssumption, SubsFine PROVE \E f : IsHoisted(f)
<1> DEFINE Partial(T, f) ==
               /\ \A g \in T : f[g] = HoistBody(f, g)
               /\ \A g \in T : \A s \in ToSet(m_subCatalogs[g]) : s \in T
           rests == {B \in SUBSET Groups : \E f : Partial(Groups \ B, f)}
<1>1. IsFiniteSet(Groups)
  BY FS_Subset, LinkFacts DEF CatalogAssumption
<1>2. Groups \in rests
  <2>1. Partial(Groups \ Groups, <<>>)
    OBVIOUS
  <2>2. \E f : Partial(Groups \ Groups, f)
    BY <2>1
  <2> HIDE DEF Partial
  <2> QED
    BY <2>2
<1>3. PICK B \in rests : \A U \in SUBSET B : U # B => U \notin rests
  <2>1. rests \in SUBSET (SUBSET Groups) /\ rests # {}
    BY <1>2
  <2> HIDE DEF rests
  <2> QED
    BY <1>1, <2>1, Smallest
<1>4. PICK f : Partial(Groups \ B, f)
  BY <1>3
<1>5. B \subseteq Groups
  BY <1>3
<1>6. B = {}
  <2> SUFFICES ASSUME B # {} PROVE FALSE
    OBVIOUS
  <2>1. PICK g \in B : \A h \in B : g \notin LinksAbove[h]
    BY <1>5, Deepest
  <2> DEFINE T == Groups \ B
             C == B \ {g}
             k == [d \in Groups |-> IF d \in T THEN f[d] ELSE HoistBody(f, g)]
  <2>2. ASSUME NEW s \in ToSet(m_subCatalogs[g]) PROVE s \in T
    <3>1. s \in LinksOf(g) /\ s \in Groups /\ g \in Groups
      <4>1. m_subCatalogs[g] \in Seq(Groups) /\ g \in Groups
        BY <1>5 DEF SubsFine
      <4>2. s \in Groups
        BY <4>1, <2>2 DEF ToSet
      <4> QED
        BY <4>1, <4>2, <2>2 DEF SubsFine
    <3>2. g \in LinksAbove[s]
      BY <3>1, LinksAboveIs
    <3> QED
      BY <2>1, <3>1, <3>2
  <2>3. Groups \ C = T \cup {g}
    BY <1>5
  <2>4. \A d \in T : k[d] = f[d]
    OBVIOUS
  <2>5. g \in Groups /\ g \notin T /\ k[g] = HoistBody(f, g)
    BY <1>5
  <2>6. \A d \in T : f[d] = HoistBody(f, d) /\ \A s \in ToSet(m_subCatalogs[d]) : s \in T
    BY <1>4
  <2> HIDE DEF T, k
  <2>7. ASSUME NEW d \in T PROVE k[d] = HoistBody(k, d)
    <3>1. HoistBody(f, d) = HoistBody(k, d)
      BY <2>4, <2>6, SameBelow
    <3> QED
      BY <2>4, <2>6, <3>1
  <2>8. k[g] = HoistBody(k, g)
    <3>1. HoistBody(f, g) = HoistBody(k, g)
      BY <2>2, <2>4, SameBelow
    <3> QED
      BY <2>5, <3>1
  <2>9. Partial(T \cup {g}, k)
    <3>1. \A d \in T \cup {g} : k[d] = HoistBody(k, d)
      BY <2>7, <2>8
    <3>2. \A d \in T \cup {g} : \A s \in ToSet(m_subCatalogs[d]) : s \in T \cup {g}
      BY <2>2, <2>6
    <3> QED
      BY <3>1, <3>2
  <2>10. \E h : Partial(Groups \ C, h)
    <3> HIDE DEF Partial
    <3> QED
      BY <2>3, <2>9
  <2>11. C \in rests
    <3> HIDE DEF Partial
    <3> QED
      BY <1>5, <2>10
  <2> QED
    BY <1>3, <2>1, <2>11
<1>7. \A g \in Groups : f[g] = HoistBody(f, g) /\ \A s \in ToSet(m_subCatalogs[g]) : s \in Groups
  BY <1>4, <1>6
<1> DEFINE h == [g \in Groups |-> f[g]]
<1>8. ASSUME NEW g \in Groups PROVE h[g] = HoistBody(h, g)
  <2>1. \A s \in ToSet(m_subCatalogs[g]) : f[s] = h[s]
    BY <1>7
  <2>2. h[g] = f[g]
    OBVIOUS
  <2> HIDE DEF h
  <2>3. HoistBody(f, g) = HoistBody(h, g)
    BY <2>1, SameBelow
  <2> QED
    BY <1>7, <2>2, <2>3
<1>9. h = [g \in Groups |-> h[g]]
  OBVIOUS
<1> HIDE DEF h
<1>10. IsHoisted(h)
  BY ONLY <1>8, <1>9 DEF IsHoisted
<1> QED
  BY <1>10

LEMMA HoistedIs ==
    ASSUME CatalogAssumption, SubsFine, NEW g \in Groups
    PROVE  Hoisted[g] = HoistBody(Hoisted, g)
<1>1. Hoisted = CHOOSE f : IsHoisted(f)
  BY DEF Hoisted, IsHoisted, HoistBody
<1>2. IsHoisted(Hoisted)
  BY <1>1, HoistExists
<1> QED
  BY <1>2 DEF IsHoisted

HoistedFine(g) ==
    /\ Hoisted[g] \in Seq(Groups) /\ IsInjective(Hoisted[g])
    /\ ToSet(Hoisted[g]) = Below(g)

LEMMA HoistOne ==
    ASSUME CatalogAssumption, LinkInv, SubsFine, NEW g \in Groups,
           \A s \in opened \cap LinksOf(g) : HoistedFine(s)
    PROVE  HoistedFine(g)
<1> DEFINE subs == m_subCatalogs[g]
           ss == [i \in DOMAIN subs |-> Hoisted[subs[i]]]
<1>1. subs \in Seq(Groups) /\ IsInjective(subs) /\ ToSet(subs) = opened \cap LinksOf(g)
  BY DEF SubsFine
<1>2. Hoisted[g] = subs \o FlattenSeq(ss)
  BY HoistedIs DEF HoistBody
<1>3. ASSUME NEW i \in DOMAIN subs
      PROVE  /\ subs[i] \in opened /\ subs[i] \in LinksOf(g) /\ subs[i] \in Groups
             /\ HoistedFine(subs[i])
  <2>1. subs[i] \in ToSet(subs)
    BY DEF ToSet
  <2> HIDE DEF subs
  <2> QED
    BY <1>1, <2>1, StacFacts
<1> HIDE DEF subs
<1>4. ss \in Seq(Seq(Groups)) /\ DOMAIN ss = DOMAIN subs
  <2>1. DOMAIN subs = 1 .. Len(subs) /\ Len(subs) \in Nat
    BY <1>1
  <2>2. \A i \in DOMAIN subs : Hoisted[subs[i]] \in Seq(Groups)
    BY <1>3 DEF HoistedFine
  <2> QED
    BY <2>1, <2>2
<1>5. \A i \in DOMAIN ss : IsInjective(ss[i]) /\ ToSet(ss[i]) = Below(subs[i])
  BY <1>3 DEF HoistedFine
<1> HIDE DEF ss
<1>6. ASSUME NEW c \in LinksOf(g), NEW d \in LinksOf(g), NEW n \in opened, c \in UpTo(n), d \in UpTo(n)
      PROVE  c = d
  BY <1>6, StacFacts, LinkFacts, OneBranch
<1>7. ASSUME NEW c \in LinksOf(g), NEW n \in Below(c) PROVE c \in UpTo(n) /\ n \in opened
  BY <1>7, LinkFacts DEF Below, UpTo
<1>8. ASSUME NEW i \in DOMAIN ss, NEW j \in DOMAIN ss, i # j
      PROVE  ToSet(ss[i]) \cap ToSet(ss[j]) = {}
  <2>1. subs[i] # subs[j]
    BY <1>1, <1>4, <1>8 DEF IsInjective
  <2>2. subs[i] \in LinksOf(g) /\ subs[j] \in LinksOf(g)
    BY <1>3, <1>4
  <2>3. Below(subs[i]) \cap Below(subs[j]) = {}
    BY <1>6, <1>7, <2>1, <2>2
  <2> QED
    BY <1>5, <2>3
<1> DEFINE flat == FlattenSeq(ss)
<1>9. /\ flat \in Seq(Groups) /\ IsInjective(flat)
      /\ ToSet(flat) = UNION {ToSet(ss[i]) : i \in DOMAIN ss}
  <2>1. \A i \in DOMAIN ss : IsInjective(ss[i])
    BY <1>5
  <2> QED
    BY <1>4, <1>8, <2>1, FlattenFacts
<1> HIDE DEF flat
<1>10. ToSet(flat) = UNION {Below(s) : s \in opened \cap LinksOf(g)}
  <2>1. {subs[i] : i \in DOMAIN subs} = opened \cap LinksOf(g)
    BY <1>1 DEF ToSet
  <2>2. ToSet(flat) = UNION {Below(subs[i]) : i \in DOMAIN subs}
    BY <1>4, <1>5, <1>9
  <2>3. ASSUME NEW s \in opened \cap LinksOf(g) PROVE \E i \in DOMAIN subs : s = subs[i]
    BY <2>1
  <2>4. \A i \in DOMAIN subs : subs[i] \in opened \cap LinksOf(g)
    BY <1>3
  <2> QED
    BY <2>2, <2>3, <2>4
<1>11. ASSUME NEW n \in opened \cap LinksOf(g), NEW s \in opened \cap LinksOf(g), n \in Below(s)
       PROVE  FALSE
  <2>1. n \in UpTo(n) /\ s \in UpTo(n)
    BY <1>7, <1>11, LinkFacts DEF UpTo
  <2>2. n = s
    BY <1>6, <2>1
  <2>3. s \notin LinksAbove[s]
    BY LinkFacts, AboveIsOrder DEF AboveOrdered
  <2> QED
    BY <1>11, <2>2, <2>3 DEF Below
<1>12. ToSet(subs) \cap ToSet(flat) = {}
  BY <1>1, <1>10, <1>11
<1>13. /\ subs \o flat \in Seq(Groups) /\ IsInjective(subs \o flat)
       /\ ToSet(subs \o flat) = ToSet(subs) \cup ToSet(flat)
  BY ONLY <1>1, <1>9, <1>12, JoinedQueues
<1>14. ToSet(subs) \cup ToSet(flat) = Below(g)
  <2>1. ASSUME NEW n \in opened \cap LinksOf(g) PROVE n \in Below(g)
    BY LinksAboveIs DEF Below
  <2>2. ASSUME NEW s \in opened \cap LinksOf(g), NEW n \in Below(s) PROVE n \in Below(g)
    <3>1. n \in opened /\ s \in LinksAbove[n] /\ n \in CatalogNodes
      BY StacFacts, LinkFacts DEF Below
    <3>2. g \in LinksAbove[s] /\ LinksAbove[s] \subseteq LinksAbove[n]
      BY <3>1, LinksAboveIs, AboveIsOrder DEF AboveOrdered
    <3> QED
      BY <3>1, <3>2 DEF Below
  <2>3. ASSUME NEW n \in Below(g), n \notin LinksOf(g)
        PROVE  \E s \in opened \cap LinksOf(g) : n \in Below(s)
    <3>1. n \in opened /\ g \in LinksAbove[n] /\ n \in CatalogNodes
      BY StacFacts, LinkFacts DEF Below
    <3>2. PICK c \in LinksOf(g) \cap Groups : c \in LinksAbove[n]
      BY <2>3, <3>1, Branches
    <3>3. c # RootGroup
      BY <3>2, LinkFacts
    <3>4. c \in opened
      BY <3>1, <3>2, <3>3, OpenedAbove
    <3> QED
      BY <3>1, <3>2, <3>4 DEF Below
  <2>4. Below(g) \subseteq opened
    BY DEF Below
  <2> QED
    BY <1>1, <1>10, <2>1, <2>2, <2>3, <2>4
<1> QED
  BY <1>2, <1>13, <1>14 DEF HoistedFine, flat

LEMMA HoistedFacts ==
    ASSUME CatalogAssumption, LinkInv, SubsFine
    PROVE  /\ Hoisted[RootGroup] \in Seq(Groups) /\ IsInjective(Hoisted[RootGroup])
           /\ ToSet(Hoisted[RootGroup]) = opened
<1> DEFINE bad == {g \in Groups : ~HoistedFine(g)}
<1>1. bad = {}
  <2> SUFFICES ASSUME bad # {} PROVE FALSE
    OBVIOUS
  <2>1. PICK g \in bad : \A h \in bad : g \notin LinksAbove[h]
    <3>1. bad \in SUBSET Groups
      OBVIOUS
    <3> HIDE DEF bad
    <3> QED
      BY <3>1, Deepest
  <2>2. g \in Groups /\ ~HoistedFine(g)
    BY <2>1
  <2>3. ASSUME NEW s \in opened \cap LinksOf(g) PROVE HoistedFine(s)
    <3>1. g \in LinksAbove[s] /\ s \in Groups
      BY <2>2, LinksAboveIs, StacFacts
    <3>2. s \notin bad
      BY <2>1, <3>1
    <3> QED
      BY <3>1, <3>2
  <2> QED
    BY <2>2, <2>3, HoistOne
<1>2. HoistedFine(RootGroup)
  BY <1>1, LinkFacts
<1>3. ASSUME NEW d \in opened PROVE RootGroup \in LinksAbove[d]
  BY StacFacts, LinkFacts, Branches
<1>4. Below(RootGroup) = opened
  BY <1>3 DEF Below
<1> QED
  BY <1>2, <1>4 DEF HoistedFine

-----------------------------------------------------------------------------
(***************************************************************************)
(* The steps of a catalog.                                                 *)
(***************************************************************************)
LEMMA InitCatalog == ASSUME CatalogAssumption, NoTasks(TRUE), CatalogInit PROVE CatalogInv
<1> USE DEF CatalogInit, CatalogInitAt, NoTasks
<1>1. ToSet(<<>>) = {} /\ IsInjective(<<>>) /\ <<>> \in Seq(CatalogNodes \ {RootGroup})
      /\ <<>> \in Seq(CatalogItems) /\ <<>> \in Seq(Groups)
  BY DEF ToSet, IsInjective
<1>2. Openers = {} /\ Added = {} /\ InPool = {} /\ Ended = {}
  BY <1>1 DEF Openers, Added, InPool, Ended
<1>3. LinkInv
  BY <1>1, <1>2 DEF LinkInv, StacPlaces, Idle
<1>4. ListInv
  BY <1>1, <1>2 DEF ListInv, ListOf, Ending, Gathering
<1>5. RootInv
  BY DEF RootInv, Ending
<1>6. ExtractedInv
  BY <1>1 DEF ExtractedInv
<1> QED
  BY <1>3, <1>4, <1>5, <1>6 DEF CatalogInv

\* What is handed out from the front of the queue is still with the pool.
LEMMA SameLists ==
    ASSUME ListInv, Ended' = Ended, stacReader' = stacReader,
           UNCHANGED <<catalog, m_itemList, m_subCatalogs, m_errors>>
    PROVE  ListInv'
<1>1. LeftOut' = LeftOut
  BY DEF LeftOut
<1> QED
  BY <1>1 DEF ListInv, ListOf, Ending, Gathering, LinksOf

LEMMA RootStarts == ASSUME CatalogAssumption, CatalogInv, StartRoot PROVE CatalogInv'
<1> USE DEF CatalogInv
<1> DEFINE links == CatalogLinks[RootGroup]
<1>1. /\ stacReader = "starting" /\ stacReader' = "awaiting"
      /\ waiting' = waiting \o links /\ running' = running
      /\ UNCHANGED <<catalog, opened, m_itemList, m_subCatalogs, m_errors, extracted>>
  BY DEF StartRoot, AddTasks
<1>2. opened = {} /\ Added = {} /\ InPool = {} /\ Ended = {}
  BY <1>1 DEF LinkInv, Openers, Added, Ended
<1>3. /\ links \in Seq(CatalogNodes \ {RootGroup}) /\ IsInjective(links)
      /\ ToSet(links) = LinksOf(RootGroup) /\ RootGroup \in Groups
  BY LinkFacts DEF LinksOf
<1> HIDE DEF links
<1>4. waiting \in Seq(CatalogNodes \ {RootGroup}) /\ IsInjective(waiting) /\ ToSet(waiting) = {}
      /\ running = {}
  BY <1>2 DEF LinkInv, InPool
<1>5. /\ waiting' \in Seq(CatalogNodes \ {RootGroup}) /\ IsInjective(waiting')
      /\ ToSet(waiting') = LinksOf(RootGroup)
  <2>1. ToSet(waiting) \cap ToSet(links) = {}
    BY <1>4
  <2>2. waiting \in Seq(CatalogNodes \ {RootGroup}) /\ IsInjective(waiting)
    BY <1>4
  <2>3. links \in Seq(CatalogNodes \ {RootGroup}) /\ IsInjective(links)
    BY <1>3
  <2>4. /\ waiting \o links \in Seq(CatalogNodes \ {RootGroup}) /\ IsInjective(waiting \o links)
        /\ ToSet(waiting \o links) = ToSet(waiting) \cup ToSet(links)
    BY ONLY <2>1, <2>2, <2>3, JoinedQueues
  <2> QED
    BY <1>1, <1>3, <1>4, <2>4
<1>6. /\ Openers' = {RootGroup} /\ Added' = LinksOf(RootGroup) /\ InPool' = LinksOf(RootGroup)
      /\ Ended' = {}
  BY <1>1, <1>2, <1>4, <1>5 DEF Openers, Added, InPool, Ended, LinksOf
<1>7. LinksOf(RootGroup) \subseteq Reachable /\ Reachable' = Reachable /\ LeftOut' = LeftOut
  <2>1. RootGroup \notin LeftOut
    BY StacFacts
  <2>2. \A l \in LinksOf(RootGroup) : l \in Reachable
    BY <1>3, <2>1, Reaches DEF LinkInv
  <2> QED
    BY <1>1, <2>2 DEF Reachable, LeftOut
<1>8. LinkInv'
  <2>1. /\ InPool' \subseteq Added' /\ Added' \subseteq Reachable'
        /\ opened' \subseteq (Groups \cap Added') \ LeftOut'
        /\ opened' \cap ToSet(waiting') = {}
        /\ (Ended' \cap Groups) \ LeftOut' \subseteq opened'
        /\ ToSet(waiting') \cap running' = {}
    BY <1>1, <1>2, <1>4, <1>6, <1>7
  <2> QED
    BY <1>1, <1>5, <2>1 DEF LinkInv, StacPlaces
<1>9. ListInv'
  BY <1>1, <1>2, <1>6, <1>7 DEF ListInv, ListOf, Ending, Gathering, LinksOf
<1>10. RootInv'
  BY <1>1 DEF RootInv, Ending
<1>11. ExtractedInv'
  BY <1>1 DEF ExtractedInv
<1> QED
  BY <1>8, <1>9, <1>10, <1>11

LEMMA LinkStarts ==
    ASSUME CatalogAssumption, CatalogInv, NEW l \in CatalogNodes, StartLink(l) PROVE CatalogInv'
<1> USE DEF CatalogInv
<1>1. /\ waiting # <<>> /\ l = Head(waiting) /\ waiting' = Tail(waiting)
      /\ running' = running \cup {l}
      /\ UNCHANGED <<catalog, stacReader, opened, m_itemList, m_subCatalogs, m_errors, extracted>>
  BY DEF StartLink, StartTask, catalogState
<1>2. /\ waiting' \in Seq(CatalogNodes \ {RootGroup}) /\ IsInjective(waiting')
      /\ ToSet(waiting') = ToSet(waiting) \ {l} /\ l \in ToSet(waiting)
  BY <1>1, LeavesQueue DEF LinkInv
<1>3. /\ InPool' = InPool /\ Added' = Added /\ Ended' = Ended /\ Reachable' = Reachable
      /\ LeftOut' = LeftOut
  BY <1>1, <1>2 DEF InPool, Openers, Added, Ended, Reachable, LeftOut, LinksOf
<1>4. LinkInv'
  BY <1>1, <1>2, <1>3 DEF LinkInv, Idle
<1>5. ListInv'
  BY <1>1, <1>3, SameLists
<1>6. RootInv' /\ ExtractedInv'
  <2>1. WantedItems' = WantedItems
    BY <1>1, <1>3 DEF WantedItems
  <2> QED
    BY <1>1, <1>3, <2>1 DEF RootInv, ExtractedInv, Ending
<1> QED
  BY <1>4, <1>5, <1>6

\* A task that ends: its link is with the pool no more.
LEMMA LinkEnds ==
    ASSUME CatalogAssumption, CatalogInv, NEW l \in CatalogNodes, FinishTask(l),
           UNCHANGED <<catalog, stacReader, opened, extracted>>,
           l \in Groups \ LeftOut => l \in opened
    PROVE  /\ LinkInv' /\ ExtractedInv'
           /\ stacReader = "awaiting" /\ LeftOut' = LeftOut
           /\ Ended' = Ended \cup {l} /\ l \notin Ended
           /\ Above(l) \in Groups /\ l \in LinksOf(Above(l))
           /\ \A g \in Groups : g # Above(l) => l \notin LinksOf(g)
<1> USE DEF CatalogInv
<1>1. /\ l \in running /\ running' = running \ {l} /\ waiting' = waiting
  BY DEF FinishTask
<1>2. l \in Added /\ l \notin ToSet(waiting) /\ l \in InPool
  BY <1>1 DEF LinkInv, InPool
<1>3. stacReader = "awaiting"
  <2>1. stacReader # "starting"
    <3>1. stacReader = "starting" => Added = {}
      BY DEF LinkInv, Openers, Added
    <3> QED
      BY <1>2, <3>1
  <2> QED
    BY <1>1, <2>1 DEF LinkInv, Idle
<1>4. /\ InPool' = InPool \ {l} /\ Added' = Added /\ Reachable' = Reachable
      /\ LeftOut' = LeftOut
  BY <1>1, <1>2 DEF InPool, Openers, Added, Reachable, LeftOut, LinksOf
<1>5. Ended' = Ended \cup {l} /\ l \notin Ended
  BY <1>2, <1>4 DEF Ended
<1>6. LinkInv'
  <2>1. (Ended' \cap Groups) \ LeftOut' \subseteq opened'
    BY <1>4, <1>5 DEF LinkInv
  <2> QED
    BY <1>1, <1>3, <1>4, <2>1 DEF LinkInv, StacPlaces
<1>7. ExtractedInv'
  BY <1>3 DEF ExtractedInv
<1>8. Above(l) \in Groups /\ l \in LinksOf(Above(l))
  <2>1. l # RootGroup
    BY <1>2, StacFacts
  <2> QED
    BY <2>1, HasAbove
<1>9. \A g \in Groups : g # Above(l) => l \notin LinksOf(g)
  BY AboveIs
<1> QED
  BY <1>3, <1>4, <1>5, <1>6, <1>7, <1>8, <1>9

\* The lists when a link ended that belongs in none or in one of them.
StillListed(l) ==
    /\ \A g \in Groups :
          m_itemList'[g] = IF l \in LinksOf(g) /\ l \in CatalogItems \ LeftOut
                           THEN Append(m_itemList[g], l) ELSE m_itemList[g]
    /\ \A g \in Groups :
          m_subCatalogs'[g] = IF l \in LinksOf(g) /\ l \in Groups \ LeftOut
                              THEN Append(m_subCatalogs[g], l) ELSE m_subCatalogs[g]
    /\ \A g \in Groups :
          m_errors'[g] = IF l \in LinksOf(g) /\ l \in catalog.failing
                         THEN m_errors[g] \cup {l} ELSE m_errors[g]
    /\ DOMAIN m_itemList' = Groups /\ DOMAIN m_subCatalogs' = Groups
    /\ DOMAIN m_errors' = Groups

\* A list that has what ended, when one more link has.
ListHas(list, kind, set) == list \in Seq(kind) /\ IsInjective(list) /\ ToSet(list) = set
GrowsBy(l, list, next, kind, old, new) ==
    \/ next = list /\ new = old
    \/ next = Append(list, l) /\ new = old \cup {l} /\ l \in kind /\ l \notin old

LEMMA ListGrows ==
    ASSUME NEW l, NEW list, NEW next, NEW kind, NEW old, NEW new, ListHas(list, kind, old),
           GrowsBy(l, list, next, kind, old, new)
    PROVE  ListHas(next, kind, new)
<1>1. CASE next = list /\ new = old
  BY <1>1
<1>2. CASE next = Append(list, l) /\ new = old \cup {l} /\ l \in kind /\ l \notin old
  <2>1. list \in Seq(kind) /\ IsInjective(list) /\ ToSet(list) = old
    BY DEF ListHas
  <2>2. /\ Append(list, l) \in Seq(kind) /\ IsInjective(Append(list, l))
        /\ ToSet(Append(list, l)) = ToSet(list) \cup {l}
    BY <1>2, <2>1, Joins
  <2> QED
    BY <1>2, <2>1, <2>2 DEF ListHas
<1> QED
  BY <1>1, <1>2 DEF GrowsBy

LEMMA ListsGrow ==
    ASSUME ListInv, NEW l, StillListed(l), stacReader = "awaiting", stacReader' = stacReader,
           UNCHANGED catalog, Ended' = Ended \cup {l}, l \notin Ended
    PROVE  ListInv'
<1>1. LeftOut' = LeftOut
  BY DEF LeftOut
<1>2. ASSUME NEW g \in Groups PROVE ListOf(m_itemList[g], g, CatalogItems)'
  <2> DEFINE list == m_itemList[g]
             next == m_itemList'[g]
             old == (Ended \cap LinksOf(g) \cap CatalogItems) \ LeftOut
             new == (Ended' \cap LinksOf(g) \cap CatalogItems) \ LeftOut
  <2>1. ListHas(list, CatalogItems, old)
    BY DEF ListInv, ListOf, ListHas
  <2>2. GrowsBy(l, list, next, CatalogItems, old, new)
    BY DEF StillListed, GrowsBy
  <2> HIDE DEF list, next, old, new
  <2>3. ListHas(next, CatalogItems, new)
    BY ONLY <2>1, <2>2, ListGrows
  <2> QED
    BY <1>1, <2>3 DEF ListOf, ListHas, next, new, LinksOf
<1>3. ASSUME NEW g \in Groups PROVE ListOf(m_subCatalogs[g], g, Groups)'
  <2> DEFINE list == m_subCatalogs[g]
             next == m_subCatalogs'[g]
             old == (Ended \cap LinksOf(g) \cap Groups) \ LeftOut
             new == (Ended' \cap LinksOf(g) \cap Groups) \ LeftOut
  <2>1. ListHas(list, Groups, old)
    BY DEF ListInv, ListOf, ListHas, Gathering
  <2>2. GrowsBy(l, list, next, Groups, old, new)
    BY DEF StillListed, GrowsBy
  <2> HIDE DEF list, next, old, new
  <2>3. ListHas(next, Groups, new)
    BY ONLY <2>1, <2>2, ListGrows
  <2> QED
    BY <1>1, <2>3 DEF ListOf, ListHas, next, new, LinksOf
<1>4. ASSUME NEW g \in Groups
      PROVE  m_errors'[g] = Ended' \cap LinksOf(g) \cap catalog.failing
  <2>1. m_errors[g] = Ended \cap LinksOf(g) \cap catalog.failing
    BY DEF ListInv, Ending
  <2> QED
    BY <2>1 DEF StillListed
<1>5. catalog' = catalog /\ DOMAIN m_itemList' = Groups /\ DOMAIN m_subCatalogs' = Groups
      /\ DOMAIN m_errors' = Groups /\ \A g \in Groups : LinksOf(g)' = LinksOf(g)
  BY DEF StillListed, LinksOf
<1> QED
  BY <1>2, <1>3, <1>4, <1>5 DEF ListInv

LEMMA AwaitingHolds ==
    ASSUME CatalogAssumption, CatalogInv, NEW l \in CatalogNodes, FinishTask(l),
           UNCHANGED <<catalog, stacReader, opened, extracted>>,
           l \in Groups \ LeftOut => l \in opened,
           StillListed(l)
    PROVE  CatalogInv'
<1>1. /\ LinkInv' /\ ExtractedInv' /\ stacReader = "awaiting"
      /\ Ended' = Ended \cup {l} /\ l \notin Ended
  BY LinkEnds
<1>2. ListInv'
  BY <1>1, ListsGrow DEF CatalogInv
<1>3. RootInv'
  BY <1>1 DEF RootInv, Ending
<1> QED
  BY <1>1, <1>2, <1>3 DEF CatalogInv

\* The group above a link that is with the pool.
LEMMA GroupOf ==
    ASSUME CatalogAssumption, CatalogInv, NEW l \in running
    PROVE  /\ Above(l) \in Groups /\ l \in CatalogNodes
           /\ \A g \in Groups : l \in LinksOf(g) <=> g = Above(l)
<1>1. l \in Added
  BY DEF CatalogInv, LinkInv, InPool
<1>2. l \in CatalogNodes \ {RootGroup}
  BY <1>1, StacFacts DEF CatalogInv
<1>3. Above(l) \in Groups /\ l \in LinksOf(Above(l))
  BY <1>2, HasAbove
<1>4. \A g \in Groups : l \in LinksOf(g) => g = Above(l)
  BY AboveIs
<1> QED
  BY <1>2, <1>3, <1>4

LEMMA FailsLink ==
    ASSUME CatalogAssumption, CatalogInv, NEW l \in CatalogNodes, LinkFails(l)
    PROVE  CatalogInv'
<1>1. /\ l \in catalog.failing /\ l \in LeftOut /\ FinishTask(l) /\ l \in running
      /\ m_errors' = [m_errors EXCEPT ![Above(l)] = @ \cup {l}]
      /\ UNCHANGED <<catalog, stacReader, opened, m_itemList, m_subCatalogs, extracted>>
  BY DEF LinkFails, FinishTask, LeftOut, Reports
<1>2. /\ Above(l) \in Groups /\ \A g \in Groups : l \in LinksOf(g) <=> g = Above(l)
  BY <1>1, GroupOf
<1>3. StillListed(l)
  <2>1. DOMAIN m_itemList = Groups /\ DOMAIN m_subCatalogs = Groups /\ DOMAIN m_errors = Groups
    BY DEF CatalogInv, ListInv
  <2> QED
    BY <1>1, <1>2, <2>1 DEF StillListed
<1> QED
  BY <1>1, <1>3, AwaitingHolds

LEMMA FiltersLink ==
    ASSUME CatalogAssumption, CatalogInv, NEW l \in CatalogNodes, LinkFiltered(l)
    PROVE  CatalogInv'
<1>1. /\ l \notin catalog.failing /\ l \in LeftOut /\ FinishTask(l)
      /\ UNCHANGED <<catalog, stacReader, opened, m_itemList, m_subCatalogs, m_errors, extracted>>
  BY DEF LinkFiltered, FinishTask, LeftOut, catalogState
<1>2. StillListed(l)
  <2>1. DOMAIN m_itemList = Groups /\ DOMAIN m_subCatalogs = Groups /\ DOMAIN m_errors = Groups
    BY DEF CatalogInv, ListInv
  <2> QED
    BY <1>1, <2>1 DEF StillListed
<1> QED
  BY <1>1, <1>2, AwaitingHolds

LEMMA KeepsItem ==
    ASSUME CatalogAssumption, CatalogInv, NEW l \in CatalogNodes, HandleItem(l)
    PROVE  CatalogInv'
<1>1. /\ l \notin catalog.failing /\ l \notin LeftOut /\ FinishTask(l) /\ l \in running
      /\ l \in CatalogItems /\ l \notin Groups
      /\ m_itemList' = [m_itemList EXCEPT ![Above(l)] = Append(@, l)]
      /\ UNCHANGED <<catalog, stacReader, opened, m_subCatalogs, m_errors, extracted>>
  BY LinkFacts DEF HandleItem, FinishTask, LeftOut, Adds
<1>2. /\ Above(l) \in Groups /\ \A g \in Groups : l \in LinksOf(g) <=> g = Above(l)
  BY <1>1, GroupOf
<1>3. StillListed(l)
  <2>1. DOMAIN m_itemList = Groups /\ DOMAIN m_subCatalogs = Groups /\ DOMAIN m_errors = Groups
    BY DEF CatalogInv, ListInv
  <2> QED
    BY <1>1, <1>2, <2>1 DEF StillListed
<1> QED
  BY <1>1, <1>3, AwaitingHolds

LEMMA KeepsGroup ==
    ASSUME CatalogAssumption, CatalogInv, NEW l \in CatalogNodes, KeepGroup(l)
    PROVE  CatalogInv'
<1>1. /\ l \in opened /\ l \notin LeftOut /\ l \in Groups /\ l \notin CatalogItems
      /\ l \notin catalog.failing /\ FinishTask(l) /\ l \in running
      /\ m_subCatalogs' = [m_subCatalogs EXCEPT ![Above(l)] = Append(@, l)]
      /\ UNCHANGED <<catalog, stacReader, opened, m_itemList, m_errors, extracted>>
  BY LinkFacts DEF KeepGroup, FinishTask, LeftOut, Adds, CatalogInv, LinkInv
<1>2. /\ Above(l) \in Groups /\ \A g \in Groups : l \in LinksOf(g) <=> g = Above(l)
  BY <1>1, GroupOf
<1>3. StillListed(l)
  <2>1. DOMAIN m_itemList = Groups /\ DOMAIN m_subCatalogs = Groups /\ DOMAIN m_errors = Groups
    BY DEF CatalogInv, ListInv
  <2> QED
    BY <1>1, <1>2, <2>1 DEF StillListed
<1> QED
  BY <1>1, <1>3, AwaitingHolds

LEMMA OpensGroup ==
    ASSUME CatalogAssumption, CatalogInv, NEW l \in CatalogNodes, OpenGroup(l)
    PROVE  CatalogInv'
<1> USE DEF CatalogInv
<1> DEFINE links == CatalogLinks[l]
<1>1. /\ l \in running /\ l \in Groups /\ l \notin LeftOut /\ l \notin opened
      /\ waiting' = waiting \o links /\ running' = running /\ opened' = opened \cup {l}
      /\ UNCHANGED <<catalog, stacReader, m_itemList, m_subCatalogs, m_errors, extracted>>
  BY DEF OpenGroup, AddTasks, LeftOut
<1>2. /\ links \in Seq(CatalogNodes \ {RootGroup}) /\ IsInjective(links)
      /\ ToSet(links) = LinksOf(l)
  BY <1>1, LinkFacts DEF LinksOf
<1> HIDE DEF links
<1>3. l \in InPool /\ l \in Added /\ l # RootGroup /\ l \in Reachable
  <2>1. l \in InPool /\ l \in Added /\ l \in Reachable
    BY <1>1 DEF LinkInv, InPool
  <2> QED
    BY <2>1, StacFacts
<1>4. stacReader = "awaiting"
  <2>1. stacReader = "starting" => Added = {}
    BY DEF LinkInv, Openers, Added
  <2> QED
    BY <1>1, <1>3, <2>1 DEF LinkInv, Idle
<1>5. l \notin Openers
  BY <1>1, <1>3, <1>4 DEF Openers
<1>6. LinksOf(l) \cap Added = {}
  BY <1>1, <1>5, StacFacts
<1>7. Openers' = Openers \cup {l} /\ Added' = Added \cup LinksOf(l)
  BY <1>1 DEF Openers, Added, LinksOf
<1>8. ToSet(waiting) \subseteq Added /\ running \subseteq Added
      /\ waiting \in Seq(CatalogNodes \ {RootGroup}) /\ IsInjective(waiting)
  BY DEF LinkInv, InPool
<1>9. /\ waiting' \in Seq(CatalogNodes \ {RootGroup}) /\ IsInjective(waiting')
      /\ ToSet(waiting') = ToSet(waiting) \cup LinksOf(l)
  <2>1. ToSet(waiting) \cap ToSet(links) = {}
    BY <1>2, <1>6, <1>8
  <2>2. /\ waiting \o links \in Seq(CatalogNodes \ {RootGroup}) /\ IsInjective(waiting \o links)
        /\ ToSet(waiting \o links) = ToSet(waiting) \cup ToSet(links)
    BY ONLY <1>2, <1>8, <2>1, JoinedQueues
  <2> QED
    BY <1>1, <1>2, <2>2
<1>10. InPool' = InPool \cup LinksOf(l)
  BY <1>1, <1>9 DEF InPool
<1>11. Ended' = Ended /\ Reachable' = Reachable /\ LeftOut' = LeftOut
  BY <1>1, <1>6, <1>7, <1>10 DEF Ended, Reachable, LeftOut
<1>12. LinksOf(l) \subseteq Reachable
  <2>1. \A k \in LinksOf(l) : k \in Reachable
    BY <1>1, <1>3, Reaches DEF LinkInv
  <2> QED
    BY <2>1
<1>13. LinkInv'
  <2>1. ToSet(waiting') \cap running' = {}
    BY <1>1, <1>6, <1>8, <1>9 DEF LinkInv
  <2>2. InPool' \subseteq Added' /\ Added' \subseteq Reachable'
    BY <1>7, <1>10, <1>11, <1>12 DEF LinkInv
  <2>3. opened' \subseteq (Groups \cap Added') \ LeftOut'
    BY <1>1, <1>3, <1>7, <1>11 DEF LinkInv
  <2>4. opened' \cap ToSet(waiting') = {}
    <3>1. l \notin ToSet(waiting) /\ opened \cap ToSet(waiting) = {} /\ opened \subseteq Added
      BY <1>1 DEF LinkInv
    <3> QED
      BY <1>1, <1>3, <1>6, <1>9, <3>1
  <2>5. (Ended' \cap Groups) \ LeftOut' \subseteq opened'
    BY <1>1, <1>11 DEF LinkInv
  <2> QED
    BY <1>1, <1>4, <1>9, <2>1, <2>2, <2>3, <2>4, <2>5 DEF LinkInv, StacPlaces
<1>14. ListInv'
  BY <1>1, <1>11, SameLists
<1>15. RootInv' /\ ExtractedInv'
  BY <1>1, <1>4 DEF RootInv, ExtractedInv, Ending
<1> QED
  BY <1>13, <1>14, <1>15

LEMMA SubsGathered ==
    ASSUME CatalogAssumption, CatalogInv, Idle, stacReader \in Gathering \ {"starting"}
    PROVE  SubsFine
<1>1. Ended = Added
  BY AllAdded DEF CatalogInv, Gathering
<1>2. ASSUME NEW g \in Groups
      PROVE  (Ended \cap LinksOf(g) \cap Groups) \ LeftOut = opened \cap LinksOf(g)
  <2>1. /\ opened \subseteq (Groups \cap Added) \ LeftOut
        /\ (Ended \cap Groups) \ LeftOut \subseteq opened
    BY DEF CatalogInv, LinkInv
  <2> QED
    BY <1>1, <2>1
<1>3. ASSUME NEW g \in Groups PROVE ListOf(m_subCatalogs[g], g, Groups)
  BY DEF CatalogInv, ListInv
<1> QED
  BY <1>2, <1>3 DEF SubsFine, ListOf

\* While the reader goes on, the links stay as they are.
LEMMA LinksStay ==
    ASSUME LinkInv, Idle, Idle', UNCHANGED <<catalog, opened, waiting, running>>,
           stacReader # "starting", stacReader' \in StacPlaces \ {"starting"}
    PROVE  /\ LinkInv' /\ Ended' = Ended /\ Added' = Added /\ LeftOut' = LeftOut
           /\ Reachable' = Reachable /\ WantedItems' = WantedItems
<1>1. /\ Added' = Added /\ InPool' = InPool /\ LeftOut' = LeftOut /\ Reachable' = Reachable
      /\ WantedItems' = WantedItems
  BY DEF Openers, Added, InPool, LeftOut, Reachable, WantedItems, LinksOf
<1>2. Ended' = Ended
  BY <1>1 DEF Ended
<1>3. LinkInv'
  BY <1>1, <1>2 DEF LinkInv
<1> QED
  BY <1>1, <1>2, <1>3

LEMMA LinksAwaited ==
    ASSUME CatalogAssumption, CatalogInv, AwaitLinks \/ JoinLinks PROVE CatalogInv'
<1> USE DEF CatalogInv
<1>1. /\ stacReader \in {"awaiting", "joining"} /\ stacReader' \in {"joining", "hoisting"}
      /\ Idle /\ Idle'
      /\ UNCHANGED <<catalog, opened, m_itemList, m_subCatalogs, m_errors, extracted, waiting,
                     running>>
  BY DEF AwaitLinks, JoinLinks, ClosePool, Idle, poolVars
<1>2. LinkInv' /\ Ended' = Ended /\ LeftOut' = LeftOut
  BY <1>1, LinksStay DEF StacPlaces
<1>3. ListInv'
  BY <1>1, <1>2 DEF ListInv, ListOf, Gathering, Ending, LinksOf
<1>4. RootInv' /\ ExtractedInv'
  BY <1>1 DEF RootInv, ExtractedInv, Ending
<1> QED
  BY <1>2, <1>3, <1>4

LEMMA GroupsHoisted == ASSUME CatalogAssumption, CatalogInv, Hoist PROVE CatalogInv'
<1> USE DEF CatalogInv
<1>1. /\ stacReader = "hoisting" /\ stacReader' \in {"collecting", "undefined"}
      /\ UNCHANGED <<catalog, opened, m_itemList, m_errors, extracted, waiting, running>>
  BY DEF Hoist, poolVars
<1>2. Idle /\ Idle'
  BY <1>1 DEF LinkInv, Idle
<1>3. LinkInv' /\ Ended' = Ended /\ LeftOut' = LeftOut
  BY <1>1, <1>2, LinksStay DEF StacPlaces
<1>4. CASE stacReader' = "undefined"
  <2>1. m_subCatalogs' = m_subCatalogs
    BY <1>4 DEF Hoist
  <2>2. ListInv'
    BY <1>1, <1>3, <1>4, <2>1 DEF ListInv, ListOf, Gathering, Ending, LinksOf
  <2>3. RootInv' /\ ExtractedInv'
    BY <1>1, <1>4 DEF RootInv, ExtractedInv, Ending
  <2> QED
    BY <1>3, <2>2, <2>3
<1>5. CASE stacReader' = "collecting"
  <2>1. m_subCatalogs' = [m_subCatalogs EXCEPT ![RootGroup] = Hoisted[RootGroup]]
    BY <1>5 DEF Hoist
  <2>2. /\ Hoisted[RootGroup] \in Seq(Groups) /\ IsInjective(Hoisted[RootGroup])
        /\ ToSet(Hoisted[RootGroup]) = opened
    <3>1. SubsFine
      BY <1>1, <1>2, SubsGathered DEF Gathering
    <3> QED
      BY <3>1, HoistedFacts
  <2>3. DOMAIN m_subCatalogs = Groups /\ RootGroup \in Groups
    BY LinkFacts DEF ListInv
  <2>4. /\ m_subCatalogs'[RootGroup] = Hoisted[RootGroup] /\ DOMAIN m_subCatalogs' = Groups
        /\ \A g \in Groups : g # RootGroup => m_subCatalogs'[g] = m_subCatalogs[g]
    BY <2>1, <2>3
  <2>5. ListInv'
    BY <1>1, <1>3, <1>5, <2>4 DEF ListInv, ListOf, Gathering, Ending, LinksOf
  <2>6. RootInv'
    BY <1>1, <1>5, <2>2, <2>4 DEF RootInv, Ending
  <2>7. ExtractedInv'
    BY <1>1, <1>5 DEF ExtractedInv
  <2> QED
    BY <1>3, <2>5, <2>6, <2>7
<1> QED
  BY <1>1, <1>4, <1>5

LEMMA ErrorsCollected ==
    ASSUME CatalogAssumption, CatalogInv, CollectErrors PROVE CatalogInv'
<1> USE DEF CatalogInv
<1> DEFINE all == m_errors[RootGroup]
                  \cup UNION {m_errors[g] : g \in ToSet(m_subCatalogs[RootGroup])}
<1>1. /\ stacReader = "collecting"
      /\ m_errors' = [m_errors EXCEPT ![RootGroup] = all]
      /\ stacReader' = IF m_itemList[RootGroup] = <<>> THEN "rejecting" ELSE "extracting"
      /\ UNCHANGED <<catalog, opened, m_itemList, m_subCatalogs, extracted, waiting, running>>
  BY LinkFacts DEF CollectErrors, poolVars, ListInv
<1>2. Idle /\ Idle'
  BY <1>1 DEF LinkInv, Idle
<1>3. /\ LinkInv' /\ Ended' = Ended /\ LeftOut' = LeftOut /\ Added' = Added
  BY <1>1, <1>2, LinksStay DEF StacPlaces
<1>4. Ended = Added
  BY <1>1, <1>2, AllAdded
<1>5. RootGroup \in Groups /\ opened \subseteq Groups /\ Openers = {RootGroup} \cup opened
      /\ ToSet(m_subCatalogs[RootGroup]) = opened
  BY <1>1, LinkFacts, StacFacts DEF Openers, RootInv
<1>6. \A g \in Groups : m_errors[g] = Added \cap LinksOf(g) \cap catalog.failing
  BY <1>1, <1>4 DEF ListInv, Ending
<1>7. all = UNION {Added \cap LinksOf(g) \cap catalog.failing : g \in Openers}
  BY <1>5, <1>6
<1>8. all = Added \cap catalog.failing
  BY <1>7 DEF Added
<1> HIDE DEF all
<1>9. DOMAIN m_errors = Groups
  BY DEF ListInv
<1>10. /\ m_errors'[RootGroup] = Added \cap catalog.failing /\ DOMAIN m_errors' = Groups
       /\ \A g \in Groups : g # RootGroup => m_errors'[g] = m_errors[g]
  BY <1>1, <1>5, <1>8, <1>9
<1>11. stacReader' \in {"rejecting", "extracting"}
       /\ (stacReader' = "rejecting" => m_itemList[RootGroup] = <<>>)
  BY <1>1
<1>12. ListInv'
  BY <1>1, <1>3, <1>10, <1>11 DEF ListInv, ListOf, Gathering, Ending, LinksOf
<1>13. RootInv'
  BY <1>1, <1>3, <1>10, <1>11 DEF RootInv, Ending
<1>14. ExtractedInv'
  BY <1>1, <1>11 DEF ExtractedInv
<1> QED
  BY <1>3, <1>12, <1>13, <1>14

\* The items of the opened groups, one group after another, then the root's.
LEMMA ItemsJoin ==
    ASSUME CatalogAssumption, CatalogInv, Idle, stacReader \in {"extracting", "rejecting"}
    PROVE  LET all == FlattenSeq([i \in DOMAIN m_subCatalogs[RootGroup] |->
                                     m_itemList[m_subCatalogs[RootGroup][i]]])
                      \o m_itemList[RootGroup]
           IN  /\ all \in Seq(CatalogItems) /\ IsInjective(all)
               /\ ToSet(all) = WantedItems
<1> USE DEF CatalogInv
<1> DEFINE subs == m_subCatalogs[RootGroup]
           ss == [i \in DOMAIN subs |-> m_itemList[subs[i]]]
           flat == FlattenSeq(ss)
           own == m_itemList[RootGroup]
           Items(g) == (Added \cap LinksOf(g) \cap CatalogItems) \ LeftOut
<1>1. Ended = Added /\ Added = Reachable
  BY AllAdded
<1>2. subs \in Seq(Groups) /\ IsInjective(subs) /\ ToSet(subs) = opened
      /\ Openers = {RootGroup} \cup opened /\ RootGroup \in Groups
  BY LinkFacts DEF RootInv, Ending, Openers
<1>3. \A g \in Groups : /\ m_itemList[g] \in Seq(CatalogItems) /\ IsInjective(m_itemList[g])
                        /\ ToSet(m_itemList[g]) = Items(g)
  BY <1>1 DEF ListInv, ListOf
<1>4. own \in Seq(CatalogItems) /\ IsInjective(own) /\ ToSet(own) = Items(RootGroup)
  BY <1>2, <1>3
<1> HIDE DEF subs, own
<1>5. \A i \in DOMAIN subs : subs[i] \in opened /\ subs[i] \in Groups
  BY <1>2, StacFacts DEF ToSet
<1>6. ss \in Seq(Seq(CatalogItems)) /\ DOMAIN ss = DOMAIN subs
  <2>1. DOMAIN subs = 1 .. Len(subs) /\ Len(subs) \in Nat
    BY <1>2
  <2>2. \A i \in DOMAIN subs : m_itemList[subs[i]] \in Seq(CatalogItems)
    BY <1>3, <1>5
  <2> QED
    BY <2>1, <2>2
<1>7. \A i \in DOMAIN ss : IsInjective(ss[i]) /\ ToSet(ss[i]) = Items(subs[i])
  BY <1>3, <1>5
<1> HIDE DEF ss
<1>8. ASSUME NEW g \in Groups, NEW h \in Groups, g # h PROVE Items(g) \cap Items(h) = {}
  BY <1>8, AboveIs
<1> HIDE DEF Items
<1>9. ASSUME NEW i \in DOMAIN ss, NEW j \in DOMAIN ss, i # j
      PROVE  ToSet(ss[i]) \cap ToSet(ss[j]) = {}
  <2>1. subs[i] # subs[j]
    BY <1>2, <1>6, <1>9 DEF IsInjective
  <2> QED
    BY <1>5, <1>6, <1>7, <1>8, <2>1
<1>10. /\ flat \in Seq(CatalogItems) /\ IsInjective(flat)
       /\ ToSet(flat) = UNION {ToSet(ss[i]) : i \in DOMAIN ss}
  <2>1. \A i \in DOMAIN ss : IsInjective(ss[i])
    BY <1>7
  <2> QED
    BY <1>6, <1>9, <2>1, FlattenFacts
<1> HIDE DEF flat
<1>11. ToSet(flat) = UNION {Items(g) : g \in opened}
  <2>1. {subs[i] : i \in DOMAIN subs} = opened
    BY <1>2 DEF ToSet
  <2>2. ToSet(flat) = UNION {Items(subs[i]) : i \in DOMAIN subs}
    BY <1>6, <1>7, <1>10
  <2>3. ASSUME NEW s \in opened PROVE \E i \in DOMAIN subs : s = subs[i]
    BY <2>1
  <2> QED
    BY <1>5, <2>2, <2>3
<1>12. ToSet(flat) \cap ToSet(own) = {}
  <2>1. \A g \in opened : Items(g) \cap Items(RootGroup) = {}
    BY <1>2, <1>8, StacFacts
  <2> QED
    BY <1>4, <1>11, <2>1
<1>13. /\ flat \o own \in Seq(CatalogItems) /\ IsInjective(flat \o own)
       /\ ToSet(flat \o own) = ToSet(flat) \cup ToSet(own)
  BY ONLY <1>4, <1>10, <1>12, JoinedQueues
<1>14. ToSet(flat) \cup ToSet(own) = WantedItems
  <2>1. ToSet(flat) \cup ToSet(own) = UNION {Items(g) : g \in Openers}
    BY <1>2, <1>4, <1>11
  <2>2. UNION {Items(g) : g \in Openers} = (Added \cap CatalogItems) \ LeftOut
    BY DEF Items, Added
  <2> QED
    BY <1>1, <2>1, <2>2 DEF WantedItems, LeftOut
<1> QED
  BY <1>13, <1>14 DEF flat, ss, own, subs

LEMMA ItemsExtracted == ASSUME CatalogAssumption, CatalogInv, Extract PROVE CatalogInv'
<1> USE DEF CatalogInv
<1> DEFINE all == FlattenSeq([i \in DOMAIN m_subCatalogs[RootGroup] |->
                                 m_itemList[m_subCatalogs[RootGroup][i]]])
                  \o m_itemList[RootGroup]
<1>1. /\ stacReader \in {"extracting", "rejecting"}
      /\ extracted' = IF stacReader = "rejecting" THEN <<>> ELSE all
      /\ stacReader' = IF m_errors[RootGroup] # {} THEN "thrown"
                       ELSE IF stacReader = "rejecting" THEN "rejected" ELSE "gone"
      /\ UNCHANGED <<catalog, opened, m_itemList, m_subCatalogs, m_errors, waiting, running>>
  BY DEF Extract, poolVars
<1>2. Idle /\ Idle'
  BY <1>1 DEF LinkInv, Idle
<1>3. /\ LinkInv' /\ Ended' = Ended /\ LeftOut' = LeftOut /\ Added' = Added
      /\ WantedItems' = WantedItems
  BY <1>1, <1>2, LinksStay DEF StacPlaces
<1>4. all \in Seq(CatalogItems) /\ IsInjective(all) /\ ToSet(all) = WantedItems
  BY <1>1, <1>2, ItemsJoin
<1> HIDE DEF all
<1>5. ListInv'
  BY <1>1, <1>3 DEF ListInv, ListOf, Gathering, Ending, LinksOf
<1>6. RootInv'
  BY <1>1, <1>3 DEF RootInv, Ending
<1>7. ExtractedInv'
  <2>1. <<>> \in Seq(CatalogItems)
    OBVIOUS
  <2>2. stacReader = "rejecting" => m_itemList[RootGroup] = <<>>
    BY DEF RootInv
  <2> QED
    BY <1>1, <1>3, <1>4, <2>1, <2>2 DEF ExtractedInv
<1> QED
  BY <1>3, <1>5, <1>6, <1>7

LEMMA CatalogSteps ==
    ASSUME CatalogAssumption, CatalogInv, [CatalogNext]_catalogVars PROVE CatalogInv'
<1>1. CASE StacReaderStep
  BY <1>1, RootStarts, LinksAwaited, GroupsHoisted, ErrorsCollected, ItemsExtracted
     DEF StacReaderStep
<1>2. ASSUME NEW l \in CatalogNodes, LinkStep(l) PROVE CatalogInv'
  BY <1>2, LinkStarts, FailsLink, FiltersLink, KeepsItem, OpensGroup, KeepsGroup DEF LinkStep
<1>3. CASE UNCHANGED catalogVars
  <2>1. UNCHANGED <<catalog, stacReader, opened, m_itemList, m_subCatalogs, m_errors, extracted,
                    waiting, running>>
    BY <1>3 DEF catalogVars, catalogState, poolVars
  <2>2. /\ InPool' = InPool /\ Added' = Added /\ Reachable' = Reachable
        /\ LeftOut' = LeftOut
    BY <2>1 DEF InPool, Openers, Added, Reachable, LeftOut, LinksOf
  <2>3. Ended' = Ended /\ WantedItems' = WantedItems
    BY <2>1, <2>2 DEF Ended, WantedItems
  <2>4. LinkInv'
    BY <2>1, <2>2, <2>3 DEF CatalogInv, LinkInv, Idle
  <2>5. ListInv'
    BY <2>1, <2>3, SameLists DEF CatalogInv
  <2>6. RootInv' /\ ExtractedInv'
    BY <2>1, <2>2, <2>3 DEF CatalogInv, RootInv, ExtractedInv
  <2> QED
    BY <2>4, <2>5, <2>6 DEF CatalogInv
<1> QED
  BY <1>1, <1>2, <1>3 DEF CatalogNext, CatalogEnded

\* CatalogHolds: whatever links fail or are filtered out, and in whatever order
\* the tasks run, what ended is in the lists of its group.
THEOREM CatalogHolds == ASSUME CatalogAssumption PROVE CatalogSpec => []CatalogInv
<1>1. NoTasks(TRUE) /\ CatalogInit => CatalogInv
  BY InitCatalog
<1>2. CatalogInv /\ [CatalogNext]_catalogVars => CatalogInv'
  BY CatalogSteps
<1> QED
  BY <1>1, <1>2, PTL DEF CatalogSpec

\* A reader that has ended has the items that are wanted, or throws.
LEMMA ItemsRead == ASSUME CatalogAssumption PROVE CatalogInv => EveryItemRead
<1> SUFFICES ASSUME CatalogInv PROVE EveryItemRead
  OBVIOUS
<1> USE DEF CatalogInv
<1>1. /\ stacReader \in {"gone", "thrown"} /\ m_itemList[RootGroup] # <<>> =>
            IsInjective(extracted) /\ ToSet(extracted) = WantedItems
  BY DEF ExtractedInv
<1>2. ASSUME stacReader \in {"gone", "rejected", "thrown"}
      PROVE  (stacReader = "thrown") = (Reachable \cap catalog.failing # {})
  <2>1. Idle /\ stacReader # "starting"
    BY <1>2 DEF LinkInv
  <2>2. Added = Reachable
    BY <2>1, AllAdded
  <2>3. m_errors[RootGroup] = Added \cap catalog.failing
        /\ (stacReader = "thrown") = (m_errors[RootGroup] # {})
    BY <1>2 DEF RootInv, Ending
  <2> QED
    BY <2>2, <2>3
<1> QED
  BY <1>1, <1>2 DEF EveryItemRead

LEMMA CatalogTyped == ASSUME CatalogAssumption PROVE CatalogInv => CatalogTypeOK
<1> SUFFICES ASSUME CatalogInv PROVE CatalogTypeOK
  OBVIOUS
<1> USE DEF CatalogInv
<1>1. catalog \in CatalogCase /\ stacReader \in StacPlaces /\ opened \subseteq Groups
  BY StacFacts DEF LinkInv, CatalogAssumption
<1>2. ASSUME NEW g \in Groups PROVE ToSet(m_itemList[g]) \subseteq CatalogItems
  BY DEF ListInv, ListOf
<1>3. ASSUME NEW g \in Groups PROVE ToSet(m_subCatalogs[g]) \subseteq Groups
  <2>1. CASE stacReader \in {"collecting"} \cup Ending /\ g = RootGroup
    BY <1>1, <2>1 DEF RootInv
  <2>2. CASE stacReader \in Gathering \cup {"undefined"} \/ g # RootGroup
    BY <2>2 DEF ListInv, ListOf
  <2> QED
    BY <1>1, <2>1, <2>2 DEF StacPlaces, Ending, Gathering
<1>4. ASSUME NEW g \in Groups PROVE m_errors[g] \subseteq CatalogNodes
  <2>1. CASE stacReader \in Ending /\ g = RootGroup
    BY <2>1, StacFacts DEF RootInv
  <2>2. CASE stacReader \notin Ending \/ g # RootGroup
    BY <2>2, LinkFacts DEF ListInv
  <2> QED
    BY <2>1, <2>2
<1>5. ToSet(extracted) \subseteq CatalogItems
  BY DEF ExtractedInv, ToSet
<1> QED
  BY <1>1, <1>2, <1>3, <1>4, <1>5 DEF CatalogTypeOK, StacPlaces
===============================================================================
