-------------------------- MODULE TranslationProofs --------------------------
(***************************************************************************)
(* The lanes of a translation (TranslationLanes) for every number of lanes *)
(* and chunks: no work reads a buffer another work still writes, every     *)
(* chunk is written at its place and once, and what a finished translation *)
(* leaves is what its file and its counters should hold.  With the         *)
(* invariants of the command and of the run (AttemptProofs) these are the  *)
(* theorems about an attempt as a whole.                                   *)
(***************************************************************************)
EXTENDS AttemptProofs, MCAttempt, TileArithmetic, SequenceTheorems,
        FiniteSetTheorems, TLAPS

-----------------------------------------------------------------------------
(***************************************************************************)
(* The streams: what is queued on a lane is what its chunk needs.          *)
(***************************************************************************)
\* The calls during which the lanes work.
AtWork == caller \in {"filling", "operating"}
\* The lane whose chunk the operations of the ordered form are at.
Operating(l) == caller = "operating" /\ l = TheLane

\* The works a stream may hold.
Works ==
    [kind : {"input", "reset", "translate", "decode", "gather", "summarize",
             "results", "summary"},
     meant : Seq(Int)]

\* The state of the lanes has its type.
LaneTypes ==
    /\ translation \in Translations
    /\ caller \in {"idle", "filling", "operating", "returning", "throwing",
                   "returned", "threw"}
    /\ sequence \in 0 .. ChunkCount
    /\ operation \in 1 .. Len(translation.operations) + 1
    /\ pending \subseteq LanesOf(translation)
    /\ lanesAlive \subseteq LanesOf(translation)
    /\ laneSequence \in [LanesOf(translation) -> Nat]
    /\ DOMAIN laneCount = LanesOf(translation)
    /\ DOMAIN pinned = LanesOf(translation)
    /\ DOMAIN device = LanesOf(translation)
    /\ \A l \in LanesOf(translation) :
          /\ DOMAIN pinned[l] = {"input", "output", "summary"}
          /\ DOMAIN device[l] = {"input", "output", "filtered", "batch", "summary"}
    /\ stream \in [LanesOf(translation) -> Seq(Works)]
    /\ caller = "operating" => sequence < ChunkCount

\* Work that a lane's buffers are right for while they hold this chunk and the
\* initial summary.
SoundWork(works, chunk) ==
    /\ works \in Seq(Works)
    /\ \A i \in 1 .. Len(works) :
          /\ works[i].kind = "input" => works[i].meant = chunk
          /\ works[i].kind = "reset" => works[i].meant = <<>>
          /\ works[i].kind = "summary" => i = Len(works)

\* What is queued on a lane finds its buffers as they were when it was queued.
StreamSound(l) ==
    /\ SoundWork(stream[l], pinned[l].input)
    /\ (\E i \in 1 .. Len(stream[l]) : stream[l][i].kind = "reset") =>
          pinned[l].summary = <<>>
    /\ l \notin lanesAlive => stream[l] = <<>>
    /\ AtWork => l \in lanesAlive
    /\ AtWork /\ l \notin pending /\ ~Operating(l) => stream[l] = <<>>
    /\ Operating(l) =>
          /\ l \notin pending
          /\ \A i \in 1 .. Len(stream[l]) : stream[l][i].kind # "summary"

\* The invariant of the streams.
StreamInv == LaneTypes /\ \A l \in LanesOf(translation) : StreamSound(l)

-----------------------------------------------------------------------------
(***************************************************************************)
(* The results.                                                            *)
(***************************************************************************)
\* The lanes of the ring, and the records that chunk n comes to.
LaneTotal == Schedule!ActiveLanes(RequestOf(translation))
Result(n) == IF translation.ordered THEN LeftOf(translation, n) ELSE Chunk(n)

\* What is still queued of the work "whole".
IsRest(rest, whole) ==
    /\ Len(rest) <= Len(whole)
    /\ \A i \in 1 .. Len(rest) : rest[i] = whole[(Len(whole) - Len(rest)) + i]

\* What the calling thread queues on a lane for a chunk: all of it in the
\* plain form; up to the operations, all of it, and for a chunk of which
\* nothing is left, in the ordered form.
PlainWork(chunk) ==
    <<UploadInput(chunk), UploadSummary, Work("translate"), Work("results"), Work("summary")>>
UploadWork(chunk) ==
    <<UploadInput(chunk), UploadSummary, Work("translate"), Work("decode")>>
OrderedWork(chunk) ==
    <<UploadInput(chunk), UploadSummary, Work("translate"), Work("decode"),
     Work("gather"), UploadSummary, Work("summarize"), Work("results"), Work("summary")>>
EmptyWork == <<UploadSummary, Work("summary")>>

\* The buffers of a lane while work is left of a plain chunk; p is the lane's
\* pinned buffers, d its device buffers, and rest its stream.
PlainLane(p, d, rest, chunk) ==
    /\ rest \in Seq(Works)
    /\ IsRest(rest, PlainWork(chunk))
    /\ p.input = chunk
    /\ Len(rest) <= 4 => d.input = chunk
    /\ Len(rest) = 3 => d.summary = <<>>
    /\ Len(rest) <= 2 => d.output = chunk /\ d.summary = chunk
    /\ Len(rest) <= 1 => p.output = chunk
    /\ p.summary = IF Len(rest) = 0 THEN chunk ELSE <<>>

\* The same of an ordered chunk before its results are queued, of one with
\* records, and of one of which nothing is left; batch is what is left of it.
UploadLane(p, d, rest, chunk, batch) ==
    /\ rest \in Seq(Works)
    /\ IsRest(rest, UploadWork(chunk))
    /\ p.input = chunk
    /\ Len(rest) <= 3 => d.input = chunk
    /\ Len(rest) <= 1 => d.output = chunk
    /\ Len(rest) = 0 => d.batch = batch
    /\ Len(rest) > 0 => batch = chunk
    /\ p.summary = <<>>

\* The buffers of a lane whose results are queued in the ordered form.
OrderedLane(p, d, rest, chunk, batch) ==
    /\ rest \in Seq(Works)
    /\ IsRest(rest, OrderedWork(chunk))
    /\ p.input = chunk
    /\ Len(rest) <= 8 => d.input = chunk
    /\ Len(rest) <= 6 => d.output = chunk
    /\ Len(rest) > 5 => batch = chunk
    /\ Len(rest) <= 5 => d.batch = batch
    /\ Len(rest) <= 4 => d.filtered = batch
    /\ Len(rest) = 3 => d.summary = <<>>
    /\ Len(rest) <= 2 => d.summary = batch
    /\ Len(rest) <= 1 => p.output = batch
    /\ p.summary = IF Len(rest) = 0 THEN batch ELSE <<>>

\* The same when nothing is left of the chunk.
EmptyLane(p, d, rest) ==
    /\ rest \in Seq(Works)
    /\ IsRest(rest, EmptyWork)
    /\ Len(rest) <= 1 => d.summary = <<>>
    /\ p.summary = <<>>

\* A lane whose results are to be taken.
PendingLane(l) ==
    LET n == laneSequence[l] IN
    /\ laneCount[l] = Len(Result(n))
    /\ IF ~translation.ordered
       THEN PlainLane(pinned[l], device[l], stream[l], Chunk(n))
       ELSE IF Result(n) = <<>>
       THEN EmptyLane(pinned[l], device[l], stream[l])
       ELSE OrderedLane(pinned[l], device[l], stream[l], Chunk(n), Result(n))

\* What is queued and what is in the buffers: the result of a pending lane is
\* that of its chunk, the chunk in hand has got as far as the operations, and
\* their states are those after the chunks before it.
ResultInv == AtWork =>
    /\ \A l \in pending : PendingLane(l)
    /\ caller = "operating" =>
          /\ translation.ordered
          /\ UploadLane(pinned[TheLane], device[TheLane], stream[TheLane], Chunk(sequence),
                        Progress(translation)[<<sequence, operation>>].batch)
          /\ operation > 1 => stream[TheLane] = <<>>
    /\ translation.ordered =>
       /\ DOMAIN ordinalStates = DOMAIN translation.operations
       /\ \A i \in DOMAIN translation.operations :
          ordinalStates[i] = Progress(translation)[
             <<IF caller = "operating" /\ i < operation THEN sequence + 1 ELSE sequence, i>>].state

\* The chunks in the lanes are among the last ones, each in its own lane.
WindowInv ==
    \A l \in pending :
        /\ laneSequence[l] < sequence
        /\ sequence <= laneSequence[l] + LaneTotal
        /\ Schedule!LaneFor(laneSequence[l], LaneTotal) = l

\* The chunks whose results have been taken, and the places they have filled.
Taken(n) == n < sequence /\ \A l \in pending : laneSequence[l] # n

Filled == {place \in 0 .. translation.points - 1 : sunk[place] # Unwritten}

\* The summary has each record in the sink once.
CountInv ==
    /\ emittedPointCount = Cardinality(Filled)
    /\ hostSummary \in Seq(Nat)
    /\ Len(hostSummary) = emittedPointCount
    /\ ToSet(hostSummary) = {sunk[place] : place \in Filled}

\* In the plain form the chunks that have been taken are where they belong; in
\* the ordered form they are the first ones, one behind the other.
PlaceInv ==
    /\ DOMAIN sunk = 0 .. translation.points - 1
    /\ ~translation.ordered =>
          \A place \in 0 .. translation.points - 1 :
             sunk[place] = IF Taken(place \div translation.chunkPoints) THEN place ELSE Unwritten
    /\ translation.ordered => \E next \in 0 .. sequence :
          /\ \A n \in 0 .. sequence - 1 : Taken(n) <=> n < next
          /\ emittedPointCount = PlacesOf(translation)[next]
          /\ \A place \in 0 .. translation.points - 1 :
                sunk[place] = IF place < emittedPointCount THEN Expected[place + 1] ELSE Unwritten

\* The header is written when there is nothing left to take.
EndInv ==
    /\ caller \in {"returning", "returned"} =>
          /\ sequence = ChunkCount /\ pending = {}
          /\ headerSunk = [count |-> Len(Expected), summary |-> hostSummary]

\* The inductive invariant.
TransInv == StreamInv /\ WindowInv /\ CountInv /\ PlaceInv /\ EndInv /\ ResultInv

-----------------------------------------------------------------------------
(***************************************************************************)
(* The lanes and their buffers.                                            *)
(***************************************************************************)
\* The lanes and the chunks of a translation.
LEMMA LaneFacts ==
    ASSUME TranslationsAssumption, NEW t \in Translations
    PROVE  /\ ChunksOf(t) \in Nat
           /\ Schedule!ActiveLanes(RequestOf(t)) \in Nat
           /\ LanesOf(t) = 0 .. Schedule!ActiveLanes(RequestOf(t)) - 1
           /\ Cardinality(LanesOf(t)) = Schedule!ActiveLanes(RequestOf(t))
           /\ ChunksOf(t) > 0 =>
                 /\ t.points > 0 /\ t.chunkPoints > 0
                 /\ Schedule!ActiveLanes(RequestOf(t)) \in Nat \ {0}
<1> DEFINE r == RequestOf(t)
           p == t.points
           c == t.chunkPoints
<1>1. p \in Nat /\ c \in Nat /\ t.schedulerLanes \in Nat /\ (p > 0 => c > 0)
  BY DEF TranslationsAssumption
<1>2. /\ r.itemCount = p /\ r.tileItems = c /\ r.requestedLanes = t.schedulerLanes
      /\ r.bytesPerLane = 0
  BY DEF RequestOf
<1> HIDE DEF r
<1>3. Schedule!TileCountOf(r) \in Nat /\ (Schedule!TileCountOf(r) > 0 => p > 0)
  <2>1. CASE p = 0
    BY <1>2, <2>1 DEF Schedule!TileCountOf
  <2>2. CASE p > 0
    <3>1. p \div c \in Nat /\ p % c \in Nat
      BY <1>1, <2>2, DivMod
    <3> QED
      BY <1>2, <2>2, <3>1 DEF Schedule!TileCountOf, Schedule!TilesFor
  <2> QED
    BY <1>1, <2>1, <2>2
<1>4. Schedule!ConfiguredLanes(r) \in Nat \ {0}
  BY <1>1, <1>2 DEF Schedule!ConfiguredLanes, Schedule!FixedLaneCount
<1>5. /\ Schedule!UsefulLanes(r) \in Nat
      /\ Schedule!TileCountOf(r) > 0 => Schedule!UsefulLanes(r) > 0
  BY <1>3, <1>4 DEF Schedule!UsefulLanes, Schedule!Smaller
<1>6. /\ Schedule!ActiveLanes(r) \in Nat
      /\ Schedule!TileCountOf(r) > 0 => Schedule!ActiveLanes(r) > 0
  BY <1>1, <1>2, <1>3, <1>5 DEF Schedule!ActiveLanes, Schedule!BudgetApplies
<1>7. LanesOf(t) = 0 .. Schedule!ActiveLanes(r) - 1
  BY DEF LanesOf, r
<1>8. Cardinality(LanesOf(t)) = Schedule!ActiveLanes(r)
  BY <1>6, <1>7, FS_Interval
<1> QED
  BY <1>1, <1>3, <1>6, <1>7, <1>8 DEF ChunksOf, r

\* The lane of the next chunk is one of the lanes.
LEMMA NextLane ==
    ASSUME TranslationsAssumption, LaneTypes, sequence < ChunkCount
    PROVE  /\ TheLane \in LanesOf(translation)
           /\ TheLane = sequence % LaneTotal
           /\ LaneTotal \in Nat \ {0} /\ sequence \in Nat
<1>1. /\ translation \in Translations /\ sequence \in 0 .. ChunkCount
  BY DEF LaneTypes
<1>2. /\ LaneTotal \in Nat \ {0} /\ sequence \in Nat
      /\ LanesOf(translation) = 0 .. LaneTotal - 1
      /\ Cardinality(LanesOf(translation)) = LaneTotal
  BY <1>1, LaneFacts DEF LaneTotal, ChunkCount
<1>3. sequence % LaneTotal \in 0 .. LaneTotal - 1
  BY <1>2, DivMod
<1> QED
  BY <1>2, <1>3 DEF TheLane, Schedule!LaneFor

\* Where a chunk lies, and what it holds.
LEMMA ChunkFacts ==
    ASSUME TranslationsAssumption, NEW t \in Translations,
           NEW n \in 0 .. ChunksOf(t) - 1
    PROVE  /\ t.points \in Nat \ {0} /\ t.chunkPoints \in Nat \ {0}
           /\ n * t.chunkPoints \in Nat
           /\ n * t.chunkPoints < t.points
           /\ ChunkOf(t, n) \in Seq(Nat)
           /\ Len(ChunkOf(t, n)) =
                 Schedule!Smaller(t.chunkPoints, t.points - n * t.chunkPoints)
           /\ Len(ChunkOf(t, n)) \in Nat \ {0}
           /\ n + 1 < ChunksOf(t) => Len(ChunkOf(t, n)) = t.chunkPoints
           /\ \A i \in 1 .. Len(ChunkOf(t, n)) :
                 ChunkOf(t, n)[i] = n * t.chunkPoints + (i - 1)
<1> DEFINE p == t.points
           c == t.chunkPoints
           K == ChunksOf(t)
           s == Schedule!Smaller(c, p - n * c)
<1>1. p \in Nat \ {0} /\ c \in Nat \ {0} /\ K \in Nat \ {0}
  BY LaneFacts DEF TranslationsAssumption
<1>2. K = p \div c + (IF p % c = 0 THEN 0 ELSE 1)
  BY <1>1 DEF ChunksOf, Schedule!TileCountOf, Schedule!TilesFor, RequestOf
<1>3. p \div c \in Nat /\ (p % c) \in 0 .. (c - 1) /\ p = (p \div c) * c + (p % c)
  BY <1>1, DivMod
<1> DEFINE q == p \div c
           r == p % c
<1>4. n \in Nat /\ n * c \in Nat /\ q * c \in Nat
  <2>1. n \in Nat /\ q \in Nat /\ c \in Nat
    BY <1>1, <1>3
  <2> QED
    BY ONLY <2>1, SMT
<1> HIDE DEF p, c, K, q, r
<1>5. n * c < p
  <2>1. CASE n < q
    <3>1. n * c + c <= q * c
      BY <1>1, <1>3, <1>4, <2>1, TimesMonotone DEF q
    <3> QED
      BY <1>1, <1>3, <1>4, <3>1 DEF q, r
  <2>2. CASE n = q /\ r # 0
    BY <1>1, <1>3, <1>4, <2>2 DEF q, r
  <2> QED
    BY <1>1, <1>2, <1>3, <1>4, <2>1, <2>2 DEF q, r, K
<1>6. n + 1 < K => n * c + c <= p
  <2> SUFFICES ASSUME n + 1 < K PROVE n * c + c <= p
    OBVIOUS
  <2>1. n < q
    BY <1>1, <1>2, <1>3, <1>4 DEF q, r
  <2>2. n * c + c <= q * c
    BY <1>1, <1>3, <1>4, <2>1, TimesMonotone DEF q
  <2> QED
    BY <1>1, <1>3, <1>4, <2>2 DEF q, r
<1>7. s \in Nat \ {0} /\ (n + 1 < K => s = c)
  BY <1>1, <1>4, <1>5, <1>6 DEF Schedule!Smaller
<1>8. ChunkOf(t, n) = [i \in 1 .. s |-> n * c + i - 1]
  BY DEF ChunkOf, Schedule!TileSize, Schedule!TileFirst, p, c
<1> HIDE DEF s
<1>9. \A i \in 1 .. s : n * c + i - 1 \in Nat
  BY <1>4, <1>7
<1>10. ChunkOf(t, n) \in Seq(Nat) /\ Len(ChunkOf(t, n)) = s
  BY <1>7, <1>8, <1>9
<1>11. \A i \in 1 .. Len(ChunkOf(t, n)) : ChunkOf(t, n)[i] = n * c + (i - 1)
  BY <1>4, <1>7, <1>8, <1>10
<1> QED
  BY <1>1, <1>4, <1>5, <1>7, <1>10, <1>11 DEF p, c, K, s

-----------------------------------------------------------------------------
(***************************************************************************)
(* The streams.                                                            *)
(***************************************************************************)
\* The functions of the lanes after one lane's buffers are filled.
LEMMA PinnedFilled ==
    ASSUME NEW p, NEW lanes, NEW l \in lanes, DOMAIN p = lanes,
           \A m \in lanes : DOMAIN p[m] = {"input", "output", "summary"},
           NEW chunk, NEW summary, NEW q,
           q = [p EXCEPT ![l].input = chunk, ![l].summary = summary]
    PROVE  /\ DOMAIN q = lanes
           /\ \A m \in lanes : DOMAIN q[m] = {"input", "output", "summary"}
           /\ q[l].input = chunk /\ q[l].summary = summary
           /\ q[l].output = p[l].output
           /\ \A m \in lanes : m # l => q[m] = p[m]
  OBVIOUS

\* The pinned buffers of the lanes after the summary of one is reset.
LEMMA PinnedReset ==
    ASSUME NEW p, NEW lanes, NEW l \in lanes, DOMAIN p = lanes,
           \A m \in lanes : DOMAIN p[m] = {"input", "output", "summary"},
           NEW summary, NEW q, q = [p EXCEPT ![l].summary = summary]
    PROVE  /\ DOMAIN q = lanes
           /\ \A m \in lanes : DOMAIN q[m] = {"input", "output", "summary"}
           /\ q[l].input = p[l].input /\ q[l].summary = summary
           /\ q[l].output = p[l].output
           /\ \A m \in lanes : m # l => q[m] = p[m]
  OBVIOUS

\* Works put behind works.
LEMMA JoinedWork ==
    ASSUME NEW S, NEW s \in Seq(S), NEW t \in Seq(S), NEW u \in Seq(S),
           Len(u) = Len(s) + Len(t),
           \A i \in 1 .. Len(s) : u[i] = s[i],
           \A i \in 1 .. Len(t) : u[Len(s) + i] = t[i]
    PROVE  s \o t = u
<1>1. /\ s \o t \in Seq(S) /\ Len(s \o t) = Len(s) + Len(t)
      /\ \A i \in 1 .. Len(s) + Len(t) :
            (s \o t)[i] = IF i <= Len(s) THEN s[i] ELSE t[i - Len(s)]
  BY ConcatProperties
<1>2. Len(s) \in Nat /\ Len(t) \in Nat
  OBVIOUS
<1> DEFINE v == s \o t
           m == Len(s)
           k == Len(t)
<1>3. ASSUME NEW i \in 1 .. Len(u) PROVE v[i] = u[i]
  <2>1. CASE i <= m
    BY <1>1, <1>2, <1>3, <2>1
  <2>2. CASE ~(i <= m)
    <3>1. (i - m) \in 1 .. k /\ i = m + (i - m)
      BY <1>2, <1>3, <2>2
    <3> QED
      BY <1>1, <1>2, <1>3, <2>2, <3>1
  <2> QED
    BY <2>1, <2>2
<1> HIDE DEF v
<1> QED
  BY <1>1, <1>3, SeqEqual DEF v

\* Each queue of work, work by work.
LEMMA WorksOf ==
    ASSUME NEW chunk \in Seq(Int)
    PROVE  /\ UploadInput(chunk) \in Works /\ UploadSummary \in Works
           /\ Work("translate") \in Works /\ Work("decode") \in Works
           /\ Work("gather") \in Works /\ Work("summarize") \in Works
           /\ Work("results") \in Works /\ Work("summary") \in Works
           /\ UploadInput(chunk).kind = "input" /\ UploadInput(chunk).meant = chunk
           /\ UploadSummary.kind = "reset" /\ UploadSummary.meant = <<>>
           /\ Work("translate").kind = "translate" /\ Work("decode").kind = "decode"
           /\ Work("gather").kind = "gather" /\ Work("summarize").kind = "summarize"
           /\ Work("results").kind = "results" /\ Work("summary").kind = "summary"
  BY DEF UploadInput, UploadSummary, Work, Works, InitialSummary

\* What FillLane queues.
LEMMA UploadWorks ==
    ASSUME NEW chunk \in Seq(Int)
    PROVE  UploadOf(chunk) = IF translation.ordered THEN UploadWork(chunk)
                                                    ELSE PlainWork(chunk)
<1> DEFINE a == UploadInput(chunk)
           b == UploadSummary
           c == Work("translate")
           d == Work("decode")
           e == Work("results")
           f == Work("summary")
<1>1. a \in Works /\ b \in Works /\ c \in Works /\ d \in Works /\ e \in Works
      /\ f \in Works
  BY WorksOf
<1> HIDE DEF a, b, c, d, e, f
<1> DEFINE s == <<a, b, c>>
           t == <<d>>
           u == <<a, b, c, d>>
           v == <<e, f>>
           w == <<a, b, c, e, f>>
<1>2. /\ s \in Seq(Works) /\ t \in Seq(Works) /\ u \in Seq(Works)
      /\ Len(s) = 3 /\ Len(t) = 1 /\ Len(u) = 4
      /\ s[1] = a /\ s[2] = b /\ s[3] = c /\ t[1] = d
      /\ u[1] = a /\ u[2] = b /\ u[3] = c /\ u[4] = d
  BY <1>1
<1>3. /\ v \in Seq(Works) /\ w \in Seq(Works) /\ Len(v) = 2 /\ Len(w) = 5
      /\ v[1] = e /\ v[2] = f
      /\ w[1] = a /\ w[2] = b /\ w[3] = c /\ w[4] = e /\ w[5] = f
  BY <1>1
<1> HIDE DEF s, t, u, v, w
<1>4. s \o t = u
  <2>1. \A i \in 1 .. Len(s) : u[i] = s[i]
    BY <1>2
  <2>2. \A i \in 1 .. Len(t) : u[Len(s) + i] = t[i]
    BY <1>2
  <2>3. Len(u) = Len(s) + Len(t)
    BY <1>2
  <2> QED
    BY <1>2, <2>1, <2>2, <2>3, JoinedWork
<1>5. s \o v = w
  <2>1. \A i \in 1 .. Len(s) : w[i] = s[i]
    BY <1>2, <1>3
  <2>2. \A i \in 1 .. Len(v) : w[Len(s) + i] = v[i]
    BY <1>2, <1>3
  <2>3. Len(w) = Len(s) + Len(v)
    BY <1>2, <1>3
  <2> QED
    BY <1>2, <1>3, <2>1, <2>2, <2>3, JoinedWork
<1> QED
  BY <1>4, <1>5 DEF UploadOf, UploadWork, PlainWork, Download, a, b, c, d, e, f, s, t, u, v, w

\* What QueueResults queues.
LEMMA ResultWorks ==
    ResultsOf = IF Left = 0 THEN EmptyWork
                ELSE <<Work("gather"), UploadSummary, Work("summarize"),
                       Work("results"), Work("summary")>>
<1> DEFINE b == UploadSummary
           c == Work("summarize")
           d == Work("gather")
           e == Work("results")
           f == Work("summary")
<1>1. b \in Works /\ c \in Works /\ d \in Works /\ e \in Works /\ f \in Works
  BY WorksOf, <<>> \in Seq(Int)
<1> HIDE DEF b, c, d, e, f
<1> DEFINE s == <<d, b, c>>
           v == <<e, f>>
           w == <<d, b, c, e, f>>
<1>2. /\ s \in Seq(Works) /\ Len(s) = 3
      /\ s[1] = d /\ s[2] = b /\ s[3] = c
  BY <1>1
<1>3. /\ v \in Seq(Works) /\ w \in Seq(Works) /\ Len(v) = 2 /\ Len(w) = 5
      /\ v[1] = e /\ v[2] = f
      /\ w[1] = d /\ w[2] = b /\ w[3] = c /\ w[4] = e /\ w[5] = f
  BY <1>1
<1> HIDE DEF s, v, w
<1>5. s \o v = w
  <2>1. \A i \in 1 .. Len(s) : w[i] = s[i]
    BY <1>2, <1>3
  <2>2. \A i \in 1 .. Len(v) : w[Len(s) + i] = v[i]
    BY <1>2, <1>3
  <2>3. Len(w) = Len(s) + Len(v)
    BY <1>2, <1>3
  <2> QED
    BY <1>2, <1>3, <2>1, <2>2, <2>3, JoinedWork
<1> QED
  BY <1>5 DEF ResultsOf, EmptyWork, Download, b, c, d, e, f, s, v, w

\* FillLane queues works for the chunk that it has filled in, ...
LEMMA UploadSound ==
    ASSUME NEW chunk \in Seq(Int)
    PROVE  /\ SoundWork(UploadOf(chunk), chunk)
           /\ translation.ordered =>
                 \A i \in 1 .. Len(UploadOf(chunk)) :
                    UploadOf(chunk)[i].kind # "summary"
<1> DEFINE a == UploadInput(chunk)
           b == UploadSummary
           c == Work("translate")
           d == Work("decode")
           e == Work("results")
           f == Work("summary")
           u == <<a, b, c, d>>
           w == <<a, b, c, e, f>>
<1>1. /\ a \in Works /\ b \in Works /\ c \in Works /\ d \in Works /\ e \in Works
      /\ f \in Works
      /\ a.kind = "input" /\ a.meant = chunk /\ b.kind = "reset" /\ b.meant = <<>>
      /\ c.kind = "translate" /\ d.kind = "decode" /\ e.kind = "results"
      /\ f.kind = "summary"
  BY WorksOf
<1> HIDE DEF a, b, c, d, e, f
<1>2. /\ u \in Seq(Works) /\ w \in Seq(Works) /\ Len(u) = 4 /\ Len(w) = 5
      /\ u[1] = a /\ u[2] = b /\ u[3] = c /\ u[4] = d
      /\ w[1] = a /\ w[2] = b /\ w[3] = c /\ w[4] = e /\ w[5] = f
  BY <1>1
<1>3. UploadOf(chunk) = IF translation.ordered THEN u ELSE w
  BY UploadWorks DEF UploadWork, PlainWork, a, b, c, d, e, f
<1> HIDE DEF u, w
<1>4. SoundWork(u, chunk) /\ \A i \in 1 .. Len(u) : u[i].kind # "summary"
  BY <1>1, <1>2 DEF SoundWork
<1>5. SoundWork(w, chunk)
  BY <1>1, <1>2 DEF SoundWork
<1> QED
  BY <1>3, <1>4, <1>5

\* ... and the results name no chunk.
LEMMA ResultSound ==
    ASSUME NEW chunk
    PROVE  SoundWork(ResultsOf, chunk)
<1> DEFINE b == UploadSummary
           c == Work("summarize")
           d == Work("gather")
           e == Work("results")
           f == Work("summary")
           u == <<b, f>>
           w == <<d, b, c, e, f>>
<1>1. /\ b \in Works /\ c \in Works /\ d \in Works /\ e \in Works
      /\ f \in Works
      /\ b.kind = "reset" /\ b.meant = <<>>
      /\ c.kind = "summarize" /\ d.kind = "gather" /\ e.kind = "results"
      /\ f.kind = "summary"
  BY WorksOf, <<>> \in Seq(Int)
<1> HIDE DEF b, c, d, e, f
<1>2. /\ u \in Seq(Works) /\ w \in Seq(Works) /\ Len(u) = 2 /\ Len(w) = 5
      /\ u[1] = b /\ u[2] = f
      /\ w[1] = d /\ w[2] = b /\ w[3] = c /\ w[4] = e /\ w[5] = f
  BY <1>1
<1>3. ResultsOf = IF Left = 0 THEN u ELSE w
  BY ResultWorks DEF EmptyWork, b, c, d, e, f
<1> HIDE DEF u, w
<1>4. SoundWork(u, chunk)
  BY <1>1, <1>2 DEF SoundWork
<1>5. SoundWork(w, chunk)
  BY <1>1, <1>2 DEF SoundWork
<1> QED
  BY <1>3, <1>4, <1>5

\* The first part of sound work is sound.
LEMMA PrefixSound ==
    ASSUME NEW works, NEW chunk, SoundWork(works, chunk),
           NEW n \in 0 .. Len(works)
    PROVE  /\ SoundWork(SubSeq(works, 1, n), chunk)
           /\ \A i \in 1 .. Len(SubSeq(works, 1, n)) :
                 SubSeq(works, 1, n)[i] = works[i] /\ i \in 1 .. Len(works)
<1>1. works \in Seq(Works) /\ Len(works) \in Nat
  BY DEF SoundWork
<1> DEFINE sub == SubSeq(works, 1, n)
<1>2. /\ sub \in Seq(Works) /\ Len(sub) = n
      /\ \A i \in 1 .. n : sub[i] = works[i]
  BY <1>1
<1> HIDE DEF sub
<1>3. SoundWork(sub, chunk)
  BY <1>1, <1>2 DEF SoundWork
<1>4. \A i \in 1 .. Len(sub) : sub[i] = works[i] /\ i \in 1 .. Len(works)
  BY <1>1, <1>2
<1> QED
  BY <1>3, <1>4 DEF sub

\* Sound work behind work with no summary in it.
LEMMA JoinSound ==
    ASSUME NEW before, NEW after, NEW chunk,
           SoundWork(before, chunk), SoundWork(after, chunk),
           \A i \in 1 .. Len(before) : before[i].kind # "summary"
    PROVE  /\ SoundWork(before \o after, chunk)
           /\ (\A i \in 1 .. Len(after) : after[i].kind # "summary") =>
                 \A i \in 1 .. Len(before \o after) :
                    (before \o after)[i].kind # "summary"
<1> DEFINE m == Len(before)
           k == Len(after)
           both == before \o after
<1>1. before \in Seq(Works) /\ after \in Seq(Works) /\ m \in Nat /\ k \in Nat
  BY DEF SoundWork
<1>2. /\ both \in Seq(Works) /\ Len(both) = m + k
      /\ \A i \in 1 .. m + k :
            both[i] = IF i <= m THEN before[i] ELSE after[i - m]
  BY <1>1, ConcatProperties
<1>3. ASSUME NEW i \in 1 .. Len(both)
      PROVE  /\ both[i].kind = "input" => both[i].meant = chunk
             /\ both[i].kind = "reset" => both[i].meant = <<>>
             /\ both[i].kind = "summary" => i = Len(both)
             /\ (\A j \in 1 .. k : after[j].kind # "summary") =>
                   both[i].kind # "summary"
  <2>1. CASE i <= m
    <3>1. both[i] = before[i] /\ i \in 1 .. m
      BY <1>1, <1>2, <1>3, <2>1
    <3> QED
      BY <3>1 DEF SoundWork
  <2>2. CASE ~(i <= m)
    <3>1. i - m \in 1 .. k /\ (i - m = k => i = m + k) /\ i \in 1 .. m + k
      <4>1. m \in Nat /\ k \in Nat /\ i \in 1 .. m + k
        BY <1>1, <1>2, <1>3
      <4> QED
        BY ONLY <4>1, <2>2, SMT
    <3>2. both[i] = after[i - m]
      BY <1>2, <2>2, <3>1, Zenon
    <3> QED
      BY <1>2, <3>1, <3>2 DEF SoundWork
  <2> QED
    BY <2>1, <2>2
<1>4. SoundWork(both, chunk)
  BY <1>2, <1>3 DEF SoundWork
<1> HIDE DEF both
<1> QED
  BY <1>3, <1>4 DEF both

\* The rest of sound work is sound.
LEMMA RestSound ==
    ASSUME NEW works, NEW chunk, SoundWork(works, chunk), works # <<>>
    PROVE  /\ SoundWork(Tail(works), chunk)
           /\ works[1] \in Works
           /\ Len(Tail(works)) = Len(works) - 1 /\ Len(works) \in Nat \ {0}
           /\ \A i \in 1 .. Len(Tail(works)) : Tail(works)[i] = works[i + 1]
<1>1. works \in Seq(Works) /\ Len(works) \in Nat \ {0}
  BY DEF SoundWork
<1> DEFINE rest == Tail(works)
           m == Len(works)
<1>2. /\ rest \in Seq(Works) /\ Len(rest) = m - 1
      /\ \A i \in 1 .. m - 1 : rest[i] = works[i + 1]
  BY <1>1
<1> HIDE DEF rest
<1>3. SoundWork(rest, chunk)
  BY <1>1, <1>2 DEF SoundWork
<1>4. works[1] \in Works
  BY <1>1
<1> QED
  BY <1>1, <1>2, <1>3, <1>4 DEF rest

\* A lane that is left alone stays sound.
LEMMA LaneRests ==
    ASSUME NEW m, StreamSound(m), stream'[m] = stream[m], pinned'[m] = pinned[m],
           m \in lanesAlive' <=> m \in lanesAlive, AtWork' => AtWork,
           m \in pending' <=> m \in pending,
           AtWork' => (Operating(m)' <=> Operating(m))
    PROVE  StreamSound(m)'
<1>1. Operating(m)' => AtWork'
  BY DEF Operating, AtWork
<1> QED
  BY <1>1 DEF StreamSound

\* A translation starts with sound lanes.
LEMMA TranslationStarts ==
    ASSUME TranslationsAssumption, NEW t \in Translations,
           NEW state \in {"idle", "filling"}, TranslationStart(t, state)
    PROVE  StreamInv
<1>1. ChunksOf(t) \in Nat /\ ChunkCount = ChunksOf(t)
  BY LaneFacts DEF ChunkCount, TranslationStart
<1>2. Len(t.operations) \in Nat
  BY DEF TranslationsAssumption
<1>3. LaneTypes
  BY <1>1, <1>2 DEF LaneTypes, TranslationStart
<1>4. ASSUME NEW l \in LanesOf(translation) PROVE StreamSound(l)
  <2>1. /\ stream[l] = <<>> /\ l \in lanesAlive /\ pinned[l].input = Garbage
        /\ caller # "operating"
    BY DEF TranslationStart
  <2> QED
    BY <2>1 DEF StreamSound, SoundWork, Operating
<1> QED
  BY <1>3, <1>4 DEF StreamInv

\* A lane's results are taken.
LEMMA FinishStreams ==
    ASSUME TranslationsAssumption, StreamInv, caller = "filling",
           NEW l, Finish(l)
    PROVE  StreamInv'
<1>1. /\ LaneTypes /\ l \in pending /\ stream[l] = <<>> /\ pending' = pending \ {l}
      /\ UNCHANGED <<translation, caller, sequence, operation, ordinalStates,
                     laneSequence, laneCount, pinned, device, stream, lanesAlive>>
  BY DEF StreamInv, Finish, Synchronized, callerVars
<1>2. TheLane' = TheLane /\ ChunkCount' = ChunkCount
  BY <1>1 DEF TheLane, ChunkCount
<1>3. LaneTypes'
  BY <1>1, <1>2 DEF LaneTypes
<1>4. ASSUME NEW m \in LanesOf(translation) PROVE StreamSound(m)'
  <2>1. StreamSound(m)
    BY DEF StreamInv
  <2>2. CASE m = l
    BY <1>1, <2>1, <2>2 DEF StreamSound, AtWork, Operating
  <2>3. CASE m # l
    BY <1>1, <1>2, <2>1, <2>3, LaneRests DEF AtWork, Operating
  <2> QED
    BY <2>2, <2>3
<1> QED
  BY <1>1, <1>3, <1>4 DEF StreamInv

\* The next lane is free when it is to be filled, and what is queued on it is
\* there while it is worked on.
LEMMA FillStreams ==
    ASSUME TranslationsAssumption, StreamInv, FillLane
    PROVE  StreamInv'
<1> DEFINE l == TheLane
           chunk == Chunk(sequence)
<1>1. /\ LaneTypes /\ caller = "filling" /\ sequence < ChunkCount /\ l \notin pending
      /\ pinned' = [pinned EXCEPT ![l].input = chunk, ![l].summary = <<>>]
      /\ stream' = [stream EXCEPT ![l] = @ \o UploadOf(chunk)]
      /\ UNCHANGED <<translation, device, lanesAlive>>
      /\ \/ /\ translation.ordered /\ caller' = "operating" /\ operation' = 1
            /\ UNCHANGED <<sequence, pending, laneSequence, laneCount>>
         \/ /\ ~translation.ordered /\ InLane(l, Len(chunk))
            /\ UNCHANGED <<caller, operation>>
  BY DEF StreamInv, FillLane, Filling, laneVars, InitialSummary
<1>2. /\ l \in LanesOf(translation) /\ sequence \in Nat /\ translation \in Translations
  BY <1>1, NextLane DEF LaneTypes
<1>3. sequence \in 0 .. ChunksOf(translation) - 1 /\ ChunksOf(translation) \in Nat
  BY <1>1, <1>2, LaneFacts DEF ChunkCount
<1>4. chunk \in Seq(Nat) /\ chunk \in Seq(Int)
  <2>1. chunk \in Seq(Nat)
    BY <1>2, <1>3, ChunkFacts DEF Chunk
  <2> QED
    BY <2>1
<1>5. StreamSound(l) /\ stream[l] = <<>> /\ l \in lanesAlive
  BY <1>1, <1>2 DEF StreamInv, StreamSound, AtWork, Operating
<1> HIDE DEF l, chunk
<1>6. /\ DOMAIN pinned' = LanesOf(translation)
      /\ \A m \in LanesOf(translation) :
            DOMAIN pinned'[m] = {"input", "output", "summary"}
      /\ pinned'[l].input = chunk /\ pinned'[l].summary = <<>>
      /\ \A m \in LanesOf(translation) : m # l => pinned'[m] = pinned[m]
  BY <1>1, <1>2, PinnedFilled DEF LaneTypes
<1>7. /\ stream'[l] = UploadOf(chunk)
      /\ \A m \in LanesOf(translation) : m # l => stream'[m] = stream[m]
      /\ stream' \in [LanesOf(translation) -> Seq(Works)]
  <2>1. /\ UploadOf(chunk) \in Seq(Works) /\ stream \in [LanesOf(translation) -> Seq(Works)]
    BY <1>1, <1>4, UploadSound DEF SoundWork, LaneTypes
  <2>2. <<>> \o UploadOf(chunk) = UploadOf(chunk)
    BY <2>1, ConcatEmptySeq
  <2> QED
    BY <1>1, <1>2, <1>5, <2>1, <2>2
<1>8. LaneTypes'
  <2>1. ChunkCount' = ChunkCount /\ ChunkCount \in Nat
    BY <1>1, <1>3 DEF ChunkCount
  <2>2. CASE translation.ordered
    <3>1. Len(translation.operations) \in Nat
      BY <1>2 DEF TranslationsAssumption
    <3> QED
      BY <1>1, <1>6, <1>7, <2>1, <2>2, <3>1 DEF LaneTypes
  <2>3. CASE ~translation.ordered
    <3>1. /\ pending' = pending \cup {l} /\ sequence' = sequence + 1
          /\ laneSequence' = [laneSequence EXCEPT ![l] = sequence]
          /\ DOMAIN laneCount' = DOMAIN laneCount
          /\ UNCHANGED <<translation, caller, operation, device, lanesAlive>>
      BY <1>1, <2>3 DEF InLane
    <3>2. laneSequence' \in [LanesOf(translation) -> Nat]
      BY <1>1, <1>2, <3>1 DEF LaneTypes
    <3> QED
      BY <1>1, <1>2, <1>6, <1>7, <2>1, <3>1, <3>2 DEF LaneTypes
  <2> QED
    BY <2>2, <2>3
<1>9. ASSUME NEW m \in LanesOf(translation) PROVE StreamSound(m)'
  <2>1. StreamSound(m)
    BY DEF StreamInv
  <2>2. CASE m = l
    <3>1. /\ SoundWork(stream'[l], pinned'[l].input)
          /\ translation.ordered =>
                \A i \in 1 .. Len(stream'[l]) : stream'[l][i].kind # "summary"
      BY <1>4, <1>6, <1>7, UploadSound
    <3>2. CASE translation.ordered
      <4>1. l \notin pending' /\ caller' = "operating" /\ TheLane' = l
        BY <1>1, <3>2 DEF TheLane, l
      <4> QED
        BY <1>1, <1>5, <1>6, <2>2, <3>1, <3>2, <4>1 DEF StreamSound, AtWork, Operating
    <3>3. CASE ~translation.ordered
      <4>1. l \in pending' /\ caller' = "filling"
        BY <1>1, <3>3 DEF InLane
      <4> QED
        BY <1>1, <1>5, <1>6, <2>2, <3>1, <4>1 DEF StreamSound, AtWork, Operating
    <3> QED
      BY <3>2, <3>3
  <2>3. CASE m # l
    <3>1. m \in pending' <=> m \in pending
      BY <1>1, <2>3 DEF InLane
    <3>2. Operating(m)' <=> Operating(m)
      <4>1. ~Operating(m)
        BY <1>1 DEF Operating
      <4>2. CASE translation.ordered
        BY <1>1, <2>3, <4>1, <4>2 DEF Operating, TheLane, l
      <4>3. CASE ~translation.ordered
        BY <1>1, <4>1, <4>3 DEF Operating
      <4> QED
        BY <4>2, <4>3
    <3> QED
      BY <1>1, <1>6, <1>7, <2>1, <2>3, <3>1, <3>2, LaneRests DEF AtWork
  <2> QED
    BY <2>2, <2>3
<1> QED
  BY <1>1, <1>8, <1>9 DEF StreamInv

\* An operation leaves the streams sound, ...
LEMMA OperateStreams ==
    ASSUME TranslationsAssumption, StreamInv, Operate
    PROVE  StreamInv'
<1>1. /\ LaneTypes /\ caller = "operating"
      /\ operation <= Len(translation.operations)
      /\ operation' = operation + 1
      /\ device' = [device EXCEPT ![TheLane].batch =
            Survivors(translation.operations[operation], ordinalStates[operation], @)]
      /\ UNCHANGED <<translation, caller, sequence, pending, laneSequence,
                     laneCount, pinned, stream, lanesAlive>>
  BY DEF StreamInv, Operate, laneVars
<1>2. TheLane' = TheLane /\ ChunkCount' = ChunkCount
  BY <1>1 DEF TheLane, ChunkCount
<1>3. LaneTypes'
  <2>1. /\ DOMAIN device' = DOMAIN device
        /\ \A l \in DOMAIN device : DOMAIN device'[l] = DOMAIN device[l]
    BY <1>1
  <2>2. Len(translation.operations) \in Nat
    BY <1>1 DEF TranslationsAssumption, LaneTypes
  <2>3. operation' \in 1 .. Len(translation.operations) + 1
    BY <1>1, <2>2 DEF LaneTypes
  <2> QED
    BY <1>1, <1>2, <2>1, <2>3 DEF LaneTypes
<1>4. ASSUME NEW m \in LanesOf(translation) PROVE StreamSound(m)'
  BY <1>1, <1>2, LaneRests DEF StreamInv, AtWork, Operating
<1> QED
  BY <1>1, <1>3, <1>4 DEF StreamInv

\* ... the results that are queued do, ...
LEMMA QueueStreams ==
    ASSUME TranslationsAssumption, StreamInv, QueueResults
    PROVE  StreamInv'
<1> DEFINE l == TheLane
<1>1. /\ LaneTypes /\ caller = "operating" /\ sequence < ChunkCount
      /\ pinned' = [pinned EXCEPT ![l].summary = <<>>]
      /\ stream' = [stream EXCEPT ![l] = @ \o ResultsOf]
      /\ pending' = pending \cup {l} /\ sequence' = sequence + 1
      /\ laneSequence' = [laneSequence EXCEPT ![l] = sequence]
      /\ laneCount' = [laneCount EXCEPT ![l] = Left]
      /\ caller' = "filling"
      /\ UNCHANGED <<translation, operation, device, lanesAlive>>
  BY DEF StreamInv, QueueResults, Queueing, InLane, InitialSummary, LaneTypes
<1>2. /\ l \in LanesOf(translation) /\ sequence \in Nat /\ translation \in Translations
  BY <1>1, NextLane DEF LaneTypes
<1>3. StreamSound(l) /\ Operating(l) /\ AtWork
  BY <1>1, <1>2 DEF StreamInv, AtWork, Operating
<1> HIDE DEF l
<1>4. /\ DOMAIN pinned' = LanesOf(translation)
      /\ \A m \in LanesOf(translation) :
            DOMAIN pinned'[m] = {"input", "output", "summary"}
      /\ pinned'[l].input = pinned[l].input /\ pinned'[l].summary = <<>>
      /\ \A m \in LanesOf(translation) : m # l => pinned'[m] = pinned[m]
  BY <1>1, <1>2, PinnedReset DEF LaneTypes
<1>5. SoundWork(stream[l] \o ResultsOf, pinned[l].input)
  BY <1>3, ResultSound, JoinSound DEF StreamSound
<1>6. /\ stream'[l] = stream[l] \o ResultsOf
      /\ \A m \in LanesOf(translation) : m # l => stream'[m] = stream[m]
      /\ stream' \in [LanesOf(translation) -> Seq(Works)]
  <2>1. stream[l] \o ResultsOf \in Seq(Works) /\ stream \in [LanesOf(translation) -> Seq(Works)]
    BY <1>1, <1>5 DEF SoundWork, LaneTypes
  <2> QED
    BY <1>1, <1>2, <2>1
<1>7. LaneTypes'
  <2>1. ChunkCount' = ChunkCount /\ ChunkCount \in Nat
    BY <1>1, <1>2, LaneFacts DEF ChunkCount
  <2>2. laneSequence' \in [LanesOf(translation) -> Nat]
    BY <1>1, <1>2 DEF LaneTypes
  <2> QED
    BY <1>1, <1>2, <1>4, <1>6, <2>1, <2>2 DEF LaneTypes
<1>8. ASSUME NEW m \in LanesOf(translation) PROVE StreamSound(m)'
  <2>1. StreamSound(m)
    BY DEF StreamInv
  <2>2. CASE m = l
    BY <1>1, <1>3, <1>4, <1>5, <1>6, <2>2 DEF StreamSound, AtWork, Operating
  <2>3. CASE m # l
    <3>1. ~Operating(m) /\ ~Operating(m)'
      BY <1>1, <2>3 DEF Operating, l
    <3> QED
      BY <1>1, <1>3, <1>4, <1>6, <2>1, <2>3, <3>1, LaneRests
  <2> QED
    BY <2>2, <2>3
<1> QED
  BY <1>1, <1>7, <1>8 DEF StreamInv

\* A copy or a kernel is refused: what was queued before it stays on the stream.
LEMMA RefusedStreams ==
    ASSUME TranslationsAssumption, StreamInv, QueueFails
    PROVE  StreamInv'
<1> DEFINE l == TheLane
           chunk == Chunk(sequence)
<1>1. /\ LaneTypes /\ caller \in {"filling", "operating"} /\ sequence < ChunkCount
      /\ caller' = "throwing"
      /\ UNCHANGED <<translation, sequence, operation, pending, laneSequence,
                     laneCount, device, lanesAlive>>
  BY DEF StreamInv, QueueFails, Queueing, Filling, LaneTypes, laneVars
<1>2. /\ l \in LanesOf(translation) /\ sequence \in Nat /\ translation \in Translations
  BY <1>1, NextLane DEF LaneTypes
<1>3. chunk \in Seq(Nat) /\ chunk \in Seq(Int)
  <2>1. sequence \in 0 .. ChunksOf(translation) - 1 /\ ChunksOf(translation) \in Nat
    BY <1>1, <1>2, LaneFacts DEF ChunkCount
  <2>2. chunk \in Seq(Nat)
    BY <1>2, <2>1, ChunkFacts DEF Chunk
  <2> QED
    BY <2>2
<1>4. StreamSound(l) /\ l \in lanesAlive
  BY <1>1, <1>2 DEF StreamInv, StreamSound, AtWork
<1>5. \E input, works :
         /\ DOMAIN pinned' = LanesOf(translation)
         /\ \A m \in LanesOf(translation) :
               DOMAIN pinned'[m] = {"input", "output", "summary"}
         /\ pinned'[l].input = input /\ pinned'[l].summary = <<>>
         /\ \A m \in LanesOf(translation) : m # l => pinned'[m] = pinned[m]
         /\ SoundWork(works, input)
         /\ stream' = [stream EXCEPT ![l] = works]
  <2>1. CASE Filling
    <3>1. /\ caller = "filling" /\ l \notin pending
          /\ pinned' = [pinned EXCEPT ![l].input = chunk, ![l].summary = <<>>]
      BY <2>1 DEF Filling, InitialSummary
    <3>2. PICK n \in 0 .. Len(UploadOf(chunk)) - 1 :
             stream' = [stream EXCEPT ![l] = @ \o SubSeq(UploadOf(chunk), 1, n)]
      BY <3>1 DEF QueueFails, Queueing
    <3>3. stream[l] = <<>>
      BY <1>1, <1>4, <3>1 DEF StreamSound, AtWork, Operating
    <3> HIDE DEF l, chunk
    <3>4. SoundWork(UploadOf(chunk), chunk) /\ Len(UploadOf(chunk)) \in Nat
      BY <1>3, UploadSound DEF SoundWork
    <3>5. n \in 0 .. Len(UploadOf(chunk))
      BY <3>2, <3>4
    <3>6. SoundWork(SubSeq(UploadOf(chunk), 1, n), chunk)
      BY <3>4, <3>5, PrefixSound
    <3>7. <<>> \o SubSeq(UploadOf(chunk), 1, n) = SubSeq(UploadOf(chunk), 1, n)
      BY <3>6, ConcatEmptySeq DEF SoundWork
    <3>8. stream' = [stream EXCEPT ![l] = SubSeq(UploadOf(chunk), 1, n)]
      BY <3>2, <3>3, <3>7
    <3>9. /\ DOMAIN pinned' = LanesOf(translation)
          /\ \A m \in LanesOf(translation) :
               DOMAIN pinned'[m] = {"input", "output", "summary"}
          /\ pinned'[l].input = chunk /\ pinned'[l].summary = <<>>
          /\ \A m \in LanesOf(translation) : m # l => pinned'[m] = pinned[m]
      BY <1>1, <1>2, <3>1, PinnedFilled DEF LaneTypes
    <3> QED
      BY <3>6, <3>8, <3>9
  <2>2. CASE ~Filling
    <3>1. /\ caller = "operating"
          /\ pinned' = [pinned EXCEPT ![l].summary = <<>>]
      BY <2>2 DEF QueueFails, Queueing, InitialSummary
    <3>2. PICK n \in 0 .. Len(ResultsOf) - 1 :
             stream' = [stream EXCEPT ![l] = @ \o SubSeq(ResultsOf, 1, n)]
      BY <2>2 DEF QueueFails
    <3>3. Operating(l)
      BY <3>1 DEF Operating
    <3> HIDE DEF l, chunk
    <3>4. SoundWork(ResultsOf, pinned[l].input) /\ Len(ResultsOf) \in Nat
      <4>1. SoundWork(ResultsOf, pinned[l].input)
        BY ResultSound
      <4> QED
        BY <4>1 DEF SoundWork
    <3>5. n \in 0 .. Len(ResultsOf)
      BY <3>2, <3>4
    <3>6. SoundWork(SubSeq(ResultsOf, 1, n), pinned[l].input)
      BY <3>4, <3>5, PrefixSound
    <3>7. SoundWork(stream[l] \o SubSeq(ResultsOf, 1, n), pinned[l].input)
      BY <1>4, <3>3, <3>6, JoinSound DEF StreamSound
    <3>8. stream' = [stream EXCEPT ![l] = stream[l] \o SubSeq(ResultsOf, 1, n)]
      BY <3>2
    <3>9. /\ DOMAIN pinned' = LanesOf(translation)
          /\ \A m \in LanesOf(translation) :
               DOMAIN pinned'[m] = {"input", "output", "summary"}
          /\ pinned'[l].input = pinned[l].input /\ pinned'[l].summary = <<>>
          /\ \A m \in LanesOf(translation) : m # l => pinned'[m] = pinned[m]
      BY <1>1, <1>2, <3>1, PinnedReset DEF LaneTypes
    <3> QED
      BY <3>7, <3>8, <3>9
  <2> QED
    BY <2>1, <2>2
<1> HIDE DEF l, chunk
<1>6. PICK input, works :
         /\ DOMAIN pinned' = LanesOf(translation)
         /\ \A m \in LanesOf(translation) :
               DOMAIN pinned'[m] = {"input", "output", "summary"}
         /\ pinned'[l].input = input /\ pinned'[l].summary = <<>>
         /\ \A m \in LanesOf(translation) : m # l => pinned'[m] = pinned[m]
         /\ SoundWork(works, input)
         /\ stream' = [stream EXCEPT ![l] = works]
  BY <1>5
<1>7. /\ stream'[l] = works
      /\ \A m \in LanesOf(translation) : m # l => stream'[m] = stream[m]
      /\ stream' \in [LanesOf(translation) -> Seq(Works)]
  BY <1>1, <1>2, <1>6 DEF LaneTypes, SoundWork
<1>8. LaneTypes'
  <2>1. ChunkCount' = ChunkCount
    BY <1>1 DEF ChunkCount
  <2> QED
    BY <1>1, <1>6, <1>7, <2>1 DEF LaneTypes
<1>9. ASSUME NEW m \in LanesOf(translation) PROVE StreamSound(m)'
  <2>1. StreamSound(m) /\ ~AtWork' /\ ~Operating(m)'
    BY <1>1 DEF StreamInv, AtWork, Operating
  <2>2. CASE m = l
    BY <1>1, <1>4, <1>6, <1>7, <2>1, <2>2 DEF StreamSound
  <2>3. CASE m # l
    BY <1>1, <1>6, <1>7, <2>1, <2>3, LaneRests
  <2> QED
    BY <2>2, <2>3
<1> QED
  BY <1>1, <1>8, <1>9 DEF StreamInv

\* The call ends, well or not, and a lane is freed only when its stream is empty.
LEMMA EndStreams ==
    ASSUME StreamInv,
           WriteHeader \/ TranslationFails \/ DestroyLane \/ TranslationReturns
              \/ UNCHANGED translationVars
    PROVE  StreamInv'
<1>1. /\ LaneTypes
      /\ UNCHANGED <<translation, sequence, operation, pending, laneSequence,
                     laneCount, pinned, device, stream>>
      /\ \/ UNCHANGED <<caller, lanesAlive>>
         \/ /\ UNCHANGED lanesAlive
            /\ caller' \in {"returning", "throwing", "returned", "threw"}
         \/ /\ caller' = caller /\ caller \notin {"filling", "operating"}
            /\ \E l \in lanesAlive : stream[l] = <<>> /\ lanesAlive' = lanesAlive \ {l}
  BY DEF StreamInv, WriteHeader, TranslationFails, DestroyLane, TranslationReturns,
         translationVars, callerVars, laneVars, MayFreeLane
<1>2. TheLane' = TheLane /\ ChunkCount' = ChunkCount
  BY <1>1 DEF TheLane, ChunkCount
<1>3. LaneTypes'
  BY <1>1, <1>2 DEF LaneTypes
<1>4. ASSUME NEW m \in LanesOf(translation) PROVE StreamSound(m)'
  <2>1. StreamSound(m)
    BY DEF StreamInv
  <2>2. CASE UNCHANGED <<caller, lanesAlive>>
    BY <1>1, <1>2, <2>1, <2>2, LaneRests DEF AtWork, Operating
  <2>3. CASE /\ UNCHANGED lanesAlive
             /\ caller' \in {"returning", "throwing", "returned", "threw"}
    BY <1>1, <2>1, <2>3, LaneRests DEF AtWork, Operating
  <2>4. CASE /\ caller' = caller /\ caller \notin {"filling", "operating"}
             /\ \E l \in lanesAlive : stream[l] = <<>> /\ lanesAlive' = lanesAlive \ {l}
    BY <1>1, <2>1, <2>4 DEF StreamSound, AtWork, Operating
  <2> QED
    BY <1>1, <2>2, <2>3, <2>4
<1> QED
  BY <1>1, <1>3, <1>4 DEF StreamInv

\* What the device does to the buffers of one lane.
LEMMA DeviceWork ==
    ASSUME TranslationsAssumption, StreamInv, NEW l \in LanesOf(translation),
           stream[l] # <<>>,
           pinned' = [pinned EXCEPT ![l] = InPinned(l)],
           device' = [device EXCEPT ![l] = OnDevice(l)]
    PROVE  /\ DOMAIN pinned' = LanesOf(translation)
           /\ DOMAIN device' = LanesOf(translation)
           /\ \A m \in LanesOf(translation) :
                 /\ DOMAIN pinned'[m] = {"input", "output", "summary"}
                 /\ DOMAIN device'[m] = {"input", "output", "filtered", "batch", "summary"}
                 /\ m # l => pinned'[m] = pinned[m] /\ device'[m] = device[m]
           /\ pinned'[l].input = pinned[l].input
           /\ stream[l][1].kind # "summary" => pinned'[l].summary = pinned[l].summary
           /\ stream[l][1].kind # "results" => pinned'[l].output = pinned[l].output
           /\ stream[l][1].kind = "summary" => pinned'[l].summary = device[l].summary
           /\ stream[l][1].kind = "results" => pinned'[l].output =
                 IF translation.ordered THEN device[l].filtered ELSE device[l].output
<1> DEFINE kind == stream[l][1].kind
<1>1. /\ DOMAIN pinned = LanesOf(translation) /\ DOMAIN device = LanesOf(translation)
      /\ \A m \in LanesOf(translation) :
            /\ DOMAIN pinned[m] = {"input", "output", "summary"}
            /\ DOMAIN device[m] = {"input", "output", "filtered", "batch", "summary"}
  BY DEF StreamInv, LaneTypes
<1>2. /\ pinned'[l] = InPinned(l) /\ device'[l] = OnDevice(l)
      /\ DOMAIN pinned' = LanesOf(translation)
      /\ DOMAIN device' = LanesOf(translation)
      /\ \A m \in LanesOf(translation) :
            m # l => pinned'[m] = pinned[m] /\ device'[m] = device[m]
  BY <1>1
<1>3. DOMAIN OnDevice(l) = {"input", "output", "filtered", "batch", "summary"}
  BY <1>1 DEF OnDevice, IsWork
<1>4. /\ DOMAIN InPinned(l) = {"input", "output", "summary"}
      /\ InPinned(l).input = pinned[l].input
      /\ kind # "summary" => InPinned(l).summary = pinned[l].summary
      /\ kind # "results" => InPinned(l).output = pinned[l].output
      /\ kind = "summary" => InPinned(l).summary = device[l].summary
      /\ kind = "results" => InPinned(l).output =
            IF translation.ordered THEN device[l].filtered ELSE device[l].output
  BY <1>1 DEF InPinned, IsWork
<1> QED
  BY <1>1, <1>2, <1>3, <1>4

\* ... a work of the device does, ...
LEMMA DeviceStreams ==
    ASSUME TranslationsAssumption, StreamInv, DeviceWorks
    PROVE  StreamInv'
<1>1. PICK l \in LanesOf(translation) :
         /\ stream[l] # <<>>
         /\ device' = [device EXCEPT ![l] = OnDevice(l)]
         /\ pinned' = [pinned EXCEPT ![l] = InPinned(l)]
         /\ stream' = [stream EXCEPT ![l] = Tail(@)]
  BY DEF DeviceWorks
<1>2. /\ LaneTypes
      /\ UNCHANGED <<translation, caller, sequence, operation, pending, laneSequence,
                     laneCount, lanesAlive>>
  BY DEF StreamInv, DeviceWorks, callerVars, laneVars
<1>3. /\ DOMAIN pinned' = LanesOf(translation)
      /\ DOMAIN device' = LanesOf(translation)
      /\ \A m \in LanesOf(translation) :
            /\ DOMAIN pinned'[m] = {"input", "output", "summary"}
            /\ DOMAIN device'[m] = {"input", "output", "filtered", "batch", "summary"}
            /\ m # l => pinned'[m] = pinned[m] /\ device'[m] = device[m]
      /\ pinned'[l].input = pinned[l].input
      /\ stream[l][1].kind # "summary" => pinned'[l].summary = pinned[l].summary
  BY <1>1, DeviceWork
<1>4. StreamSound(l)
  BY DEF StreamInv
<1>5. /\ SoundWork(Tail(stream[l]), pinned[l].input)
      /\ Len(Tail(stream[l])) = Len(stream[l]) - 1 /\ Len(stream[l]) \in Nat \ {0}
      /\ \A i \in 1 .. Len(Tail(stream[l])) : Tail(stream[l])[i] = stream[l][i + 1]
  BY <1>1, <1>4, RestSound DEF StreamSound
<1>6. /\ stream'[l] = Tail(stream[l])
      /\ \A m \in LanesOf(translation) : m # l => stream'[m] = stream[m]
      /\ stream' \in [LanesOf(translation) -> Seq(Works)]
  BY <1>1, <1>2, <1>5 DEF LaneTypes, SoundWork
<1>7. TheLane' = TheLane /\ ChunkCount' = ChunkCount
  BY <1>2 DEF TheLane, ChunkCount
<1>8. LaneTypes'
  BY <1>2, <1>3, <1>6, <1>7 DEF LaneTypes
<1>9. StreamSound(l)'
  <2>1. stream[l][1].kind = "summary" => Len(stream[l]) = 1
    <3>1. 1 \in 1 .. Len(stream[l]) /\ SoundWork(stream[l], pinned[l].input)
      BY <1>4, <1>5 DEF StreamSound
    <3> QED
      BY <3>1 DEF SoundWork
  <2>2. SoundWork(stream'[l], pinned'[l].input)
    BY <1>3, <1>5, <1>6
  <2>3. (\E i \in 1 .. Len(stream'[l]) : stream'[l][i].kind = "reset") =>
           pinned'[l].summary = <<>>
    <3> SUFFICES ASSUME NEW i \in 1 .. Len(stream'[l]), stream'[l][i].kind = "reset"
                 PROVE  pinned'[l].summary = <<>>
      OBVIOUS
    <3>1. stream[l][i + 1].kind = "reset" /\ i + 1 \in 1 .. Len(stream[l])
      BY <1>5, <1>6
    <3>2. stream[l][1].kind # "summary"
      BY <1>5, <1>6, <2>1
    <3> QED
      BY <1>3, <1>4, <3>1, <3>2 DEF StreamSound
  <2>4. AtWork' <=> AtWork
    BY <1>2 DEF AtWork
  <2>5. Operating(l)' <=> Operating(l)
    BY <1>2, <1>7 DEF Operating
  <2>6. Operating(l) => \A i \in 1 .. Len(stream'[l]) : stream'[l][i].kind # "summary"
    <3> SUFFICES ASSUME Operating(l), NEW i \in 1 .. Len(stream'[l])
                 PROVE  stream'[l][i].kind # "summary"
      OBVIOUS
    <3>1. stream'[l][i] = stream[l][i + 1] /\ i + 1 \in 1 .. Len(stream[l])
      BY <1>5, <1>6
    <3> QED
      BY <1>4, <3>1 DEF StreamSound
  <2> QED
    BY <1>1, <1>2, <1>4, <2>2, <2>3, <2>4, <2>5, <2>6 DEF StreamSound
<1>10. ASSUME NEW m \in LanesOf(translation), m # l PROVE StreamSound(m)'
  <2>1. StreamSound(m)
    BY DEF StreamInv
  <2> QED
    BY <1>2, <1>3, <1>6, <1>7, <1>10, <2>1, LaneRests DEF AtWork, Operating
<1> QED
  BY <1>2, <1>8, <1>9, <1>10 DEF StreamInv

\* ... and every step.
LEMMA StreamsKeep ==
    ASSUME TranslationsAssumption, StreamInv,
           [TranslationCallerStep \/ DeviceWorks \/ TranslationOver]_translationVars
    PROVE  StreamInv'
<1>1. CASE FinishLane
  BY <1>1, FinishStreams DEF FinishLane
<1>2. CASE FinishPending
  BY <1>2, FinishStreams DEF FinishPending
<1>3. CASE \/ WriteHeader \/ TranslationFails \/ DestroyLane \/ TranslationReturns
           \/ TranslationOver \/ UNCHANGED translationVars
  BY <1>3, EndStreams DEF TranslationOver
<1> QED
  BY <1>1, <1>2, <1>3, FillStreams, OperateStreams, QueueStreams, RefusedStreams,
     DeviceStreams DEF TranslationCallerStep

\* The invariant of the streams holds throughout an attempt.
LEMMA StreamsHold ==
    ASSUME TranslationsAssumption
    PROVE  Spec => []StreamInv
<1>1. Init => StreamInv
  <2>1. SomeTranslation \in Translations
    BY DEF SomeTranslation, TranslationsAssumption
  <2>2. TranslationIdle => StreamInv
    BY <2>1, TranslationStarts DEF TranslationIdle
  <2>3. TranslationInit => StreamInv
    BY TranslationStarts DEF TranslationInit
  <2> QED
    BY <2>2, <2>3 DEF Init
<1>2. StreamInv /\ [Next]_attemptVars => StreamInv'
  <2> SUFFICES ASSUME StreamInv, [Next]_attemptVars PROVE StreamInv'
    OBVIOUS
  <2>1. [TranslationCallerStep \/ DeviceWorks \/ TranslationOver]_translationVars
    BY DEF Next, Of, attemptVars, TranslationCallerStep
  <2> QED
    BY <2>1, StreamsKeep
<1> QED
  BY <1>1, <1>2, PTL DEF Spec

\* Sound streams leave the buffers alone that queued work has yet to read, and
\* no work is queued on a destroyed lane.
LEMMA StreamsSpareBuffers ==
    ASSUME StreamInv
    PROVE  BuffersIntact
<1> SUFFICES ASSUME NEW l \in LanesOf(translation)
             PROVE  /\ \A i \in DOMAIN stream[l] :
                          /\ stream[l][i].kind = "input" =>
                                pinned[l].input = stream[l][i].meant
                          /\ stream[l][i].kind = "reset" =>
                                pinned[l].summary = stream[l][i].meant
                    /\ l \notin lanesAlive => stream[l] = <<>>
  BY DEF BuffersIntact
<1>1. /\ stream[l] \in Seq(Works) /\ StreamSound(l)
      /\ DOMAIN stream[l] = 1 .. Len(stream[l])
  BY DEF StreamInv, LaneTypes
<1> QED
  BY <1>1 DEF StreamSound, SoundWork

\* BuffersIntact, the buffers' part of TranslationRight: the host never refills
\* a pinned buffer, and never destroys a lane, while work queued on the lane's
\* stream still has to read what is there.
THEOREM BuffersKept ==
    ASSUME TranslationsAssumption
    PROVE  Spec => []BuffersIntact
<1>1. StreamInv => BuffersIntact
  BY StreamsSpareBuffers
<1> QED
  BY <1>1, StreamsHold, PTL

-----------------------------------------------------------------------------
(***************************************************************************)
(* The buffers.                                                            *)
(***************************************************************************)
\* What one work does: p and d are the buffers before it, q and e after it.
WorkDone(kind, p, d, q, e) ==
    /\ q.input = p.input
    /\ q.output = IF kind # "results" THEN p.output
                  ELSE IF translation.ordered THEN d.filtered ELSE d.output
    /\ q.summary = IF kind = "summary" THEN d.summary ELSE p.summary
    /\ e.input = IF kind = "input" THEN p.input ELSE d.input
    /\ e.output = IF kind = "translate" THEN d.input ELSE d.output
    /\ e.batch = IF kind = "decode" THEN d.output ELSE d.batch
    /\ e.filtered = IF kind = "gather" THEN d.batch ELSE d.filtered
    /\ e.summary = IF kind = "reset" THEN p.summary
                   ELSE IF kind = "translate" THEN d.summary \o d.input
                   ELSE IF kind = "summarize" THEN d.summary \o d.filtered
                   ELSE d.summary

\* A step of the device is the work at the head of the stream.
LEMMA DeviceDone ==
    ASSUME TranslationsAssumption, StreamInv, NEW l \in LanesOf(translation),
           stream[l] # <<>>,
           pinned' = [pinned EXCEPT ![l] = InPinned(l)],
           device' = [device EXCEPT ![l] = OnDevice(l)]
    PROVE  WorkDone(stream[l][1].kind, pinned[l], device[l], pinned'[l], device'[l])
<1> DEFINE kind == stream[l][1].kind
           d == device[l]
<1>1. /\ DOMAIN device = LanesOf(translation)
      /\ DOMAIN d = {"input", "output", "filtered", "batch", "summary"}
      /\ kind \in {"input", "reset", "translate", "decode", "gather", "summarize",
                   "results", "summary"}
  <2>1. stream[l] \in Seq(Works) /\ stream[l][1] \in Works
    BY DEF StreamInv, LaneTypes
  <2> QED
    BY <2>1 DEF StreamInv, LaneTypes, Works
<1>2. /\ pinned'[l].input = pinned[l].input
      /\ kind # "summary" => pinned'[l].summary = pinned[l].summary
      /\ kind # "results" => pinned'[l].output = pinned[l].output
      /\ kind = "summary" => pinned'[l].summary = d.summary
      /\ kind = "results" => pinned'[l].output =
            IF translation.ordered THEN d.filtered ELSE d.output
  BY DeviceWork
<1>3. device'[l] = OnDevice(l)
  BY <1>1
<1>4. CASE kind = "input"
  BY <1>1, <1>2, <1>3, <1>4 DEF OnDevice, IsWork, WorkDone
<1>5. CASE kind = "reset"
  BY <1>1, <1>2, <1>3, <1>5 DEF OnDevice, IsWork, WorkDone
<1>6. CASE kind = "translate"
  BY <1>1, <1>2, <1>3, <1>6 DEF OnDevice, IsWork, WorkDone
<1>7. CASE kind = "decode"
  BY <1>1, <1>2, <1>3, <1>7 DEF OnDevice, IsWork, WorkDone
<1>8. CASE kind = "gather"
  BY <1>1, <1>2, <1>3, <1>8 DEF OnDevice, IsWork, WorkDone
<1>9. CASE kind = "summarize"
  BY <1>1, <1>2, <1>3, <1>9 DEF OnDevice, IsWork, WorkDone
<1>10. CASE kind \in {"results", "summary"}
  BY <1>1, <1>2, <1>3, <1>10 DEF OnDevice, IsWork, WorkDone
<1> QED
  BY <1>1, <1>4, <1>5, <1>6, <1>7, <1>8, <1>9, <1>10

\* The first of what is left, and what is left then.
LEMMA RestStep ==
    ASSUME NEW rest \in Seq(Works), NEW whole \in Seq(Works),
           IsRest(rest, whole), rest # <<>>
    PROVE  /\ IsRest(Tail(rest), whole)
           /\ Tail(rest) \in Seq(Works)
           /\ Len(Tail(rest)) = Len(rest) - 1
           /\ Len(rest) \in Nat \ {0}
           /\ Len(rest) <= Len(whole)
           /\ rest[1] = whole[(Len(whole) - Len(rest)) + 1]
<1> DEFINE tail == Tail(rest)
           m == Len(rest)
           k == Len(whole)
<1>1. /\ m \in Nat \ {0} /\ k \in Nat /\ tail \in Seq(Works) /\ Len(tail) = m - 1
      /\ \A i \in 1 .. m - 1 : tail[i] = rest[i + 1]
  OBVIOUS
<1>2. m <= k /\ \A i \in 1 .. m : rest[i] = whole[(k - m) + i]
  BY DEF IsRest
<1>3. rest[1] = whole[(k - m) + 1]
  BY <1>1, <1>2
<1>4. ASSUME NEW i \in 1 .. m - 1 PROVE tail[i] = whole[(k - (m - 1)) + i]
  <2>1. i + 1 \in 1 .. m /\ (k - m) + (i + 1) = (k - (m - 1)) + i
    BY <1>1, <1>4
  <2> QED
    BY <1>1, <1>2, <2>1
<1> HIDE DEF tail
<1>5. IsRest(tail, whole)
  BY <1>1, <1>2, <1>4 DEF IsRest
<1> QED
  BY <1>1, <1>2, <1>3, <1>5 DEF tail

\* Before it starts, all of the work is queued.
LEMMA RestOfAll ==
    ASSUME NEW whole \in Seq(Works)
    PROVE  IsRest(whole, whole)
<1>1. Len(whole) \in Nat
  OBVIOUS
<1> QED
  BY <1>1 DEF IsRest

\* More work behind what is left.
LEMMA RestJoin ==
    ASSUME NEW rest \in Seq(Works), NEW whole \in Seq(Works),
           NEW more \in Seq(Works), IsRest(rest, whole)
    PROVE  /\ IsRest(rest \o more, whole \o more)
           /\ rest \o more \in Seq(Works)
           /\ Len(rest \o more) = Len(rest) + Len(more)
<1> DEFINE a == rest \o more
           b == whole \o more
           m == Len(rest)
           k == Len(whole)
           n == Len(more)
<1>1. m \in Nat /\ k \in Nat /\ n \in Nat
  OBVIOUS
<1>2. /\ a \in Seq(Works) /\ Len(a) = m + n
      /\ \A i \in 1 .. m + n : a[i] = IF i <= m THEN rest[i] ELSE more[i - m]
  BY ConcatProperties
<1>3. /\ Len(b) = k + n
      /\ \A i \in 1 .. k + n : b[i] = IF i <= k THEN whole[i] ELSE more[i - k]
  BY ConcatProperties
<1>4. m <= k /\ \A i \in 1 .. m : rest[i] = whole[(k - m) + i]
  BY DEF IsRest
<1>5. ASSUME NEW i \in 1 .. m + n PROVE a[i] = b[((k + n) - (m + n)) + i]
  <2> DEFINE j == ((k + n) - (m + n)) + i
  <2>1. j = (k - m) + i /\ j \in 1 .. k + n /\ j - k = i - m /\ (j <= k <=> i <= m)
    BY <1>1, <1>4, <1>5
  <2> HIDE DEF j
  <2>2. CASE i <= m
    <3>1. i \in 1 .. m
      BY <1>1, <1>5, <2>2
    <3>2. a[i] = rest[i] /\ b[j] = whole[j]
      BY <1>2, <1>3, <1>5, <2>1, <2>2
    <3> QED
      BY <1>4, <2>1, <3>1, <3>2 DEF j
  <2>3. CASE ~(i <= m)
    <3>1. a[i] = more[i - m] /\ b[j] = more[j - k]
      BY <1>2, <1>3, <1>5, <2>1, <2>3
    <3> QED
      BY <2>1, <3>1 DEF j
  <2> QED
    BY <2>2, <2>3
<1> HIDE DEF a, b
<1>6. IsRest(a, b)
  <2>1. m + n <= k + n
    BY <1>1, <1>4
  <2> QED
    BY <1>2, <1>3, <1>5, <2>1 DEF IsRest
<1> QED
  BY <1>2, <1>6 DEF a, b

\* The kinds of the works of each queue.
LEMMA QueueKinds ==
    ASSUME NEW chunk \in Seq(Int)
    PROVE  /\ PlainWork(chunk) \in Seq(Works) /\ Len(PlainWork(chunk)) = 5
           /\ PlainWork(chunk)[1].kind = "input" /\ PlainWork(chunk)[2].kind = "reset"
           /\ PlainWork(chunk)[3].kind = "translate"
           /\ PlainWork(chunk)[4].kind = "results"
           /\ PlainWork(chunk)[5].kind = "summary"
           /\ UploadWork(chunk) \in Seq(Works) /\ Len(UploadWork(chunk)) = 4
           /\ UploadWork(chunk)[1].kind = "input" /\ UploadWork(chunk)[2].kind = "reset"
           /\ UploadWork(chunk)[3].kind = "translate"
           /\ UploadWork(chunk)[4].kind = "decode"
           /\ OrderedWork(chunk) \in Seq(Works) /\ Len(OrderedWork(chunk)) = 9
           /\ OrderedWork(chunk)[1].kind = "input" /\ OrderedWork(chunk)[2].kind = "reset"
           /\ OrderedWork(chunk)[3].kind = "translate"
           /\ OrderedWork(chunk)[4].kind = "decode"
           /\ OrderedWork(chunk)[5].kind = "gather"
           /\ OrderedWork(chunk)[6].kind = "reset"
           /\ OrderedWork(chunk)[7].kind = "summarize"
           /\ OrderedWork(chunk)[8].kind = "results"
           /\ OrderedWork(chunk)[9].kind = "summary"
           /\ EmptyWork \in Seq(Works) /\ Len(EmptyWork) = 2
           /\ EmptyWork[1].kind = "reset" /\ EmptyWork[2].kind = "summary"
<1> DEFINE a == UploadInput(chunk)
           b == UploadSummary
           c == Work("translate")
           d == Work("decode")
           e == Work("results")
           f == Work("summary")
           g == Work("gather")
           h == Work("summarize")
<1>1. /\ a \in Works /\ b \in Works /\ c \in Works /\ d \in Works /\ e \in Works
      /\ f \in Works /\ g \in Works /\ h \in Works
      /\ a.kind = "input" /\ b.kind = "reset"
      /\ c.kind = "translate" /\ d.kind = "decode" /\ e.kind = "results"
      /\ f.kind = "summary" /\ g.kind = "gather" /\ h.kind = "summarize"
  BY WorksOf
<1>2. /\ PlainWork(chunk) = <<a, b, c, e, f>>
      /\ UploadWork(chunk) = <<a, b, c, d>>
      /\ OrderedWork(chunk) = <<a, b, c, d, g, b, h, e, f>>
      /\ EmptyWork = <<b, f>>
  BY DEF PlainWork, UploadWork, OrderedWork, EmptyWork
<1> HIDE DEF a, b, c, d, e, f, g, h
<1> QED
  BY <1>1, <1>2

\* One work of a lane's stream leaves its buffers right for what is left.
LEMMA PlainStep ==
    ASSUME NEW chunk \in Seq(Int), NEW p, NEW d, NEW rest, NEW q, NEW e,
           PlainLane(p, d, rest, chunk), rest # <<>>, ~translation.ordered,
           WorkDone(rest[1].kind, p, d, q, e)
    PROVE  PlainLane(q, e, Tail(rest), chunk)
<1> DEFINE tail == Tail(rest)
           m == Len(rest)
           k == Len(tail)
           whole == PlainWork(chunk)
           Right ==
            /\ q.input = chunk
            /\ k <= 4 => e.input = chunk
            /\ k = 3 => e.summary = <<>>
            /\ k <= 2 => e.output = chunk /\ e.summary = chunk
            /\ k <= 1 => q.output = chunk
            /\ q.summary = IF k = 0 THEN chunk ELSE <<>>
<1>0. d.summary = <<>> /\ d.input = chunk => d.summary \o d.input = chunk
  BY ConcatEmptySeq
<1>1. /\ whole \in Seq(Works) /\ Len(whole) = 5
      /\ rest \in Seq(Works) /\ IsRest(rest, whole)
  BY QueueKinds DEF PlainLane
<1>2. /\ p.input = chunk
      /\ m <= 4 => d.input = chunk
      /\ m = 3 => d.summary = <<>>
      /\ m <= 2 => d.output = chunk /\ d.summary = chunk
      /\ m <= 1 => p.output = chunk
      /\ p.summary = IF m = 0 THEN chunk ELSE <<>>
  BY DEF PlainLane
<1> HIDE DEF whole
<1>3. /\ IsRest(tail, whole) /\ tail \in Seq(Works) /\ k = m - 1
      /\ m \in Nat \ {0} /\ m <= 5 /\ rest[1] = whole[(5 - m) + 1]
  BY <1>1, RestStep
<1> HIDE DEF m, k
<1>4. ASSUME m = 5 PROVE Right
  <2>1. rest[1] = whole[1] /\ k = 4
    BY ONLY <1>3, <1>4, SMT
  <2>2. whole[1].kind = "input"
    BY QueueKinds DEF whole
  <2>3. WorkDone("input", p, d, q, e)
    BY <2>1, <2>2
  <2> QED
    BY ONLY <1>0, ~translation.ordered, <1>2, <1>4, <2>1, <2>3 DEF WorkDone
<1>5. ASSUME m = 4 PROVE Right
  <2>1. rest[1] = whole[2] /\ k = 3
    BY ONLY <1>3, <1>5, SMT
  <2>2. whole[2].kind = "reset"
    BY QueueKinds DEF whole
  <2>3. WorkDone("reset", p, d, q, e)
    BY <2>1, <2>2
  <2> QED
    BY ONLY <1>0, ~translation.ordered, <1>2, <1>5, <2>1, <2>3 DEF WorkDone
<1>6. ASSUME m = 3 PROVE Right
  <2>1. rest[1] = whole[3] /\ k = 2
    BY ONLY <1>3, <1>6, SMT
  <2>2. whole[3].kind = "translate"
    BY QueueKinds DEF whole
  <2>3. WorkDone("translate", p, d, q, e)
    BY <2>1, <2>2
  <2>4. d.summary = <<>> /\ d.input = chunk
    BY ONLY <1>2, <1>6, SMT
  <2>5. e.summary = chunk
    <3>1. e.summary = d.summary \o d.input
      BY <2>3, Zenon DEF WorkDone
    <3> QED
      BY <1>0, <2>4, <3>1, Zenon
  <2> QED
    BY ONLY <1>0, <2>4, <2>5, ~translation.ordered, <1>2, <1>6, <2>1, <2>3 DEF WorkDone
<1>7. ASSUME m = 2 PROVE Right
  <2>1. rest[1] = whole[4] /\ k = 1
    BY ONLY <1>3, <1>7, SMT
  <2>2. whole[4].kind = "results"
    BY QueueKinds DEF whole
  <2>3. WorkDone("results", p, d, q, e)
    BY <2>1, <2>2
  <2> QED
    BY ONLY <1>0, ~translation.ordered, <1>2, <1>7, <2>1, <2>3 DEF WorkDone
<1>8. ASSUME m = 1 PROVE Right
  <2>1. rest[1] = whole[5] /\ k = 0
    BY ONLY <1>3, <1>8, SMT
  <2>2. whole[5].kind = "summary"
    BY QueueKinds DEF whole
  <2>3. WorkDone("summary", p, d, q, e)
    BY <2>1, <2>2
  <2> QED
    BY ONLY <1>0, ~translation.ordered, <1>2, <1>8, <2>1, <2>3 DEF WorkDone
<1>9. Right
  BY <1>3, <1>4, <1>5, <1>6, <1>7, <1>8
<1> HIDE DEF tail
<1>10. PlainLane(q, e, tail, chunk)
  BY <1>3, <1>9 DEF PlainLane, k, whole
<1> QED
  BY <1>10 DEF tail

\* One work of a lane that is being uploaded, ...
LEMMA UploadStep ==
    ASSUME NEW chunk \in Seq(Int), NEW batch, NEW p, NEW d, NEW rest, NEW q, NEW e,
           UploadLane(p, d, rest, chunk, batch), rest # <<>>,
           WorkDone(rest[1].kind, p, d, q, e)
    PROVE  UploadLane(q, e, Tail(rest), chunk, batch)
<1> DEFINE tail == Tail(rest)
           m == Len(rest)
           k == Len(tail)
           whole == UploadWork(chunk)
           Right ==
            /\ q.input = chunk
            /\ k <= 3 => e.input = chunk
            /\ k <= 1 => e.output = chunk
            /\ k = 0 => e.batch = batch
            /\ k > 0 => batch = chunk
            /\ q.summary = <<>>
<1>1. /\ whole \in Seq(Works) /\ Len(whole) = 4
      /\ rest \in Seq(Works) /\ IsRest(rest, whole)
  BY QueueKinds DEF UploadLane
<1>2. /\ p.input = chunk
      /\ m <= 3 => d.input = chunk
      /\ m <= 1 => d.output = chunk
      /\ m = 0 => d.batch = batch
      /\ m > 0 => batch = chunk
      /\ p.summary = <<>>
  BY DEF UploadLane
<1> HIDE DEF whole
<1>3. /\ IsRest(tail, whole) /\ tail \in Seq(Works) /\ k = m - 1
      /\ m \in Nat \ {0} /\ m <= 4 /\ rest[1] = whole[(4 - m) + 1]
  BY <1>1, RestStep
<1> HIDE DEF m, k
<1>4. ASSUME m = 4 PROVE Right
  <2>1. rest[1] = whole[1] /\ k = 3
    BY ONLY <1>3, <1>4, SMT
  <2>2. whole[1].kind = "input"
    BY QueueKinds DEF whole
  <2>3. WorkDone("input", p, d, q, e)
    BY <2>1, <2>2
  <2> QED
    BY ONLY <1>2, <1>4, <2>1, <2>3 DEF WorkDone
<1>5. ASSUME m = 3 PROVE Right
  <2>1. rest[1] = whole[2] /\ k = 2
    BY ONLY <1>3, <1>5, SMT
  <2>2. whole[2].kind = "reset"
    BY QueueKinds DEF whole
  <2>3. WorkDone("reset", p, d, q, e)
    BY <2>1, <2>2
  <2> QED
    BY ONLY <1>2, <1>5, <2>1, <2>3 DEF WorkDone
<1>6. ASSUME m = 2 PROVE Right
  <2>1. rest[1] = whole[3] /\ k = 1
    BY ONLY <1>3, <1>6, SMT
  <2>2. whole[3].kind = "translate"
    BY QueueKinds DEF whole
  <2>3. WorkDone("translate", p, d, q, e)
    BY <2>1, <2>2
  <2> QED
    BY ONLY <1>2, <1>6, <2>1, <2>3 DEF WorkDone
<1>7. ASSUME m = 1 PROVE Right
  <2>1. rest[1] = whole[4] /\ k = 0
    BY ONLY <1>3, <1>7, SMT
  <2>2. whole[4].kind = "decode"
    BY QueueKinds DEF whole
  <2>3. WorkDone("decode", p, d, q, e)
    BY <2>1, <2>2
  <2> QED
    BY ONLY <1>2, <1>7, <2>1, <2>3 DEF WorkDone
<1>8. Right
  BY <1>3, <1>4, <1>5, <1>6, <1>7
<1> HIDE DEF tail
<1>9. UploadLane(q, e, tail, chunk, batch)
  BY <1>3, <1>8 DEF UploadLane, k, whole
<1> QED
  BY <1>9 DEF tail

\* ... of one with results, ...
LEMMA OrderedStep ==
    ASSUME NEW chunk \in Seq(Int), NEW batch \in Seq(Int), NEW p, NEW d, NEW rest, NEW q, NEW e,
           OrderedLane(p, d, rest, chunk, batch), rest # <<>>, translation.ordered,
           WorkDone(rest[1].kind, p, d, q, e)
    PROVE  OrderedLane(q, e, Tail(rest), chunk, batch)
<1> DEFINE tail == Tail(rest)
           m == Len(rest)
           k == Len(tail)
           whole == OrderedWork(chunk)
           Right ==
            /\ q.input = chunk
            /\ k <= 8 => e.input = chunk
            /\ k <= 6 => e.output = chunk
            /\ k > 5 => batch = chunk
            /\ k <= 5 => e.batch = batch
            /\ k <= 4 => e.filtered = batch
            /\ k = 3 => e.summary = <<>>
            /\ k <= 2 => e.summary = batch
            /\ k <= 1 => q.output = batch
            /\ q.summary = IF k = 0 THEN batch ELSE <<>>
<1>0. d.summary = <<>> /\ d.filtered = batch => d.summary \o d.filtered = batch
  BY ConcatEmptySeq
<1>1. /\ whole \in Seq(Works) /\ Len(whole) = 9
      /\ rest \in Seq(Works) /\ IsRest(rest, whole)
  BY QueueKinds DEF OrderedLane
<1>2. /\ p.input = chunk
      /\ m <= 8 => d.input = chunk
      /\ m <= 6 => d.output = chunk
      /\ m > 5 => batch = chunk
      /\ m <= 5 => d.batch = batch
      /\ m <= 4 => d.filtered = batch
      /\ m = 3 => d.summary = <<>>
      /\ m <= 2 => d.summary = batch
      /\ m <= 1 => p.output = batch
      /\ p.summary = IF m = 0 THEN batch ELSE <<>>
  BY DEF OrderedLane
<1> HIDE DEF whole
<1>3. /\ IsRest(tail, whole) /\ tail \in Seq(Works) /\ k = m - 1
      /\ m \in Nat \ {0} /\ m <= 9 /\ rest[1] = whole[(9 - m) + 1]
  <2>1. rest # <<>>
    OBVIOUS
  <2>2. /\ IsRest(tail, whole) /\ tail \in Seq(Works) /\ k = m - 1
        /\ m \in Nat \ {0} /\ m <= Len(whole) /\ rest[1] = whole[(Len(whole) - m) + 1]
    BY ONLY <1>1, <2>1, RestStep
  <2> QED
    BY ONLY <1>1, <2>2
<1> HIDE DEF m, k
<1>4. ASSUME m = 9 PROVE Right
  <2>1. rest[1] = whole[1] /\ k = 8
    BY ONLY <1>3, <1>4, SMT
  <2>2. whole[1].kind = "input"
    BY QueueKinds DEF whole
  <2>3. WorkDone("input", p, d, q, e)
    BY <2>1, <2>2
  <2> QED
    BY ONLY <1>0, translation.ordered, <1>2, <1>4, <2>1, <2>3 DEF WorkDone
<1>5. ASSUME m = 8 PROVE Right
  <2>1. rest[1] = whole[2] /\ k = 7
    BY ONLY <1>3, <1>5, SMT
  <2>2. whole[2].kind = "reset"
    BY QueueKinds DEF whole
  <2>3. WorkDone("reset", p, d, q, e)
    BY <2>1, <2>2
  <2> QED
    BY ONLY <1>0, translation.ordered, <1>2, <1>5, <2>1, <2>3 DEF WorkDone
<1>6. ASSUME m = 7 PROVE Right
  <2>1. rest[1] = whole[3] /\ k = 6
    BY ONLY <1>3, <1>6, SMT
  <2>2. whole[3].kind = "translate"
    BY QueueKinds DEF whole
  <2>3. WorkDone("translate", p, d, q, e)
    BY <2>1, <2>2
  <2> QED
    BY ONLY <1>0, translation.ordered, <1>2, <1>6, <2>1, <2>3 DEF WorkDone
<1>7. ASSUME m = 6 PROVE Right
  <2>1. rest[1] = whole[4] /\ k = 5
    BY ONLY <1>3, <1>7, SMT
  <2>2. whole[4].kind = "decode"
    BY QueueKinds DEF whole
  <2>3. WorkDone("decode", p, d, q, e)
    BY <2>1, <2>2
  <2> QED
    BY ONLY <1>0, translation.ordered, <1>2, <1>7, <2>1, <2>3 DEF WorkDone
<1>8. ASSUME m = 5 PROVE Right
  <2>1. rest[1] = whole[5] /\ k = 4
    BY ONLY <1>3, <1>8, SMT
  <2>2. whole[5].kind = "gather"
    BY QueueKinds DEF whole
  <2>3. WorkDone("gather", p, d, q, e)
    BY <2>1, <2>2
  <2> QED
    BY ONLY <1>0, translation.ordered, <1>2, <1>8, <2>1, <2>3 DEF WorkDone
<1>9. ASSUME m = 4 PROVE Right
  <2>1. rest[1] = whole[6] /\ k = 3
    BY ONLY <1>3, <1>9, SMT
  <2>2. whole[6].kind = "reset"
    BY QueueKinds DEF whole
  <2>3. WorkDone("reset", p, d, q, e)
    BY <2>1, <2>2
  <2> QED
    BY ONLY <1>0, translation.ordered, <1>2, <1>9, <2>1, <2>3 DEF WorkDone
<1>10. ASSUME m = 3 PROVE Right
  <2>1. rest[1] = whole[7] /\ k = 2
    BY ONLY <1>3, <1>10, SMT
  <2>2. whole[7].kind = "summarize"
    BY QueueKinds DEF whole
  <2>3. WorkDone("summarize", p, d, q, e)
    BY <2>1, <2>2
  <2>4. d.summary = <<>> /\ d.filtered = batch
    BY ONLY <1>2, <1>10, SMT
  <2>5. e.summary = batch
    <3>1. e.summary = d.summary \o d.filtered
      BY <2>3, Zenon DEF WorkDone
    <3> QED
      BY <1>0, <2>4, <3>1, Zenon
  <2> QED
    BY ONLY <1>0, <2>4, <2>5, translation.ordered, <1>2, <1>10, <2>1, <2>3 DEF WorkDone
<1>11. ASSUME m = 2 PROVE Right
  <2>1. rest[1] = whole[8] /\ k = 1
    BY ONLY <1>3, <1>11, SMT
  <2>2. whole[8].kind = "results"
    BY QueueKinds DEF whole
  <2>3. WorkDone("results", p, d, q, e)
    BY <2>1, <2>2
  <2> QED
    BY ONLY <1>0, translation.ordered, <1>2, <1>11, <2>1, <2>3 DEF WorkDone
<1>12. ASSUME m = 1 PROVE Right
  <2>1. rest[1] = whole[9] /\ k = 0
    BY ONLY <1>3, <1>12, SMT
  <2>2. whole[9].kind = "summary"
    BY QueueKinds DEF whole
  <2>3. WorkDone("summary", p, d, q, e)
    BY <2>1, <2>2
  <2> QED
    BY ONLY <1>0, translation.ordered, <1>2, <1>12, <2>1, <2>3 DEF WorkDone
<1>13. Right
  BY <1>3, <1>4, <1>5, <1>6, <1>7, <1>8, <1>9, <1>10, <1>11, <1>12
<1> HIDE DEF tail
<1>14. OrderedLane(q, e, tail, chunk, batch)
  BY <1>3, <1>13 DEF OrderedLane, k, whole
<1> QED
  BY <1>14 DEF tail

\* ... and of one without.
LEMMA EmptyStep ==
    ASSUME NEW p, NEW d, NEW rest, NEW q, NEW e,
           EmptyLane(p, d, rest), rest # <<>>,
           WorkDone(rest[1].kind, p, d, q, e)
    PROVE  EmptyLane(q, e, Tail(rest))
<1> DEFINE tail == Tail(rest)
           m == Len(rest)
           k == Len(tail)
           whole == EmptyWork
           Right ==
            /\ k <= 1 => e.summary = <<>>
            /\ q.summary = <<>>
<1>1. /\ whole \in Seq(Works) /\ Len(whole) = 2
      /\ rest \in Seq(Works) /\ IsRest(rest, whole)
  BY QueueKinds, <<>> \in Seq(Int) DEF EmptyLane
<1>2. /\ m <= 1 => d.summary = <<>>
      /\ p.summary = <<>>
  BY DEF EmptyLane
<1> HIDE DEF whole
<1>3. /\ IsRest(tail, whole) /\ tail \in Seq(Works) /\ k = m - 1
      /\ m \in Nat \ {0} /\ m <= 2 /\ rest[1] = whole[(2 - m) + 1]
  BY <1>1, RestStep
<1> HIDE DEF m, k
<1>4. ASSUME m = 2 PROVE Right
  <2>1. rest[1] = whole[1] /\ k = 1
    BY ONLY <1>3, <1>4, SMT
  <2>2. whole[1].kind = "reset"
    BY QueueKinds, <<>> \in Seq(Int) DEF whole
  <2>3. WorkDone("reset", p, d, q, e)
    BY <2>1, <2>2
  <2> QED
    BY ONLY <1>2, <1>4, <2>1, <2>3 DEF WorkDone
<1>5. ASSUME m = 1 PROVE Right
  <2>1. rest[1] = whole[2] /\ k = 0
    BY ONLY <1>3, <1>5, SMT
  <2>2. whole[2].kind = "summary"
    BY QueueKinds, <<>> \in Seq(Int) DEF whole
  <2>3. WorkDone("summary", p, d, q, e)
    BY <2>1, <2>2
  <2> QED
    BY ONLY <1>2, <1>5, <2>1, <2>3 DEF WorkDone
<1>6. Right
  BY <1>3, <1>4, <1>5
<1> HIDE DEF tail
<1>7. EmptyLane(q, e, tail)
  BY <1>3, <1>6 DEF EmptyLane, k, whole
<1> QED
  BY <1>7 DEF tail

\* What CarriedAssumption says of one chunk of an ordered translation.
LEMMA CarriedChunk ==
    ASSUME TranslationsAssumption, CarriedAssumption, NEW t \in Translations,
           t.ordered, NEW n \in 0 .. ChunksOf(t) - 1
    PROVE  /\ Progress(t)[<<n, 1>>].batch = ChunkOf(t, n)
           /\ \A i \in 1 .. Len(t.operations) :
                 /\ Progress(t)[<<n, i + 1>>].batch =
                       Survivors(t.operations[i], Progress(t)[<<n, i>>].state,
                                 Progress(t)[<<n, i>>].batch)
                 /\ Progress(t)[<<n + 1, i>>].state =
                       StateAfter(t.operations[i], Progress(t)[<<n, i>>].state,
                                  Progress(t)[<<n, i>>].batch)
           /\ LeftOf(t, n) = Progress(t)[<<n, Len(t.operations) + 1>>].batch
           /\ LeftOf(t, n) \in Seq(Nat)
           /\ PlacesOf(t)[n + 1] = PlacesOf(t)[n] + Len(LeftOf(t, n))
           /\ \A i \in 1 .. Len(LeftOf(t, n)) :
                 Reference(t.operations, t.mode, FirstPoints(t.points))[PlacesOf(t)[n] + i]
                    = LeftOf(t, n)[i]
<1>1. ChunksCarried(t) /\ DOMAIN t.operations = 1 .. Len(t.operations)
  BY DEF CarriedAssumption, TranslationsAssumption
<1>2. LeftOf(t, n) \in Seq(Nat)
  BY <1>1 DEF ChunksCarried
<1>3. DOMAIN LeftOf(t, n) = 1 .. Len(LeftOf(t, n))
  BY <1>2
<1>4. LeftOf(t, n) = Progress(t)[<<n, Len(t.operations) + 1>>].batch
  BY DEF LeftOf
<1>5. \A i \in 1 .. Len(t.operations) :
         /\ Progress(t)[<<n, i + 1>>].batch =
               Survivors(t.operations[i], Progress(t)[<<n, i>>].state,
                         Progress(t)[<<n, i>>].batch)
         /\ Progress(t)[<<n + 1, i>>].state =
               StateAfter(t.operations[i], Progress(t)[<<n, i>>].state,
                          Progress(t)[<<n, i>>].batch)
  BY <1>1 DEF ChunksCarried
<1>6. /\ Progress(t)[<<n, 1>>].batch = ChunkOf(t, n)
      /\ PlacesOf(t)[n + 1] = PlacesOf(t)[n] + Len(LeftOf(t, n))
  BY <1>1 DEF ChunksCarried
<1>7. \A i \in DOMAIN LeftOf(t, n) :
         Reference(t.operations, t.mode, FirstPoints(t.points))[PlacesOf(t)[n] + i]
            = LeftOf(t, n)[i]
  BY <1>1 DEF ChunksCarried
<1> QED
  BY <1>2, <1>3, <1>4, <1>5, <1>6, <1>7

\* What ChunksCarried says of the whole of a translation.
LEMMA CarriedWhole ==
    ASSUME TranslationsAssumption, CarriedAssumption, NEW t \in Translations,
           t.ordered
    PROVE  LET reference == Reference(t.operations, t.mode, FirstPoints(t.points))
           IN  /\ \A i \in 1 .. Len(t.operations) :
                     Progress(t)[<<0, i>>].state =
                        OrdinalStates(t.operations, t.mode, t.points)[i]
               /\ PlacesOf(t) \in [0 .. ChunksOf(t) -> 0 .. t.points]
               /\ PlacesOf(t)[0] = 0
               /\ PlacesOf(t)[ChunksOf(t)] = Len(reference)
               /\ reference \in Seq(Nat)
               /\ \A i \in 1 .. Len(reference) : reference[i] \in 0 .. t.points - 1
<1> DEFINE reference == Reference(t.operations, t.mode, FirstPoints(t.points))
<1>1. ChunksCarried(t) /\ DOMAIN t.operations = 1 .. Len(t.operations)
  BY DEF CarriedAssumption, TranslationsAssumption
<1>2. reference \in Seq(0 .. t.points - 1)
  BY <1>1 DEF ChunksCarried
<1> HIDE DEF reference
<1>3. /\ reference \in Seq(Nat)
      /\ \A i \in 1 .. Len(reference) : reference[i] \in 0 .. t.points - 1
  <2> DEFINE S == 0 .. t.points - 1
  <2>1. t.points \in Nat
    BY DEF TranslationsAssumption
  <2>2. \A x \in S : x \in Nat
    BY <2>1, SMT
  <2>3. reference \in Seq(S)
    BY <1>2
  <2> HIDE DEF S
  <2>4. reference \in Seq(Nat) /\ \A i \in 1 .. Len(reference) : reference[i] \in S
    BY <2>2, <2>3
  <2> QED
    BY <2>4 DEF S
<1> QED
  BY <1>1, <1>3 DEF ChunksCarried, reference

\* A chunk and what is left of it are sequences of points.
LEMMA ResultTypes ==
    ASSUME TranslationsAssumption, CarriedAssumption, LaneTypes,
           NEW n \in Nat, n < ChunkCount
    PROVE  /\ n \in 0 .. ChunksOf(translation) - 1
           /\ Chunk(n) \in Seq(Nat) /\ Chunk(n) \in Seq(Int)
           /\ Len(Chunk(n)) \in Nat \ {0}
           /\ Result(n) \in Seq(Nat) /\ Result(n) \in Seq(Int)
<1>1. translation \in Translations
  BY DEF LaneTypes
<1>2. n \in 0 .. ChunksOf(translation) - 1
  BY <1>1, LaneFacts DEF ChunkCount
<1>3. Chunk(n) \in Seq(Nat) /\ Len(Chunk(n)) \in Nat \ {0}
  BY <1>1, <1>2, ChunkFacts DEF Chunk
<1>4. Result(n) \in Seq(Nat)
  BY <1>1, <1>2, <1>3, CarriedChunk DEF Result
<1>5. \A s \in Seq(Nat) : s \in Seq(Int)
  OBVIOUS
<1> QED
  BY <1>2, <1>3, <1>4, <1>5

\* A pending lane that is left alone stays as it is.
LEMMA PendingRests ==
    ASSUME NEW m, PendingLane(m), translation' = translation,
           pinned'[m] = pinned[m], device'[m] = device[m], stream'[m] = stream[m],
           laneSequence'[m] = laneSequence[m], laneCount'[m] = laneCount[m]
    PROVE  PendingLane(m)'
<1>1. \A n : Chunk(n)' = Chunk(n) /\ Result(n)' = Result(n)
  BY DEF Chunk, Result
<1> QED
  BY <1>1 DEF PendingLane

\* The states of the operations rest.
LEMMA StatesRest ==
    ASSUME ResultInv, AtWork, translation' = translation, caller' = caller,
           sequence' = sequence, operation' = operation,
           ordinalStates' = ordinalStates
    PROVE  translation.ordered' =>
              /\ (DOMAIN ordinalStates = DOMAIN translation.operations)'
              /\ (\A i \in DOMAIN translation.operations :
                    ordinalStates[i] = Progress(translation)[
                       <<IF caller = "operating" /\ i < operation
                         THEN sequence + 1 ELSE sequence, i>>].state)'
  BY DEF ResultInv

\* The buffers of a lane that was just filled.
LEMMA LaneBegins ==
    ASSUME NEW chunk \in Seq(Int), NEW p, NEW d,
           p.input = chunk, p.summary = <<>>
    PROVE  /\ PlainLane(p, d, PlainWork(chunk), chunk)
           /\ UploadLane(p, d, UploadWork(chunk), chunk, chunk)
<1>1. /\ PlainWork(chunk) \in Seq(Works) /\ Len(PlainWork(chunk)) = 5
      /\ UploadWork(chunk) \in Seq(Works) /\ Len(UploadWork(chunk)) = 4
      /\ IsRest(PlainWork(chunk), PlainWork(chunk))
      /\ IsRest(UploadWork(chunk), UploadWork(chunk))
  BY QueueKinds, RestOfAll
<1>2. PlainLane(p, d, PlainWork(chunk), chunk)
  BY <1>1 DEF PlainLane
<1>3. UploadLane(p, d, UploadWork(chunk), chunk, chunk)
  BY <1>1 DEF UploadLane
<1> QED
  BY <1>2, <1>3

\* The other lanes keep their results when those of one are taken.
LEMMA FinishResults ==
    ASSUME TranslationsAssumption, StreamInv, ResultInv, caller = "filling",
           NEW l, Finish(l)
    PROVE  ResultInv'
<1>1. /\ pending' = pending \ {l}
      /\ UNCHANGED <<translation, caller, sequence, operation, ordinalStates,
                     laneSequence, laneCount, pinned, device, stream>>
  BY DEF Finish, callerVars
<1>2. AtWork
  BY DEF AtWork
<1>3. ASSUME NEW m \in pending' PROVE PendingLane(m)'
  BY <1>1, <1>2, <1>3, PendingRests DEF ResultInv
<1> QED
  BY <1>1, <1>2, <1>3, StatesRest DEF ResultInv

\* A chunk is filled in: the lane's works are those of the chunk.
LEMMA FillResults ==
    ASSUME TranslationsAssumption, CarriedAssumption, StreamInv, ResultInv, FillLane
    PROVE  ResultInv'
<1> DEFINE l == TheLane
           chunk == Chunk(sequence)
<1>1. /\ LaneTypes /\ caller = "filling" /\ sequence < ChunkCount /\ l \notin pending
      /\ pinned' = [pinned EXCEPT ![l].input = chunk, ![l].summary = <<>>]
      /\ stream' = [stream EXCEPT ![l] = @ \o UploadOf(chunk)]
      /\ UNCHANGED <<translation, ordinalStates, device>>
      /\ \/ /\ translation.ordered /\ caller' = "operating" /\ operation' = 1
            /\ UNCHANGED <<sequence, pending, laneSequence, laneCount>>
         \/ /\ ~translation.ordered /\ InLane(l, Len(chunk))
            /\ UNCHANGED <<caller, operation>>
  BY DEF StreamInv, FillLane, Filling, laneVars, InitialSummary
<1>2. /\ l \in LanesOf(translation) /\ sequence \in Nat /\ translation \in Translations
  BY <1>1, NextLane DEF LaneTypes
<1>3. chunk \in Seq(Int) /\ sequence \in 0 .. ChunksOf(translation) - 1
  BY <1>1, <1>2, ResultTypes
<1>4. stream[l] = <<>> /\ AtWork
  BY <1>1, <1>2 DEF StreamInv, StreamSound, AtWork, Operating
<1> HIDE DEF l, chunk
<1>5. /\ pinned'[l].input = chunk /\ pinned'[l].summary = <<>>
      /\ \A m \in LanesOf(translation) : m # l => pinned'[m] = pinned[m]
  BY <1>1, <1>2, PinnedFilled DEF LaneTypes
<1>6. /\ stream'[l] = UploadOf(chunk)
      /\ \A m \in LanesOf(translation) : m # l => stream'[m] = stream[m]
  <2>1. /\ UploadOf(chunk) \in Seq(Works) /\ stream \in [LanesOf(translation) -> Seq(Works)]
    BY <1>1, <1>3, UploadSound DEF SoundWork, LaneTypes
  <2>2. <<>> \o UploadOf(chunk) = UploadOf(chunk)
    BY <2>1, ConcatEmptySeq
  <2> QED
    BY <1>1, <1>2, <1>4, <2>1, <2>2
<1>7. /\ PlainLane(pinned'[l], device'[l], PlainWork(chunk), chunk)
      /\ UploadLane(pinned'[l], device'[l], UploadWork(chunk), chunk, chunk)
  BY <1>3, <1>5, LaneBegins
<1>8. ASSUME NEW m \in pending, m # l,
             laneSequence'[m] = laneSequence[m], laneCount'[m] = laneCount[m]
      PROVE  PendingLane(m)'
  <2>1. m \in LanesOf(translation) /\ PendingLane(m)
    BY <1>1, <1>4 DEF LaneTypes, ResultInv
  <2> QED
    BY <1>1, <1>5, <1>6, <1>8, <2>1, PendingRests
<1>9. CASE translation.ordered
  <2>1. /\ UNCHANGED <<sequence, pending, laneSequence, laneCount>>
        /\ caller' = "operating" /\ operation' = 1
        /\ TheLane' = l /\ Chunk(sequence)' = chunk
    BY <1>1, <1>9 DEF TheLane, l, Chunk, chunk
  <2>2. \A m \in pending' : PendingLane(m)'
    BY <1>1, <1>8, <2>1
  <2>3. stream'[l] = UploadWork(chunk)
    BY <1>3, <1>6, <1>9, UploadWorks
  <2>4. Progress(translation)[<<sequence, 1>>].batch = chunk
    BY <1>2, <1>3, <1>9, CarriedChunk DEF chunk, Chunk
  <2>5. UploadLane(pinned'[l], device'[l], stream'[l], chunk, chunk)
    BY <1>7, <2>3
  <2>6. /\ DOMAIN ordinalStates = DOMAIN translation.operations
        /\ \A i \in DOMAIN translation.operations :
              ordinalStates[i] = Progress(translation)[<<sequence, i>>].state
    BY <1>1, <1>4, <1>9 DEF ResultInv
  <2>7. \A i \in DOMAIN translation.operations : ~(i < 1)
    BY <1>2 DEF TranslationsAssumption
  <2> QED
    BY <1>1, <1>9, <2>1, <2>2, <2>4, <2>5, <2>6, <2>7 DEF ResultInv
<1>10. CASE ~translation.ordered
  <2>1. /\ pending' = pending \cup {l} /\ sequence' = sequence + 1
        /\ laneSequence' = [laneSequence EXCEPT ![l] = sequence]
        /\ laneCount' = [laneCount EXCEPT ![l] = Len(chunk)]
        /\ UNCHANGED <<caller, operation>>
    BY <1>1, <1>10 DEF InLane
  <2>2. /\ laneSequence'[l] = sequence /\ laneCount'[l] = Len(chunk)
        /\ \A m \in pending : m # l =>
              laneSequence'[m] = laneSequence[m] /\ laneCount'[m] = laneCount[m]
    BY <1>1, <1>2, <2>1 DEF LaneTypes
  <2>3. ASSUME NEW m, m = l PROVE PendingLane(m)'
    <3>1. stream'[m] = PlainWork(chunk)
      BY <1>3, <1>6, <1>10, <2>3, UploadWorks
    <3>2. PlainLane(pinned'[m], device'[m], stream'[m], chunk)
      BY <1>7, <2>3, <3>1
    <3>3. laneSequence'[m] = sequence /\ laneCount'[m] = Len(chunk)
      BY <2>2, <2>3
    <3>4. Chunk(laneSequence[m])' = chunk /\ Result(laneSequence[m])' = chunk
      BY <1>1, <1>10, <3>3 DEF Chunk, Result, chunk
    <3> QED
      BY <1>1, <1>10, <3>2, <3>3, <3>4 DEF PendingLane
  <2>4. \A m \in pending' : PendingLane(m)'
    BY <1>1, <1>8, <2>1, <2>2, <2>3
  <2> QED
    BY <1>1, <1>10, <2>1, <2>4 DEF ResultInv
<1> QED
  BY <1>9, <1>10

\* One operation carries a chunk on, on the device as without lanes.
LEMMA OperateResults ==
    ASSUME TranslationsAssumption, CarriedAssumption, StreamInv, ResultInv, Operate
    PROVE  ResultInv'
<1> DEFINE l == TheLane
           chunk == Chunk(sequence)
           at == Progress(translation)
           op == translation.operations[operation]
<1>1. /\ LaneTypes /\ caller = "operating" /\ sequence < ChunkCount
      /\ operation \in 1 .. Len(translation.operations)
      /\ stream[l] = <<>>
      /\ operation' = operation + 1
      /\ device' = [device EXCEPT ![l].batch =
            Survivors(op, ordinalStates[operation], @)]
      /\ ordinalStates' = [ordinalStates EXCEPT ![operation] =
            StateAfter(op, @, device[l].batch)]
      /\ UNCHANGED <<translation, caller, sequence, pending, laneSequence,
                     laneCount, pinned, stream, lanesAlive>>
  BY DEF StreamInv, Operate, Synchronized, laneVars, LaneTypes
<1>2. /\ l \in LanesOf(translation) /\ sequence \in Nat /\ translation \in Translations
  BY <1>1, NextLane DEF LaneTypes
<1>3. chunk \in Seq(Int) /\ sequence \in 0 .. ChunksOf(translation) - 1
  BY <1>1, <1>2, ResultTypes
<1>4. /\ translation.ordered /\ AtWork /\ l \notin pending
      /\ UploadLane(pinned[l], device[l], stream[l], chunk, at[<<sequence, operation>>].batch)
      /\ DOMAIN ordinalStates = DOMAIN translation.operations
      /\ \A i \in DOMAIN translation.operations :
            ordinalStates[i] = at[<<IF i < operation THEN sequence + 1 ELSE sequence, i>>].state
  BY <1>1, <1>2 DEF ResultInv, AtWork, StreamInv, StreamSound, Operating
<1>5. DOMAIN translation.operations = 1 .. Len(translation.operations)
  BY <1>2 DEF TranslationsAssumption
<1>6. /\ at[<<sequence, operation + 1>>].batch =
            Survivors(op, at[<<sequence, operation>>].state, at[<<sequence, operation>>].batch)
      /\ at[<<sequence + 1, operation>>].state =
            StateAfter(op, at[<<sequence, operation>>].state, at[<<sequence, operation>>].batch)
  BY <1>1, <1>2, <1>3, <1>4, CarriedChunk
<1>7. /\ ordinalStates[operation] = at[<<sequence, operation>>].state
      /\ device[l].batch = at[<<sequence, operation>>].batch
  <2>1. ~(operation < operation)
    BY <1>1, <1>5
  <2>2. Len(stream[l]) = 0
    BY <1>1
  <2> QED
    BY <1>1, <1>4, <1>5, <2>1, <2>2 DEF UploadLane
<1> HIDE DEF l, chunk, at, op
<1>8. /\ device'[l].batch = at[<<sequence, operation + 1>>].batch
      /\ device'[l].input = device[l].input
      /\ device'[l].output = device[l].output
      /\ \A m \in LanesOf(translation) : m # l => device'[m] = device[m]
  <2>1. /\ DOMAIN device = LanesOf(translation)
        /\ DOMAIN device[l] = {"input", "output", "filtered", "batch", "summary"}
    BY <1>1, <1>2 DEF LaneTypes
  <2> QED
    BY <1>1, <1>2, <1>6, <1>7, <2>1
<1>9. UploadLane(pinned'[l], device'[l], stream'[l], chunk,
                 at[<<sequence, operation + 1>>].batch)
  <2>1. Len(stream[l]) = 0 /\ pinned' = pinned /\ stream' = stream
    BY <1>1
  <2> QED
    BY <1>4, <1>8, <2>1 DEF UploadLane
<1>10. /\ DOMAIN ordinalStates' = DOMAIN translation.operations
       /\ \A i \in DOMAIN translation.operations :
            ordinalStates'[i] =
               at[<<IF i < operation + 1 THEN sequence + 1 ELSE sequence, i>>].state
  <2>1. DOMAIN ordinalStates' = DOMAIN translation.operations
    BY <1>1, <1>4
  <2>2. ASSUME NEW i \in DOMAIN translation.operations
        PROVE  ordinalStates'[i] =
                  at[<<IF i < operation + 1 THEN sequence + 1 ELSE sequence, i>>].state
    <3>1. CASE i = operation
      <4>1. i < operation + 1
        BY <1>1, <1>5, <2>2, <3>1
      <4> QED
        BY <1>1, <1>4, <1>6, <1>7, <3>1, <4>1
    <3>2. CASE i # operation
      <4>1. i < operation + 1 <=> i < operation
        BY <1>1, <1>5, <2>2, <3>2
      <4> QED
        BY <1>1, <1>4, <2>2, <3>2, <4>1
    <3> QED
      BY <3>1, <3>2
  <2> QED
    BY <2>1, <2>2
<1>11. ASSUME NEW m \in pending PROVE PendingLane(m)'
  <2>1. m \in LanesOf(translation) /\ m # l /\ PendingLane(m)
    BY <1>1, <1>4, <1>11 DEF LaneTypes, ResultInv
  <2> QED
    BY <1>1, <1>8, <2>1, PendingRests
<1>12. TheLane' = l /\ Chunk(sequence)' = chunk /\ Progress(translation)' = at
  BY <1>1 DEF TheLane, Chunk, l, chunk, at
<1> QED
  BY <1>1, <1>4, <1>9, <1>10, <1>11, <1>12 DEF ResultInv

\* The lane that was worked on takes its results.
LEMMA LaneJoins ==
    ASSUME NEW chunk \in Seq(Int), NEW batch \in Seq(Int), NEW p, NEW d, NEW q,
           NEW rest, UploadLane(p, d, rest, chunk, batch),
           q.input = p.input, q.summary = <<>>
    PROVE  LET more == <<Work("gather"), UploadSummary, Work("summarize"),
                         Work("results"), Work("summary")>>
           IN  OrderedLane(q, d, rest \o more, chunk, batch)
<1> DEFINE b == UploadSummary
           c == Work("summarize")
           g == Work("gather")
           e == Work("results")
           f == Work("summary")
           more == <<g, b, c, e, f>>
           first == UploadWork(chunk)
           whole == OrderedWork(chunk)
           m == Len(rest)
<1>1. /\ b \in Works /\ c \in Works /\ g \in Works /\ e \in Works /\ f \in Works
  BY WorksOf
<1>2. /\ first \in Seq(Works) /\ Len(first) = 4 /\ whole \in Seq(Works)
      /\ Len(whole) = 9 /\ rest \in Seq(Works) /\ IsRest(rest, first)
  BY QueueKinds DEF UploadLane
<1>3. first \o more = whole
  <2> DEFINE a1 == UploadInput(chunk)
             a3 == Work("translate")
             a4 == Work("decode")
  <2>1. first = <<a1, b, a3, a4>> /\ whole = <<a1, b, a3, a4, g, b, c, e, f>>
    BY DEF UploadWork, OrderedWork
  <2> HIDE DEF b, c, g, e, f, a1, a3, a4, first, whole
  <2>2. /\ more \in Seq(Works) /\ Len(more) = 5
        /\ more[1] = g /\ more[2] = b /\ more[3] = c /\ more[4] = e /\ more[5] = f
    BY <1>1
  <2>3. /\ first[1] = a1 /\ first[2] = b /\ first[3] = a3 /\ first[4] = a4
        /\ whole[1] = a1 /\ whole[2] = b /\ whole[3] = a3 /\ whole[4] = a4
        /\ whole[5] = g /\ whole[6] = b /\ whole[7] = c /\ whole[8] = e /\ whole[9] = f
    BY <2>1
  <2> HIDE DEF more
  <2>4. \A i \in 1 .. Len(first) : whole[i] = first[i]
    BY <1>2, <2>3
  <2>5. \A i \in 1 .. Len(more) : whole[Len(first) + i] = more[i]
    <3>0. Len(first) = 4 /\ Len(more) = 5
      BY ONLY <1>2, <2>2
    <3> SUFFICES ASSUME NEW i \in 1 .. Len(more)
                 PROVE  whole[Len(first) + i] = more[i]
      OBVIOUS
    <3>1. i = 1 \/ i = 2 \/ i = 3 \/ i = 4 \/ i = 5
      BY ONLY <3>0, i \in 1 .. Len(more), SMT
    <3>2. /\ whole[4 + 1] = more[1] /\ whole[4 + 2] = more[2]
          /\ whole[4 + 3] = more[3] /\ whole[4 + 4] = more[4]
          /\ whole[4 + 5] = more[5]
      BY ONLY <2>2, <2>3, SMT
    <3> QED
      BY ONLY <3>0, <3>1, <3>2, Zenon
  <2>6. Len(whole) = Len(first) + Len(more)
    BY <1>2, <2>2
  <2> QED
    BY <1>2, <2>2, <2>4, <2>5, <2>6, JoinedWork
<1>4. more \in Seq(Works) /\ Len(more) = 5
  <2> HIDE DEF b, c, g, e, f
  <2> QED
    BY <1>1
<1>5. /\ p.input = chunk
      /\ m <= 3 => d.input = chunk
      /\ m <= 1 => d.output = chunk
      /\ m = 0 => d.batch = batch
      /\ m > 0 => batch = chunk
  BY DEF UploadLane
<1> HIDE DEF more, first, whole
<1> DEFINE both == rest \o more
           k == Len(both)
<1>6. /\ IsRest(both, whole) /\ both \in Seq(Works) /\ k = m + 5 /\ m \in Nat
  <2>1. /\ IsRest(both, first \o more) /\ both \in Seq(Works) /\ k = m + Len(more)
    BY ONLY <1>2, <1>4, RestJoin
  <2>2. m \in Nat
    BY <1>2
  <2> HIDE DEF both, m, k
  <2>3. IsRest(both, whole)
    BY ONLY <1>3, <2>1, Zenon
  <2>4. k = m + 5
    BY ONLY <1>4, <2>1, Zenon
  <2> QED
    BY ONLY <2>1, <2>2, <2>3, <2>4
<1> HIDE DEF both, m, k
<1>7. /\ k <= 8 => m <= 3
      /\ k <= 6 => m <= 1
      /\ k > 5 => m > 0
      /\ k <= 5 => m = 0
      /\ ~(k <= 4) /\ k # 3 /\ ~(k <= 2) /\ ~(k <= 1) /\ k # 0
  BY ONLY <1>6, SMT
<1>8. OrderedLane(q, d, both, chunk, batch)
  BY <1>5, <1>6, <1>7 DEF OrderedLane, whole, k
<1> QED
  BY <1>8 DEF both, more

\* What is left of the chunk in the caller's hands when every operation is over.
LEMMA WhatIsLeft ==
    ASSUME TranslationsAssumption, CarriedAssumption, StreamInv, ResultInv,
           caller = "operating", operation > Len(translation.operations)
    PROVE  /\ LaneTypes /\ AtWork /\ translation.ordered
           /\ translation \in Translations
           /\ sequence < ChunkCount /\ sequence \in Nat
           /\ TheLane \in LanesOf(translation) /\ TheLane \notin pending
           /\ Chunk(sequence) \in Seq(Int)
           /\ Result(sequence) \in Seq(Int)
           /\ Left = Len(Result(sequence))
           /\ UploadLane(pinned[TheLane], device[TheLane], stream[TheLane],
                         Chunk(sequence), Result(sequence))
           /\ Result(sequence) = <<>> => stream[TheLane] = <<>>
           /\ \A i \in DOMAIN translation.operations : i < operation
<1> DEFINE l == TheLane
           chunk == Chunk(sequence)
           at == Progress(translation)
           batch == Result(sequence)
<1>1. /\ LaneTypes /\ sequence < ChunkCount /\ AtWork
      /\ operation \in 1 .. Len(translation.operations) + 1
  BY DEF StreamInv, LaneTypes, AtWork
<1>2. /\ l \in LanesOf(translation) /\ sequence \in Nat /\ translation \in Translations
  BY <1>1, NextLane DEF LaneTypes
<1>3. /\ chunk \in Seq(Int) /\ sequence \in 0 .. ChunksOf(translation) - 1
      /\ batch \in Seq(Int) /\ Len(chunk) \in Nat \ {0}
  BY <1>1, <1>2, ResultTypes
<1>4. /\ translation.ordered /\ l \notin pending
      /\ UploadLane(pinned[l], device[l], stream[l], chunk, at[<<sequence, operation>>].batch)
      /\ operation > 1 => stream[l] = <<>>
  BY <1>1, <1>2 DEF ResultInv, StreamInv, StreamSound, Operating
<1>5. /\ DOMAIN translation.operations = 1 .. Len(translation.operations)
      /\ Len(translation.operations) \in Nat
  BY <1>2 DEF TranslationsAssumption
<1>6. operation = Len(translation.operations) + 1
  BY <1>1, <1>5
<1>7. batch = at[<<sequence, operation>>].batch
  <2>1. batch = LeftOf(translation, sequence)
    BY <1>4 DEF Result
  <2> QED
    BY <1>6, <2>1 DEF LeftOf
<1>8. ASSUME operation = 1
      PROVE  Left = Len(batch) /\ batch # <<>>
  <2>1. at[<<sequence, 1>>].batch = chunk
    BY <1>2, <1>3, <1>4, CarriedChunk DEF Chunk
  <2>2. batch = chunk
    BY <1>7, <1>8, <2>1
  <2>3. Len(<<>>) = 0
    OBVIOUS
  <2>4. chunk # <<>>
    <3> HIDE DEF chunk
    <3> QED
      BY <1>3, <2>3
  <2> QED
    BY <1>8, <2>2, <2>4 DEF Left
<1>9. ASSUME operation # 1
      PROVE  Left = Len(batch) /\ stream[l] = <<>>
  <2>1. stream[l] = <<>>
    BY <1>1, <1>4, <1>5, <1>9
  <2>2. Len(stream[l]) = 0
    BY <2>1
  <2>3. device[l].batch = batch
    BY <1>4, <1>7, <2>2 DEF UploadLane
  <2> QED
    BY <1>9, <2>1, <2>3 DEF Left
<1>10. UploadLane(pinned[l], device[l], stream[l], chunk, batch)
  BY <1>4, <1>7
<1>11. \A i \in DOMAIN translation.operations : i < operation
  BY <1>5, <1>6
<1> QED
  BY <1>1, <1>2, <1>3, <1>4, <1>8, <1>9, <1>10, <1>11

\* A lane of which nothing is left takes its results.
LEMMA EmptyBegins ==
    ASSUME NEW p, NEW d, p.summary = <<>>
    PROVE  EmptyLane(p, d, EmptyWork)
<1>1. /\ EmptyWork \in Seq(Works) /\ Len(EmptyWork) = 2
      /\ IsRest(EmptyWork, EmptyWork)
  BY QueueKinds, <<>> \in Seq(Int), RestOfAll
<1> QED
  BY <1>1 DEF EmptyLane

\* The lane in hand, when its results are queued, ...
LEMMA QueueBuffers ==
    ASSUME TranslationsAssumption, CarriedAssumption, StreamInv, ResultInv, QueueResults
    PROVE  IF Result(sequence) = <<>>
           THEN EmptyLane(pinned'[TheLane], device[TheLane], stream'[TheLane])
           ELSE OrderedLane(pinned'[TheLane], device[TheLane], stream'[TheLane],
                            Chunk(sequence), Result(sequence))
<1> DEFINE l == TheLane
           chunk == Chunk(sequence)
           batch == Result(sequence)
           more == <<Work("gather"), UploadSummary, Work("summarize"),
                     Work("results"), Work("summary")>>
<1>1. /\ LaneTypes /\ l \in LanesOf(translation)
      /\ chunk \in Seq(Int) /\ batch \in Seq(Int) /\ Left = Len(batch)
      /\ UploadLane(pinned[l], device[l], stream[l], chunk, batch)
      /\ batch = <<>> => stream[l] = <<>>
  BY WhatIsLeft DEF QueueResults, Queueing
<1>2. /\ pinned' = [pinned EXCEPT ![l].summary = <<>>]
      /\ stream' = [stream EXCEPT ![l] = @ \o ResultsOf]
  BY DEF QueueResults, Queueing, InitialSummary
<1>3. ResultsOf = IF Left = 0 THEN EmptyWork ELSE more
  BY ResultWorks
<1> HIDE DEF l, chunk, batch, more
<1>4. /\ pinned'[l].input = pinned[l].input /\ pinned'[l].summary = <<>>
  BY <1>1, <1>2, PinnedReset DEF LaneTypes
<1>5. stream'[l] = stream[l] \o ResultsOf
  BY <1>1, <1>2 DEF LaneTypes
<1>6. batch = <<>> <=> Left = 0
  BY <1>1
<1>7. ASSUME batch = <<>>
      PROVE  EmptyLane(pinned'[l], device[l], stream'[l])
  <2>1. stream'[l] = <<>> \o EmptyWork
    BY <1>1, <1>3, <1>5, <1>6, <1>7, Zenon
  <2>2. <<>> \o EmptyWork = EmptyWork
    BY QueueKinds, <<>> \in Seq(Int), ConcatEmptySeq
  <2>3. stream'[l] = EmptyWork
    BY <2>1, <2>2, Zenon
  <2> QED
    BY <1>4, <2>3, EmptyBegins
<1>8. ASSUME batch # <<>>
      PROVE  OrderedLane(pinned'[l], device[l], stream'[l], chunk, batch)
  <2>1. stream'[l] = stream[l] \o more
    BY <1>3, <1>5, <1>6, <1>8, Zenon
  <2>2. OrderedLane(pinned'[l], device[l], stream[l] \o more, chunk, batch)
    BY <1>1, <1>4, LaneJoins DEF more
  <2> QED
    BY <2>1, <2>2, Zenon
<1> QED
  BY <1>7, <1>8 DEF l, chunk, batch

\* ... and all of the lanes.
LEMMA QueueLanes ==
    ASSUME TranslationsAssumption, CarriedAssumption, StreamInv, ResultInv, QueueResults
    PROVE  ResultInv'
<1> DEFINE l == TheLane
<1>1. /\ LaneTypes /\ AtWork /\ translation.ordered /\ translation \in Translations
      /\ l \in LanesOf(translation) /\ l \notin pending
      /\ Left = Len(Result(sequence))
      /\ \A i \in DOMAIN translation.operations : i < operation
  BY WhatIsLeft DEF QueueResults, Queueing
<1>2. /\ pinned' = [pinned EXCEPT ![l].summary = <<>>]
      /\ stream' = [stream EXCEPT ![l] = @ \o ResultsOf]
      /\ pending' = pending \cup {l} /\ sequence' = sequence + 1
      /\ laneSequence' = [laneSequence EXCEPT ![l] = sequence]
      /\ laneCount' = [laneCount EXCEPT ![l] = Left]
      /\ caller = "operating" /\ caller' = "filling"
      /\ UNCHANGED <<translation, operation, ordinalStates, device>>
  BY DEF QueueResults, Queueing, InitialSummary, InLane
<1> HIDE DEF l
<1>3. /\ \A m \in LanesOf(translation) : m # l =>
            /\ pinned'[m] = pinned[m] /\ stream'[m] = stream[m]
            /\ laneSequence'[m] = laneSequence[m] /\ laneCount'[m] = laneCount[m]
      /\ laneSequence'[l] = sequence /\ laneCount'[l] = Left
  <2>1. /\ DOMAIN pinned = LanesOf(translation) /\ DOMAIN stream = LanesOf(translation)
        /\ DOMAIN laneSequence = LanesOf(translation)
        /\ DOMAIN laneCount = LanesOf(translation)
    BY <1>1 DEF LaneTypes
  <2> QED
    BY <1>1, <1>2, <2>1
<1>4. ASSUME NEW m \in pending PROVE PendingLane(m)'
  <2>1. m \in LanesOf(translation) /\ m # l /\ PendingLane(m)
    BY <1>1, <1>4 DEF LaneTypes, ResultInv
  <2> QED
    BY <1>2, <1>3, <2>1, PendingRests
<1>5. IF Result(sequence) = <<>>
      THEN EmptyLane(pinned'[l], device'[l], stream'[l])
      ELSE OrderedLane(pinned'[l], device'[l], stream'[l],
                       Chunk(sequence), Result(sequence))
  BY <1>2, QueueBuffers DEF l
<1>6. ASSUME NEW m, m = l PROVE PendingLane(m)'
  <2>1. laneSequence'[m] = sequence /\ laneCount'[m] = Len(Result(sequence))
    BY <1>1, <1>3, <1>6
  <2>2. /\ Chunk(laneSequence[m])' = Chunk(sequence)
        /\ Result(laneSequence[m])' = Result(sequence)
    BY <1>2, <2>1 DEF Chunk, Result
  <2> QED
    BY <1>1, <1>2, <1>5, <1>6, <2>1, <2>2 DEF PendingLane
<1>7. /\ DOMAIN ordinalStates = DOMAIN translation.operations
      /\ \A i \in DOMAIN translation.operations :
            ordinalStates[i] = Progress(translation)[<<sequence + 1, i>>].state
  BY <1>1, <1>2 DEF ResultInv
<1> QED
  BY <1>2, <1>4, <1>6, <1>7 DEF ResultInv

\* A step of the device keeps the results.
LEMMA DeviceResults ==
    ASSUME TranslationsAssumption, CarriedAssumption, StreamInv, WindowInv, ResultInv,
           DeviceWorks
    PROVE  ResultInv'
<1> SUFFICES ASSUME AtWork' PROVE ResultInv'
  BY DEF ResultInv
<1>1. PICK l \in LanesOf(translation) :
         /\ stream[l] # <<>>
         /\ device' = [device EXCEPT ![l] = OnDevice(l)]
         /\ pinned' = [pinned EXCEPT ![l] = InPinned(l)]
         /\ stream' = [stream EXCEPT ![l] = Tail(@)]
  BY DEF DeviceWorks
<1>2. /\ LaneTypes
      /\ UNCHANGED <<translation, caller, sequence, operation, ordinalStates, pending,
                     laneSequence, laneCount, lanesAlive>>
  BY DEF StreamInv, DeviceWorks, callerVars, laneVars
<1>3. AtWork
  BY <1>2 DEF AtWork
<1>4. WorkDone(stream[l][1].kind, pinned[l], device[l], pinned'[l], device'[l])
  BY <1>1, DeviceDone
<1>5. /\ stream'[l] = Tail(stream[l])
      /\ \A m \in LanesOf(translation) : m # l =>
            stream'[m] = stream[m] /\ pinned'[m] = pinned[m] /\ device'[m] = device[m]
  BY <1>1, <1>2 DEF LaneTypes
<1>6. TheLane' = TheLane /\ \A n : Chunk(n)' = Chunk(n) /\ Result(n)' = Result(n)
  BY <1>2 DEF TheLane, Chunk, Result
<1>7. ASSUME NEW m \in pending PROVE PendingLane(m)'
  <2>1. m \in LanesOf(translation) /\ PendingLane(m)
    BY <1>2, <1>3, <1>7 DEF LaneTypes, ResultInv
  <2>2. CASE m # l
    BY <1>2, <1>5, <2>1, <2>2, PendingRests
  <2>3. CASE m = l
    <3> DEFINE n == laneSequence[m]
    <3>1. n \in Nat /\ n < ChunkCount
      <4>1. n \in Nat /\ n < sequence /\ sequence \in 0 .. ChunkCount
        BY <1>2, <1>7, <2>1 DEF LaneTypes, WindowInv
      <4>2. ChunkCount \in Nat
        BY <1>2, LaneFacts DEF LaneTypes, ChunkCount
      <4> QED
        BY <4>1, <4>2
    <3>2. Chunk(n) \in Seq(Int) /\ Result(n) \in Seq(Int)
      BY <1>2, <3>1, ResultTypes
    <3>3. laneSequence'[m] = n /\ laneCount'[m] = laneCount[m]
      BY <1>2
    <3>4. /\ Chunk(laneSequence[m])' = Chunk(n)
          /\ Result(laneSequence[m])' = Result(n)
      BY <1>2, <3>3 DEF Chunk, Result
    <3> HIDE DEF n
    <3>5. ASSUME ~translation.ordered
          PROVE  PlainLane(pinned'[m], device'[m], stream'[m], Chunk(n))
      <4>1. PlainLane(pinned[m], device[m], stream[m], Chunk(n))
        BY <2>1, <3>5 DEF PendingLane, n
      <4> QED
        BY <1>1, <1>4, <1>5, <2>3, <3>2, <3>5, <4>1, PlainStep
    <3>6. ASSUME translation.ordered, Result(n) = <<>>
          PROVE  EmptyLane(pinned'[m], device'[m], stream'[m])
      <4>1. EmptyLane(pinned[m], device[m], stream[m])
        BY <2>1, <3>6 DEF PendingLane, n
      <4> QED
        BY <1>1, <1>4, <1>5, <2>3, <4>1, EmptyStep
    <3>7. ASSUME translation.ordered, Result(n) # <<>>
          PROVE  OrderedLane(pinned'[m], device'[m], stream'[m], Chunk(n), Result(n))
      <4>1. OrderedLane(pinned[m], device[m], stream[m], Chunk(n), Result(n))
        BY <2>1, <3>7 DEF PendingLane, n
      <4> QED
        BY <1>1, <1>4, <1>5, <2>3, <3>2, <3>7, <4>1, OrderedStep
    <3>8. laneCount[m] = Len(Result(n))
      BY <2>1 DEF PendingLane, n
    <3> QED
      BY <1>2, <3>3, <3>4, <3>5, <3>6, <3>7, <3>8 DEF PendingLane, n
  <2> QED
    BY <2>2, <2>3
<1>8. ASSUME caller = "operating"
      PROVE  /\ translation.ordered
             /\ UploadLane(pinned'[TheLane], device'[TheLane], stream'[TheLane],
                           Chunk(sequence),
                           Progress(translation)[<<sequence, operation>>].batch)
             /\ operation > 1 => stream'[TheLane] = <<>>
  <2> DEFINE k == TheLane
             batch == Progress(translation)[<<sequence, operation>>].batch
  <2>1. /\ translation.ordered
        /\ UploadLane(pinned[k], device[k], stream[k], Chunk(sequence), batch)
        /\ operation > 1 => stream[k] = <<>>
    BY <1>3, <1>8 DEF ResultInv
  <2>2. k \in LanesOf(translation) /\ Chunk(sequence) \in Seq(Int)
    <3>1. sequence < ChunkCount
      BY <1>2, <1>8 DEF LaneTypes
    <3>2. k \in LanesOf(translation) /\ sequence \in Nat
      BY <1>2, <3>1, NextLane
    <3> QED
      BY <1>2, <3>1, <3>2, ResultTypes
  <2> HIDE DEF k, batch
  <2>3. CASE k # l
    BY <1>5, <2>1, <2>2, <2>3 DEF k, batch
  <2>4. CASE k = l
    <3>1. UploadLane(pinned'[k], device'[k], Tail(stream[k]), Chunk(sequence), batch)
      BY <1>1, <1>4, <2>1, <2>2, <2>4, UploadStep
    <3>2. ~(operation > 1)
      BY <1>1, <2>1, <2>4
    <3> QED
      BY <1>5, <2>1, <2>4, <3>1, <3>2 DEF k, batch
  <2> QED
    BY <2>3, <2>4
<1>9. translation.ordered =>
         /\ DOMAIN ordinalStates = DOMAIN translation.operations
         /\ \A i \in DOMAIN translation.operations :
               ordinalStates[i] = Progress(translation)[
                  <<IF caller = "operating" /\ i < operation
                    THEN sequence + 1 ELSE sequence, i>>].state
  BY <1>3 DEF ResultInv
<1> QED
  BY <1>2, <1>6, <1>7, <1>8, <1>9 DEF ResultInv

\* So do the steps that leave the lanes alone, or with which the work ends.
LEMMA RestResults ==
    ASSUME ResultInv,
           \/ QueueFails \/ TranslationFails \/ WriteHeader \/ DestroyLane
           \/ TranslationReturns \/ TranslationOver \/ UNCHANGED translationVars
    PROVE  ResultInv'
<1>1. CASE QueueFails \/ TranslationFails \/ WriteHeader \/ TranslationReturns
  <2>1. ~AtWork'
    BY <1>1 DEF AtWork, QueueFails, TranslationFails, WriteHeader, TranslationReturns
  <2> QED
    BY <2>1 DEF ResultInv
<1>2. CASE DestroyLane
  <2>1. ~AtWork'
    BY <1>2 DEF AtWork, DestroyLane, callerVars
  <2> QED
    BY <2>1 DEF ResultInv
<1>3. CASE TranslationOver \/ UNCHANGED translationVars
  <2>1. UNCHANGED <<translation, caller, sequence, operation, ordinalStates, pending,
                    laneSequence, laneCount, pinned, device, stream>>
    BY <1>3 DEF TranslationOver, translationVars, callerVars, laneVars
  <2>2. AtWork' = AtWork /\ TheLane' = TheLane
        /\ \A n : Chunk(n)' = Chunk(n)
    BY <2>1 DEF AtWork, TheLane, Chunk
  <2>3. \A m : PendingLane(m) => PendingLane(m)'
    BY <2>1, PendingRests
  <2> QED
    BY <2>1, <2>2, <2>3 DEF ResultInv
<1> QED
  BY <1>1, <1>2, <1>3

-----------------------------------------------------------------------------
(***************************************************************************)
(* The window of chunks in the lanes.                                      *)
(***************************************************************************)
\* The two steps that put the next chunk in a lane.
Enters ==
    /\ LaneTypes /\ LaneTypes'
    /\ sequence < ChunkCount
    /\ TheLane \notin pending
    /\ pending' = pending \cup {TheLane}
    /\ laneSequence' = [laneSequence EXCEPT ![TheLane] = sequence]
    /\ sequence' = sequence + 1
    /\ translation' = translation

\* Both steps that make a lane pending put the next chunk in it.
LEMMA QueueEnters ==
    ASSUME TranslationsAssumption, StreamInv, QueueResults
    PROVE  Enters
<1>1. LaneTypes /\ LaneTypes'
  BY QueueStreams DEF StreamInv
<1>2. caller = "operating" /\ sequence < ChunkCount
  BY <1>1 DEF QueueResults, Queueing, LaneTypes
<1>3. TheLane \notin pending
  BY <1>1, <1>2, NextLane DEF StreamInv, StreamSound, Operating
<1> QED
  BY <1>1, <1>2, <1>3 DEF Enters, QueueResults, InLane

\* The same of the plain form.
LEMMA FillEnters ==
    ASSUME TranslationsAssumption, StreamInv, FillLane, ~translation.ordered
    PROVE  Enters
<1>1. LaneTypes /\ LaneTypes'
  BY FillStreams DEF StreamInv
<1> QED
  BY <1>1 DEF Enters, FillLane, Filling, InLane

\* What the steps of the lanes have to do with the chunks in them.
LEMMA EntersWindow ==
    ASSUME TranslationsAssumption, WindowInv, Enters
    PROVE  WindowInv'
<1> DEFINE l == TheLane
           k == LaneTotal
<1>1. /\ l \in LanesOf(translation) /\ l = sequence % k
      /\ k \in Nat \ {0} /\ sequence \in Nat
  BY NextLane DEF Enters
<1>2. /\ pending' = pending \cup {l} /\ sequence' = sequence + 1 /\ l \notin pending
      /\ laneSequence' = [laneSequence EXCEPT ![l] = sequence]
      /\ laneSequence \in [LanesOf(translation) -> Nat]
      /\ pending \subseteq LanesOf(translation)
      /\ LaneTotal' = k
  BY DEF Enters, LaneTypes, LaneTotal
<1> HIDE DEF l, k
<1>3. ASSUME NEW m \in pending
      PROVE  /\ laneSequence'[m] < sequence'
             /\ sequence' <= laneSequence'[m] + k
             /\ Schedule!LaneFor(laneSequence'[m], k) = m
  <2> DEFINE n == laneSequence[m]
  <2>1. n \in Nat /\ laneSequence'[m] = n /\ m # l
    BY <1>1, <1>2, <1>3
  <2>2. n < sequence /\ sequence <= n + k /\ n % k = m
    BY <1>3 DEF WindowInv, Schedule!LaneFor, k
  <2> HIDE DEF n
  <2>3. sequence # n + k
    BY <1>1, <2>1, <2>2, ModNext
  <2> QED
    BY <1>1, <1>2, <2>1, <2>2, <2>3 DEF Schedule!LaneFor
<1>4. ASSUME NEW m, m = l
      PROVE  /\ laneSequence'[m] < sequence'
             /\ sequence' <= laneSequence'[m] + k
             /\ Schedule!LaneFor(laneSequence'[m], k) = m
  <2>1. laneSequence'[m] = sequence
    BY <1>1, <1>2, <1>4
  <2> QED
    BY <1>1, <1>2, <1>4, <2>1 DEF Schedule!LaneFor
<1> QED
  BY <1>2, <1>3, <1>4 DEF WindowInv

\* A chunk that is taken leaves the window.
LEMMA FinishWindow ==
    ASSUME WindowInv, NEW l, Finish(l)
    PROVE  WindowInv'
<1>1. /\ pending' = pending \ {l}
      /\ UNCHANGED <<translation, sequence, laneSequence>>
  BY DEF Finish, callerVars
<1> QED
  BY <1>1 DEF WindowInv, LaneTotal

\* The steps after which the window is as it was.
LanesRest ==
    UNCHANGED <<translation, sequence, pending, laneSequence>>

\* The steps that put no chunk in a lane and take none.
LEMMA LanesResting ==
    ASSUME \/ FillLane /\ translation.ordered
           \/ Operate \/ WriteHeader \/ QueueFails \/ TranslationFails
           \/ DestroyLane \/ TranslationReturns \/ TranslationOver
           \/ DeviceWorks \/ UNCHANGED translationVars
    PROVE  LanesRest
<1>1. CASE FillLane /\ translation.ordered
  BY <1>1 DEF FillLane, LanesRest, laneVars
<1>2. CASE Operate
  BY <1>2 DEF Operate, LanesRest, laneVars
<1>3. CASE \/ WriteHeader \/ QueueFails \/ TranslationFails
  BY <1>3 DEF LanesRest, WriteHeader, QueueFails, TranslationFails, laneVars
<1>4. CASE \/ DestroyLane \/ TranslationReturns \/ DeviceWorks
  BY <1>4 DEF LanesRest, DestroyLane, TranslationReturns, DeviceWorks, laneVars, callerVars
<1>5. CASE TranslationOver \/ UNCHANGED translationVars
  BY <1>5 DEF LanesRest, TranslationOver, translationVars, laneVars, callerVars
<1> QED
  BY <1>1, <1>2, <1>3, <1>4, <1>5

\* They keep the window, ...
LEMMA RestsWindow ==
    ASSUME WindowInv, LanesRest
    PROVE  WindowInv'
  BY DEF WindowInv, LanesRest, LaneTotal

-----------------------------------------------------------------------------
(***************************************************************************)
(* The chunks whose results have been taken.                               *)
(***************************************************************************)
\* A chunk that enters a lane has not been taken.
LEMMA EntersTaken ==
    ASSUME Enters
    PROVE  \A n \in Nat : Taken(n)' <=> Taken(n)
<1> DEFINE l == TheLane
<1>1. /\ pending' = pending \cup {l} /\ sequence' = sequence + 1 /\ l \notin pending
      /\ laneSequence' = [laneSequence EXCEPT ![l] = sequence]
      /\ laneSequence \in [LanesOf(translation) -> Nat]
      /\ pending \subseteq LanesOf(translation) /\ sequence \in Int
  BY DEF Enters, LaneTypes
<1>2. l \in LanesOf(translation)
  <2>1. pending' \subseteq LanesOf(translation)
    BY DEF Enters, LaneTypes
  <2> QED
    BY <1>1, <2>1
<1> HIDE DEF l
<1>3. /\ laneSequence'[l] = sequence
      /\ \A m \in pending : laneSequence'[m] = laneSequence[m]
  BY <1>1, <1>2
<1>4. ASSUME NEW n \in Nat PROVE Taken(n)' <=> Taken(n)
  <2>1. CASE n < sequence
    BY <1>1, <1>3, <2>1 DEF Taken
  <2>2. CASE n = sequence
    BY <1>1, <1>3, <2>2 DEF Taken
  <2>3. CASE n > sequence
    BY <1>1, <2>3 DEF Taken
  <2> QED
    BY <1>1, <2>1, <2>2, <2>3
<1> QED
  BY <1>4

\* ... and the chunks that have been taken.
LEMMA RestsTaken ==
    ASSUME LanesRest
    PROVE  \A n : Taken(n)' <=> Taken(n)
  BY DEF LanesRest, Taken

\* Two pending lanes hold different chunks.
LEMMA LanesApart ==
    ASSUME WindowInv, NEW l \in pending, NEW m \in pending,
           laneSequence[l] = laneSequence[m]
    PROVE  l = m
  BY DEF WindowInv

\* Finish takes the lane's chunk, which had not been taken.
LEMMA FinishTaken ==
    ASSUME LaneTypes, WindowInv, NEW l \in pending, Finish(l)
    PROVE  /\ ~Taken(laneSequence[l])
           /\ \A n \in Nat : Taken(n)' <=> Taken(n) \/ n = laneSequence[l]
<1>1. /\ pending' = pending \ {l}
      /\ UNCHANGED <<translation, sequence, laneSequence>>
  BY DEF Finish, callerVars
<1>2. laneSequence[l] < sequence
  BY DEF WindowInv
<1>3. ASSUME NEW n \in Nat PROVE Taken(n)' <=> Taken(n) \/ n = laneSequence[l]
  <2>1. CASE n = laneSequence[l]
    <3>1. \A m \in pending' : laneSequence[m] # n
      BY <1>1, <2>1, LanesApart
    <3> QED
      BY <1>1, <1>2, <2>1, <3>1 DEF Taken
  <2>2. CASE n # laneSequence[l]
    BY <1>1, <2>2 DEF Taken
  <2> QED
    BY <2>1, <2>2
<1> QED
  BY <1>3 DEF Taken

-----------------------------------------------------------------------------
(***************************************************************************)
(* The sink.                                                               *)
(***************************************************************************)
\* The sink after it has got the records R from place P on.
SinkAfter(s, P, R) ==
    [place \in DOMAIN s |-> IF place - P + 1 \in 1 .. Len(R) THEN R[place - P + 1]
                                                           ELSE s[place]]

\* The places of a sink that are written.
WrittenIn(s, N) == {place \in 0 .. N - 1 : s[place] # Unwritten}

\* The number of places of an interval.
LEMMA IntervalSize ==
    ASSUME NEW P \in Nat, NEW k \in Nat
    PROVE  IsFiniteSet(P .. P + k - 1) /\ Cardinality(P .. P + k - 1) = k
<1> DEFINE top == P + k - 1
<1>1. P \in Int /\ top \in Int /\ (P > top <=> k = 0) /\ top - P + 1 = k
  OBVIOUS
<1> HIDE DEF top
<1>2. IsFiniteSet(P .. top) /\ Cardinality(P .. top) = IF P > top THEN 0 ELSE top - P + 1
  BY ONLY <1>1, FS_Interval
<1>3. Cardinality(P .. top) = k
  BY <1>1, <1>2
<1> QED
  BY <1>2, <1>3 DEF top

\* The records R can go to places from P on, of N, that have got none; the
\* summary h counts what the sink has got.
Sinkable(N, s, P, R, h) ==
    /\ N \in Nat /\ DOMAIN s = 0 .. N - 1
    /\ R \in Seq(Nat) /\ P \in Nat /\ P + Len(R) <= N
    /\ \A place \in P .. P + Len(R) - 1 : s[place] = Unwritten
    /\ h \in Seq(Nat) /\ Len(h) = Cardinality(WrittenIn(s, N))
    /\ ToSet(h) = {s[place] : place \in WrittenIn(s, N)}

\* A summary that counts what the sink has got counts it still when records go
\* to places that have got none.
LEMMA SinkTakes ==
    ASSUME NEW N, NEW s, NEW P, NEW R, NEW h, Sinkable(N, s, P, R, h),
           NEW s2, s2 = SinkAfter(s, P, R)
    PROVE  /\ h \o R \in Seq(Nat)
           /\ Len(h \o R) = Len(h) + Len(R)
           /\ Len(h) + Len(R) = Cardinality(WrittenIn(s2, N))
           /\ ToSet(h \o R) = {s2[place] : place \in WrittenIn(s2, N)}
<1> DEFINE k == Len(R)
           m == Len(h)
           F == WrittenIn(s, N)
           G == WrittenIn(s2, N)
           I == P .. P + k - 1
           b == h \o R
<1>0. /\ N \in Nat /\ DOMAIN s = 0 .. N - 1
      /\ R \in Seq(Nat) /\ P \in Nat /\ P + Len(R) <= N
      /\ \A place \in P .. P + Len(R) - 1 : s[place] = Unwritten
      /\ h \in Seq(Nat) /\ Len(h) = Cardinality(WrittenIn(s, N))
      /\ ToSet(h) = {s[place] : place \in WrittenIn(s, N)}
  BY DEF Sinkable
<1> USE <1>0
<1>1. k \in Nat /\ m \in Nat /\ \A i \in 1 .. k : R[i] \in Nat
  OBVIOUS
<1>2. /\ b \in Seq(Nat) /\ Len(b) = m + k
      /\ \A i \in 1 .. m + k : b[i] = IF i <= m THEN h[i] ELSE R[i - m]
  BY ConcatProperties
<1>3. \A place \in 0 .. N - 1 :
         /\ place \in I => s2[place] = R[place - P + 1] /\ place - P + 1 \in 1 .. k
         /\ place \notin I => s2[place] = s[place]
  BY <1>1 DEF SinkAfter
<1>4. I \subseteq 0 .. N - 1 /\ \A place \in I : s[place] = Unwritten
  BY <1>1
<1>5. G = F \cup I /\ F \cap I = {}
  <2>1. ASSUME NEW place \in I PROVE place \in G /\ place \notin F
    <3>1. s2[place] \in Nat
      BY <1>1, <1>3, <1>4, <2>1
    <3> QED
      BY <1>4, <2>1, <3>1 DEF WrittenIn, Unwritten
  <2>2. ASSUME NEW place \in 0 .. N - 1, place \notin I
        PROVE  place \in G <=> place \in F
    BY <1>3, <2>2 DEF WrittenIn
  <2>3. F \subseteq 0 .. N - 1 /\ G \subseteq 0 .. N - 1
    BY DEF WrittenIn
  <2> HIDE DEF F, G, I
  <2> QED
    BY <1>4, <2>1, <2>2, <2>3
<1>6. m + k = Cardinality(G)
  <2>1. /\ IsFiniteSet(0 .. N - 1) /\ F \subseteq 0 .. N - 1
        /\ IsFiniteSet(I) /\ Cardinality(I) = k
    <3>1. IsFiniteSet(I) /\ Cardinality(I) = k
      BY <1>1, IntervalSize
    <3>2. IsFiniteSet(0 .. N - 1)
      BY N - 1 \in Int, FS_Interval
    <3>3. F \subseteq 0 .. N - 1
      BY DEF WrittenIn
    <3> HIDE DEF I, F, k
    <3> QED
      BY <3>1, <3>2, <3>3
  <2>2. IsFiniteSet(F) /\ F \cap I = {} /\ Cardinality({}) = 0
    BY <1>5, <2>1, FS_Subset, FS_EmptySet
  <2> HIDE DEF F, G, I
  <2>3. Cardinality(G) = Cardinality(F) + Cardinality(I) - Cardinality(F \cap I)
    BY ONLY <1>5, <2>1, <2>2, FS_Union, Zenon
  <2>4. Cardinality(F) = m
    BY DEF F
  <2>5. Cardinality(F \cap I) = 0
    BY ONLY <2>2, Zenon
  <2> HIDE DEF k, m
  <2> QED
    BY ONLY <1>1, <2>1, <2>3, <2>4, <2>5, SMT
<1>7. ToSet(b) = {s2[place] : place \in G}
  <2>1. DOMAIN b = 1 .. m + k /\ DOMAIN h = 1 .. m
    BY <1>2
  <2>2. ASSUME NEW i \in 1 .. m + k
        PROVE  b[i] \in {s2[place] : place \in G}
    <3>1. CASE i <= m
      <4>1. b[i] = h[i] /\ i \in DOMAIN h
        BY <1>1, <1>2, <2>1, <2>2, <3>1
      <4>2. h[i] \in ToSet(h)
        BY <4>1 DEF ToSet
      <4>3. PICK place \in F : h[i] = s[place]
        BY <4>2
      <4>4. s2[place] = s[place] /\ place \in G
        <5>1. place \in 0 .. N - 1 /\ place \notin I /\ place \in G
          BY <1>5, <4>3 DEF WrittenIn
        <5> QED
          BY <1>3, <5>1
      <4> QED
        BY <4>1, <4>3, <4>4
    <3>2. CASE ~(i <= m)
      <4> DEFINE place == P + (i - m) - 1
      <4>1. place \in I /\ b[i] = R[i - m] /\ place - P + 1 = i - m
        <5> HIDE DEF b, m, k
        <5>1. b[i] = R[i - m]
          BY <1>2, <2>2, <3>2
        <5>2. place \in I /\ place - P + 1 = i - m
          BY ONLY <1>0, <1>1, <2>2, <3>2, SMT
        <5> QED
          BY <5>1, <5>2
      <4> HIDE DEF place
      <4>2. s2[place] = R[i - m] /\ place \in G
        BY <1>3, <1>4, <1>5, <4>1
      <4> QED
        BY <4>1, <4>2
    <3> QED
      BY <3>1, <3>2
  <2>3. ASSUME NEW place \in G
        PROVE  s2[place] \in ToSet(b)
    <3>0. place \in 0 .. N - 1
      BY <2>3 DEF WrittenIn
    <3>1. CASE place \in I
      <4> DEFINE i == m + (place - P + 1)
      <4>1. i \in 1 .. m + k /\ ~(i <= m) /\ i - m = place - P + 1
        BY <1>1, <3>1
      <4> HIDE DEF i
      <4>2. b[i] = s2[place]
        BY <1>2, <1>3, <3>0, <3>1, <4>1
      <4>3. i \in DOMAIN b
        BY <2>1, <4>1
      <4> HIDE DEF b
      <4> QED
        BY <4>2, <4>3 DEF ToSet
    <3>2. CASE place \notin I
      <4>1. place \in F /\ s2[place] = s[place]
        BY <1>3, <1>5, <2>3, <3>0, <3>2
      <4>2. s2[place] \in ToSet(h)
        BY <4>1
      <4>3. PICK i \in DOMAIN h : h[i] = s2[place]
        BY <4>2 DEF ToSet
      <4>4. b[i] = h[i] /\ i \in DOMAIN b
        BY <1>1, <1>2, <2>1, <4>3
      <4> HIDE DEF b
      <4> QED
        BY <4>3, <4>4 DEF ToSet
    <3> QED
      BY <3>1, <3>2
  <2> HIDE DEF b, G
  <2> QED
    BY <2>1, <2>2, <2>3 DEF ToSet
<1> QED
  BY <1>2, <1>6, <1>7

\* The results that are taken are those of the chunk.
LEMMA TakenResult ==
    ASSUME TranslationsAssumption, CarriedAssumption, StreamInv, WindowInv,
           ResultInv, AtWork, NEW l \in pending, stream[l] = <<>>
    PROVE  LET n == laneSequence[l]
               R == Result(n)
           IN  /\ n \in Nat /\ n < ChunkCount /\ n < sequence
               /\ l \in LanesOf(translation)
               /\ R \in Seq(Nat)
               /\ laneCount[l] = Len(R)
               /\ pinned[l].summary = R
               /\ R # <<>> => pinned[l].output = R
<1> DEFINE n == laneSequence[l]
           R == Result(n)
<1>1. LaneTypes /\ l \in LanesOf(translation) /\ PendingLane(l)
  BY DEF StreamInv, LaneTypes, ResultInv
<1>2. n \in Nat /\ n < ChunkCount /\ n < sequence
  <2>1. n \in Nat /\ n < sequence /\ sequence \in 0 .. ChunkCount
    BY <1>1 DEF LaneTypes, WindowInv
  <2>2. ChunkCount \in Nat
    BY <1>1, LaneFacts DEF LaneTypes, ChunkCount
  <2> QED
    BY <2>1, <2>2
<1>3. R \in Seq(Nat)
  BY <1>1, <1>2, ResultTypes
<1>4. laneCount[l] = Len(R)
  BY <1>1 DEF PendingLane
<1>5. Len(stream[l]) = 0
  OBVIOUS
<1>6. /\ pinned[l].summary = R
      /\ R # <<>> => pinned[l].output = R
  <2>1. CASE ~translation.ordered
    <3>1. PlainLane(pinned[l], device[l], stream[l], Chunk(n)) /\ R = Chunk(n)
      BY <1>1, <2>1 DEF PendingLane, Result
    <3> QED
      BY <1>5, <3>1 DEF PlainLane
  <2>2. CASE translation.ordered /\ R = <<>>
    <3>1. EmptyLane(pinned[l], device[l], stream[l])
      BY <1>1, <2>2 DEF PendingLane
    <3> QED
      BY <2>2, <3>1 DEF EmptyLane
  <2>3. CASE translation.ordered /\ R # <<>>
    <3>1. OrderedLane(pinned[l], device[l], stream[l], Chunk(n), R)
      BY <1>1, <2>3 DEF PendingLane
    <3> HIDE DEF R
    <3> QED
      BY <1>5, <3>1 DEF OrderedLane
  <2> QED
    BY <2>1, <2>2, <2>3
<1> QED
  BY <1>1, <1>2, <1>3, <1>4, <1>6

\* What finish does to the sink.
LEMMA FinishSink ==
    ASSUME TranslationsAssumption, CarriedAssumption, StreamInv, WindowInv,
           ResultInv, AtWork, NEW l, Finish(l)
    PROVE  LET R == Result(laneSequence[l])
           IN  /\ sunk' = SinkAfter(sunk, PlaceFor(l), R)
               /\ hostSummary' = hostSummary \o R
               /\ emittedPointCount' = emittedPointCount + Len(R)
<1> DEFINE R == Result(laneSequence[l])
           P == PlaceFor(l)
<1>1. /\ R \in Seq(Nat) /\ laneCount[l] = Len(R) /\ pinned[l].summary = R
      /\ R # <<>> => pinned[l].output = R
  BY TakenResult DEF Finish, Synchronized
<1>2. /\ sunk' = [place \in DOMAIN sunk |->
            IF place - P + 1 \in 1 .. laneCount[l]
            THEN RecordIn(pinned[l].output, place - P + 1)
            ELSE sunk[place]]
      /\ hostSummary' = hostSummary \o pinned[l].summary
      /\ emittedPointCount' = emittedPointCount + laneCount[l]
  BY DEF Finish
<1> HIDE DEF R, P
<1>3. ASSUME NEW i, i \in 1 .. Len(R)
      PROVE  RecordIn(pinned[l].output, i) = R[i]
  <2>1. R # <<>> /\ i \in DOMAIN R
    BY <1>1, <1>3
  <2> QED
    BY <1>1, <2>1 DEF RecordIn
<1>4. sunk' = SinkAfter(sunk, P, R)
  BY <1>1, <1>2, <1>3 DEF SinkAfter
<1>5. hostSummary' = hostSummary \o R /\ emittedPointCount' = emittedPointCount + Len(R)
  BY <1>1, <1>2
<1> QED
  BY <1>4, <1>5 DEF R, P

\* In the plain form a chunk goes where its points are.
LEMMA FinishPlain ==
    ASSUME TranslationsAssumption, CarriedAssumption, StreamInv, WindowInv,
           ResultInv, PlaceInv, AtWork, NEW l, Finish(l), ~translation.ordered
    PROVE  LET R == Result(laneSequence[l])
               P == PlaceFor(l)
           IN  /\ P \in Nat /\ P + Len(R) <= translation.points
               /\ \A place \in P .. P + Len(R) - 1 : sunk[place] = Unwritten
               /\ PlaceInv'
<1> DEFINE n == laneSequence[l]
           R == Result(n)
           P == PlaceFor(l)
           p == translation.points
           c == translation.chunkPoints
           k == Len(R)
<1>1. /\ l \in pending /\ stream[l] = <<>> /\ LaneTypes
      /\ translation' = translation /\ translation \in Translations
  BY DEF Finish, Synchronized, StreamInv, LaneTypes
<1>2. /\ n \in Nat /\ n < ChunkCount /\ R \in Seq(Nat)
      /\ n \in 0 .. ChunksOf(translation) - 1
  BY <1>1, TakenResult, ResultTypes
<1>3. /\ p \in Nat \ {0} /\ c \in Nat \ {0} /\ P \in Nat /\ P = n * c /\ P < p
      /\ k \in Nat \ {0} /\ k = (IF c <= p - P THEN c ELSE p - P)
      /\ \A i \in 1 .. k : R[i] = P + (i - 1)
  BY <1>1, <1>2, ChunkFacts
     DEF Result, Chunk, PlaceFor, FirstOf, Schedule!TileFirst, Schedule!Smaller
<1>4. /\ DOMAIN sunk = 0 .. p - 1
      /\ \A place \in 0 .. p - 1 :
            sunk[place] = IF Taken(place \div c) THEN place ELSE Unwritten
  BY DEF PlaceInv
<1>5. /\ ~Taken(n)
      /\ \A m \in Nat : Taken(m)' <=> Taken(m) \/ m = n
  BY <1>1, FinishTaken
<1>6. sunk' = SinkAfter(sunk, P, R)
  BY FinishSink
<1> HIDE DEF n, R, P, p, c, k
<1>7. ASSUME NEW place \in 0 .. p - 1
      PROVE  /\ place \in P .. P + k - 1 <=> place \div c = n
             /\ place \div c \in Nat
  <2> DEFINE q == place \div c
             r == place % c
  <2>1. q \in Nat /\ r \in 0 .. c - 1 /\ place = q * c + r
    <3>1. place \in Nat
      BY <1>3, <1>7
    <3> QED
      BY ONLY <1>3, <3>1, DivMod
  <2>2. ASSUME place \in P .. P + k - 1 PROVE q = n
    <3>1. place - P \in 0 .. c - 1 /\ place = P + (place - P) /\ place \in Nat
      BY <1>3, <1>7, <2>2
    <3>2. place = n * c + (place - P)
      BY <1>3, <3>1
    <3> QED
      BY <1>2, <1>3, <3>1, <3>2, DivModUnique
  <2>3. ASSUME q = n PROVE place \in P .. P + k - 1
    <3>1. place = P + r
      BY <1>3, <2>1, <2>3
    <3> HIDE DEF r
    <3> QED
      BY <1>3, <1>7, <2>1, <3>1
  <2> QED
    BY <2>1, <2>2, <2>3
<1>8. P + k <= p /\ P .. P + k - 1 \subseteq 0 .. p - 1
  BY <1>3
<1>9. \A place \in P .. P + k - 1 : sunk[place] = Unwritten
  BY <1>4, <1>5, <1>7, <1>8
<1>10. DOMAIN sunk' = 0 .. p - 1
  BY <1>4, <1>6 DEF SinkAfter
<1>11. ASSUME NEW place \in 0 .. p - 1
       PROVE  \E q \in Nat :
                 /\ q = place \div c
                 /\ sunk'[place] = IF Taken(q)' THEN place ELSE Unwritten
  <2>1. place \div c \in Nat
    BY <1>7, <1>11
  <2>2. PICK q \in Nat : q = place \div c
    BY <2>1
  <2>3. Taken(q)' <=> Taken(place \div c) \/ q = n
    BY <1>5, <2>2
  <2>4. CASE place \in P .. P + k - 1
    <3>1. place - P + 1 \in 1 .. k /\ P + (place - P + 1 - 1) = place
      BY <1>3, <2>4
    <3>2. sunk'[place] = R[place - P + 1]
      BY <1>4, <1>6, <1>11, <3>1 DEF SinkAfter, k
    <3>3. sunk'[place] = place
      BY <1>3, <3>1, <3>2
    <3>4. q = n
      BY <1>7, <1>11, <2>2, <2>4
    <3> QED
      BY <2>2, <2>3, <3>3, <3>4
  <2>5. CASE place \notin P .. P + k - 1
    <3>1. place - P + 1 \notin 1 .. k
      BY <1>3, <1>11, <2>5
    <3>2. sunk'[place] = sunk[place]
      BY <1>4, <1>6, <1>11, <3>1 DEF SinkAfter, k
    <3>3. q # n
      BY <1>7, <1>11, <2>2, <2>5
    <3> QED
      BY <1>4, <1>11, <2>2, <2>3, <3>2, <3>3
  <2> QED
    BY <2>4, <2>5
<1>12. \A place \in 0 .. p - 1 :
          sunk'[place] = IF Taken(place \div translation.chunkPoints)'
                         THEN place ELSE Unwritten
  <2> SUFFICES ASSUME NEW place \in 0 .. p - 1
               PROVE  sunk'[place] = IF Taken(place \div translation.chunkPoints)'
                                     THEN place ELSE Unwritten
    OBVIOUS
  <2>1. PICK q \in Nat :
           /\ q = place \div c
           /\ sunk'[place] = IF Taken(q)' THEN place ELSE Unwritten
    BY <1>11
  <2>2. q = place \div translation'.chunkPoints
    BY <1>1, <2>1 DEF c
  <2> QED
    BY <2>1, <2>2 DEF Taken
<1>13. PlaceInv'
  BY <1>1, <1>10, <1>12 DEF PlaceInv, p
<1> QED
  BY <1>3, <1>8, <1>9, <1>13 DEF R, P, p, k, n

\* The ordered form takes its chunks in their order.
LEMMA NextFinished ==
    ASSUME TranslationsAssumption, StreamInv, WindowInv, translation.ordered,
           NEW l \in pending,
           \/ sequence < ChunkCount /\ l = TheLane
           \/ NextToFinish(l)
    PROVE  \A m \in pending : laneSequence[l] <= laneSequence[m]
<1>1. CASE NextToFinish(l)
  BY <1>1 DEF NextToFinish
<1>2. CASE sequence < ChunkCount /\ l = TheLane
  <2> DEFINE n == laneSequence[l]
             k == LaneTotal
  <2>1. /\ l = sequence % k /\ k \in Nat \ {0} /\ sequence \in Nat
        /\ n \in Nat /\ n < sequence /\ sequence <= n + k /\ n % k = l
    BY <1>2, NextLane DEF StreamInv, LaneTypes, WindowInv, Schedule!LaneFor
  <2> HIDE DEF n, k
  <2>2. ~(sequence - n < k)
    BY <2>1, ModUnique
  <2>3. ASSUME NEW m \in pending PROVE n <= laneSequence[m]
    <3>1. laneSequence[m] \in Nat /\ sequence <= laneSequence[m] + k
      BY DEF StreamInv, LaneTypes, WindowInv, k
    <3> QED
      BY <2>1, <2>2, <3>1
  <2> QED
    BY <2>3 DEF n
<1> QED
  BY <1>1, <1>2

\* In the ordered form the chunk that is taken goes behind those before it: the
\* places are free, and within the file.
LEMMA FinishOrdered ==
    ASSUME TranslationsAssumption, CarriedAssumption, StreamInv, WindowInv,
           ResultInv, PlaceInv, AtWork, NEW l, Finish(l), translation.ordered,
           \A m \in pending : laneSequence[l] <= laneSequence[m]
    PROVE  LET R == Result(laneSequence[l])
               P == PlaceFor(l)
           IN  /\ P \in Nat /\ P + Len(R) <= translation.points
               /\ \A place \in P .. P + Len(R) - 1 : sunk[place] = Unwritten
               /\ PlaceInv'
<1> DEFINE n == laneSequence[l]
           R == Result(n)
           P == PlaceFor(l)
           p == translation.points
           k == Len(R)
           K == ChunksOf(translation)
           at == PlacesOf(translation)
           E == Expected
<1>1. /\ l \in pending /\ stream[l] = <<>> /\ LaneTypes
      /\ translation' = translation /\ sequence' = sequence
      /\ translation \in Translations
  BY DEF Finish, Synchronized, StreamInv, LaneTypes, callerVars
<1>2. /\ n \in Nat /\ n < sequence /\ R \in Seq(Nat)
      /\ n \in 0 .. K - 1 /\ K \in Nat /\ p \in Nat
  BY <1>1, TakenResult, ResultTypes, LaneFacts DEF TranslationsAssumption
<1>3. /\ R = LeftOf(translation, n)
      /\ E = Reference(translation.operations, translation.mode, FirstPoints(p))
  BY DEF Result, Expected
<1>4. /\ at[n + 1] = at[n] + k
      /\ \A i \in 1 .. k : E[at[n] + i] = R[i]
      /\ at \in [0 .. K -> 0 .. p]
  <2> DEFINE L == LeftOf(translation, n)
             F == Reference(translation.operations, translation.mode, FirstPoints(p))
  <2>1. at[n + 1] = at[n] + Len(L) /\ \A i \in 1 .. Len(L) : F[at[n] + i] = L[i]
    BY <1>1, <1>2, CarriedChunk
  <2>2. at \in [0 .. K -> 0 .. p]
    BY <1>1, CarriedWhole
  <2>3. R = L /\ E = F
    BY <1>3
  <2> HIDE DEF R, E, at, L, F
  <2> QED
    BY <2>1, <2>2, <2>3
<1>5. PICK next \in 0 .. sequence :
         /\ \A j \in 0 .. sequence - 1 : Taken(j) <=> j < next
         /\ emittedPointCount = at[next]
         /\ \A place \in 0 .. p - 1 :
               sunk[place] = IF place < emittedPointCount THEN E[place + 1]
                                                          ELSE Unwritten
  BY DEF PlaceInv
<1>6. /\ DOMAIN sunk = 0 .. p - 1 /\ P = emittedPointCount
  BY DEF PlaceInv, PlaceFor
<1>7. /\ ~Taken(n)
      /\ \A m \in Nat : Taken(m)' <=> Taken(m) \/ m = n
  BY <1>1, FinishTaken
<1>8. /\ sunk' = SinkAfter(sunk, P, R) /\ emittedPointCount' = emittedPointCount + k
  BY FinishSink
<1>9. sequence \in Nat
  BY <1>1, <1>2 DEF LaneTypes, ChunkCount
<1>10. next = n
  <2>1. ~(n < next)
    BY <1>2, <1>5, <1>7, <1>9
  <2>2. ASSUME next < n PROVE FALSE
    <3>1. next \in 0 .. sequence - 1 /\ ~Taken(next)
      BY <1>2, <1>5, <1>9, <2>2
    <3>2. PICK m \in pending : laneSequence[m] = next
      BY <1>9, <3>1 DEF Taken
    <3> QED
      BY <1>2, <2>2, <3>1, <3>2
  <2> QED
    BY <1>2, <1>9, <2>1, <2>2
<1> HIDE DEF n, R, P, p, k, K, at, E
<1>11. /\ P = at[n] /\ P \in 0 .. p /\ P + k = at[n + 1] /\ P + k \in 0 .. p
       /\ k \in Nat
  <2>1. n \in 0 .. K /\ n + 1 \in 0 .. K
    BY <1>2
  <2>2. at[n] \in 0 .. p /\ at[n + 1] \in 0 .. p
    BY <1>4, <2>1
  <2> QED
    BY <1>2, <1>4, <1>5, <1>6, <1>10, <2>2 DEF k
<1>12. \A place \in P .. P + k - 1 : sunk[place] = Unwritten
  BY <1>2, <1>5, <1>6, <1>11
<1>13. DOMAIN sunk' = 0 .. p - 1
  BY <1>6, <1>8 DEF SinkAfter
<1>14. \A j \in 0 .. sequence - 1 : Taken(j)' <=> j < n + 1
  BY <1>2, <1>5, <1>7, <1>9, <1>10
<1>15. ASSUME NEW place \in 0 .. p - 1
       PROVE  sunk'[place] = IF place < P + k THEN E[place + 1] ELSE Unwritten
  <2>1. CASE place < P
    <3>1. place - P + 1 \notin 1 .. k /\ place < P + k
      BY <1>11, <1>15, <2>1
    <3>2. sunk'[place] = sunk[place]
      BY <1>6, <1>8, <1>15, <3>1 DEF SinkAfter, k
    <3> QED
      BY <1>5, <1>6, <1>15, <2>1, <3>1, <3>2
  <2>2. CASE place >= P /\ place < P + k
    <3>1. place - P + 1 \in 1 .. k /\ P + (place - P + 1) = place + 1
      BY <1>11, <1>15, <2>2
    <3>2. sunk'[place] = R[place - P + 1]
      BY <1>6, <1>8, <1>15, <3>1 DEF SinkAfter, k
    <3>3. E[P + (place - P + 1)] = R[place - P + 1]
      BY <1>4, <1>11, <3>1
    <3> QED
      BY <2>2, <3>1, <3>2, <3>3
  <2>3. CASE place >= P + k
    <3>1. place - P + 1 \notin 1 .. k /\ ~(place < P) /\ ~(place < P + k)
      BY <1>11, <1>15, <2>3
    <3>2. sunk'[place] = sunk[place]
      BY <1>6, <1>8, <1>15, <3>1 DEF SinkAfter, k
    <3> QED
      BY <1>5, <1>6, <1>15, <3>1, <3>2
  <2> QED
    BY <1>11, <1>15, <2>1, <2>2, <2>3
<1>16. /\ n + 1 \in 0 .. sequence /\ emittedPointCount' = at[n + 1]
       /\ emittedPointCount' = P + k
  BY <1>2, <1>6, <1>8, <1>9, <1>11
<1>17. Expected' = E
  BY <1>1 DEF Expected, E
<1>18. PlaceInv'
  BY <1>1, <1>13, <1>14, <1>15, <1>16, <1>17 DEF PlaceInv, p, at
<1> QED
  BY <1>2, <1>11, <1>12, <1>18 DEF R, P, p, k, n

\* The sink and the summary after a chunk is taken.
LEMMA FinishPlaces ==
    ASSUME TranslationsAssumption, CarriedAssumption, StreamInv, WindowInv,
           ResultInv, PlaceInv, CountInv, AtWork, NEW l, Finish(l),
           translation.ordered => \A m \in pending : laneSequence[l] <= laneSequence[m]
    PROVE  PlaceInv' /\ CountInv'
<1> DEFINE R == Result(laneSequence[l])
           P == PlaceFor(l)
           N == translation.points
<1>1. /\ P \in Nat /\ P + Len(R) <= N
      /\ \A place \in P .. P + Len(R) - 1 : sunk[place] = Unwritten
      /\ PlaceInv'
  BY FinishPlain, FinishOrdered
<1>2. /\ sunk' = SinkAfter(sunk, P, R)
      /\ hostSummary' = hostSummary \o R
      /\ emittedPointCount' = emittedPointCount + Len(R)
  BY FinishSink
<1>3. /\ R \in Seq(Nat) /\ translation' = translation /\ N \in Nat
      /\ DOMAIN sunk = 0 .. N - 1
  <2>1. R \in Seq(Nat)
    BY TakenResult DEF Finish, Synchronized
  <2>2. translation' = translation /\ translation \in Translations
    BY DEF Finish, StreamInv, LaneTypes
  <2> QED
    BY <2>1, <2>2 DEF TranslationsAssumption, PlaceInv
<1>4. Filled = WrittenIn(sunk, N) /\ Filled' = WrittenIn(sunk', N)
  BY <1>3 DEF Filled, WrittenIn
<1>5. /\ hostSummary \in Seq(Nat) /\ Len(hostSummary) = emittedPointCount
      /\ emittedPointCount = Cardinality(WrittenIn(sunk, N))
      /\ ToSet(hostSummary) = {sunk[place] : place \in WrittenIn(sunk, N)}
  BY <1>4 DEF CountInv
<1> DEFINE s2 == sunk'
<1> HIDE DEF R, P, N, s2
<1>9. /\ hostSummary \o R \in Seq(Nat)
      /\ Len(hostSummary \o R) = Len(hostSummary) + Len(R)
      /\ Len(hostSummary) + Len(R) = Cardinality(WrittenIn(s2, N))
      /\ ToSet(hostSummary \o R) = {s2[place] : place \in WrittenIn(s2, N)}
  <2>1. Sinkable(N, sunk, P, R, hostSummary)
    BY <1>1, <1>3, <1>5 DEF Sinkable
  <2>2. s2 = SinkAfter(sunk, P, R)
    BY <1>2 DEF s2
  <2> QED
    BY ONLY <2>1, <2>2, SinkTakes
<1>6. /\ hostSummary \o R \in Seq(Nat)
      /\ Len(hostSummary \o R) = Len(hostSummary) + Len(R)
      /\ Len(hostSummary) + Len(R) = Cardinality(WrittenIn(sunk', N))
      /\ ToSet(hostSummary \o R) = {sunk'[place] : place \in WrittenIn(sunk', N)}
  BY ONLY <1>9, Zenon DEF s2
<1>7. CountInv'
  BY ONLY <1>2, <1>4, <1>5, <1>6, Zenon DEF CountInv
<1> QED
  BY <1>1, <1>7

\* The chunk of a place is one of the chunks.
LEMMA ChunkOfPlace ==
    ASSUME TranslationsAssumption, NEW t \in Translations,
           NEW place \in 0 .. t.points - 1
    PROVE  (place \div t.chunkPoints) \in 0 .. ChunksOf(t) - 1
<1> DEFINE p == t.points
           c == t.chunkPoints
           K == ChunksOf(t)
           q == place \div c
           r == place % c
           d == p \div c
           e == p % c
<1>1. p \in Nat \ {0} /\ c \in Nat \ {0} /\ K \in Nat /\ place \in Nat /\ place < p
  BY LaneFacts DEF TranslationsAssumption
<1>2. K = d + (IF e = 0 THEN 0 ELSE 1)
  BY <1>1 DEF ChunksOf, Schedule!TileCountOf, Schedule!TilesFor, RequestOf
<1>3. d \in Nat /\ e \in 0 .. c - 1 /\ p = d * c + e
  BY ONLY <1>1, DivMod
<1>4. q \in Nat /\ r \in 0 .. c - 1 /\ place = q * c + r
  BY ONLY <1>1, DivMod
<1> HIDE DEF p, c, K, q, r, d, e
<1>5. d * c \in Nat /\ q * c \in Nat /\ (d + 1) * c = d * c + c
  BY ONLY <1>1, <1>3, <1>4, SMT
<1>6. ASSUME d < q PROVE d * c + c <= q * c
  BY ONLY <1>1, <1>3, <1>4, <1>6, TimesMonotone
<1>7. CASE e = 0 /\ ~(q < K)
  <2>1. d * c <= q * c
    <3>1. CASE d = q
      BY <1>5, <3>1
    <3>2. CASE d < q
      BY <1>1, <1>5, <1>6, <3>2
    <3> QED
      BY <1>2, <1>3, <1>4, <1>7, <3>1, <3>2
  <2> QED
    BY ONLY <1>1, <1>3, <1>4, <1>5, <1>7, <2>1, SMT
<1>8. CASE e # 0 /\ ~(q < K)
  <2>1. d * c + c <= q * c
    BY <1>2, <1>3, <1>4, <1>6, <1>8
  <2> QED
    BY ONLY <1>1, <1>3, <1>4, <1>5, <2>1, SMT
<1> QED
  BY <1>1, <1>4, <1>7, <1>8 DEF q, c, K

\* The chunks' places rise.
LEMMA PlacesRise ==
    ASSUME TranslationsAssumption, CarriedAssumption, NEW t \in Translations,
           t.ordered, NEW n \in 0 .. ChunksOf(t)
    PROVE  PlacesOf(t)[n] <= PlacesOf(t)[ChunksOf(t)]
<1> DEFINE K == ChunksOf(t)
           at == PlacesOf(t)
           Below == {i \in 0 .. K : ~(at[K - i] <= at[K])}
<1>1. /\ K \in Nat /\ t.points \in Nat /\ at \in [0 .. K -> 0 .. t.points]
  BY LaneFacts, CarriedWhole DEF TranslationsAssumption
<1>2. \A i \in 0 .. K : at[i] \in Nat
  BY <1>1
<1>3. ASSUME NEW i \in 0 .. K - 1 PROVE at[i] <= at[i + 1]
  <2>1. at[i + 1] = at[i] + Len(LeftOf(t, i)) /\ LeftOf(t, i) \in Seq(Nat)
    BY <1>3, CarriedChunk
  <2>2. Len(LeftOf(t, i)) \in Nat
    BY <2>1
  <2>3. at[i] \in Nat
    BY <1>1, <1>2, <1>3
  <2> QED
    BY <2>1, <2>2, <2>3
<1> HIDE DEF K, at
<1>4. ASSUME Below # {} PROVE FALSE
  <2>1. Below \in SUBSET Nat
    BY <1>1
  <2>2. PICK i \in Below : \A j \in Below : i <= j
    BY <1>4, <2>1, LeastMember
  <2>3. i \in 0 .. K /\ ~(at[K - i] <= at[K])
    OBVIOUS
  <2>4. i # 0
    BY <1>1, <1>2, <2>3
  <2>5. i - 1 \in 0 .. K /\ i - 1 \notin Below /\ K - i \in 0 .. K - 1
        /\ K - (i - 1) = K - i + 1 /\ K - i + 1 \in 0 .. K
    <3> HIDE DEF Below
    <3>1. /\ i - 1 \in 0 .. K /\ K - i \in 0 .. K - 1 /\ ~(i <= i - 1)
          /\ K - (i - 1) = K - i + 1 /\ K - i + 1 \in 0 .. K
      BY ONLY <1>1, <2>3, <2>4, SMT
    <3>2. i - 1 \notin Below
      BY <2>2, <3>1
    <3> QED
      BY <3>1, <3>2
  <2>6. at[K - i + 1] <= at[K]
    BY <2>5
  <2>7. at[K - i] <= at[K - i + 1]
    BY <1>3, <2>5
  <2>8. at[K - i] \in Nat /\ at[K - i + 1] \in Nat /\ at[K] \in Nat
    BY <1>1, <1>2, <2>5
  <2> QED
    BY <2>3, <2>6, <2>7, <2>8
<1>5. K - n \in 0 .. K /\ K - (K - n) = n
  BY <1>1 DEF K
<1>6. at[K - (K - n)] <= at[K]
  BY <1>4, <1>5
<1> QED
  BY <1>5, <1>6 DEF K, at

\* The records of the file.
LEMMA ExpectedFacts ==
    ASSUME TranslationsAssumption, CarriedAssumption, translation \in Translations
    PROVE  /\ Expected \in Seq(Nat)
           /\ Len(Expected) \in 0 .. translation.points
           /\ ~translation.ordered =>
                 /\ Len(Expected) = translation.points
                 /\ \A i \in 1 .. Len(Expected) : Expected[i] = i - 1
           /\ translation.ordered =>
                 /\ Len(Expected) = PlacesOf(translation)[ChunkCount]
                 /\ \A n \in 0 .. ChunkCount :
                       PlacesOf(translation)[n] \in 0 .. Len(Expected)
<1> DEFINE p == translation.points
           t == translation
<1>1. p \in Nat /\ ChunkCount \in Nat /\ ChunkCount = ChunksOf(t)
  BY LaneFacts DEF TranslationsAssumption, ChunkCount
<1>2. CASE ~t.ordered
  <2>1. Expected = [i \in 1 .. p |-> i - 1]
    BY <1>2 DEF Expected, FirstPoints
  <2>2. \A i \in 1 .. p : i - 1 \in Nat
    OBVIOUS
  <2> HIDE DEF p
  <2> QED
    BY <1>1, <1>2, <2>1, <2>2 DEF p
<1>3. CASE t.ordered
  <2>1. Expected = Reference(t.operations, t.mode, FirstPoints(t.points))
    BY <1>3 DEF Expected
  <2>2. /\ PlacesOf(t) \in [0 .. ChunksOf(t) -> 0 .. t.points]
        /\ PlacesOf(t)[ChunksOf(t)] = Len(Expected)
        /\ Expected \in Seq(Nat)
    BY <1>3, <2>1, CarriedWhole
  <2>3. \A n \in 0 .. ChunkCount : PlacesOf(t)[n] <= Len(Expected)
    BY <1>1, <1>3, <2>2, PlacesRise
  <2>4. Len(Expected) \in Nat /\ \A n \in 0 .. ChunkCount : PlacesOf(t)[n] \in 0 .. p
    BY <1>1, <2>2
  <2>5. Len(Expected) \in 0 .. p
    BY <1>1, <2>2, <2>4
  <2> HIDE DEF p
  <2> QED
    BY <1>1, <1>3, <2>2, <2>3, <2>4, <2>5 DEF p
<1> QED
  BY <1>2, <1>3

\* What the sink has got, at any time and in the end.
LEMMA SinkFacts ==
    ASSUME TranslationsAssumption, CarriedAssumption, LaneTypes, PlaceInv
    PROVE  /\ \A place \in DOMAIN sunk : sunk[place] # Unwritten =>
                 place < Len(Expected) /\ sunk[place] = Expected[place + 1]
           /\ sequence = ChunkCount /\ pending = {} =>
                 /\ Filled = 0 .. Len(Expected) - 1
                 /\ translation.ordered => emittedPointCount = Len(Expected)
<1> DEFINE p == translation.points
           c == translation.chunkPoints
           E == Expected
           n == Len(E)
<1>1. translation \in Translations /\ p \in Nat /\ sequence \in 0 .. ChunkCount
  BY DEF LaneTypes, TranslationsAssumption
<1>2. /\ E \in Seq(Nat) /\ n \in 0 .. p
      /\ \A i \in 1 .. n : E[i] \in Nat
  <2>1. E \in Seq(Nat) /\ n \in 0 .. p
    BY <1>1, ExpectedFacts
  <2> QED
    BY <2>1
<1>3. DOMAIN sunk = 0 .. p - 1 /\ Filled = {place \in 0 .. p - 1 : sunk[place] # Unwritten}
  BY DEF PlaceInv, Filled
<1>4. CASE ~translation.ordered
  <2>1. n = p /\ \A i \in 1 .. n : E[i] = i - 1
    BY <1>1, <1>4, ExpectedFacts
  <2>2. \A place \in 0 .. p - 1 :
           sunk[place] = IF Taken(place \div c) THEN place ELSE Unwritten
    BY <1>4 DEF PlaceInv
  <2>3. ASSUME sequence = ChunkCount, pending = {}, NEW place \in 0 .. p - 1
        PROVE  Taken(place \div c)
    <3>1. place \div c \in 0 .. ChunkCount - 1
      BY <1>1, <2>3, ChunkOfPlace DEF ChunkCount
    <3> DEFINE q == place \div c
    <3>2. q < ChunkCount
      <4>1. q \in 0 .. ChunkCount - 1
        BY <3>1
      <4>2. ChunkCount \in Nat
        BY <1>1, LaneFacts DEF ChunkCount
      <4> HIDE DEF q
      <4> QED
        BY <4>1, <4>2
    <3> QED
      BY <2>3, <3>2 DEF Taken
  <2> HIDE DEF p, E, n
  <2>4. \A place \in 0 .. p - 1 : sunk[place] # Unwritten =>
           place < n /\ sunk[place] = E[place + 1]
    <3>1. \A place \in 0 .. p - 1 : place + 1 \in 1 .. n /\ place < n /\ place + 1 - 1 = place
      BY <1>1, <2>1
    <3> QED
      BY <2>1, <2>2, <3>1
  <2>5. \A place \in 0 .. p - 1 : place # Unwritten
    BY <1>1 DEF Unwritten
  <2>6. sequence = ChunkCount /\ pending = {} => Filled = 0 .. n - 1
    BY <1>3, <2>1, <2>2, <2>3, <2>5
  <2> QED
    BY <1>3, <1>4, <2>4, <2>6 DEF E, n
<1>5. CASE translation.ordered
  <2>1. PICK next \in 0 .. sequence :
           /\ \A i \in 0 .. sequence - 1 : Taken(i) <=> i < next
           /\ emittedPointCount = PlacesOf(translation)[next]
           /\ \A place \in 0 .. p - 1 :
                 sunk[place] = IF place < emittedPointCount THEN E[place + 1]
                                                            ELSE Unwritten
    BY <1>5 DEF PlaceInv
  <2>2. /\ ChunkCount \in Nat /\ next \in 0 .. ChunkCount /\ sequence \in Nat
        /\ next \in Nat
    <3>1. ChunkCount \in Nat
      BY <1>1, LaneFacts DEF ChunkCount
    <3> QED
      BY <1>1, <3>1
  <2>3. emittedPointCount \in 0 .. n /\ n = PlacesOf(translation)[ChunkCount]
    BY <1>1, <1>5, <2>1, <2>2, ExpectedFacts
  <2>4. ASSUME sequence = ChunkCount, pending = {} PROVE emittedPointCount = n
    <3>1. next = sequence
      <4>1. ASSUME next < sequence PROVE FALSE
        <5>1. Taken(next) /\ next \in 0 .. sequence - 1
          BY <2>2, <2>4, <4>1 DEF Taken
        <5> QED
          BY <2>1, <2>2, <5>1
      <4> QED
        BY <2>1, <2>2, <4>1
    <3> QED
      BY <2>1, <2>3, <2>4, <3>1
  <2> HIDE DEF p, E, n
  <2>5. ASSUME NEW place \in 0 .. p - 1
        PROVE  /\ sunk[place] # Unwritten => place < n /\ sunk[place] = E[place + 1]
               /\ place < emittedPointCount => sunk[place] # Unwritten
    <3>1. CASE place < emittedPointCount
      <4>1. place < n /\ place + 1 \in 1 .. n /\ sunk[place] = E[place + 1]
        BY <1>2, <2>1, <2>3, <2>5, <3>1
      <4> QED
        BY <1>2, <4>1 DEF Unwritten
    <3>2. CASE ~(place < emittedPointCount)
      BY <2>1, <2>5, <3>2
    <3> QED
      BY <3>1, <3>2
  <2>6. ASSUME sequence = ChunkCount, pending = {} PROVE Filled = 0 .. n - 1
    <3>1. \A place \in 0 .. p - 1 : place \in Filled <=> place \in 0 .. n - 1
      BY <1>2, <1>3, <2>4, <2>5, <2>6
    <3>2. 0 .. n - 1 \subseteq 0 .. p - 1 /\ Filled \subseteq 0 .. p - 1
      BY <1>1, <1>2, <1>3
    <3> QED
      BY <3>1, <3>2
  <2> QED
    BY <1>3, <2>4, <2>5, <2>6 DEF E, n
<1> QED
  BY <1>4, <1>5

\* The sink and the counts rest.
LEMMA PlacesRest ==
    ASSUME TranslationsAssumption, LaneTypes, LaneTypes', PlaceInv,
           UNCHANGED <<translation, sunk, emittedPointCount>>,
           \A n \in Nat : Taken(n)' <=> Taken(n),
           \/ sequence' = sequence
           \/ sequence' = sequence + 1 /\ ~Taken(sequence)
    PROVE  PlaceInv'
<1> DEFINE p == translation.points
           c == translation.chunkPoints
<1>1. /\ translation \in Translations /\ p \in Nat /\ c \in Nat /\ (p > 0 => c > 0)
  BY DEF LaneTypes, TranslationsAssumption
<1>2. DOMAIN sunk = 0 .. p - 1
  BY DEF PlaceInv
<1>3. ASSUME ~translation.ordered, NEW place \in 0 .. p - 1
      PROVE  sunk'[place] = IF Taken(place \div translation.chunkPoints)'
                            THEN place ELSE Unwritten
  <2>1. place \in Nat /\ c \in Nat \ {0}
    BY <1>1, <1>3
  <2>2. place \div c \in Nat
    BY ONLY <2>1, DivMod
  <2>3. PICK q \in Nat : q = place \div c
    BY <2>2
  <2>4. sunk[place] = IF Taken(q) THEN place ELSE Unwritten
    BY <1>3, <2>3 DEF PlaceInv
  <2>5. sunk'[place] = IF Taken(q)' THEN place ELSE Unwritten
    BY <2>3, <2>4
  <2>6. q = place \div translation'.chunkPoints
    BY <2>3
  <2> QED
    BY <2>5, <2>6 DEF Taken
<1>4. ASSUME translation.ordered
      PROVE  \E next \in 0 .. sequence' :
                /\ \A n \in 0 .. sequence' - 1 : Taken(n)' <=> n < next
                /\ emittedPointCount = PlacesOf(translation)[next]
                /\ \A place \in 0 .. p - 1 :
                      sunk[place] = IF place < emittedPointCount THEN Expected[place + 1]
                                                                 ELSE Unwritten
  <2>1. PICK next \in 0 .. sequence :
           /\ \A n \in 0 .. sequence - 1 : Taken(n) <=> n < next
           /\ emittedPointCount = PlacesOf(translation)[next]
           /\ \A place \in 0 .. p - 1 :
                 sunk[place] = IF place < emittedPointCount THEN Expected[place + 1]
                                                            ELSE Unwritten
    BY <1>4 DEF PlaceInv
  <2>2. sequence \in Nat
    <3>1. ChunkCount \in Nat
      BY <1>1, LaneFacts DEF ChunkCount
    <3> QED
      BY <3>1 DEF LaneTypes
  <2>3. next \in 0 .. sequence' /\ \A n \in 0 .. sequence' - 1 : Taken(n)' <=> n < next
    <3>1. CASE sequence' = sequence
      BY <2>1, <2>2, <3>1
    <3>2. CASE sequence' = sequence + 1 /\ ~Taken(sequence)
      <4>1. next \in 0 .. sequence'
        BY <2>1, <2>2, <3>2
      <4>2. ASSUME NEW n \in 0 .. sequence' - 1 PROVE Taken(n)' <=> n < next
        <5>1. CASE n = sequence
          BY <2>1, <2>2, <3>2, <5>1
        <5>2. CASE n \in 0 .. sequence - 1
          BY <2>1, <2>2, <5>2
        <5> QED
          BY <2>2, <3>2, <4>2, <5>1, <5>2
      <4> QED
        BY <4>1, <4>2
    <3> QED
      BY <3>1, <3>2
  <2> QED
    BY <2>1, <2>3
<1>5. Expected' = Expected
  BY DEF Expected
<1> QED
  BY <1>2, <1>3, <1>4, <1>5 DEF PlaceInv

-----------------------------------------------------------------------------
(***************************************************************************)
(* The invariant and the theorem.                                          *)
(***************************************************************************)
LEMMA TranslationBegins ==
    ASSUME TranslationsAssumption, CarriedAssumption, NEW t \in Translations,
           NEW state \in {"idle", "filling"}, TranslationStart(t, state)
    PROVE  TransInv
<1>1. StreamInv
  BY TranslationStarts
<1>2. /\ translation = t /\ caller = state /\ sequence = 0 /\ pending = {}
      /\ ordinalStates = OrdinalStates(t.operations, t.mode, t.points)
      /\ hostSummary = <<>> /\ emittedPointCount = 0
      /\ sunk = [place \in 0 .. t.points - 1 |-> Unwritten]
  BY DEF TranslationStart, InitialSummary
<1>3. WindowInv
  BY <1>2 DEF WindowInv
<1>4. CountInv
  <2>1. Filled = {}
    BY <1>2 DEF Filled
  <2>2. ToSet(<<>>) = {}
    BY DEF ToSet
  <2>3. {sunk[place] : place \in Filled} = {}
    BY <2>1
  <2>4. <<>> \in Seq(Nat) /\ Len(<<>>) = 0
    OBVIOUS
  <2> QED
    BY <1>2, <2>1, <2>2, <2>3, <2>4, FS_EmptySet DEF CountInv
<1>5. PlaceInv
  <2>1. t.points \in Nat
    BY DEF TranslationsAssumption
  <2>2. \A n : ~Taken(n) \/ n < 0
    BY <1>2 DEF Taken
  <2>3. ASSUME ~t.ordered, NEW place \in 0 .. t.points - 1
        PROVE  ~Taken(place \div t.chunkPoints)
    <3>1. place \in Nat /\ t.chunkPoints \in Nat \ {0}
      BY <2>1, <2>3 DEF TranslationsAssumption
    <3>2. place \div t.chunkPoints \in Nat
      BY ONLY <3>1, DivMod
    <3>3. ~((place \div t.chunkPoints) < 0)
      BY ONLY <3>2, SMT
    <3> QED
      BY <2>2, <3>3
  <2>4. ASSUME t.ordered
        PROVE  \E next \in 0 .. sequence :
                  /\ \A n \in 0 .. sequence - 1 : Taken(n) <=> n < next
                  /\ emittedPointCount = PlacesOf(translation)[next]
                  /\ \A place \in 0 .. t.points - 1 :
                        sunk[place] = IF place < emittedPointCount
                                      THEN Expected[place + 1] ELSE Unwritten
    <3>1. PlacesOf(t)[0] = 0
      BY <2>4, CarriedWhole
    <3>2. 0 \in 0 .. sequence /\ \A n \in 0 .. sequence - 1 : FALSE
      BY <1>2
    <3>3. \A place \in 0 .. t.points - 1 : ~(place < 0) /\ sunk[place] = Unwritten
      BY <1>2
    <3> QED
      BY <1>2, <3>1, <3>2, <3>3
  <2> QED
    BY <1>2, <2>3, <2>4 DEF PlaceInv
<1>6. EndInv
  BY <1>2 DEF EndInv
<1>7. ResultInv
  <2>1. caller # "operating"
    BY <1>2
  <2>2. /\ DOMAIN ordinalStates = DOMAIN t.operations
        /\ t.ordered => \A i \in DOMAIN t.operations :
              ordinalStates[i] = Progress(t)[<<0, i>>].state
    <3>1. DOMAIN t.operations = 1 .. Len(t.operations)
      BY DEF TranslationsAssumption
    <3>2. DOMAIN ordinalStates = DOMAIN t.operations
      BY <1>2 DEF OrdinalStates
    <3> QED
      BY <1>2, <3>1, <3>2, CarriedWhole
  <2> QED
    BY <1>2, <2>1, <2>2 DEF ResultInv
<1> QED
  BY <1>1, <1>3, <1>4, <1>5, <1>6, <1>7 DEF TransInv

\* Every record is in its place, and the header counts it.
LEMMA TransWhole ==
    ASSUME TranslationsAssumption, CarriedAssumption, TransInv
    PROVE  TranslatedWhole
<1>1. LaneTypes /\ PlaceInv /\ CountInv /\ EndInv
  BY DEF TransInv, StreamInv
<1>2. /\ translation \in Translations
      /\ Expected \in Seq(Nat) /\ Len(Expected) \in Nat
  <2>1. translation \in Translations
    BY <1>1 DEF LaneTypes
  <2>2. Expected \in Seq(Nat)
    BY <2>1, ExpectedFacts
  <2> QED
    BY <2>1, <2>2
<1>3. \A place \in DOMAIN sunk : sunk[place] # Unwritten =>
         place < Len(Expected) /\ sunk[place] = Expected[place + 1]
  BY <1>1, SinkFacts
<1>4. ASSUME caller = "returned"
      PROVE  /\ \A place \in 0 .. Len(Expected) - 1 : sunk[place] # Unwritten
             /\ headerSunk.count = Len(Expected)
             /\ Len(headerSunk.summary) = Len(Expected)
             /\ ToSet(headerSunk.summary) = ToSet(Expected)
  <2> DEFINE n == Len(Expected)
             E == Expected
  <2>1. /\ sequence = ChunkCount /\ pending = {}
        /\ headerSunk = [count |-> n, summary |-> hostSummary]
    BY <1>1, <1>4 DEF EndInv
  <2>2. Filled = 0 .. n - 1
    BY <1>1, <2>1, SinkFacts
  <2>3. /\ Len(hostSummary) = Cardinality(Filled)
        /\ ToSet(hostSummary) = {sunk[place] : place \in Filled}
    BY <1>1 DEF CountInv
  <2>4. Cardinality(Filled) = n
    BY <1>2, <2>2, IntervalSize
  <2>5. \A place \in 0 .. n - 1 : sunk[place] # Unwritten /\ place \in DOMAIN sunk
    BY <1>1, <2>2 DEF Filled, PlaceInv
  <2>6. {sunk[place] : place \in 0 .. n - 1} = ToSet(E)
    <3>1. \A place \in 0 .. n - 1 : sunk[place] = E[place + 1]
      BY <1>3, <2>5
    <3>2. DOMAIN E = 1 .. n /\ n \in Nat
      BY <1>2
    <3> HIDE DEF n, E
    <3>3. ASSUME NEW place \in 0 .. n - 1 PROVE sunk[place] \in ToSet(E)
      <4>1. place + 1 \in DOMAIN E
        BY <3>2, <3>3
      <4> QED
        BY <3>1, <4>1 DEF ToSet
    <3>4. ASSUME NEW i \in DOMAIN E
          PROVE  E[i] \in {sunk[place] : place \in 0 .. n - 1}
      <4>1. i - 1 \in 0 .. n - 1 /\ (i - 1) + 1 = i
        BY <3>2, <3>4
      <4>2. sunk[i - 1] = E[i]
        BY <3>1, <4>1
      <4> QED
        BY <4>1, <4>2
    <3> QED
      BY <3>3, <3>4 DEF ToSet
  <2> QED
    BY <2>1, <2>2, <2>3, <2>4, <2>5, <2>6
<1> QED
  BY <1>3, <1>4 DEF TranslatedWhole

\* Every step but the last copy's finish leaves the sink alone.
LEMMA SinkRests ==
    ASSUME \/ FillLane \/ Operate \/ QueueResults \/ WriteHeader \/ QueueFails
           \/ TranslationFails \/ DestroyLane \/ TranslationReturns
           \/ TranslationOver \/ DeviceWorks \/ UNCHANGED translationVars
    PROVE  UNCHANGED <<translation, sunk, hostSummary, emittedPointCount>>
<1>1. CASE FillLane \/ Operate \/ QueueResults
  BY <1>1 DEF FillLane, Operate, QueueResults, sunkVars
<1>2. CASE \/ WriteHeader \/ QueueFails \/ TranslationFails
  BY <1>2 DEF WriteHeader, QueueFails, TranslationFails, sunkVars
<1>3. CASE \/ DestroyLane \/ TranslationReturns \/ DeviceWorks
  BY <1>3 DEF DestroyLane, TranslationReturns, DeviceWorks, sunkVars
<1>4. CASE TranslationOver \/ UNCHANGED translationVars
  BY <1>4 DEF TranslationOver, translationVars, sunkVars
<1> QED
  BY <1>1, <1>2, <1>3, <1>4

\* The steps that leave the sink alone keep the count.
LEMMA CountRests ==
    ASSUME CountInv,
           UNCHANGED <<translation, sunk, hostSummary, emittedPointCount>>
    PROVE  CountInv'
<1>1. Filled' = Filled
  BY DEF Filled
<1> QED
  BY <1>1 DEF CountInv

\* The header is written when every chunk has been taken.
LEMMA EndsWell ==
    ASSUME TranslationsAssumption, CarriedAssumption, StreamInv, PlaceInv, EndInv,
           [TranslationCallerStep \/ DeviceWorks \/ TranslationOver]_translationVars
    PROVE  EndInv'
<1>1. LaneTypes
  BY DEF StreamInv
<1>2. CASE WriteHeader
  <2>1. /\ sequence = ChunkCount /\ pending = {}
        /\ headerSunk' = [count |-> IF translation.ordered THEN emittedPointCount
                                                          ELSE translation.points,
                          summary |-> hostSummary]
        /\ UNCHANGED <<translation, sequence, pending, hostSummary>>
    BY <1>2 DEF WriteHeader, laneVars
  <2>2. translation \in Translations
    BY <1>1 DEF LaneTypes
  <2>3. (IF translation.ordered THEN emittedPointCount ELSE translation.points)
           = Len(Expected)
    BY <1>1, <2>1, <2>2, SinkFacts, ExpectedFacts
  <2>4. Expected' = Expected /\ ChunkCount' = ChunkCount
    BY <2>1 DEF Expected, ChunkCount
  <2> QED
    BY <2>1, <2>3, <2>4 DEF EndInv
<1>3. CASE FinishLane \/ FillLane \/ Operate \/ QueueResults \/ FinishPending
           \/ QueueFails \/ TranslationFails
  <2>1. caller' \notin {"returning", "returned"}
    <3>1. CASE FinishLane \/ FinishPending
      BY <3>1 DEF FinishLane, FinishPending, Finish, callerVars
    <3>2. CASE FillLane \/ Operate \/ QueueResults \/ QueueFails \/ TranslationFails
      BY <3>2 DEF FillLane, Filling, Operate, QueueResults, QueueFails, TranslationFails
    <3> QED
      BY <1>3, <3>1, <3>2
  <2> QED
    BY <2>1 DEF EndInv
<1>4. CASE DestroyLane \/ TranslationReturns \/ DeviceWorks \/ TranslationOver
           \/ UNCHANGED translationVars
  <2>1. /\ UNCHANGED <<translation, sequence, pending, headerSunk, hostSummary>>
        /\ caller' \in {"returning", "returned"} => caller \in {"returning", "returned"}
    <3>1. CASE DestroyLane \/ DeviceWorks
      BY <3>1 DEF DestroyLane, DeviceWorks, callerVars, laneVars, sunkVars
    <3>2. CASE TranslationReturns
      BY <3>2 DEF TranslationReturns, laneVars, sunkVars
    <3>3. CASE TranslationOver \/ UNCHANGED translationVars
      BY <3>3 DEF TranslationOver, translationVars, callerVars, laneVars, sunkVars
    <3> QED
      BY <1>4, <3>1, <3>2, <3>3
  <2>2. Expected' = Expected /\ ChunkCount' = ChunkCount
    BY <2>1 DEF Expected, ChunkCount
  <2> QED
    BY <2>1, <2>2 DEF EndInv
<1> QED
  BY <1>2, <1>3, <1>4 DEF TranslationCallerStep

\* Every step keeps the invariant.
LEMMA TransKeeps ==
    ASSUME TranslationsAssumption, CarriedAssumption, TransInv,
           [TranslationCallerStep \/ DeviceWorks \/ TranslationOver]_translationVars
    PROVE  TransInv'
<1>1. /\ StreamInv /\ WindowInv /\ CountInv /\ PlaceInv /\ EndInv /\ ResultInv
      /\ LaneTypes
  BY DEF TransInv, StreamInv
<1>2. StreamInv' /\ LaneTypes'
  BY <1>1, StreamsKeep DEF StreamInv
<1>3. EndInv'
  BY <1>1, EndsWell
<1>4. ASSUME NEW l, Finish(l), caller = "filling",
             translation.ordered => \A m \in pending : laneSequence[l] <= laneSequence[m]
      PROVE  WindowInv' /\ ResultInv' /\ PlaceInv' /\ CountInv'
  <2>1. AtWork
    BY <1>4 DEF AtWork
  <2> QED
    BY <1>1, <1>4, <2>1, FinishWindow, FinishResults, FinishPlaces
<1>5. CASE FinishLane
  <2>1. /\ Finish(TheLane) /\ caller = "filling" /\ TheLane \in pending
        /\ sequence < ChunkCount
    BY <1>5 DEF FinishLane, Finish
  <2>2. translation.ordered =>
           \A m \in pending : laneSequence[TheLane] <= laneSequence[m]
    BY <1>1, <2>1, NextFinished
  <2> QED
    BY <1>1, <1>2, <1>3, <1>4, <2>1, <2>2 DEF TransInv
<1>6. CASE FinishPending
  <2>1. PICK l \in pending : NextToFinish(l) /\ Finish(l) /\ caller = "filling"
    BY <1>6 DEF FinishPending
  <2>2. translation.ordered => \A m \in pending : laneSequence[l] <= laneSequence[m]
    BY <1>1, <2>1, NextFinished
  <2> QED
    BY <1>1, <1>2, <1>3, <1>4, <2>1, <2>2 DEF TransInv
<1>7. ASSUME FillLane \/ Operate \/ QueueResults \/ WriteHeader \/ QueueFails
             \/ TranslationFails \/ DestroyLane \/ TranslationReturns
             \/ TranslationOver \/ DeviceWorks \/ UNCHANGED translationVars,
             Enters \/ LanesRest, ResultInv'
      PROVE  TransInv'
  <2>1. UNCHANGED <<translation, sunk, hostSummary, emittedPointCount>>
    BY <1>7, SinkRests
  <2>2. WindowInv'
    BY <1>1, <1>7, EntersWindow, RestsWindow
  <2>3. \A n \in Nat : Taken(n)' <=> Taken(n)
    BY <1>7, EntersTaken, RestsTaken
  <2>4. \/ sequence' = sequence
        \/ sequence' = sequence + 1 /\ ~Taken(sequence)
    <3>1. sequence \in Int
      BY <1>1 DEF LaneTypes
    <3> QED
      BY <1>7, <3>1 DEF Enters, LanesRest, Taken
  <2>5. PlaceInv'
    BY <1>1, <1>2, <2>1, <2>3, <2>4, PlacesRest
  <2>6. CountInv'
    BY <1>1, <2>1, CountRests
  <2> QED
    BY <1>2, <1>3, <1>7, <2>2, <2>5, <2>6 DEF TransInv
<1>8. CASE FillLane
  <2>1. ResultInv'
    BY <1>1, <1>8, FillResults
  <2>2. Enters \/ LanesRest
    BY <1>1, <1>8, FillEnters, LanesResting
  <2> QED
    BY <1>7, <1>8, <2>1, <2>2
<1>9. CASE Operate
  <2>1. ResultInv' /\ LanesRest
    BY <1>1, <1>9, OperateResults, LanesResting
  <2> QED
    BY <1>7, <1>9, <2>1
<1>10. CASE QueueResults
  <2>1. ResultInv' /\ Enters
    BY <1>1, <1>10, QueueLanes, QueueEnters
  <2> QED
    BY <1>7, <1>10, <2>1
<1>11. CASE DeviceWorks
  <2>1. ResultInv' /\ LanesRest
    BY <1>1, <1>11, DeviceResults, LanesResting
  <2> QED
    BY <1>7, <1>11, <2>1
<1>12. CASE \/ WriteHeader \/ QueueFails \/ TranslationFails \/ DestroyLane
            \/ TranslationReturns \/ TranslationOver \/ UNCHANGED translationVars
  <2>1. ResultInv' /\ LanesRest
    BY <1>1, <1>12, RestResults, LanesResting
  <2> QED
    BY <1>7, <1>12, <2>1
<1> QED
  BY <1>5, <1>6, <1>8, <1>9, <1>10, <1>11, <1>12 DEF TranslationCallerStep

\* What the sink has got are points of the file, and no more than it has.
LEMMA TransTypes ==
    ASSUME TranslationsAssumption, CarriedAssumption, TransInv
    PROVE  TranslationTypeOK
<1> DEFINE p == translation.points
           n == Len(Expected)
<1>1. LaneTypes /\ PlaceInv /\ CountInv /\ translation \in Translations /\ p \in Nat
  BY DEF TransInv, StreamInv, LaneTypes, TranslationsAssumption
<1>2. Expected \in Seq(Nat) /\ n \in Nat
  BY <1>1, ExpectedFacts
<1>3. \A i \in 1 .. n : Expected[i] \in 0 .. p - 1
  <2>1. CASE ~translation.ordered
    <3>1. n = p /\ \A i \in 1 .. n : Expected[i] = i - 1
      BY <1>1, <2>1, ExpectedFacts
    <3> HIDE DEF n, p
    <3> QED
      BY <1>1, <3>1
  <2>2. CASE translation.ordered
    <3>1. Expected = Reference(translation.operations, translation.mode,
                               FirstPoints(translation.points))
      BY <2>2 DEF Expected
    <3> QED
      BY <1>1, <2>2, <3>1, CarriedWhole
  <2> QED
    BY <1>1, <2>1, <2>2
<1>4. \A place \in DOMAIN sunk : sunk[place] \in Unwritten .. p - 1
  <2> SUFFICES ASSUME NEW place \in DOMAIN sunk
               PROVE  sunk[place] \in Unwritten .. p - 1
    OBVIOUS
  <2>1. DOMAIN sunk = 0 .. p - 1
    BY <1>1 DEF PlaceInv
  <2>2. CASE sunk[place] = Unwritten
    <3> HIDE DEF p
    <3> QED
      BY <1>1, <2>2, SMT DEF Unwritten
  <2>3. CASE sunk[place] # Unwritten
    <3>1. place < n /\ sunk[place] = Expected[place + 1]
      BY <1>1, <2>3, SinkFacts
    <3> DEFINE e == Expected[place + 1]
    <3>2. place + 1 \in 1 .. n
      <4> HIDE DEF n, p
      <4> QED
        BY <1>1, <1>2, <2>1, <3>1, SMT
    <3>3. e \in 0 .. p - 1
      BY <1>3, <3>2
    <3> HIDE DEF e, p
    <3>4. e \in Unwritten .. p - 1
      BY <1>1, <3>3, SMT DEF Unwritten
    <3> QED
      BY <3>1, <3>4 DEF e
  <2> QED
    BY <2>2, <2>3
<1>5. emittedPointCount \in 0 .. p
  <2>1. Filled \subseteq 0 .. p - 1 /\ emittedPointCount = Cardinality(Filled)
    BY <1>1 DEF Filled, CountInv
  <2>2. IsFiniteSet(0 .. p - 1) /\ Cardinality(0 .. p - 1) = p
    BY <1>1, IntervalSize
  <2>3. /\ IsFiniteSet(Filled) /\ Cardinality(Filled) \in Nat
        /\ Cardinality(Filled) <= p
    BY <2>1, <2>2, FS_Subset, FS_CardinalityType
  <2> HIDE DEF p
  <2> QED
    BY <1>1, <2>1, <2>3, SMT
<1> QED
  BY <1>1, <1>4, <1>5 DEF LaneTypes, TranslationTypeOK

\* The invariant of the translation holds throughout an attempt.
LEMMA TransHolds ==
    ASSUME TranslationsAssumption, CarriedAssumption
    PROVE  Spec => []TransInv
<1>1. Init => TransInv
  <2>1. SomeTranslation \in Translations
    BY DEF SomeTranslation, TranslationsAssumption
  <2>2. TranslationIdle => TransInv
    BY <2>1, TranslationBegins DEF TranslationIdle
  <2>3. TranslationInit => TransInv
    BY TranslationBegins DEF TranslationInit
  <2> QED
    BY <2>2, <2>3 DEF Init
<1>2. TransInv /\ [Next]_attemptVars => TransInv'
  <2> SUFFICES ASSUME TransInv, [Next]_attemptVars PROVE TransInv'
    OBVIOUS
  <2>1. [TranslationCallerStep \/ DeviceWorks \/ TranslationOver]_translationVars
    BY DEF Next, Of, attemptVars, TranslationCallerStep
  <2> QED
    BY <2>1, TransKeeps
<1> QED
  BY <1>1, <1>2, PTL DEF Spec

\* TranslationRight: whatever the interleaving of the host and of the streams
\* of its lanes, pending work finds its buffers, every chunk is written once at
\* its place, and a translation that succeeds leaves the records, the bounds
\* and the counters PDAL's reader, filters and writer leave.
THEOREM TranslationIsRight ==
    ASSUME TranslationsAssumption, CarriedAssumption
    PROVE  Spec => []TranslationRight
<1>1. TransInv => TranslationRight
  BY TransWhole, StreamsSpareBuffers DEF TranslationRight, TransInv
<1> QED
  BY <1>1, TransHolds, PTL

-----------------------------------------------------------------------------
(***************************************************************************)
(* The attempt as a whole: the part that was chosen keeps its invariant,   *)
(* and the others rest.                                                    *)
(***************************************************************************)
\* What holds of the parts, without what the preflight finds, ...
PartsInv ==
    /\ attempt \in {"command", "run", "translation"}
    /\ IF attempt = "command" THEN IInv ELSE CommandIdle
    /\ IF attempt = "run" THEN RunInv /\ RunTypes ELSE RunIdle

\* ... and with them.
RulesInv ==
    /\ PartsInv
    /\ IF attempt = "run" THEN AcceptInv /\ ViewInv /\ RefusalInv ELSE RunIdle

\* A step of the attempt is one of the part that was chosen.
LEMMA PartSteps ==
    ASSUME [Next]_attemptVars
    PROVE  /\ attempt' = attempt
           /\ attempt = "command" => [CommandNext]_<<sinkVars, commandVars>>
           /\ attempt # "command" => UNCHANGED <<sinkVars, commandVars>>
           /\ attempt = "run" => [RunStep \/ RunEnded]_runVars
           /\ attempt # "run" => UNCHANGED runVars
<1>1. CASE UNCHANGED attemptVars
  BY <1>1 DEF attemptVars
<1>2. CASE Next
  <2>1. \/ Of("command") /\ CommandNext
        \/ Of("run") /\ (RunStep \/ RunEnded)
        \/ Of("translation")
    BY <1>2 DEF Next, CommandNext, CommandStep, SinkCallerStep, SinkWorkerStep, RunStep
  <2> QED
    BY <2>1 DEF Of
<1> QED
  BY <1>1, <1>2

\* Parts that rest go on resting.
LEMMA IdleRests ==
    /\ CommandIdle /\ UNCHANGED <<sinkVars, commandVars>> => CommandIdle'
    /\ RunIdle /\ UNCHANGED runVars => RunIdle'
<1>1. CommandIdle /\ UNCHANGED <<sinkVars, commandVars>> => CommandIdle'
  BY DEF CommandIdle, CommandInitAt, SinkInitAt, sinkVars, commandVars
<1>2. RunIdle /\ UNCHANGED runVars => RunIdle'
  BY DEF RunIdle, StartsOver, runVars, contextVars
<1> QED
  BY <1>1, <1>2

\* Parts that rest break no promise.
LEMMA IdleKeeps ==
    /\ CommandIdle => OneOutput /\ NoLeftovers
    /\ RunIdle => RunsThePlan /\ RefusedAtBoundary
<1>1. CommandIdle => OneOutput /\ NoLeftovers
  <2> SUFFICES ASSUME CommandIdle PROVE OneOutput /\ NoLeftovers
    OBVIOUS
  <2>1. /\ sinkResult = "none" /\ status = Running /\ output = NoFile
        /\ temporary = [r \in Publishers |-> "nobody"] /\ strays = {}
    BY DEF CommandIdle, CommandInitAt, SinkInitAt
  <2>2. output.by = "nobody" /\ "nobody" \notin Routes /\ status # 0
    BY <2>1, SMT DEF NoFile, File, Routes, Publishers, Running
  <2> QED
    BY <2>1, <2>2 DEF OneOutput, NoLeftovers, SinkWhole
<1>2. RunIdle => RunsThePlan /\ RefusedAtBoundary
  BY DEF RunIdle, StartsOver, RunsThePlan, RefusedAtBoundary
<1> QED
  BY <1>1, <1>2

\* Both are invariants: a step is one of the part that was chosen.
LEMMA PartsHold ==
    ASSUME CommandAssumption, RunsAssumption
    PROVE  Spec => []PartsInv
<1>1. Init => PartsInv
  BY InitCommand, RunTypesStart, RefusalStart
     DEF Init, PartsInv, RunInit, RunsAssumption
<1>2. PartsInv /\ [Next]_attemptVars => PartsInv'
  <2> SUFFICES ASSUME PartsInv, [Next]_attemptVars PROVE PartsInv'
    OBVIOUS
  <2>1. /\ attempt' = attempt
        /\ attempt = "command" => [CommandNext]_<<sinkVars, commandVars>>
        /\ attempt # "command" => UNCHANGED <<sinkVars, commandVars>>
        /\ attempt = "run" => [RunStep \/ RunEnded]_runVars
        /\ attempt # "run" => UNCHANGED runVars
    BY PartSteps
  <2>2. IF attempt = "command" THEN IInv' ELSE CommandIdle'
    BY <2>1, CommandNextKeeps, IdleRests DEF PartsInv
  <2>3. IF attempt = "run" THEN RunInv' /\ RunTypes' ELSE RunIdle'
    BY <2>1, RunKeeps, RunTypesKeep, IdleRests DEF PartsInv
  <2> QED
    BY <2>1, <2>2, <2>3 DEF PartsInv
<1> QED
  BY <1>1, <1>2, PTL DEF Spec

\* The same with what the preflight finds.
LEMMA RulesHold ==
    ASSUME CommandAssumption, RunsAssumption
    PROVE  Spec => []RulesInv
<1> DEFINE Rules == IF attempt = "run" THEN AcceptInv /\ ViewInv /\ RefusalInv
                                       ELSE RunIdle
<1>1. Init => Rules
  BY RefusalStart DEF Init
<1>2. PartsInv /\ Rules /\ [Next]_attemptVars => Rules'
  <2> SUFFICES ASSUME PartsInv, Rules, [Next]_attemptVars PROVE Rules'
    OBVIOUS
  <2>1. /\ attempt' = attempt
        /\ attempt = "run" => [RunStep \/ RunEnded]_runVars
        /\ attempt # "run" => UNCHANGED runVars
    BY PartSteps
  <2>2. IF attempt = "run" THEN AcceptInv' /\ ViewInv' /\ RefusalInv' ELSE RunIdle'
    BY <2>1, RefusalKeeps, IdleRests DEF PartsInv
  <2> QED
    BY <2>1, <2>2
<1>3. PartsInv /\ Rules => RulesInv
  BY DEF RulesInv
<1> QED
  BY <1>1, <1>2, <1>3, PartsHold, PTL DEF Spec

\* AttemptTypeOK: whichever part an attempt consists of, its state has its type:
\* no buffer of the sink is taken or given back twice, no view has more points
\* than there are, and no lane copies a record that the file does not have.
THEOREM AttemptTyped ==
    ASSUME CommandAssumption, RunsAssumption, TranslationsAssumption, CarriedAssumption
    PROVE  Spec => []AttemptTypeOK
<1>1. PartsInv /\ TransInv => AttemptTypeOK
  BY CommandTypesSuffice, RunTypesSuffice, TransTypes DEF PartsInv, AttemptTypeOK
<1> QED
  BY <1>1, PartsHold, TransHolds, PTL

\* OneOutput and NoLeftovers, RunsThePlan and RefusedAtBoundary: what the command
\* and the run of a pipeline promise each by itself, an attempt keeps, for every
\* set of commands and of planned runs that it may consist of.
THEOREM AttemptSafe ==
    ASSUME CommandAssumption, RunsAssumption
    PROVE  Spec => [](OneOutput /\ NoLeftovers /\ RunsThePlan /\ RefusedAtBoundary)
<1>1. RulesInv => OneOutput /\ NoLeftovers /\ RunsThePlan /\ RefusedAtBoundary
  BY OutputSound, TemporariesSound, PlanSuffices, IdleKeeps
     DEF RulesInv, PartsInv, RefusalInv
<1> QED
  BY <1>1, RulesHold, PTL
==============================================================================
