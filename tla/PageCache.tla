------------------------------ MODULE PageCache ------------------------------
(***************************************************************************)
(* io/private/esri/PageManager: a cache of node pages in front of a pool   *)
(* that fetches them.  The tasks of EsriReader's own pool walk the tree of *)
(* nodes: each asks for the pages of its children with fetchPage(), then   *)
(* takes them one by one with getPage().                                   *)
(*                                                                         *)
(* A step is one hold of m_mutex; between two of them a page can come, be  *)
(* evicted or be fetched again.                                            *)
(***************************************************************************)
EXTENDS PoolTasks

CONSTANTS
    Walkers,        \* the tasks that walk the tree at a time
    NodePages,      \* the pages
    CacheSize,      \* m_cacheSize
    Walks           \* the sequences of pages a walker may ask for

NoPage == 0

PageAssumption ==
    /\ NodePages \subseteq Nat \ {NoPage}
    /\ CacheSize \in Nat
    /\ Walks \subseteq Seq(NodePages)

VARIABLES
    wants,          \* the pages each walker has yet to take, in order
    asked,          \* how many of them it has called fetchPage() for
    walker,         \* where it is
    fetching,       \* the page its call of fetchPage() is for
    m_cache         \* entries [index, page], the least recently used first

pageState == <<wants, asked, walker, fetching, m_cache>>
pageVars == <<pageState, poolVars>>

Entry == [index : NodePages, page : BOOLEAN]
Calls == {"walking", "noted", "evicting", "adding", "getting", "asleep",
          "missing", "gone"}

PageTypeOK ==
    /\ ToSet(m_cache) \subseteq Entry
    /\ walker \in [Walkers -> Calls]
    /\ fetching \in [Walkers -> NodePages \cup {NoPage}]
    /\ \A w \in Walkers : /\ ToSet(wants[w]) \subseteq NodePages
                          /\ asked[w] \in 0 .. Len(wants[w])

PageInitAt(place) ==
    /\ asked = [w \in Walkers |-> 0]
    /\ walker = [w \in Walkers |-> place]
    /\ fetching = [w \in Walkers |-> NoPage]
    /\ m_cache = <<>>

PageInit == wants \in [Walkers -> Walks] /\ PageInitAt("walking")

Cached(index) == {i \in DOMAIN m_cache : m_cache[i].index = index}
GoTo(w, place) == walker' = [walker EXCEPT ![w] = place]

-----------------------------------------------------------------------------
(***************************************************************************)
(* fetchPage(), called by traverseTree() for each page first, and by       *)
(* getPage() for a page that is not in the cache.                          *)
(***************************************************************************)
\* Fault: a page that is in the cache is fetched again.
NeverCached(index) == {}

InCache(index) == Cached(index)

AfterFetch(w) == IF asked[w] < Len(wants[w]) THEN "walking" ELSE "getting"

NotePage(w) ==
    /\ \/ walker[w] = "walking" /\ asked[w] < Len(wants[w])
       \/ walker[w] = "missing"
    /\ LET first == walker[w] = "walking"
           index == IF first THEN wants[w][asked[w] + 1] ELSE Head(wants[w])
       IN  /\ asked' = IF first THEN [asked EXCEPT ![w] = @ + 1] ELSE asked
           /\ IF InCache(index) # {}
              THEN GoTo(w, IF first /\ asked'[w] < Len(wants[w])
                           THEN "walking" ELSE "getting")
                   /\ UNCHANGED <<fetching, m_cache>>
              ELSE /\ m_cache' = Append(m_cache, [index |-> index, page |-> FALSE])
                   /\ fetching' = [fetching EXCEPT ![w] = index]
                   /\ GoTo(w, IF Len(m_cache') >= CacheSize THEN "evicting"
                                                            ELSE "adding")
    /\ UNCHANGED <<wants, poolVars>>

\* The elements of a sequence that are at these places.
Nth(places, n) ==
    CHOOSE i \in places : Cardinality({j \in places : j <= i}) = n
Keeping(s, places) == [n \in 1 .. Cardinality(places) |-> s[Nth(places, n)]]

\* Fault: pages that are still to come are evicted too.
AnyEntry(entry) == TRUE

Evictable(entry) == entry.page

\* evict(): from the front, entries that have their page, while there are too
\* many.
ToEvict ==
    LET evictable == {i \in DOMAIN m_cache : Evictable(m_cache[i])}
    IN  {i \in evictable :
            Cardinality({j \in evictable : j <= i}) <= Len(m_cache) - CacheSize}

Evict(w) ==
    /\ walker[w] = "evicting"
    /\ m_cache' = Keeping(m_cache, DOMAIN m_cache \ ToEvict)
    /\ GoTo(w, "adding")
    /\ UNCHANGED <<wants, asked, fetching, poolVars>>

AddFetch(w) ==
    /\ walker[w] = "adding"
    /\ AddTasks(<<fetching[w]>>)
    /\ fetching' = [fetching EXCEPT ![w] = NoPage]
    /\ GoTo(w, AfterFetch(w))
    /\ UNCHANGED <<wants, asked, m_cache>>

StartFetch(index) == StartTask(index) /\ UNCHANGED pageState

\* The first entry for the page, as long as there is one.
EntryOf(index) ==
    {i \in Cached(index) : \A j \in Cached(index) : i <= j}

\* The task puts the page into the first entry for it, and wakes everybody.
PageComes(index) ==
    /\ FinishTask(index)
    /\ \/ Cached(index) = {} /\ UNCHANGED m_cache
       \/ \E i \in EntryOf(index) :
             m_cache' = [m_cache EXCEPT ![i] = [index |-> index, page |-> TRUE]]
    /\ walker' = [w \in Walkers |-> IF walker[w] = "asleep" THEN "getting"
                                                            ELSE walker[w]]
    /\ UNCHANGED <<wants, asked, fetching>>

-----------------------------------------------------------------------------
(***************************************************************************)
(* getPage() and getPageLocked().                                          *)
(***************************************************************************)
\* The entry moves to the end; its page is returned, or waited for.
GetPage(w) ==
    /\ walker[w] = "getting"
    /\ wants[w] # <<>>
    /\ \/ /\ Cached(Head(wants[w])) = {}
          /\ GoTo(w, "missing")
          /\ UNCHANGED <<wants, asked, m_cache>>
       \/ \E i \in EntryOf(Head(wants[w])) :
             /\ m_cache' = Append(Keeping(m_cache, DOMAIN m_cache \ {i}),
                                  m_cache[i])
             /\ IF m_cache[i].page
                THEN /\ wants' = [wants EXCEPT ![w] = Tail(@)]
                     /\ asked' = [asked EXCEPT ![w] = @ - 1]
                     /\ UNCHANGED walker
                ELSE GoTo(w, "asleep") /\ UNCHANGED <<wants, asked>>
    /\ UNCHANGED <<fetching, poolVars>>

WalkEnds(w) ==
    /\ walker[w] \in {"getting", "walking"}
    /\ wants[w] = <<>>
    /\ GoTo(w, "gone")
    /\ UNCHANGED <<wants, asked, fetching, m_cache, poolVars>>

\* A condition variable may wake without a notification.
SpuriousWalker(w) ==
    /\ walker[w] = "asleep"
    /\ GoTo(w, "getting")
    /\ UNCHANGED <<wants, asked, fetching, m_cache, poolVars>>

-----------------------------------------------------------------------------
WalkerStep(w) == NotePage(w) \/ Evict(w) \/ AddFetch(w) \/ GetPage(w)
                 \/ WalkEnds(w)
FetchStep(index) == StartFetch(index) \/ PageComes(index)

\* Every walker goes on while it can, every fetch ends.
PageFairness == /\ \A w \in Walkers : WF_pageVars(WalkerStep(w))
                /\ \A index \in NodePages : WF_pageVars(FetchStep(index))

WalksEnded == \A w \in Walkers : walker[w] = "gone"
AllGone == WalksEnded /\ UNCHANGED pageVars

PageNext == (\E w \in Walkers : WalkerStep(w) \/ SpuriousWalker(w))
            \/ (\E index \in NodePages : FetchStep(index)) \/ AllGone

PageSpec == NoTasks(TRUE) /\ PageInit /\ [][PageNext]_pageVars /\ PageFairness

-----------------------------------------------------------------------------
\* The calls that have an entry for the page and will add the task for it.
AboutToFetch(index) == {w \in Walkers : fetching[w] = index}
OnTheWay(index) ==
    Cardinality({i \in DOMAIN waiting : waiting[i] = index})
    + Cardinality({index} \cap running) + Cardinality(AboutToFetch(index))

\* OneFetchEach: however the walkers' calls and evictions interleave, the cache
\* has one entry for a page, and an entry waits for its page exactly as long
\* as one fetch of it is on the way: nobody fetches a page twice at a time,
\* and nobody sleeps on a page that will not come.
OneFetchEach ==
    \A index \in NodePages :
        /\ Cardinality(Cached(index)) <= 1
        /\ OnTheWay(index)
              = Cardinality({i \in Cached(index) : ~m_cache[i].page})

\* WalksEnd: every walker gets all the pages it asks for, though one that was
\* fetched may be evicted before the walker has seen it.
SomeGetting == \E w \in Walkers : walker[w] = "getting"
WalksEnd == SomeGetting ~> WalksEnded
==============================================================================
