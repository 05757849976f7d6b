------------------------------- MODULE Catalog -------------------------------
(***************************************************************************)
(* io/private/stac/Catalog.cpp: a STAC catalog or collection is read with  *)
(* a task of the pool for each of its links.  The task of a link to an     *)
(* item puts it into the list of its group; the task of a link to another  *)
(* group adds the tasks of that group's links, then puts the group into    *)
(* the list of its parent.  What a task throws becomes an error of the     *)
(* group it works for.  StacReader reads the root: it waits for all the    *)
(* tasks, gathers what they found and extracts the items.                  *)
(***************************************************************************)
EXTENDS PoolTasks

CONSTANTS
    CatalogLinks,   \* for the root, 0, and each group: its links, in order
    CatalogItems,   \* the links that are items
    CatalogCases    \* which links fail to be read, which are filtered out

RootGroup == 0
\* The root is not read by a task.
CatalogCase == [failing : SUBSET (Nat \ {RootGroup}),
                filtered : SUBSET (Nat \ {RootGroup})]
Groups == DOMAIN CatalogLinks
CatalogNodes == Groups \cup CatalogItems

\* The links make a tree below the root.
CatalogAssumption ==
    /\ RootGroup \in Groups
    /\ CatalogNodes \subseteq Nat /\ IsFiniteSet(CatalogNodes)
    /\ Groups \cap CatalogItems = {}
    /\ CatalogLinks \in [Groups -> Seq(CatalogNodes \ {RootGroup})]
    /\ \A g, h \in Groups : \A i \in DOMAIN CatalogLinks[g] :
          \A j \in DOMAIN CatalogLinks[h] :
              CatalogLinks[g][i] = CatalogLinks[h][j] => g = h /\ i = j
    /\ \A found \in SUBSET CatalogNodes :
          (/\ RootGroup \in found
           /\ \A g \in found \cap Groups : ToSet(CatalogLinks[g]) \subseteq found)
          => found = CatalogNodes
    /\ CatalogCases \subseteq CatalogCase

Above(link) == CHOOSE g \in Groups : Contains(CatalogLinks[g], link)

VARIABLES
    catalog,        \* the case
    stacReader,     \* where the reading thread is
    opened,         \* the groups whose task has added the tasks of its links
    m_itemList, m_subCatalogs, m_errors,    \* of each group
    extracted       \* the items the reader was given

catalogState == <<catalog, stacReader, opened, m_itemList, m_subCatalogs,
                  m_errors, extracted>>
catalogVars == <<catalogState, poolVars>>

CatalogTypeOK ==
    /\ catalog \in CatalogCase
    /\ stacReader \in {"starting", "awaiting", "joining", "hoisting",
                       "collecting", "extracting", "rejecting", "undefined",
                       "thrown", "rejected", "gone"}
    /\ opened \subseteq Groups
    /\ \A g \in Groups : /\ ToSet(m_itemList[g]) \subseteq CatalogItems
                         /\ ToSet(m_subCatalogs[g]) \subseteq Groups
                         /\ m_errors[g] \subseteq CatalogNodes
    /\ ToSet(extracted) \subseteq CatalogItems

CatalogInitAt(place) ==
    /\ stacReader = place
    /\ opened = {}
    /\ m_itemList = [g \in Groups |-> <<>>]
    /\ m_subCatalogs = [g \in Groups |-> <<>>]
    /\ m_errors = [g \in Groups |-> {}]
    /\ extracted = <<>>

CatalogInit == catalog \in CatalogCases /\ CatalogInitAt("starting")

Adds(list, g, link) == list' = [list EXCEPT ![g] = Append(@, link)]

-----------------------------------------------------------------------------
\* init() of the root adds its tasks and then awaits them all.
StartRoot ==
    /\ stacReader = "starting"
    /\ AddTasks(CatalogLinks[RootGroup])
    /\ stacReader' = "awaiting"
    /\ UNCHANGED <<catalog, opened, m_itemList, m_subCatalogs, m_errors,
                   extracted>>

StartLink(link) == StartTask(link) /\ UNCHANGED catalogState

\* Fault: only the root's own tasks report what they throw.
OnlyRoot(link) == {link} \cap ToSet(CatalogLinks[RootGroup])

Reports(link) == {link}

\* getJson(), or what the link says of its item or group, throws.
LinkFails(link) ==
    /\ link \in catalog.failing
    /\ FinishTask(link)
    /\ m_errors' = [m_errors EXCEPT ![Above(link)] = @ \cup Reports(link)]
    /\ UNCHANGED <<catalog, stacReader, opened, m_itemList, m_subCatalogs,
                   extracted>>

\* handleItem(), handleCol() and handleCat() of what the filters leave out.
LinkFiltered(link) ==
    /\ link \in catalog.filtered \ catalog.failing
    /\ FinishTask(link)
    /\ UNCHANGED catalogState

HandleItem(link) ==
    /\ link \in CatalogItems \ (catalog.filtered \cup catalog.failing)
    /\ FinishTask(link)
    /\ Adds(m_itemList, Above(link), link)
    /\ UNCHANGED <<catalog, stacReader, opened, m_subCatalogs, m_errors,
                   extracted>>

\* init() of a group that is not the root.
OpenGroup(link) ==
    /\ link \in running \cap Groups
    /\ link \notin catalog.filtered \cup catalog.failing \cup opened
    /\ AddTasks(CatalogLinks[link])
    /\ opened' = opened \cup {link}
    /\ UNCHANGED <<catalog, stacReader, m_itemList, m_subCatalogs, m_errors,
                   extracted>>

KeepGroup(link) ==
    /\ link \in opened
    /\ FinishTask(link)
    /\ Adds(m_subCatalogs, Above(link), link)
    /\ UNCHANGED <<catalog, stacReader, opened, m_itemList, m_errors,
                   extracted>>

-----------------------------------------------------------------------------
(***************************************************************************)
(* The rest of init(), and handleCatalog() and handleCollection() of       *)
(* StacReader.                                                             *)
(***************************************************************************)
AwaitLinks ==
    /\ stacReader = "awaiting"
    /\ Idle
    /\ ClosePool
    /\ stacReader' = "joining"
    /\ UNCHANGED <<catalog, opened, m_itemList, m_subCatalogs, m_errors,
                   extracted>>

JoinLinks ==
    /\ stacReader = "joining"
    /\ Idle
    /\ stacReader' = "hoisting"
    /\ UNCHANGED <<catalog, opened, m_itemList, m_subCatalogs, m_errors,
                   extracted, poolVars>>

\* hoistNested(): each group's subs and, after them, all of theirs.
Hoisted[g \in Groups] ==
    m_subCatalogs[g] \o FlattenSeq([i \in DOMAIN m_subCatalogs[g] |->
                                       Hoisted[m_subCatalogs[g][i]]])

\* What a vector has room for that was filled one by one.
Capacity(n) == CHOOSE c \in {0, 1, 2, 4, 8} : n <= c /\ c < 2 * n + 1

\* push_back() moves the vector that the loop runs over, before its last turn.
Moved(g) ==
    LET subs == m_subCatalogs[g]
    IN  \E turn \in 1 .. Len(subs) - 1 :
            Len(subs) + Len(FlattenSeq([i \in 1 .. turn |-> Hoisted[subs[i]]]))
                > Capacity(Len(subs))

Hoist ==
    /\ stacReader = "hoisting"
    /\ \/ /\ m_subCatalogs' = [m_subCatalogs EXCEPT ![RootGroup] =
                                                    Hoisted[RootGroup]]
          /\ stacReader' = "collecting"
       \/ /\ \E g \in Groups : Moved(g)
          /\ stacReader' = "undefined"
          /\ UNCHANGED m_subCatalogs
    /\ UNCHANGED <<catalog, opened, m_itemList, m_errors, extracted, poolVars>>

\* collectErrors(); then the root is rejected if its own list is empty.
CollectErrors ==
    /\ stacReader = "collecting"
    /\ m_errors' = [m_errors EXCEPT ![RootGroup] =
           @ \cup UNION {m_errors[g] : g \in ToSet(m_subCatalogs[RootGroup])}]
    /\ stacReader' = IF m_itemList[RootGroup] = <<>> THEN "rejecting"
                                                     ELSE "extracting"
    /\ UNCHANGED <<catalog, opened, m_itemList, m_subCatalogs, extracted,
                   poolVars>>

\* handleNested() and the items of the root; printErrors() throws if there are
\* any.
Extract ==
    /\ stacReader \in {"extracting", "rejecting"}
    /\ extracted' = IF stacReader = "rejecting" THEN <<>>
           ELSE FlattenSeq([i \in DOMAIN m_subCatalogs[RootGroup] |->
                               m_itemList[m_subCatalogs[RootGroup][i]]])
                \o m_itemList[RootGroup]
    /\ stacReader' = IF m_errors[RootGroup] # {} THEN "thrown"
                     ELSE IF stacReader = "rejecting" THEN "rejected" ELSE "gone"
    /\ UNCHANGED <<catalog, opened, m_itemList, m_subCatalogs, m_errors,
                   poolVars>>

-----------------------------------------------------------------------------
StacReaderStep == StartRoot \/ AwaitLinks \/ JoinLinks \/ Hoist
                  \/ CollectErrors \/ Extract
LinkStep(link) == StartLink(link) \/ LinkFails(link) \/ LinkFiltered(link)
                  \/ HandleItem(link) \/ OpenGroup(link) \/ KeepGroup(link)
CatalogRead == stacReader \in {"undefined", "thrown", "rejected", "gone"}
CatalogEnded == CatalogRead /\ UNCHANGED catalogVars

CatalogNext == StacReaderStep \/ (\E link \in CatalogNodes : LinkStep(link))
               \/ CatalogEnded

\* The reader goes on and every task ends.
CatalogFairness == /\ WF_catalogVars(StacReaderStep)
                   /\ \A link \in CatalogNodes : WF_catalogVars(LinkStep(link))

CatalogSpec == NoTasks(TRUE) /\ CatalogInit /\ [][CatalogNext]_catalogVars
               /\ CatalogFairness

-----------------------------------------------------------------------------
\* The links that are followed: every group above them can be read and is
\* wanted.
LinksAbove[link \in CatalogNodes] ==
    IF link = RootGroup THEN {} ELSE {Above(link)} \cup LinksAbove[Above(link)]
Reachable == {link \in CatalogNodes \ {RootGroup} :
                 LinksAbove[link] \cap (catalog.failing \cup catalog.filtered) = {}}
WantedItems == (Reachable \cap CatalogItems) \ (catalog.failing \cup catalog.filtered)

\* EveryItemRead: a reader that is not rejected extracts every wanted item of
\* every reachable group once, in whatever order the tasks came, and an error
\* of any reachable link is thrown; unless hoisting has moved the vector.
EveryItemRead ==
    /\ stacReader \in {"gone", "thrown"} /\ m_itemList[RootGroup] # <<>> =>
          /\ IsInjective(extracted)
          /\ ToSet(extracted) = WantedItems
    /\ stacReader \in {"gone", "rejected", "thrown"} =>
          (stacReader = "thrown") = (Reachable \cap catalog.failing # {})

\* RejectsOnlyEmpty: a root is rejected only if neither it nor any group below
\* it has an item.  This is what the comments say, not what the code does.
RejectsOnlyEmpty == stacReader = "rejecting" => WantedItems = {}

\* CatalogEnds: await() and join() return.
CatalogAwaits == stacReader = "awaiting"
CatalogEnds == CatalogAwaits ~> CatalogRead
==============================================================================
