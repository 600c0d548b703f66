------------------------------ MODULE Lifecycle ------------------------------
(***************************************************************************)
(* The life of Storage objects and of the one PageManager of the process   *)
(* (libnkvdb/storage.cpp, libnkvdb/page_manager.cpp): Create, Open and the *)
(* destructor, with the exceptions they throw, and the pages they leave.   *)
(*                                                                         *)
(* A Storage that throws from Create or Open is destroyed half-made, and   *)
(* its destructor closes the PageManager of the process, whoever started   *)
(* it.  A record is its time, 1, 2, ... in the order of the appends.  How  *)
(* the cache is filled and written is in Storage.tla; here the records a   *)
(* storage has not written wait in pend, and ~Storage waits until there    *)
(* are none.                                                               *)
(***************************************************************************)
EXTENDS Naturals, Sequences, SequencesExt, FiniteSetsExt

CONSTANTS
    Handles,        \* Storage_ptr variables of the program
    Paths,          \* database directories
    PageCap,        \* records of a page of the size given to Create()
    MaxRecords,     \* bound: appends
    None

PageRecords == [cap : Nat, recs : Seq(Nat), isOpen : BOOLEAN]
Managers == [m_path : Paths, m_curpage : Nat, default_page_size : Nat]
StorageObjects == [m_path : Paths, pend : Seq(Nat)]

ASSUME LifecycleAssumption ==
    /\ PageCap \in Nat \ {0} /\ MaxRecords \in Nat
    /\ None \notin Seq(PageRecords) /\ None \notin Managers /\ None \notin StorageObjects

VARIABLES
    m_instance,     \* PageManager::m_instance, None: nullptr
    dirs,           \* the pages in a directory, None: it does not exist
    storages,       \* the live Storage objects
    status,         \* "runs", "null": a null pointer was used, "overrun"
    clashed,        \* history: Create or Open has thrown beside a live storage
    accepted,       \* the records append() took for a path since its Create
    clock           \* the number of appends

vars == <<m_instance, dirs, storages, status, clashed, accepted, clock>>

Live == {h \in Handles : storages[h] # None}

TypeOK ==
    /\ m_instance \in Managers \cup {None}
    /\ dirs \in [Paths -> Seq(PageRecords) \cup {None}]
    /\ storages \in [Handles -> StorageObjects \cup {None}]
    /\ status \in {"runs", "null", "overrun"}
    /\ clashed \in BOOLEAN
    /\ accepted \in [Paths -> SUBSET Nat]
    /\ clock \in 0..MaxRecords

Init ==
    /\ m_instance = None
    /\ dirs = [p \in Paths |-> None]
    /\ storages = [h \in Handles |-> None]
    /\ status = "runs"
    /\ clashed = FALSE
    /\ accepted = [p \in Paths |-> {}]
    /\ clock = 0

-----------------------------------------------------------------------------
(* PageManager *)

NewPage(size) == [cap |-> size, recs |-> <<>>, isOpen |-> TRUE]

maxTime(page) == IF page.recs = <<>> THEN 0 ELSE Last(page.recs)

isFull(page) == Len(page.recs) >= page.cap

\* getOldesPage: a page with the largest maxTime; a page without records
\* resets the comparison.
OldesPages(pages) ==
    {i \in DOMAIN pages : \/ \A j \in DOMAIN pages : maxTime(pages[j]) <= maxTime(pages[i])
                          \/ \E j \in DOMAIN pages : maxTime(pages[j]) = 0}

\* close() of a page, if there is one.
closePage(pages, i) == IF i = 0 THEN pages ELSE [pages EXCEPT ![i].isOpen = FALSE]

\* Mutant: the name of the new page is that of the current one.
createNewPage_over(pages, pm) ==
    [pages |-> IF pm.m_curpage = 0 THEN <<NewPage(pm.default_page_size)>>
               ELSE [pages EXCEPT ![pm.m_curpage] = NewPage(pm.default_page_size)],
     pm |-> [pm EXCEPT !.m_curpage = Max({1, @})]]

\* createNewPage: closes the current page; the new one has a name of its own.
createNewPage(pages, pm) ==
    [pages |-> Append(closePage(pages, pm.m_curpage), NewPage(pm.default_page_size)),
     pm |-> [pm EXCEPT !.m_curpage = Len(pages) + 1]]

-----------------------------------------------------------------------------
(* Storage *)

\* Close(), by the destructor: closeCurrentPage and PageManager::stop, on
\* directories ds and manager pm; nullptr has no page to close.
Close(ds, pm) ==
    /\ m_instance' = None
    /\ dirs' = IF pm # None /\ pm.m_curpage \in DOMAIN ds[pm.m_path]
               THEN [ds EXCEPT ![pm.m_path] = closePage(@, pm.m_curpage)]
               ELSE ds
    /\ status' = IF pm = None THEN "null" ELSE status

\* An exception in Create or Open destroys the Storage made so far.
Throw(ds, pm) == Close(ds, pm) /\ clashed' = (clashed \/ Live # {}) /\ UNCHANGED storages

Begin(h) ==
    /\ status = "runs"
    /\ storages[h] = None

\* utils::rm cannot remove the directory.
CreateUnremovable(h, p) ==
    /\ Begin(h)
    /\ dirs[p] # None
    /\ Throw(dirs, m_instance)
    /\ UNCHANGED <<accepted, clock>>

\* Create: an existing directory is removed and made again; then start()
\* throws if there is a manager.
Create(h, p) ==
    /\ Begin(h)
    /\ accepted' = [accepted EXCEPT ![p] = {}]
    /\ LET pm == [m_path |-> p, m_curpage |-> 0, default_page_size |-> PageCap]
           new == createNewPage(<<>>, pm)
       IN  IF m_instance # None
           THEN Throw([dirs EXCEPT ![p] = <<>>], m_instance)
           ELSE /\ m_instance' = new.pm
                /\ dirs' = [dirs EXCEPT ![p] = new.pages]
                /\ storages' = [storages EXCEPT ![h] = [m_path |-> p, pend |-> <<>>]]
                /\ UNCHANGED <<status, clashed>>
    /\ UNCHANGED clock

\* Open of a directory that does not exist.
OpenMissing(h, p) ==
    /\ Begin(h)
    /\ dirs[p] = None
    /\ Throw(dirs, m_instance)
    /\ UNCHANGED <<accepted, clock>>

\* Mutant: the page is marked and not made the current one.
Opened_unset(h, p, i) ==
    /\ dirs' = [dirs EXCEPT ![p][i].isOpen = TRUE]
    /\ m_instance' = [m_path |-> p, m_curpage |-> 0, default_page_size |-> 0]
    /\ storages' = [storages EXCEPT ![h] = [m_path |-> p, pend |-> <<>>]]
    /\ UNCHANGED <<status, clashed>>

\* PageManager::open: default_page_size is that of a new PageManager, 0.
Opened(h, p, i) ==
    /\ dirs' = [dirs EXCEPT ![p][i].isOpen = TRUE]
    /\ m_instance' = [m_path |-> p, m_curpage |-> i, default_page_size |-> 0]
    /\ storages' = [storages EXCEPT ![h] = [m_path |-> p, pend |-> <<>>]]
    /\ UNCHANGED <<status, clashed>>

\* Open: throws if there is a manager, if the directory has no page, or if
\* the page is marked as open; in the last two cases the manager it closes
\* is its own, without a page.
Open(h, p) ==
    /\ Begin(h)
    /\ dirs[p] # None
    /\ LET started == [m_path |-> p, m_curpage |-> 0, default_page_size |-> 0]
       IN  \/ m_instance # None /\ Throw(dirs, m_instance)
           \/ m_instance = None /\ dirs[p] = <<>> /\ Throw(dirs, started)
           \/ m_instance = None /\ \E i \in OldesPages(dirs[p]) :
                IF dirs[p][i].isOpen THEN Throw(dirs, started) ELSE Opened(h, p, i)
    /\ UNCHANGED <<accepted, clock>>

\* append() of a measurement.
AppendTo(h) ==
    /\ status = "runs" /\ h \in Live
    /\ clock < MaxRecords
    /\ clock' = clock + 1
    /\ storages' = [storages EXCEPT ![h].pend = Append(@, clock')]
    /\ accepted' = [accepted EXCEPT ![storages[h].m_path] = @ \cup {clock'}]
    /\ UNCHANGED <<m_instance, dirs, status, clashed>>

\* AsyncWriter::call writes a record to the current page of the manager; a
\* full page is replaced by a new one; a page without room for its header
\* looks empty, and the record is written outside of it.
WriteRecord(h) ==
    /\ status = "runs" /\ h \in Live
    /\ storages[h].pend # <<>>
    /\ IF m_instance = None
       THEN status' = "null" /\ UNCHANGED <<m_instance, dirs, storages>>
       ELSE LET p == m_instance.m_path
                full == isFull(dirs[p][m_instance.m_curpage])
                w == IF full THEN createNewPage(dirs[p], m_instance)
                     ELSE [pages |-> dirs[p], pm |-> m_instance]
                i == w.pm.m_curpage
            IN  /\ m_instance' = w.pm
                /\ IF w.pages[i].cap = 0
                   THEN /\ status' = "overrun"
                        /\ dirs' = [dirs EXCEPT ![p] = w.pages]
                        /\ UNCHANGED storages
                   ELSE /\ dirs' = [dirs EXCEPT ![p] =
                                [w.pages EXCEPT ![i].recs = Append(@, Head(storages[h].pend))]]
                        /\ storages' = [storages EXCEPT ![h].pend = Tail(@)]
                        /\ UNCHANGED status
    /\ UNCHANGED <<clashed, accepted, clock>>

\* The last Storage_ptr goes: ~Storage, when all is written.
Release(h) ==
    /\ status = "runs" /\ h \in Live
    /\ storages[h].pend = <<>>
    /\ Close(dirs, m_instance)
    /\ storages' = [storages EXCEPT ![h] = None]
    /\ UNCHANGED <<clashed, accepted, clock>>

\* The process ends without a destructor, and another one starts.
Dies ==
    /\ status = "runs" /\ Live # {}
    /\ m_instance' = None
    /\ storages' = [h \in Handles |-> None]
    /\ accepted' = [p \in Paths |-> accepted[p] \
            UNION {ToSet(storages[h].pend) : h \in {g \in Live : storages[g].m_path = p}}]
    /\ UNCHANGED <<dirs, status, clashed, clock>>

Next ==
    \/ \E h \in Handles, p \in Paths :
         CreateUnremovable(h, p) \/ Create(h, p) \/ OpenMissing(h, p) \/ Open(h, p)
    \/ \E h \in Handles : AppendTo(h) \/ WriteRecord(h) \/ Release(h)
    \/ Dies

Spec == Init /\ [][Next]_vars

-----------------------------------------------------------------------------
(* Properties *)

\* Until a Create or Open throws beside it, a live storage is the only one and
\* writes to its own directory: the manager of the process is the one it
\* started, and its current page is there and marked as open.
OwnManager ==
    ~clashed => \A h \in Live :
        /\ Live = {h}
        /\ m_instance # None
        /\ m_instance.m_path = storages[h].m_path
        /\ m_instance.m_curpage # 0
        /\ dirs[m_instance.m_path][m_instance.m_curpage].isOpen

\* The records on the pages of a directory, and their order: by page, and on
\* a page by place.
RecordsOn(pages) == UNION {ToSet(pages[i].recs) : i \in DOMAIN pages}

InOrder(pages) ==
    \A i, j \in DOMAIN pages : \A x \in DOMAIN pages[i].recs, y \in DOMAIN pages[j].recs :
        i < j \/ (i = j /\ x < y) => pages[i].recs[x] < pages[j].recs[y]

RecordsOf(p) == IF dirs[p] = None THEN {} ELSE RecordsOn(dirs[p])

Pending(p) == UNION {ToSet(storages[h].pend) : h \in {g \in Live : storages[g].m_path = p}}

\* Over all closings, reopenings, rolls and ends of the process, and whichever
\* directories Open() has refused, the pages of a directory hold each record
\* appended to it since Create, once, in the order of time, and nothing else
\* but what still waits.
NothingLost ==
    ~clashed => \A p \in Paths :
        /\ RecordsOf(p) \cup Pending(p) = accepted[p]
        /\ dirs[p] # None => InOrder(dirs[p])

\* Whatever fails, and with several storages in one process: what is on the
\* pages of a directory stays there until Create is called for it.
RecordsStay ==
    [][\A p \in Paths :
         \/ \E h \in Handles : Create(h, p)
         \/ RecordsOf(p) \subseteq RecordsOf(p)']_vars
==============================================================================
