--------------------------- MODULE LifecycleProofs ---------------------------
(***************************************************************************)
(* Proofs about Lifecycle: a storage whose life no failed Create or Open   *)
(* has disturbed is the only one, owns the manager, and keeps each of its  *)
(* records once and in order; and no call but Create removes a record,     *)
(* also when storages have disturbed each other.                           *)
(***************************************************************************)
EXTENDS Lifecycle, TLAPS

-----------------------------------------------------------------------------
(* The inductive invariant *)

\* The manager's current page is there.
ManagerPlace ==
    m_instance # None =>
        /\ dirs[m_instance.m_path] # None
        /\ m_instance.m_curpage \in DOMAIN dirs[m_instance.m_path]

\* Pages that getOldesPage() can tell apart: none is too small for a record,
\* and only a single page may have none.
Sound(pages) ==
    \A i \in DOMAIN pages : pages[i].cap # 0 /\ (Len(pages) > 1 => pages[i].recs # <<>>)

PagesSound ==
    ~clashed /\ status = "runs" => \A p \in Paths : dirs[p] # None => Sound(dirs[p])

\* The manager writes to the newest page.
WritesLast ==
    ~clashed /\ m_instance # None => m_instance.m_curpage = Len(dirs[m_instance.m_path])

\* What waits is in order, and newer than what is on the pages.
PendingIsNewer ==
    ~clashed => \A h \in Live :
        /\ \A x, y \in DOMAIN storages[h].pend : x < y => storages[h].pend[x] < storages[h].pend[y]
        /\ \A r \in RecordsOf(storages[h].m_path), x \in DOMAIN storages[h].pend : r < storages[h].pend[x]

\* Nothing was accepted before the first append or after the last.
AcceptedTimes == \A p \in Paths : accepted[p] \subseteq 1..clock

LifeInv ==
    /\ TypeOK /\ ManagerPlace /\ AcceptedTimes
    /\ OwnManager /\ NothingLost
    /\ PagesSound /\ WritesLast /\ PendingIsNewer

-----------------------------------------------------------------------------
(* Pages *)

\* The same records on pages of the same sizes.
SameRecords(a, b) ==
    /\ DOMAIN a = DOMAIN b /\ Len(a) = Len(b)
    /\ \A i \in DOMAIN a : a[i].recs = b[i].recs /\ a[i].cap = b[i].cap

\* What a page is.
LEMMA PageFacts ==
    ASSUME NEW pages \in Seq(PageRecords), NEW i \in DOMAIN pages
    PROVE  /\ pages[i] \in PageRecords
           /\ pages[i].cap \in Nat /\ pages[i].recs \in Seq(Nat) /\ pages[i].isOpen \in BOOLEAN
           /\ pages[i] = [cap |-> pages[i].cap, recs |-> pages[i].recs, isOpen |-> pages[i].isOpen]
  <1>1. pages[i] \in PageRecords
    OBVIOUS
  <1> QED BY <1>1 DEF PageRecords

\* The facts about pages depend on the records and the sizes only.
LEMMA SameFacts ==
    ASSUME NEW a, NEW b, SameRecords(a, b)
    PROVE  /\ RecordsOn(a) = RecordsOn(b)
           /\ InOrder(a) <=> InOrder(b)
           /\ Sound(a) <=> Sound(b)
  BY DEF SameRecords, RecordsOn, InOrder, Sound

\* close() of a page and the mark of Open() touch a flag only.
LEMMA FlagFacts ==
    ASSUME NEW pages \in Seq(PageRecords), NEW i \in Nat, NEW flg \in BOOLEAN
    PROVE  /\ [pages EXCEPT ![i].isOpen = flg] \in Seq(PageRecords)
           /\ SameRecords([pages EXCEPT ![i].isOpen = flg], pages)
  <1> DEFINE new == [pages EXCEPT ![i].isOpen = flg]
  <1>1. DOMAIN new = DOMAIN pages /\ DOMAIN pages = 1..Len(pages) /\ Len(pages) \in Nat
    OBVIOUS
  <1>2. \A j \in DOMAIN pages : new[j] \in PageRecords /\ new[j].recs = pages[j].recs /\ new[j].cap = pages[j].cap
    <2> SUFFICES ASSUME NEW j \in DOMAIN pages
                 PROVE  new[j] \in PageRecords /\ new[j].recs = pages[j].recs /\ new[j].cap = pages[j].cap
      OBVIOUS
    <2>1. new[j] = IF j = i THEN [pages[j] EXCEPT !.isOpen = flg] ELSE pages[j]
      OBVIOUS
    <2>2. pages[j] \in PageRecords
      BY PageFacts
    <2> HIDE DEF new
    <2>3. CASE j = i
      BY <2>1, <2>2, <2>3 DEF PageRecords
    <2>4. CASE j # i
      BY <2>1, <2>2, <2>4
    <2> QED BY <2>3, <2>4
  <1>3. new \in [1..Len(pages) -> PageRecords]
    BY <1>1, <1>2
  <1>4. new \in Seq(PageRecords)
    BY <1>1, <1>3
  <1>5. Len(new) = Len(pages)
    BY <1>1, <1>4
  <1> QED BY <1>1, <1>2, <1>4, <1>5 DEF SameRecords

\* closePage keeps the pages' records.
LEMMA ClosePageFacts ==
    ASSUME NEW pages \in Seq(PageRecords), NEW i \in Nat
    PROVE  closePage(pages, i) \in Seq(PageRecords) /\ SameRecords(closePage(pages, i), pages)
  <1>1. SameRecords(pages, pages)
    BY DEF SameRecords
  <1> QED BY <1>1, FlagFacts DEF closePage

\* A new page has no records.
LEMMA NewPageFacts ==
    ASSUME NEW pages \in Seq(PageRecords), NEW size \in Nat
    PROVE  LET new == Append(pages, NewPage(size))
           IN  /\ new \in Seq(PageRecords) /\ Len(new) = Len(pages) + 1
               /\ new[Len(pages) + 1] = NewPage(size)
               /\ \A j \in DOMAIN pages : new[j] = pages[j]
               /\ RecordsOn(new) = RecordsOn(pages)
               /\ InOrder(pages) => InOrder(new)
  <1> DEFINE n == Len(pages)
  <1> DEFINE new == Append(pages, NewPage(size))
  <1>1. NewPage(size) \in PageRecords
    BY DEF NewPage, PageRecords
  <1>2. new \in Seq(PageRecords) /\ Len(new) = n + 1 /\ DOMAIN new = 1..(n + 1) /\ DOMAIN pages = 1..n /\ n \in Nat
    BY <1>1
  <1>3. new[n + 1] = NewPage(size) /\ \A j \in DOMAIN pages : new[j] = pages[j]
    BY <1>1, <1>2
  <1>4. DOMAIN new[n + 1].recs = {} /\ ToSet(new[n + 1].recs) = {}
    BY <1>3 DEF NewPage, ToSet
  <1>5. \A j \in DOMAIN new : j \in DOMAIN pages \/ j = n + 1
    BY <1>2
  <1>6. DOMAIN pages \subseteq DOMAIN new
    BY <1>2
  <1>7. RecordsOn(new) = RecordsOn(pages)
    BY <1>3, <1>4, <1>5, <1>6 DEF RecordsOn
  <1>8. ASSUME InOrder(pages) PROVE InOrder(new)
    BY <1>3, <1>4, <1>5, <1>8 DEF InOrder
  <1> QED BY <1>2, <1>3, <1>7, <1>8

\* createNewPage keeps the pages' records and adds a page without any.
LEMMA CreateFacts ==
    ASSUME NEW pages \in Seq(PageRecords), NEW pm \in Managers
    PROVE  LET w == createNewPage(pages, pm)
           IN  /\ w.pages \in Seq(PageRecords) /\ w.pm \in Managers
               /\ w.pm.m_path = pm.m_path /\ w.pm.m_curpage = Len(pages) + 1
               /\ Len(w.pages) = Len(pages) + 1
               /\ w.pages[Len(pages) + 1] = NewPage(pm.default_page_size)
               /\ \A j \in DOMAIN pages : w.pages[j].recs = pages[j].recs /\ w.pages[j].cap = pages[j].cap
               /\ RecordsOn(w.pages) = RecordsOn(pages)
               /\ InOrder(pages) => InOrder(w.pages)
  <1> DEFINE closed == closePage(pages, pm.m_curpage)
  <1>1. pm.m_curpage \in Nat /\ pm.default_page_size \in Nat
    BY DEF Managers
  <1>2. closed \in Seq(PageRecords) /\ SameRecords(closed, pages)
    BY <1>1, ClosePageFacts
  <1>3. Len(closed) = Len(pages) /\ DOMAIN closed = DOMAIN pages
        /\ \A j \in DOMAIN pages : closed[j].recs = pages[j].recs /\ closed[j].cap = pages[j].cap
    BY <1>2 DEF SameRecords
  <1>4. RecordsOn(closed) = RecordsOn(pages) /\ (InOrder(pages) => InOrder(closed))
    BY <1>2, SameFacts
  <1> DEFINE w == createNewPage(pages, pm)
  <1>5. w.pages = Append(closed, NewPage(pm.default_page_size)) /\ w.pm = [pm EXCEPT !.m_curpage = Len(pages) + 1]
    BY DEF createNewPage
  <1>6. w.pm \in Managers /\ w.pm.m_path = pm.m_path /\ w.pm.m_curpage = Len(pages) + 1
    BY <1>5 DEF Managers
  <1> HIDE DEF closed, w
  <1>7. /\ w.pages \in Seq(PageRecords) /\ Len(w.pages) = Len(pages) + 1
        /\ w.pages[Len(pages) + 1] = NewPage(pm.default_page_size)
        /\ \A j \in DOMAIN pages : w.pages[j] = closed[j]
        /\ RecordsOn(w.pages) = RecordsOn(pages)
        /\ InOrder(pages) => InOrder(w.pages)
    BY <1>1, <1>2, <1>3, <1>4, <1>5, NewPageFacts
  <1> QED BY <1>3, <1>6, <1>7 DEF w

\* Pages with a record more on page i.
WithRecord(pages, i, r) == [pages EXCEPT ![i].recs = Append(@, r)]

\* A record written to a page is added to what the pages hold.
LEMMA RecordFacts ==
    ASSUME NEW pages \in Seq(PageRecords), NEW i \in DOMAIN pages, NEW r \in Nat
    PROVE  LET new == WithRecord(pages, i, r)
           IN  /\ new \in Seq(PageRecords) /\ Len(new) = Len(pages)
               /\ DOMAIN new = DOMAIN pages
               /\ \A j \in DOMAIN pages : new[j].cap = pages[j].cap /\ new[j].isOpen = pages[j].isOpen
               /\ new[i].recs = Append(pages[i].recs, r)
               /\ \A j \in DOMAIN pages \ {i} : new[j] = pages[j]
               /\ RecordsOn(new) = RecordsOn(pages) \cup {r}
  <1> DEFINE new == WithRecord(pages, i, r)
  <1> USE DEF WithRecord
  <1>1. DOMAIN new = DOMAIN pages /\ DOMAIN pages = 1..Len(pages) /\ Len(pages) \in Nat
    OBVIOUS
  <1>2. pages[i] \in PageRecords /\ pages[i].recs \in Seq(Nat)
    BY PageFacts
  <1>3. new[i] \in PageRecords /\ new[i].recs = Append(pages[i].recs, r)
        /\ new[i].cap = pages[i].cap /\ new[i].isOpen = pages[i].isOpen
    <2>1. new[i] = [pages[i] EXCEPT !.recs = Append(pages[i].recs, r)]
      OBVIOUS
    <2>2. Append(pages[i].recs, r) \in Seq(Nat)
      BY <1>2
    <2> HIDE DEF new
    <2> QED BY <1>2, <2>1, <2>2 DEF PageRecords
  <1>4. \A j \in DOMAIN pages \ {i} : new[j] = pages[j]
    OBVIOUS
  <1>5. \A j \in DOMAIN pages : new[j] \in PageRecords
    BY <1>3, <1>4
  <1>9. new = [j \in DOMAIN pages |-> new[j]]
    OBVIOUS
  <1>6. new \in Seq(PageRecords) /\ Len(new) = Len(pages)
    <2> HIDE DEF new
    <2>1. new \in [1..Len(pages) -> PageRecords]
      BY <1>1, <1>5, <1>9
    <2>2. new \in Seq(PageRecords)
      BY <1>1, <2>1
    <2> QED BY <1>1, <2>2
  <1>7. ToSet(new[i].recs) = ToSet(pages[i].recs) \cup {r}
    <2> DEFINE old == pages[i].recs
    <2>1. old \in Seq(Nat) /\ new[i].recs = Append(old, r)
      BY <1>2, <1>3
    <2> HIDE DEF old, new
    <2>2. DOMAIN Append(old, r) = 1..(Len(old) + 1) /\ DOMAIN old = 1..Len(old) /\ Len(old) \in Nat
      BY <2>1
    <2>3. Append(old, r)[Len(old) + 1] = r /\ \A j \in DOMAIN old : Append(old, r)[j] = old[j]
      BY <2>1
    <2>4. DOMAIN Append(old, r) = DOMAIN old \cup {Len(old) + 1}
      BY <2>2
    <2>5. ToSet(Append(old, r)) = ToSet(old) \cup {r}
      BY <2>3, <2>4 DEF ToSet
    <2> QED BY <2>1, <2>5 DEF old
  <1> HIDE DEF new
  <1>8. RecordsOn(new) = RecordsOn(pages) \cup {r}
    <2>1. ASSUME NEW t \in RecordsOn(new) PROVE t \in RecordsOn(pages) \cup {r}
      BY <1>1, <1>4, <1>7, <2>1 DEF RecordsOn
    <2>2. ASSUME NEW t \in RecordsOn(pages) PROVE t \in RecordsOn(new)
      BY <1>1, <1>4, <1>7, <2>2 DEF RecordsOn
    <2>3. r \in RecordsOn(new)
      BY <1>1, <1>7 DEF RecordsOn
    <2> QED BY <2>1, <2>2, <2>3
  <1> QED BY <1>1, <1>3, <1>4, <1>6, <1>8 DEF new

\* A record newer than all goes to the last page: the order stays.
LEMMA LastInOrder ==
    ASSUME NEW pages \in Seq(PageRecords), Len(pages) # 0, NEW r \in Nat,
           InOrder(pages), \A t \in RecordsOn(pages) : t < r
    PROVE  InOrder(WithRecord(pages, Len(pages), r))
  <1> DEFINE n == Len(pages)
  <1> DEFINE new == WithRecord(pages, n, r)
  <1>1. n \in DOMAIN pages /\ DOMAIN pages = 1..n /\ n \in Nat
    OBVIOUS
  <1>2. /\ DOMAIN new = DOMAIN pages
        /\ new[n].recs = Append(pages[n].recs, r)
        /\ \A j \in DOMAIN pages \ {n} : new[j] = pages[j]
    BY <1>1, RecordFacts
  <1>3. pages[n].recs \in Seq(Nat)
    BY <1>1, PageFacts
  <1> HIDE DEF new
  <1> DEFINE old == pages[n].recs
  <1>4. DOMAIN Append(old, r) = 1..(Len(old) + 1) /\ DOMAIN old = 1..Len(old) /\ Len(old) \in Nat
    BY <1>3
  <1>5. Append(old, r)[Len(old) + 1] = r /\ \A j \in DOMAIN old : Append(old, r)[j] = old[j]
    BY <1>3
  <1>6. \A i \in DOMAIN pages : \A x \in DOMAIN pages[i].recs : pages[i].recs[x] < r
    BY DEF RecordsOn, ToSet
  <1> SUFFICES ASSUME NEW i \in DOMAIN new, NEW j \in DOMAIN new,
                      NEW x \in DOMAIN new[i].recs, NEW y \in DOMAIN new[j].recs,
                      i < j \/ (i = j /\ x < y)
               PROVE  new[i].recs[x] < new[j].recs[y]
    BY DEF InOrder, new
  <1>7. i \in DOMAIN pages /\ j \in DOMAIN pages /\ i \in 1..n /\ j \in 1..n
    BY <1>1, <1>2
  <1>8. x \in DOMAIN pages[i].recs /\ new[i].recs[x] = pages[i].recs[x]
    <2>1. CASE i # n
      BY <1>2, <1>7, <2>1
    <2>2. CASE i = n
      <3>1. j = n /\ x < y
        BY <1>7, <2>2
      <3>2. y \in 1..(Len(old) + 1) /\ x \in 1..(Len(old) + 1)
        BY <1>2, <1>4, <2>2, <3>1
      <3>3. x \in DOMAIN old
        BY <1>4, <3>1, <3>2
      <3> QED BY <1>2, <1>5, <2>2, <3>3
    <2> QED BY <2>1, <2>2
  <1>9. CASE y \in DOMAIN pages[j].recs /\ new[j].recs[y] = pages[j].recs[y]
    BY <1>7, <1>8, <1>9 DEF InOrder
  <1>10. CASE ~(y \in DOMAIN pages[j].recs /\ new[j].recs[y] = pages[j].recs[y])
    <2>1. j = n
      BY <1>2, <1>7, <1>10
    <2>2. y \in 1..(Len(old) + 1) /\ y \notin DOMAIN old
      BY <1>2, <1>4, <1>5, <1>10, <2>1
    <2>3. y = Len(old) + 1
      BY <1>4, <2>2
    <2>4. new[j].recs[y] = r
      BY <1>2, <1>5, <2>1, <2>3
    <2> QED BY <1>6, <1>7, <1>8, <2>4
  <1> QED BY <1>9, <1>10

\* getOldesPage() finds the last page.
LEMMA OldestIsLast ==
    ASSUME NEW pages \in Seq(PageRecords), InOrder(pages), Sound(pages),
           \A t \in RecordsOn(pages) : t # 0,
           NEW i \in OldesPages(pages)
    PROVE  i = Len(pages)
  <1> DEFINE n == Len(pages)
  <1>1. DOMAIN pages = 1..n /\ n \in Nat /\ i \in 1..n
    BY DEF OldesPages
  <1> SUFFICES ASSUME i # Len(pages)
               PROVE  FALSE
    OBVIOUS
  <1>2. n > 1 /\ n \in DOMAIN pages /\ i \in DOMAIN pages /\ i < n
    <2>1. i \in 1..n /\ i # n /\ n \in Nat
      BY <1>1
    <2> HIDE DEF n
    <2>2. n > 1 /\ n \in 1..n /\ i < n
      BY <2>1
    <2> QED BY <1>1, <2>2 DEF n
  <1>3. \A j \in DOMAIN pages :
          /\ pages[j].recs \in Seq(Nat) /\ pages[j].recs # <<>>
          /\ Len(pages[j].recs) \in DOMAIN pages[j].recs
          /\ maxTime(pages[j]) = pages[j].recs[Len(pages[j].recs)]
    <2> SUFFICES ASSUME NEW j \in DOMAIN pages
                 PROVE  /\ pages[j].recs \in Seq(Nat) /\ pages[j].recs # <<>>
                        /\ Len(pages[j].recs) \in DOMAIN pages[j].recs
                        /\ maxTime(pages[j]) = pages[j].recs[Len(pages[j].recs)]
      OBVIOUS
    <2>1. pages[j].recs \in Seq(Nat) /\ pages[j].recs # <<>>
      BY <1>2, PageFacts DEF Sound
    <2>2. Len(pages[j].recs) \in DOMAIN pages[j].recs
      BY <2>1
    <2> QED BY <2>1, <2>2 DEF maxTime, Last
  <1>4. \A j \in DOMAIN pages : maxTime(pages[j]) \in RecordsOn(pages) /\ maxTime(pages[j]) \in Nat
    BY <1>3 DEF RecordsOn, ToSet
  <1>5. maxTime(pages[i]) < maxTime(pages[n])
    BY <1>2, <1>3 DEF InOrder
  <1>6. maxTime(pages[n]) <= maxTime(pages[i])
    BY <1>2, <1>4 DEF OldesPages
  <1> QED BY <1>2, <1>4, <1>5, <1>6

-----------------------------------------------------------------------------
(* Closing *)

Directories == [Paths -> Seq(PageRecords) \cup {None}]

SameDirs(a, b) ==
    \A p \in Paths : (a[p] = None <=> b[p] = None) /\ (b[p] # None => SameRecords(a[p], b[p]))

\* What is in the directories ds is what was accepted for them.
Complete(ds, acc) ==
    \A p \in Paths :
        /\ acc[p] = IF ds[p] = None THEN {} ELSE RecordsOn(ds[p])
        /\ ds[p] # None => InOrder(ds[p])

\* Close() changes flags only.
LEMMA CloseFacts ==
    ASSUME NEW ds \in Directories, NEW pm \in Managers \cup {None},
           pm # None => ds[pm.m_path] # None,
           TypeOK, Close(ds, pm)
    PROVE  /\ dirs' \in Directories /\ SameDirs(dirs', ds)
           /\ m_instance' = None
           /\ status' \in {"runs", "null", "overrun"}
           /\ status' = "runs" => status = "runs"
  <1>1. m_instance' = None /\ status' \in {"runs", "null", "overrun"} /\ (status' = "runs" => status = "runs")
    BY DEF Close, TypeOK
  <1>2. SameDirs(ds, ds)
    BY DEF SameDirs, SameRecords
  <1>3. CASE dirs' = ds
    BY <1>1, <1>2, <1>3
  <1>4. CASE pm # None /\ dirs' = [ds EXCEPT ![pm.m_path] = closePage(@, pm.m_curpage)]
    <2> DEFINE q == pm.m_path
    <2>1. q \in Paths /\ pm.m_curpage \in Nat /\ ds[q] \in Seq(PageRecords)
      BY <1>4 DEF Managers, Directories
    <2>2. closePage(ds[q], pm.m_curpage) \in Seq(PageRecords) /\ SameRecords(closePage(ds[q], pm.m_curpage), ds[q])
      BY <2>1, ClosePageFacts
    <2>3. None \notin Seq(PageRecords)
      BY LifecycleAssumption
    <2> DEFINE new == closePage(ds[q], pm.m_curpage)
    <2>4. dirs' = [ds EXCEPT ![q] = new]
      BY <1>4
    <2> HIDE DEF new, q
    <2>5. dirs' \in Directories
      BY <2>1, <2>2, <2>4 DEF Directories, new
    <2>6. \A p \in Paths : dirs'[p] = IF p = q THEN new ELSE ds[p]
      BY <2>1, <2>4 DEF Directories
    <2>7. new \in Seq(PageRecords) /\ SameRecords(new, ds[q]) /\ new # None /\ ds[q] # None
      BY <2>1, <2>2, <2>3 DEF new
    <2>8. SameDirs(dirs', ds)
      BY <1>2, <2>6, <2>7 DEF SameDirs
    <2> QED BY <1>1, <2>5, <2>8
  <1> QED BY <1>3, <1>4 DEF Close

\* Nobody is left, or a storage was disturbed, and the directories are
\* complete: Close() keeps the invariant.
LEMMA CloseKeeps ==
    ASSUME NEW ds \in Directories, NEW pm \in Managers \cup {None},
           pm # None => ds[pm.m_path] # None,
           TypeOK, Close(ds, pm),
           storages' \in [Handles -> StorageObjects \cup {None}],
           clashed' \in BOOLEAN, accepted' \in [Paths -> SUBSET Nat], clock' \in 0..MaxRecords,
           AcceptedTimes',
           ~clashed' => Live' = {} /\ Complete(ds, accepted'),
           ~clashed' /\ status = "runs" => \A p \in Paths : ds[p] # None => Sound(ds[p])
    PROVE  LifeInv'
  <1>1. /\ dirs' \in Directories /\ SameDirs(dirs', ds)
        /\ m_instance' = None
        /\ status' \in {"runs", "null", "overrun"}
        /\ status' = "runs" => status = "runs"
    BY CloseFacts
  <1>2. TypeOK'
    BY <1>1 DEF TypeOK, Directories
  <1>3. ManagerPlace' /\ WritesLast'
    BY <1>1 DEF ManagerPlace, WritesLast
  <1>4. OwnManager' /\ PendingIsNewer'
    BY DEF OwnManager, PendingIsNewer
  <1>5. \A p \in Paths : /\ dirs'[p] = None <=> ds[p] = None
                         /\ ds[p] # None => /\ RecordsOn(dirs'[p]) = RecordsOn(ds[p])
                                            /\ InOrder(ds[p]) <=> InOrder(dirs'[p])
                                            /\ Sound(ds[p]) <=> Sound(dirs'[p])
    BY <1>1, SameFacts DEF SameDirs
  <1>6. NothingLost'
    <2> SUFFICES ASSUME ~clashed', NEW p \in Paths
                 PROVE  /\ (RecordsOf(p) \cup Pending(p) = accepted[p])'
                        /\ dirs'[p] # None => InOrder(dirs'[p])
      BY DEF NothingLost
    <2>1. Live' = {} /\ Complete(ds, accepted')
      OBVIOUS
    <2>2. Pending(p)' = {}
      BY <2>1 DEF Pending
    <2>3. RecordsOf(p)' = accepted'[p]
      BY <1>5, <2>1 DEF RecordsOf, Complete
    <2>4. dirs'[p] # None => InOrder(dirs'[p])
      BY <1>5, <2>1 DEF Complete
    <2> QED BY <2>2, <2>3, <2>4
  <1>7. PagesSound'
    BY <1>1, <1>5 DEF PagesSound
  <1> QED BY <1>2, <1>3, <1>4, <1>6, <1>7 DEF LifeInv

\* Without a live storage the directories are complete.
LEMMA QuietIsComplete ==
    ASSUME LifeInv, ~clashed, \A h \in Live : storages[h].pend = <<>>
    PROVE  Complete(dirs, accepted)
  <1> SUFFICES ASSUME NEW p \in Paths
               PROVE  accepted[p] = RecordsOf(p) /\ (dirs[p] # None => InOrder(dirs[p]))
    BY DEF Complete, RecordsOf
  <1>1. ToSet(<<>>) = {}
    BY DEF ToSet
  <1>2. Pending(p) = {}
    BY <1>1 DEF Pending
  <1> QED BY <1>2 DEF LifeInv, NothingLost

\* An exception of Create or Open that left the directories alone.
LEMMA ThrowKeeps ==
    ASSUME LifeInv, NEW pm \in Managers \cup {None}, pm # None => dirs[pm.m_path] # None,
           Throw(dirs, pm), UNCHANGED <<accepted, clock>>
    PROVE  LifeInv'
  <1>1. Close(dirs, pm) /\ storages' = storages /\ clashed' = (clashed \/ Live # {})
    BY DEF Throw
  <1>2. TypeOK /\ AcceptedTimes
    BY DEF LifeInv
  <1>3. dirs \in Directories /\ storages' \in [Handles -> StorageObjects \cup {None}]
        /\ clashed' \in BOOLEAN /\ accepted' \in [Paths -> SUBSET Nat] /\ clock' \in 0..MaxRecords
    BY <1>1, <1>2 DEF TypeOK, Directories
  <1>4. AcceptedTimes'
    BY <1>2 DEF AcceptedTimes
  <1>5. ASSUME ~clashed' PROVE Live' = {} /\ Complete(dirs, accepted')
    <2>1. Live = {} /\ ~clashed /\ Live' = Live
      BY <1>1, <1>5 DEF Live
    <2> QED BY <2>1, QuietIsComplete
  <1>6. ~clashed' /\ status = "runs" => \A p \in Paths : dirs[p] # None => Sound(dirs[p])
    BY <1>1 DEF LifeInv, PagesSound
  <1> QED BY <1>1, <1>2, <1>3, <1>4, <1>5, <1>6, CloseKeeps

\* utils::rm cannot remove the directory.
LEMMA CreateUnremovableKeeps ==
    ASSUME LifeInv, NEW h \in Handles, NEW p \in Paths, CreateUnremovable(h, p)
    PROVE  LifeInv'
  BY ThrowKeeps DEF CreateUnremovable, LifeInv, TypeOK, ManagerPlace

\* Open of a directory that does not exist.
LEMMA OpenMissingKeeps ==
    ASSUME LifeInv, NEW h \in Handles, NEW p \in Paths, OpenMissing(h, p)
    PROVE  LifeInv'
  BY ThrowKeeps DEF OpenMissing, LifeInv, TypeOK, ManagerPlace

\* The last Storage_ptr of a storage goes.
LEMMA ReleaseKeeps ==
    ASSUME LifeInv, NEW h \in Handles, Release(h)
    PROVE  LifeInv'
  <1>1. Close(dirs, m_instance) /\ h \in Live /\ storages[h].pend = <<>>
        /\ storages' = [storages EXCEPT ![h] = None] /\ UNCHANGED <<clashed, accepted, clock>>
    BY DEF Release
  <1>2. TypeOK /\ AcceptedTimes
    BY DEF LifeInv
  <1>3. dirs \in Directories /\ storages' \in [Handles -> StorageObjects \cup {None}]
        /\ clashed' \in BOOLEAN /\ accepted' \in [Paths -> SUBSET Nat] /\ clock' \in 0..MaxRecords
        /\ m_instance \in Managers \cup {None} /\ (m_instance # None => dirs[m_instance.m_path] # None)
    BY <1>1, <1>2 DEF TypeOK, Directories, LifeInv, ManagerPlace
  <1>4. AcceptedTimes'
    BY <1>1, <1>2 DEF AcceptedTimes
  <1>5. ASSUME ~clashed' PROVE Live' = {} /\ Complete(dirs, accepted')
    <2>1. ~clashed /\ Live = {h}
      BY <1>1, <1>5 DEF LifeInv, OwnManager
    <2>2. Live' = {}
      BY <1>1, <1>2, <2>1 DEF Live, TypeOK
    <2> QED BY <1>1, <2>1, <2>2, QuietIsComplete
  <1>6. ~clashed' /\ status = "runs" => \A p \in Paths : dirs[p] # None => Sound(dirs[p])
    BY <1>1 DEF LifeInv, PagesSound
  <1> QED BY <1>1, <1>2, <1>3, <1>4, <1>5, <1>6, CloseKeeps

-----------------------------------------------------------------------------
(* Create and Open *)

\* A storage that has just been made, in a process without others, on
\* directories that are complete.
LEMMA StartKeeps ==
    ASSUME LifeInv, NEW h \in Handles, NEW p \in Paths,
           storages' = [storages EXCEPT ![h] = [m_path |-> p, pend |-> <<>>]],
           m_instance = None, storages[h] = None,
           NEW i \in Nat, NEW size \in Nat,
           m_instance' = [m_path |-> p, m_curpage |-> i, default_page_size |-> size],
           dirs' \in Directories, dirs'[p] # None, i \in DOMAIN dirs'[p], dirs'[p][i].isOpen,
           UNCHANGED <<status, clashed, clock>>,
           accepted' \in [Paths -> SUBSET Nat], AcceptedTimes',
           ~clashed => /\ i = Len(dirs'[p])
                       /\ Complete(dirs', accepted')
                       /\ status = "runs" => \A q \in Paths : dirs'[q] # None => Sound(dirs'[q])
    PROVE  LifeInv'
  <1>1. [m_path |-> p, pend |-> <<>>] \in StorageObjects /\ [m_path |-> p, pend |-> <<>>] # None
    <2>1. <<>> \in Seq(Nat)
      OBVIOUS
    <2>2. [m_path |-> p, pend |-> <<>>] \in StorageObjects
      BY <2>1 DEF StorageObjects
    <2> QED BY <2>2, LifecycleAssumption
  <1>2. m_instance' \in Managers /\ m_instance' # None /\ m_instance'.m_path = p /\ m_instance'.m_curpage = i
    BY LifecycleAssumption DEF Managers
  <1>3. storages \in [Handles -> StorageObjects \cup {None}]
    BY DEF LifeInv, TypeOK
  <1>4. storages'[h] = [m_path |-> p, pend |-> <<>>] /\ h \in Live' /\ Live' = Live \cup {h}
        /\ storages' \in [Handles -> StorageObjects \cup {None}]
    BY <1>1, <1>3 DEF Live
  <1>5. TypeOK'
    BY <1>2, <1>4 DEF LifeInv, TypeOK, Directories
  <1>6. ManagerPlace' /\ WritesLast'
    BY <1>2 DEF ManagerPlace, WritesLast
  <1>7. ~clashed => Live = {} /\ Live' = {h}
    BY <1>4 DEF LifeInv, OwnManager
  <1>8. OwnManager'
    <2>1. i # 0
      BY DEF Directories
    <2> QED BY <1>2, <1>4, <1>7, <2>1 DEF OwnManager
  <1>9. storages'[h].pend = <<>> /\ DOMAIN storages'[h].pend = {} /\ ToSet(storages'[h].pend) = {}
    BY <1>4 DEF ToSet
  <1>10. PendingIsNewer'
    BY <1>7, <1>9 DEF PendingIsNewer
  <1>11. NothingLost'
    <2> SUFFICES ASSUME ~clashed', NEW q \in Paths
                 PROVE  /\ (RecordsOf(q) \cup Pending(q) = accepted[q])'
                        /\ dirs'[q] # None => InOrder(dirs'[q])
      BY DEF NothingLost
    <2>1. Pending(q)' = {}
      BY <1>7, <1>9 DEF Pending
    <2> QED BY <2>1 DEF Complete, RecordsOf
  <1>12. PagesSound'
    BY DEF PagesSound
  <1> QED BY <1>5, <1>6, <1>8, <1>10, <1>11, <1>12 DEF LifeInv

\* Nothing is on no pages.
LEMMA NoPages == <<>> \in Seq(PageRecords) /\ RecordsOn(<<>>) = {} /\ InOrder(<<>>) /\ Sound(<<>>)
  BY DEF RecordsOn, InOrder, Sound

\* Create: the directory is made again, also when start() throws then.
LEMMA CreateKeeps ==
    ASSUME LifeInv, NEW h \in Handles, NEW p \in Paths, Create(h, p)
    PROVE  LifeInv'
  <1> DEFINE pm == [m_path |-> p, m_curpage |-> 0, default_page_size |-> PageCap]
  <1> DEFINE new == createNewPage(<<>>, pm)
  <1> DEFINE ds == [dirs EXCEPT ![p] = <<>>]
  <1>1. storages[h] = None /\ accepted' = [accepted EXCEPT ![p] = {}] /\ clock' = clock
    BY DEF Create, Begin
  <1>2. TypeOK /\ AcceptedTimes /\ ManagerPlace
    BY DEF LifeInv
  <1>3. accepted' \in [Paths -> SUBSET Nat] /\ AcceptedTimes'
    BY <1>1, <1>2 DEF TypeOK, AcceptedTimes
  <1>4. None \notin Seq(PageRecords) /\ PageCap \in Nat /\ PageCap # 0
    BY LifecycleAssumption
  <1>5. ASSUME ~clashed, Live = {}, NEW q \in Paths, q # p
        PROVE  accepted'[q] = RecordsOf(q) /\ (dirs[q] # None => InOrder(dirs[q]))
    <2>1. Complete(dirs, accepted)
      BY <1>5, QuietIsComplete
    <2> QED BY <1>1, <1>2, <1>5, <2>1 DEF Complete, RecordsOf, TypeOK
  <1>6. CASE m_instance # None
    <2>1. Throw(ds, m_instance)
      BY <1>6 DEF Create
    <2>2. Close(ds, m_instance) /\ storages' = storages /\ clashed' = (clashed \/ Live # {})
      BY <2>1 DEF Throw
    <2>3. ds \in Directories /\ (\A q \in Paths : ds[q] = IF q = p THEN <<>> ELSE dirs[q])
      BY <1>2, NoPages DEF TypeOK, Directories
    <2>4. m_instance \in Managers /\ ds[m_instance.m_path] # None
      BY <1>2, <1>4, <1>6, <2>3, NoPages DEF TypeOK, ManagerPlace, Managers
    <2>5. storages' \in [Handles -> StorageObjects \cup {None}] /\ clashed' \in BOOLEAN /\ clock' \in 0..MaxRecords
      BY <1>1, <1>2, <2>2 DEF TypeOK
    <2> HIDE DEF ds
    <2>6. ASSUME ~clashed' PROVE Live' = {} /\ Complete(ds, accepted')
      <3>1. Live = {} /\ ~clashed /\ Live' = Live
        BY <2>2, <2>6 DEF Live
      <3>2. accepted'[p] = {}
        BY <1>1, <1>2 DEF TypeOK
      <3> QED BY <1>4, <1>5, <2>3, <3>1, <3>2, NoPages DEF Complete, RecordsOf
    <2>7. ~clashed' /\ status = "runs" => \A q \in Paths : ds[q] # None => Sound(ds[q])
      BY <2>2, <2>3, NoPages DEF LifeInv, PagesSound
    <2> QED BY <1>2, <1>3, <2>2, <2>3, <2>4, <2>5, <2>6, <2>7, CloseKeeps
  <1>7. CASE m_instance = None
    <2>1. /\ m_instance' = new.pm
          /\ dirs' = [dirs EXCEPT ![p] = new.pages]
          /\ storages' = [storages EXCEPT ![h] = [m_path |-> p, pend |-> <<>>]]
          /\ UNCHANGED <<status, clashed>>
      BY <1>7 DEF Create
    <2>2. pm \in Managers /\ Len(<<>>) = 0 /\ pm.default_page_size = PageCap
      BY <1>4 DEF Managers
    <2>3. new.pm = [m_path |-> p, m_curpage |-> 1, default_page_size |-> PageCap]
      BY <2>2 DEF createNewPage
    <2> HIDE DEF pm
    <2>4. /\ new.pages \in Seq(PageRecords) /\ Len(new.pages) = 1
          /\ new.pages[1] = NewPage(PageCap)
          /\ RecordsOn(new.pages) = {} /\ InOrder(new.pages)
      <3>1. /\ new.pages \in Seq(PageRecords) /\ Len(new.pages) = Len(<<>>) + 1
            /\ new.pages[Len(<<>>) + 1] = NewPage(pm.default_page_size)
            /\ RecordsOn(new.pages) = RecordsOn(<<>>)
            /\ InOrder(<<>>) => InOrder(new.pages)
        BY <2>2, CreateFacts, NoPages
      <3>2. Len(<<>>) + 1 = 1
        OBVIOUS
      <3> QED BY <2>2, <3>1, <3>2, NoPages
    <2> HIDE DEF new
    <2>5. DOMAIN new.pages = {1} /\ new.pages[1].isOpen /\ Sound(new.pages) /\ new.pages # None
      BY <1>4, <2>4 DEF NewPage, Sound
    <2>6. dirs' \in Directories /\ (\A q \in Paths : dirs'[q] = IF q = p THEN new.pages ELSE dirs[q])
      BY <1>2, <2>1, <2>4 DEF TypeOK, Directories
    <2>7. ASSUME ~clashed PROVE Complete(dirs', accepted')
      <3>1. Live = {}
        BY <1>7, <2>7 DEF LifeInv, OwnManager
      <3>2. accepted'[p] = {}
        BY <1>1, <1>2 DEF TypeOK
      <3> QED BY <1>5, <2>4, <2>5, <2>6, <2>7, <3>1, <3>2 DEF Complete, RecordsOf
    <2>8. ~clashed /\ status = "runs" => \A q \in Paths : dirs'[q] # None => Sound(dirs'[q])
      BY <2>5, <2>6 DEF LifeInv, PagesSound
    <2>9. dirs'[p] = new.pages
      BY <2>6
    <2> QED BY <1>1, <1>3, <1>4, <1>7, <2>1, <2>3, <2>4, <2>5, <2>6, <2>7, <2>8, <2>9, StartKeeps
  <1> QED BY <1>6, <1>7

\* Open: it throws, or continues with the newest page.
LEMMA OpenKeeps ==
    ASSUME LifeInv, NEW h \in Handles, NEW p \in Paths, Open(h, p)
    PROVE  LifeInv'
  <1> DEFINE started == [m_path |-> p, m_curpage |-> 0, default_page_size |-> 0]
  <1>1. storages[h] = None /\ status = "runs" /\ dirs[p] # None /\ UNCHANGED <<accepted, clock>>
    BY DEF Open, Begin
  <1>2. TypeOK /\ AcceptedTimes /\ ManagerPlace
    BY DEF LifeInv
  <1>3. started \in Managers /\ started.m_path = p
    BY DEF Managers
  <1>4. CASE Throw(dirs, started)
    BY <1>1, <1>3, <1>4, ThrowKeeps
  <1>5. CASE m_instance # None /\ Throw(dirs, m_instance)
    BY <1>1, <1>2, <1>5, ThrowKeeps DEF TypeOK, ManagerPlace
  <1>6. ASSUME m_instance = None, NEW i \in OldesPages(dirs[p]), Opened(h, p, i)
        PROVE  LifeInv'
    <2> DEFINE pages == dirs[p]
    <2> DEFINE new == [pages EXCEPT ![i].isOpen = TRUE]
    <2>1. /\ dirs' = [dirs EXCEPT ![p] = new]
          /\ m_instance' = [m_path |-> p, m_curpage |-> i, default_page_size |-> 0]
          /\ storages' = [storages EXCEPT ![h] = [m_path |-> p, pend |-> <<>>]]
          /\ UNCHANGED <<status, clashed>>
      BY <1>6 DEF Opened
    <2>2. pages \in Seq(PageRecords) /\ i \in DOMAIN pages /\ i \in Nat
      BY <1>1, <1>2, <1>6 DEF TypeOK, OldesPages
    <2>3. new \in Seq(PageRecords) /\ SameRecords(new, pages)
      BY <2>2, FlagFacts
    <2>4. new[i].isOpen
      BY <2>2
    <2> HIDE DEF new
    <2>5. /\ RecordsOn(new) = RecordsOn(pages) /\ (InOrder(pages) <=> InOrder(new)) /\ (Sound(pages) <=> Sound(new))
          /\ Len(new) = Len(pages) /\ i \in DOMAIN new
      BY <2>2, <2>3, SameFacts DEF SameRecords
    <2>6. dirs' \in Directories /\ (\A q \in Paths : dirs'[q] = IF q = p THEN new ELSE dirs[q])
      BY <1>2, <2>1, <2>3 DEF TypeOK, Directories
    <2>7. new # None
      BY <2>3, LifecycleAssumption
    <2>8. ASSUME ~clashed
          PROVE  /\ Complete(dirs', accepted')
                 /\ \A q \in Paths : dirs'[q] # None => Sound(dirs'[q])
                 /\ i = Len(new)
      <3>1. Live = {}
        BY <1>6, <2>8 DEF LifeInv, OwnManager
      <3>2. Complete(dirs, accepted)
        BY <2>8, <3>1, QuietIsComplete
      <3>3. Complete(dirs', accepted')
        BY <1>1, <2>5, <2>6, <2>7, <3>2 DEF Complete
      <3>4. Sound(pages) /\ \A q \in Paths : dirs[q] # None => Sound(dirs[q])
        BY <1>1, <2>8 DEF LifeInv, PagesSound
      <3>5. InOrder(pages) /\ RecordsOn(pages) = accepted[p]
        BY <1>1, <3>2 DEF Complete
      <3>6. \A t \in RecordsOn(pages) : t # 0
        BY <1>2, <3>5 DEF AcceptedTimes, TypeOK
      <3>7. i = Len(pages)
        BY <1>6, <2>2, <3>4, <3>5, <3>6, OldestIsLast
      <3>8. \A q \in Paths : dirs'[q] # None => Sound(dirs'[q])
        BY <2>5, <2>6, <3>4
      <3> QED BY <2>5, <3>3, <3>7, <3>8
    <2>9. accepted' \in [Paths -> SUBSET Nat] /\ AcceptedTimes'
      BY <1>1, <1>2 DEF TypeOK, AcceptedTimes
    <2>10. dirs'[p] = new
      BY <2>6
    <2> QED BY <1>1, <1>6, <2>1, <2>2, <2>4, <2>5, <2>6, <2>7, <2>8, <2>9, <2>10, StartKeeps
  <1> QED BY <1>4, <1>5, <1>6 DEF Open

-----------------------------------------------------------------------------
(* Appending and writing *)

\* The writer's page has room, or is replaced by a new one.
LEMMA RoomFacts ==
    ASSUME NEW pages \in Seq(PageRecords), NEW pm \in Managers, pm.m_curpage \in DOMAIN pages
    PROVE  LET w == IF isFull(pages[pm.m_curpage]) THEN createNewPage(pages, pm) ELSE [pages |-> pages, pm |-> pm]
               i == w.pm.m_curpage
           IN  /\ w.pages \in Seq(PageRecords) /\ w.pm \in Managers /\ w.pm.m_path = pm.m_path
               /\ i \in DOMAIN w.pages
               /\ RecordsOn(w.pages) = RecordsOn(pages)
               /\ InOrder(pages) => InOrder(w.pages)
               /\ pages[pm.m_curpage].isOpen => w.pages[i].isOpen
               /\ pm.m_curpage = Len(pages) => i = Len(w.pages)
               /\ pm.m_curpage = Len(pages) /\ Sound(pages) /\ w.pages[i].cap # 0 =>
                     \A j \in DOMAIN w.pages : w.pages[j].cap # 0 /\ (Len(w.pages) > 1 /\ j # i => w.pages[j].recs # <<>>)
  <1> DEFINE c == pm.m_curpage
  <1> DEFINE n == Len(pages)
  <1>1. c \in 1..n /\ DOMAIN pages = 1..n /\ n \in Nat
    OBVIOUS
  <1>2. CASE ~isFull(pages[c])
    BY <1>2 DEF Sound
  <1>3. CASE isFull(pages[c])
    <2> DEFINE w == createNewPage(pages, pm)
    <2>1. /\ w.pages \in Seq(PageRecords) /\ w.pm \in Managers
          /\ w.pm.m_path = pm.m_path /\ w.pm.m_curpage = n + 1
          /\ Len(w.pages) = n + 1
          /\ w.pages[n + 1] = NewPage(pm.default_page_size)
          /\ \A j \in DOMAIN pages : w.pages[j].recs = pages[j].recs /\ w.pages[j].cap = pages[j].cap
          /\ RecordsOn(w.pages) = RecordsOn(pages)
          /\ InOrder(pages) => InOrder(w.pages)
      BY CreateFacts
    <2> HIDE DEF w
    <2>2. DOMAIN w.pages = 1..(n + 1) /\ w.pm.m_curpage \in DOMAIN w.pages
      BY <1>1, <2>1
    <2>3. w.pages[w.pm.m_curpage].isOpen
      BY <2>1 DEF NewPage
    <2>4. ASSUME c = n, Sound(pages), w.pages[n + 1].cap # 0, NEW j \in DOMAIN w.pages
          PROVE  w.pages[j].cap # 0 /\ (j # n + 1 => w.pages[j].recs # <<>>)
      <3>1. CASE j = n + 1
        BY <2>4, <3>1
      <3>2. CASE j # n + 1
        <4>1. j \in DOMAIN pages
          BY <1>1, <2>2, <3>2
        <4>2. pages[j].cap # 0 /\ w.pages[j].recs = pages[j].recs /\ w.pages[j].cap = pages[j].cap
          BY <2>1, <2>4, <4>1 DEF Sound
        <4>3. CASE n > 1
          BY <2>4, <4>1, <4>2, <4>3 DEF Sound
        <4>4. CASE ~(n > 1)
          <5>1. j = c
            BY <1>1, <4>1, <4>4
          <5>2. Len(pages[c].recs) >= pages[c].cap /\ pages[c].cap \in Nat /\ pages[c].cap # 0
            BY <1>1, <1>3, <4>2, <5>1, PageFacts DEF isFull
          <5>3. pages[c].recs # <<>>
            <6>1. Len(pages[c].recs) # 0
              BY <1>1, <5>2, PageFacts
            <6> QED BY <6>1
          <5> QED BY <4>2, <5>1, <5>3
        <4> QED BY <4>3, <4>4
      <3> QED BY <3>1, <3>2
    <2> QED BY <1>3, <2>1, <2>2, <2>3, <2>4 DEF w
  <1> QED BY <1>2, <1>3

\* What AsyncWriter::call does with a record, on the page of the manager.
LEMMA WriteFacts ==
    ASSUME LifeInv, NEW h \in Handles, WriteRecord(h), m_instance # None
    PROVE  LET p == m_instance.m_path
               r == Head(storages[h].pend)
               last == m_instance.m_curpage = Len(dirs[p])
           IN  /\ p \in Paths /\ r \in Nat
               /\ dirs' \in Directories /\ dirs'[p] # None /\ (\A q \in Paths \ {p} : dirs'[q] = dirs[q])
               /\ m_instance' \in Managers /\ m_instance' # None /\ m_instance'.m_path = p
               /\ m_instance'.m_curpage \in DOMAIN dirs'[p]
               /\ dirs[p][m_instance.m_curpage].isOpen => dirs'[p][m_instance'.m_curpage].isOpen
               /\ last => m_instance'.m_curpage = Len(dirs'[p])
               /\ \/ /\ status' = "overrun" /\ storages' = storages
                     /\ RecordsOn(dirs'[p]) = RecordsOn(dirs[p])
                     /\ InOrder(dirs[p]) => InOrder(dirs'[p])
                  \/ /\ status' = status /\ storages' = [storages EXCEPT ![h].pend = Tail(@)]
                     /\ RecordsOn(dirs'[p]) = RecordsOn(dirs[p]) \cup {r}
                     /\ last /\ InOrder(dirs[p]) /\ (\A t \in RecordsOn(dirs[p]) : t < r) => InOrder(dirs'[p])
                     /\ last /\ Sound(dirs[p]) => Sound(dirs'[p])
  <1> DEFINE p == m_instance.m_path
  <1> DEFINE c == m_instance.m_curpage
  <1> DEFINE r == Head(storages[h].pend)
  <1> DEFINE w == IF isFull(dirs[p][c]) THEN createNewPage(dirs[p], m_instance)
                  ELSE [pages |-> dirs[p], pm |-> m_instance]
  <1> DEFINE i == w.pm.m_curpage
  <1> DEFINE new == WithRecord(w.pages, i, r)
  <1>1. TypeOK /\ ManagerPlace
    BY DEF LifeInv
  <1>2. m_instance \in Managers /\ p \in Paths /\ dirs[p] \in Seq(PageRecords) /\ c \in DOMAIN dirs[p]
    BY <1>1 DEF TypeOK, ManagerPlace, Managers
  <1>3. r \in Nat
    <2>1. h \in Live /\ storages[h].pend # <<>>
      BY DEF WriteRecord
    <2>2. storages[h].pend \in Seq(Nat)
      BY <1>1, <2>1 DEF TypeOK, Live, StorageObjects
    <2> QED BY <2>1, <2>2
  <1>4. /\ m_instance' = w.pm
        /\ \/ /\ w.pages[i].cap = 0 /\ status' = "overrun" /\ dirs' = [dirs EXCEPT ![p] = w.pages] /\ storages' = storages
           \/ /\ w.pages[i].cap # 0 /\ status' = status /\ dirs' = [dirs EXCEPT ![p] = new]
              /\ storages' = [storages EXCEPT ![h].pend = Tail(@)]
    BY DEF WriteRecord, WithRecord
  <1>5. /\ w.pages \in Seq(PageRecords) /\ w.pm \in Managers /\ w.pm.m_path = p
        /\ i \in DOMAIN w.pages
        /\ RecordsOn(w.pages) = RecordsOn(dirs[p])
        /\ InOrder(dirs[p]) => InOrder(w.pages)
        /\ dirs[p][c].isOpen => w.pages[i].isOpen
        /\ c = Len(dirs[p]) => i = Len(w.pages)
        /\ c = Len(dirs[p]) /\ Sound(dirs[p]) /\ w.pages[i].cap # 0 =>
              \A j \in DOMAIN w.pages : w.pages[j].cap # 0 /\ (Len(w.pages) > 1 /\ j # i => w.pages[j].recs # <<>>)
    BY <1>2, RoomFacts
  <1> HIDE DEF w
  <1>6. /\ new \in Seq(PageRecords) /\ Len(new) = Len(w.pages)
        /\ DOMAIN new = DOMAIN w.pages
        /\ \A j \in DOMAIN w.pages : new[j].cap = w.pages[j].cap /\ new[j].isOpen = w.pages[j].isOpen
        /\ new[i].recs = Append(w.pages[i].recs, r)
        /\ \A j \in DOMAIN w.pages \ {i} : new[j] = w.pages[j]
        /\ RecordsOn(new) = RecordsOn(dirs[p]) \cup {r}
    <2> HIDE DEF i, r, p
    <2>1. /\ new \in Seq(PageRecords) /\ Len(new) = Len(w.pages)
          /\ DOMAIN new = DOMAIN w.pages
          /\ \A j \in DOMAIN w.pages : new[j].cap = w.pages[j].cap /\ new[j].isOpen = w.pages[j].isOpen
          /\ new[i].recs = Append(w.pages[i].recs, r)
          /\ \A j \in DOMAIN w.pages \ {i} : new[j] = w.pages[j]
          /\ RecordsOn(new) = RecordsOn(w.pages) \cup {r}
      BY <1>3, <1>5, RecordFacts
    <2> HIDE DEF new
    <2> QED BY <1>5, <2>1
  <1>7. ASSUME i = Len(w.pages), InOrder(w.pages), \A t \in RecordsOn(w.pages) : t < r
        PROVE  InOrder(new)
    <2>1. Len(w.pages) # 0
      BY <1>5, <1>7
    <2> QED BY <1>3, <1>5, <1>7, <2>1, LastInOrder
  <1> HIDE DEF new
  <1>8. new[i].recs # <<>>
    <2> DEFINE old == w.pages[i].recs
    <2>1. old \in Seq(Nat)
      BY <1>5, PageFacts
    <2>2. new[i].recs = Append(old, r)
      BY <1>6
    <2> HIDE DEF old, r, i
    <2>3. Append(old, r) # <<>>
      BY <1>3, <2>1
    <2> QED BY <2>2, <2>3
  <1>9. ASSUME c = Len(dirs[p]), Sound(dirs[p]), w.pages[i].cap # 0
        PROVE  Sound(new)
    BY <1>5, <1>6, <1>8, <1>9 DEF Sound
  <1>10. m_instance' \in Managers /\ m_instance' # None /\ m_instance'.m_path = p /\ m_instance'.m_curpage = i
    BY <1>4, <1>5, LifecycleAssumption
  <1>11. None \notin Seq(PageRecords) /\ dirs \in Directories
    BY <1>1, LifecycleAssumption DEF TypeOK, Directories
  <1> HIDE DEF p, c, r, i
  <1>12. CASE /\ w.pages[i].cap = 0 /\ status' = "overrun" /\ dirs' = [dirs EXCEPT ![p] = w.pages] /\ storages' = storages
    <2>1. dirs' \in Directories /\ dirs'[p] = w.pages /\ w.pages # None /\ (\A q \in Paths \ {p} : dirs'[q] = dirs[q])
      BY <1>2, <1>5, <1>11, <1>12 DEF Directories
    <2> QED BY <1>2, <1>3, <1>5, <1>10, <1>12, <2>1 DEF p, c, r, i
  <1>13. CASE /\ w.pages[i].cap # 0 /\ status' = status /\ dirs' = [dirs EXCEPT ![p] = new]
              /\ storages' = [storages EXCEPT ![h].pend = Tail(@)]
    <2>1. dirs' \in Directories /\ dirs'[p] = new /\ new # None /\ (\A q \in Paths \ {p} : dirs'[q] = dirs[q])
      BY <1>2, <1>6, <1>11, <1>13 DEF Directories
    <2>2. c = Len(dirs[p]) /\ InOrder(dirs[p]) /\ (\A t \in RecordsOn(dirs[p]) : t < r) => InOrder(new)
      BY <1>5, <1>7
    <2>3. i \in DOMAIN new /\ (dirs[p][c].isOpen => new[i].isOpen) /\ (c = Len(dirs[p]) => i = Len(new))
      BY <1>5, <1>6
    <2> QED BY <1>2, <1>3, <1>6, <1>9, <1>10, <1>13, <2>1, <2>2, <2>3 DEF p, c, r, i
  <1> QED BY <1>4, <1>12, <1>13 DEF p, c, r, i

\* What waits, with one live storage.
LEMMA OneLive ==
    ASSUME NEW h \in Handles, Live = {h}, NEW p \in Paths
    PROVE  Pending(p) = IF storages[h].m_path = p THEN ToSet(storages[h].pend) ELSE {}
  BY DEF Pending

\* A record is taken from the front of what waits.
LEMMA TailFacts ==
    ASSUME NEW s \in Seq(Nat), s # <<>>
    PROVE  /\ Tail(s) \in Seq(Nat) /\ Head(s) \in Nat
           /\ ToSet(s) = {Head(s)} \cup ToSet(Tail(s))
           /\ \A x \in DOMAIN Tail(s) : x \in Nat /\ x + 1 \in DOMAIN s /\ Tail(s)[x] = s[x + 1]
           /\ 1 \in DOMAIN s /\ Head(s) = s[1]
  <1>1. DOMAIN s = 1..Len(s) /\ Len(s) \in Nat /\ Len(s) # 0
    OBVIOUS
  <1>2. Tail(s) \in Seq(Nat) /\ Head(s) \in Nat /\ Head(s) = s[1] /\ Len(Tail(s)) = Len(s) - 1
    OBVIOUS
  <1>3. DOMAIN Tail(s) = 1..(Len(s) - 1)
    BY <1>1, <1>2
  <1>4. \A x \in DOMAIN Tail(s) : x \in Nat /\ x + 1 \in DOMAIN s /\ Tail(s)[x] = s[x + 1]
    BY <1>1, <1>3
  <1>5. \A y \in DOMAIN s : y = 1 \/ (y - 1 \in DOMAIN Tail(s) /\ s[y] = Tail(s)[y - 1])
    <2> SUFFICES ASSUME NEW y \in DOMAIN s, y # 1
                 PROVE  y - 1 \in DOMAIN Tail(s) /\ s[y] = Tail(s)[y - 1]
      OBVIOUS
    <2>1. y - 1 \in DOMAIN Tail(s) /\ (y - 1) + 1 = y
      BY <1>1, <1>3
    <2> QED BY <1>4, <2>1
  <1>6. 1 \in DOMAIN s
    BY <1>1
  <1>7. ToSet(s) = {Head(s)} \cup ToSet(Tail(s))
    <2>1. ASSUME NEW t \in ToSet(s) PROVE t \in {Head(s)} \cup ToSet(Tail(s))
      <3>1. PICK y \in DOMAIN s : t = s[y]
        BY DEF ToSet
      <3> QED BY <1>2, <1>5, <3>1 DEF ToSet
    <2>2. ASSUME NEW t \in ToSet(Tail(s)) PROVE t \in ToSet(s)
      <3>1. PICK x \in DOMAIN Tail(s) : t = Tail(s)[x]
        BY DEF ToSet
      <3> QED BY <1>4, <3>1 DEF ToSet
    <2>3. Head(s) \in ToSet(s)
      BY <1>2, <1>6 DEF ToSet
    <2> QED BY <2>1, <2>2, <2>3
  <1> QED BY <1>2, <1>4, <1>6, <1>7

\* append(): the record waits behind all others.
LEMMA AppendToKeeps ==
    ASSUME LifeInv, NEW h \in Handles, AppendTo(h)
    PROVE  LifeInv'
  <1> DEFINE old == storages[h].pend
  <1> DEFINE c == clock + 1
  <1> DEFINE P == storages[h].m_path
  <1>1. /\ h \in Live /\ clock < MaxRecords /\ clock' = c
        /\ storages' = [storages EXCEPT ![h].pend = Append(@, c)]
        /\ accepted' = [accepted EXCEPT ![P] = @ \cup {c}]
        /\ UNCHANGED <<m_instance, dirs, status, clashed>>
    BY DEF AppendTo
  <1>2. TypeOK
    BY DEF LifeInv
  <1>3. clock \in Nat /\ c \in Nat /\ MaxRecords \in Nat /\ c \in 0..MaxRecords
    BY <1>1, <1>2, LifecycleAssumption DEF TypeOK
  <1>4. storages[h] \in StorageObjects /\ old \in Seq(Nat) /\ P \in Paths
    BY <1>1, <1>2 DEF TypeOK, Live, StorageObjects
  <1>5. Append(old, c) \in Seq(Nat)
    BY <1>3, <1>4
  <1>6. storages'[h] = [storages[h] EXCEPT !.pend = Append(old, c)] /\ (\A g \in Handles \ {h} : storages'[g] = storages[g])
    BY <1>1, <1>2 DEF TypeOK
  <1>7. storages'[h] \in StorageObjects /\ storages'[h].m_path = P /\ storages'[h].pend = Append(old, c)
    BY <1>4, <1>5, <1>6 DEF StorageObjects
  <1>8. storages'[h] # None /\ Live' = Live
    BY <1>1, <1>6, <1>7, LifecycleAssumption DEF Live
  <1>9. storages' \in [Handles -> StorageObjects \cup {None}]
    BY <1>1, <1>2, <1>6, <1>7 DEF TypeOK
  <1>10. \A q \in Paths : accepted'[q] = IF q = P THEN accepted[q] \cup {c} ELSE accepted[q]
    BY <1>1, <1>2 DEF TypeOK
  <1>11. accepted' \in [Paths -> SUBSET Nat]
    BY <1>1, <1>2, <1>3, <1>4 DEF TypeOK
  <1>12. TypeOK'
    BY <1>1, <1>2, <1>3, <1>9, <1>11 DEF TypeOK
  <1>13. ManagerPlace' /\ WritesLast' /\ PagesSound'
    BY <1>1 DEF LifeInv, ManagerPlace, WritesLast, PagesSound
  <1>14. AcceptedTimes'
    <2>1. \A q \in Paths : accepted[q] \subseteq 1..clock
      BY DEF LifeInv, AcceptedTimes
    <2>2. 1..clock \subseteq 1..c /\ c \in 1..c
      BY <1>3
    <2> QED BY <1>1, <1>10, <2>1, <2>2 DEF AcceptedTimes
  <1>15. OwnManager'
    BY <1>1, <1>6, <1>7, <1>8 DEF LifeInv, OwnManager
  <1>16. ASSUME ~clashed PROVE Live = {h} /\ Live' = {h}
    BY <1>1, <1>8, <1>16 DEF LifeInv, OwnManager
  <1>17. DOMAIN Append(old, c) = 1..(Len(old) + 1) /\ DOMAIN old = 1..Len(old) /\ Len(old) \in Nat
         /\ Append(old, c)[Len(old) + 1] = c /\ \A x \in DOMAIN old : Append(old, c)[x] = old[x]
    BY <1>3, <1>4
  <1>18. ToSet(Append(old, c)) = ToSet(old) \cup {c}
    <2>1. DOMAIN Append(old, c) = DOMAIN old \cup {Len(old) + 1}
      BY <1>17
    <2> HIDE DEF old, c
    <2> QED BY <1>17, <2>1 DEF ToSet
  <1>19. NothingLost'
    <2> SUFFICES ASSUME ~clashed', NEW q \in Paths
                 PROVE  /\ (RecordsOf(q) \cup Pending(q) = accepted[q])'
                        /\ dirs'[q] # None => InOrder(dirs'[q])
      BY DEF NothingLost
    <2>1. ~clashed /\ Live = {h} /\ Live' = {h}
      BY <1>1, <1>16
    <2>2. /\ RecordsOf(q) \cup Pending(q) = accepted[q]
          /\ dirs[q] # None => InOrder(dirs[q])
      BY <2>1 DEF LifeInv, NothingLost
    <2>3. Pending(q) = IF P = q THEN ToSet(old) ELSE {}
      BY <2>1, OneLive
    <2>4. Pending(q)' = IF P = q THEN ToSet(Append(old, c)) ELSE {}
      BY <1>7, <2>1 DEF Pending
    <2>5. RecordsOf(q)' = RecordsOf(q)
      BY <1>1 DEF RecordsOf
    <2> HIDE DEF old, c, P
    <2>6. RecordsOf(q)' \cup Pending(q)' = accepted'[q]
      <3>1. CASE q = P
        <4>1. Pending(q)' = Pending(q) \cup {c}
          BY <1>18, <2>3, <2>4, <3>1
        <4>2. accepted'[q] = accepted[q] \cup {c}
          BY <1>10, <3>1
        <4> QED BY <2>2, <2>5, <4>1, <4>2
      <3>2. CASE q # P
        BY <1>10, <2>2, <2>3, <2>4, <2>5, <3>2
      <3> QED BY <3>1, <3>2
    <2> QED BY <1>1, <2>2, <2>6
  <1>20. PendingIsNewer'
    <2> SUFFICES ASSUME ~clashed'
                 PROVE  /\ \A x, y \in DOMAIN Append(old, c) : x < y => Append(old, c)[x] < Append(old, c)[y]
                        /\ \A r \in RecordsOf(P)', x \in DOMAIN Append(old, c) : r < Append(old, c)[x]
      BY <1>1, <1>7, <1>16 DEF PendingIsNewer
    <2>1. ~clashed /\ Live = {h}
      BY <1>1, <1>16
    <2>2. /\ \A x, y \in DOMAIN old : x < y => old[x] < old[y]
          /\ \A r \in RecordsOf(P), x \in DOMAIN old : r < old[x]
      BY <1>1, <2>1 DEF LifeInv, PendingIsNewer
    <2>3. RecordsOf(P)' = RecordsOf(P)
      BY <1>1, <1>4 DEF RecordsOf
    <2>4. accepted[P] \subseteq 1..clock
      BY <1>4 DEF LifeInv, AcceptedTimes
    <2>5. RecordsOf(P) \cup ToSet(old) = accepted[P]
      BY <1>4, <2>1, OneLive DEF LifeInv, NothingLost
    <2>6. \A r \in RecordsOf(P) : r < c
      BY <1>3, <2>4, <2>5
    <2>7. \A x \in DOMAIN old : old[x] < c
      <3>1. \A x \in DOMAIN old : old[x] \in ToSet(old)
        BY DEF ToSet
      <3> QED BY <1>3, <2>4, <2>5, <3>1
    <2> HIDE DEF old, c, P
    <2>8. ASSUME NEW x \in DOMAIN Append(old, c), NEW y \in DOMAIN Append(old, c), x < y
          PROVE  Append(old, c)[x] < Append(old, c)[y]
      <3>1. x \in DOMAIN old
        BY <1>17, <2>8
      <3>2. CASE y \in DOMAIN old
        BY <1>17, <2>2, <2>8, <3>1, <3>2
      <3>3. CASE y \notin DOMAIN old
        <4>1. y = Len(old) + 1
          BY <1>17, <3>3
        <4> QED BY <1>17, <2>7, <3>1, <4>1
      <3> QED BY <3>2, <3>3
    <2>9. ASSUME NEW r \in RecordsOf(P), NEW x \in DOMAIN Append(old, c)
          PROVE  r < Append(old, c)[x]
      <3>1. x \in DOMAIN old \/ x = Len(old) + 1
        BY <1>17
      <3> QED BY <1>17, <2>2, <2>6, <3>1
    <2> QED BY <2>3, <2>8, <2>9
  <1> QED BY <1>12, <1>13, <1>14, <1>15, <1>19, <1>20 DEF LifeInv

\* The writer moves the oldest record that waits to the pages.
LEMMA WriteRecordKeeps ==
    ASSUME LifeInv, NEW h \in Handles, WriteRecord(h)
    PROVE  LifeInv'
  <1>1. TypeOK /\ h \in Live /\ storages[h].pend # <<>> /\ status = "runs" /\ UNCHANGED <<clashed, accepted, clock>>
    BY DEF LifeInv, WriteRecord
  <1>2. AcceptedTimes'
    BY <1>1 DEF LifeInv, AcceptedTimes
  <1>3. CASE m_instance = None
    <2>1. status' = "null" /\ UNCHANGED <<m_instance, dirs, storages>>
      BY <1>3 DEF WriteRecord
    <2>2. clashed
      BY <1>1, <1>3 DEF LifeInv, OwnManager
    <2>3. TypeOK'
      BY <1>1, <2>1 DEF TypeOK
    <2> QED BY <1>1, <1>2, <1>3, <2>1, <2>2, <2>3
            DEF LifeInv, ManagerPlace, OwnManager, NothingLost, PagesSound, WritesLast, PendingIsNewer
  <1>4. CASE m_instance # None
    <2> DEFINE p == m_instance.m_path
    <2> DEFINE old == storages[h].pend
    <2> DEFINE r == Head(old)
    <2>1. /\ p \in Paths /\ r \in Nat
          /\ dirs' \in Directories /\ dirs'[p] # None /\ (\A q \in Paths \ {p} : dirs'[q] = dirs[q])
          /\ m_instance' \in Managers /\ m_instance' # None /\ m_instance'.m_path = p
          /\ m_instance'.m_curpage \in DOMAIN dirs'[p]
          /\ dirs[p][m_instance.m_curpage].isOpen => dirs'[p][m_instance'.m_curpage].isOpen
          /\ m_instance.m_curpage = Len(dirs[p]) => m_instance'.m_curpage = Len(dirs'[p])
      BY <1>4, WriteFacts
    <2>2. \/ /\ status' = "overrun" /\ storages' = storages
             /\ RecordsOn(dirs'[p]) = RecordsOn(dirs[p])
             /\ InOrder(dirs[p]) => InOrder(dirs'[p])
          \/ /\ status' = status /\ storages' = [storages EXCEPT ![h].pend = Tail(@)]
             /\ RecordsOn(dirs'[p]) = RecordsOn(dirs[p]) \cup {r}
             /\ m_instance.m_curpage = Len(dirs[p]) /\ InOrder(dirs[p]) /\ (\A t \in RecordsOn(dirs[p]) : t < r)
                   => InOrder(dirs'[p])
             /\ m_instance.m_curpage = Len(dirs[p]) /\ Sound(dirs[p]) => Sound(dirs'[p])
      BY <1>4, WriteFacts
    <2>3. storages[h] \in StorageObjects /\ old \in Seq(Nat) /\ old # <<>> /\ storages[h].m_path \in Paths
      BY <1>1 DEF TypeOK, Live, StorageObjects
    <2>4. /\ Tail(old) \in Seq(Nat)
          /\ ToSet(old) = {r} \cup ToSet(Tail(old))
          /\ \A x \in DOMAIN Tail(old) : x \in Nat /\ x + 1 \in DOMAIN old /\ Tail(old)[x] = old[x + 1]
          /\ 1 \in DOMAIN old /\ r = old[1]
      BY <2>3, TailFacts
    <2>5. ASSUME ~clashed
          PROVE  /\ Live = {h} /\ storages[h].m_path = p /\ dirs[p] # None /\ m_instance.m_curpage = Len(dirs[p])
                 /\ InOrder(dirs[p]) /\ Sound(dirs[p]) /\ dirs[p][m_instance.m_curpage].isOpen
                 /\ \A x, y \in DOMAIN old : x < y => old[x] < old[y]
                 /\ \A t \in RecordsOn(dirs[p]), x \in DOMAIN old : t < old[x]
                 /\ \A q \in Paths : RecordsOf(q) \cup Pending(q) = accepted[q] /\ (dirs[q] # None => InOrder(dirs[q]))
      <3>1. Live = {h} /\ storages[h].m_path = p /\ dirs[p][m_instance.m_curpage].isOpen
        BY <1>1, <2>5 DEF LifeInv, OwnManager
      <3>2. dirs[p] # None /\ m_instance.m_curpage = Len(dirs[p]) /\ Sound(dirs[p])
        BY <1>1, <1>4, <2>1, <2>5 DEF LifeInv, ManagerPlace, WritesLast, PagesSound
      <3>3. \A q \in Paths : RecordsOf(q) \cup Pending(q) = accepted[q] /\ (dirs[q] # None => InOrder(dirs[q]))
        BY <2>5 DEF LifeInv, NothingLost
      <3>4. /\ \A x, y \in DOMAIN old : x < y => old[x] < old[y]
            /\ \A t \in RecordsOf(p), x \in DOMAIN old : t < old[x]
        BY <1>1, <2>5, <3>1 DEF LifeInv, PendingIsNewer
      <3> QED BY <2>1, <3>1, <3>2, <3>3, <3>4 DEF RecordsOf
    <2> HIDE DEF r
    <2>6. \A q \in Paths : dirs'[q] = None <=> (q # p /\ dirs[q] = None)
      BY <2>1
    <2>7. ManagerPlace' /\ WritesLast'
      <3>1. ManagerPlace'
        BY <2>1 DEF ManagerPlace
      <3>2. WritesLast'
        BY <1>1, <2>1, <2>5 DEF WritesLast
      <3> QED BY <3>1, <3>2
    <2>8. \A q \in Paths \ {p} : RecordsOf(q)' = RecordsOf(q)
      BY <2>1 DEF RecordsOf
    <2>9. \A q \in Paths : q = p => RecordsOf(q)' = RecordsOn(dirs'[p])
      BY <2>1 DEF RecordsOf
    <2>10. CASE /\ status' = "overrun" /\ storages' = storages
                /\ RecordsOn(dirs'[p]) = RecordsOn(dirs[p])
                /\ InOrder(dirs[p]) => InOrder(dirs'[p])
      <3>1. TypeOK' /\ PagesSound' /\ Live' = Live
        BY <1>1, <2>1, <2>10 DEF TypeOK, Directories, PagesSound, Live
      <3>2. OwnManager'
        <4>1. m_instance'.m_curpage # 0
          BY <2>1 DEF Directories
        <4> QED BY <1>1, <2>1, <2>5, <2>10, <3>1, <4>1 DEF OwnManager
      <3>3. \A q \in Paths : Pending(q)' = Pending(q)
        BY <2>10, <3>1 DEF Pending
      <3>4. ~clashed => \A q \in Paths : RecordsOf(q)' = RecordsOf(q)
        BY <2>5, <2>8, <2>9, <2>10 DEF RecordsOf
      <3>5. NothingLost'
        <4> SUFFICES ASSUME ~clashed', NEW q \in Paths
                     PROVE  /\ (RecordsOf(q) \cup Pending(q) = accepted[q])'
                            /\ dirs'[q] # None => InOrder(dirs'[q])
          BY DEF NothingLost
        <4>1. RecordsOf(q)' = RecordsOf(q) /\ (dirs'[q] # None => InOrder(dirs'[q]))
          BY <1>1, <2>1, <2>5, <2>6, <2>10, <3>4
        <4> QED BY <1>1, <2>5, <3>3, <4>1
      <3>6. PendingIsNewer'
        BY <1>1, <2>1, <2>5, <2>10, <3>1 DEF PendingIsNewer, RecordsOf
      <3> QED BY <1>2, <2>7, <3>1, <3>2, <3>5, <3>6 DEF LifeInv
    <2>11. CASE /\ status' = status /\ storages' = [storages EXCEPT ![h].pend = Tail(@)]
                /\ RecordsOn(dirs'[p]) = RecordsOn(dirs[p]) \cup {r}
                /\ m_instance.m_curpage = Len(dirs[p]) /\ InOrder(dirs[p]) /\ (\A t \in RecordsOn(dirs[p]) : t < r)
                      => InOrder(dirs'[p])
                /\ m_instance.m_curpage = Len(dirs[p]) /\ Sound(dirs[p]) => Sound(dirs'[p])
      <3>1. storages'[h] = [storages[h] EXCEPT !.pend = Tail(old)] /\ (\A g \in Handles \ {h} : storages'[g] = storages[g])
            /\ storages' \in [Handles -> StorageObjects \cup {None}]
        BY <1>1, <2>3, <2>4, <2>11 DEF TypeOK, StorageObjects
      <3>2. storages'[h] \in StorageObjects /\ storages'[h].m_path = storages[h].m_path /\ storages'[h].pend = Tail(old)
        BY <2>3, <2>4, <3>1 DEF StorageObjects
      <3>3. Live' = Live
        BY <1>1, <3>1, <3>2, LifecycleAssumption DEF Live
      <3>4. TypeOK'
        BY <1>1, <2>1, <2>11, <3>1 DEF TypeOK, Directories
      <3>5. OwnManager'
        <4>1. m_instance'.m_curpage # 0
          BY <2>1 DEF Directories
        <4> QED BY <1>1, <2>1, <2>5, <3>2, <3>3, <4>1 DEF OwnManager
      <3>6. PagesSound'
        <4>1. ~clashed => \A q \in Paths : dirs[q] # None => Sound(dirs[q])
          BY <1>1 DEF LifeInv, PagesSound
        <4> QED BY <1>1, <2>1, <2>5, <2>6, <2>11, <4>1 DEF PagesSound
      <3>7. ASSUME ~clashed, NEW q \in Paths
            PROVE  /\ Pending(q) = IF p = q THEN ToSet(old) ELSE {}
                   /\ Pending(q)' = IF p = q THEN ToSet(Tail(old)) ELSE {}
                   /\ p = q => RecordsOf(q)' = RecordsOf(q) \cup {r}
        <4>1. Live = {h} /\ Live' = {h} /\ storages[h].m_path = p /\ storages'[h].m_path = p /\ dirs[p] # None
          BY <2>5, <3>2, <3>3, <3>7
        <4>2. Pending(q) = IF p = q THEN ToSet(old) ELSE {}
          BY <4>1, OneLive
        <4>3. Pending(q)' = IF p = q THEN ToSet(Tail(old)) ELSE {}
          BY <3>2, <4>1 DEF Pending
        <4>4. p = q => RecordsOf(q)' = RecordsOf(q) \cup {r}
          BY <2>9, <2>11, <4>1 DEF RecordsOf
        <4> QED BY <4>2, <4>3, <4>4
      <3>8. NothingLost'
        <4> SUFFICES ASSUME ~clashed', NEW q \in Paths
                     PROVE  /\ (RecordsOf(q) \cup Pending(q) = accepted[q])'
                            /\ dirs'[q] # None => InOrder(dirs'[q])
          BY DEF NothingLost
        <4>1. ~clashed /\ RecordsOf(q) \cup Pending(q) = accepted[q] /\ (dirs[q] # None => InOrder(dirs[q]))
          BY <1>1, <2>5
        <4>2. RecordsOf(q)' \cup Pending(q)' = accepted[q]
          BY <2>4, <2>8, <3>7, <4>1
        <4>3. InOrder(dirs'[p])
          BY <2>4, <2>5, <2>11, <4>1
        <4> QED BY <1>1, <2>1, <4>1, <4>2, <4>3
      <3>9. PendingIsNewer'
        <4> SUFFICES ASSUME ~clashed
                     PROVE  /\ \A x, y \in DOMAIN Tail(old) : x < y => Tail(old)[x] < Tail(old)[y]
                            /\ \A t \in RecordsOn(dirs'[p]), x \in DOMAIN Tail(old) : t < Tail(old)[x]
          <5>1. ~clashed => Live' = {h} /\ storages'[h].m_path = p /\ storages'[h].pend = Tail(old)
            BY <2>5, <3>2, <3>3
          <5>2. ~clashed => RecordsOf(storages[h].m_path)' = RecordsOn(dirs'[p])
            BY <2>1, <5>1 DEF RecordsOf
          <5> HIDE DEF old, p
          <5> QED BY <1>1, <5>1, <5>2 DEF PendingIsNewer
        <4> HIDE DEF old, p
        <4>1. \A x, y \in DOMAIN Tail(old) : x < y => Tail(old)[x] < Tail(old)[y]
          BY <2>4, <2>5
        <4>2. \A x \in DOMAIN Tail(old) : r < Tail(old)[x]
          BY <2>4, <2>5
        <4>3. \A t \in RecordsOn(dirs[p]), x \in DOMAIN Tail(old) : t < Tail(old)[x]
          BY <2>4, <2>5
        <4> QED BY <2>11, <4>1, <4>2, <4>3
      <3> QED BY <1>2, <2>7, <3>4, <3>5, <3>6, <3>8, <3>9 DEF LifeInv
    <2> QED BY <2>2, <2>10, <2>11
  <1> QED BY <1>3, <1>4

-----------------------------------------------------------------------------
(* The end of the process *)

\* What waits is lost with the process, and was not on a page.
LEMMA DiesKeeps ==
    ASSUME LifeInv, Dies
    PROVE  LifeInv'
  <1>1. /\ m_instance' = None /\ storages' = [h \in Handles |-> None]
        /\ accepted' = [p \in Paths |-> accepted[p] \ Pending(p)]
        /\ UNCHANGED <<dirs, status, clashed, clock>>
    BY DEF Dies, Pending
  <1>2. TypeOK /\ AcceptedTimes
    BY DEF LifeInv
  <1>3. Live' = {}
    BY <1>1 DEF Live
  <1>4. TypeOK' /\ AcceptedTimes'
    <2>1. TypeOK'
      BY <1>1, <1>2 DEF TypeOK
    <2>2. AcceptedTimes'
      BY <1>1, <1>2 DEF AcceptedTimes
    <2> QED BY <2>1, <2>2
  <1>5. ManagerPlace' /\ WritesLast' /\ OwnManager' /\ PendingIsNewer'
    BY <1>1, <1>3 DEF ManagerPlace, WritesLast, OwnManager, PendingIsNewer
  <1>6. PagesSound'
    BY <1>1 DEF LifeInv, PagesSound
  <1>7. NothingLost'
    <2> SUFFICES ASSUME ~clashed', NEW q \in Paths
                 PROVE  /\ (RecordsOf(q) \cup Pending(q) = accepted[q])'
                        /\ dirs'[q] # None => InOrder(dirs'[q])
      BY DEF NothingLost
    <2>1. /\ RecordsOf(q) \cup Pending(q) = accepted[q]
          /\ dirs[q] # None => InOrder(dirs[q])
      BY <1>1 DEF LifeInv, NothingLost
    <2>2. RecordsOf(q) \cap Pending(q) = {}
      <3> SUFFICES ASSUME NEW t \in RecordsOf(q), t \in Pending(q)
                   PROVE  FALSE
        OBVIOUS
      <3>1. PICK h \in Live : storages[h].m_path = q /\ t \in ToSet(storages[h].pend)
        BY DEF Pending, Live
      <3>2. PICK x \in DOMAIN storages[h].pend : t = storages[h].pend[x]
        BY <3>1 DEF ToSet
      <3>3. t < t
        BY <1>1, <3>1, <3>2 DEF LifeInv, PendingIsNewer
      <3>4. t \in Nat
        BY <1>2, <2>1 DEF TypeOK
      <3> QED BY <3>3, <3>4
    <2>3. RecordsOf(q)' = RecordsOf(q) /\ Pending(q)' = {} /\ accepted'[q] = accepted[q] \ Pending(q)
      BY <1>1, <1>3 DEF RecordsOf, Pending
    <2>4. RecordsOf(q)' \cup Pending(q)' = accepted'[q]
      BY <2>1, <2>2, <2>3
    <2> QED BY <1>1, <2>1, <2>4
  <1> QED BY <1>4, <1>5, <1>6, <1>7 DEF LifeInv

-----------------------------------------------------------------------------
(* The theorems *)

\* A process without storages.
LEMMA InitHolds ==
    ASSUME Init
    PROVE  LifeInv
  <1> USE DEF Init
  <1>1. Live = {}
    BY DEF Live
  <1>2. \A p \in Paths : RecordsOf(p) = {} /\ Pending(p) = {}
    BY <1>1 DEF RecordsOf, Pending
  <1>3. TypeOK
    <2>1. dirs \in [Paths -> Seq(PageRecords) \cup {None}] /\ storages \in [Handles -> StorageObjects \cup {None}]
      OBVIOUS
    <2>2. accepted \in [Paths -> SUBSET Nat]
      OBVIOUS
    <2>3. clock \in 0..MaxRecords
      BY LifecycleAssumption
    <2> QED BY <2>1, <2>2, <2>3 DEF TypeOK
  <1>4. ManagerPlace /\ AcceptedTimes /\ WritesLast /\ PagesSound
    BY DEF ManagerPlace, AcceptedTimes, WritesLast, PagesSound
  <1>5. OwnManager /\ PendingIsNewer
    BY <1>1 DEF OwnManager, PendingIsNewer
  <1>6. NothingLost
    BY <1>2 DEF NothingLost
  <1> QED BY <1>3, <1>4, <1>5, <1>6 DEF LifeInv

\* A step that changes nothing.
LEMMA StutterKeeps ==
    ASSUME LifeInv, UNCHANGED vars
    PROVE  LifeInv'
  <1> USE DEF vars
  <1>1. TypeOK' /\ ManagerPlace' /\ AcceptedTimes'
    BY DEF LifeInv, TypeOK, ManagerPlace, AcceptedTimes
  <1>2. Live' = Live
    BY DEF Live
  <1>3. OwnManager' /\ PagesSound' /\ WritesLast'
    BY <1>2 DEF LifeInv, OwnManager, PagesSound, WritesLast
  <1>4. NothingLost'
    BY <1>2 DEF LifeInv, NothingLost, RecordsOf, Pending
  <1>5. PendingIsNewer'
    BY <1>2 DEF LifeInv, PendingIsNewer, RecordsOf
  <1> QED BY <1>1, <1>3, <1>4, <1>5 DEF LifeInv

\* LifeInv is an invariant: over Create, Open, the destructor, their
\* exceptions, appends, rolls and ends of the process.
THEOREM LifeInvariant == Spec => []LifeInv
  <1>1. Init => LifeInv
    BY InitHolds
  <1>2. LifeInv /\ [Next]_vars => LifeInv'
    <2> SUFFICES ASSUME LifeInv, [Next]_vars
                 PROVE  LifeInv'
      OBVIOUS
    <2>1. ASSUME NEW h \in Handles, NEW p \in Paths,
                 CreateUnremovable(h, p) \/ Create(h, p) \/ OpenMissing(h, p) \/ Open(h, p)
          PROVE  LifeInv'
      BY <2>1, CreateUnremovableKeeps, CreateKeeps, OpenMissingKeeps, OpenKeeps
    <2>2. ASSUME NEW h \in Handles, AppendTo(h) \/ WriteRecord(h) \/ Release(h)
          PROVE  LifeInv'
      BY <2>2, AppendToKeeps, WriteRecordKeeps, ReleaseKeeps
    <2>3. CASE Dies
      BY <2>3, DiesKeeps
    <2>4. CASE UNCHANGED vars
      BY <2>4, StutterKeeps
    <2> QED BY <2>1, <2>2, <2>3, <2>4 DEF Next
  <1> QED BY <1>1, <1>2, PTL DEF Spec

\* OwnManager, for every number of handles and directories: until Create or
\* Open throws beside it, a live storage writes to its own directory.
THEOREM StorageOwnsManager == Spec => []OwnManager
  <1>1. LifeInv => OwnManager
    BY DEF LifeInv
  <1> QED BY <1>1, LifeInvariant, PTL

\* NothingLost, for every page size and number of appends: the pages of a
\* directory hold each accepted record once and in the order of time.
THEOREM AcceptedIsKept == Spec => []NothingLost
  <1>1. LifeInv => NothingLost
    BY DEF LifeInv
  <1> QED BY <1>1, LifeInvariant, PTL

\* Close() leaves the records.
LEMMA CloseLeavesRecords ==
    ASSUME NEW ds \in Directories, NEW pm \in Managers \cup {None},
           pm # None => ds[pm.m_path] # None,
           TypeOK, Close(ds, pm), NEW p \in Paths, ds[p] = dirs[p]
    PROVE  RecordsOf(p)' = RecordsOf(p)
  <1>1. SameDirs(dirs', ds)
    BY CloseFacts
  <1>2. (dirs'[p] = None <=> dirs[p] = None) /\ (dirs[p] # None => RecordsOn(dirs'[p]) = RecordsOn(dirs[p]))
    BY <1>1, SameFacts DEF SameDirs
  <1> QED BY <1>2 DEF RecordsOf

\* RecordsStay: no step but Create takes a record from the pages of a
\* directory, whether or not storages have disturbed each other.
THEOREM OnlyCreateRemoves == Spec => RecordsStay
  <1>1. LifeInv /\ [Next]_vars =>
          [\A p \in Paths :
             \/ \E h \in Handles : Create(h, p)
             \/ RecordsOf(p) \subseteq RecordsOf(p)']_vars
    <2> DEFINE Kept(p) == (\E h \in Handles : Create(h, p)) \/ RecordsOf(p) \subseteq RecordsOf(p)'
    <2> SUFFICES ASSUME LifeInv, Next, NEW p \in Paths
                 PROVE  Kept(p)
      OBVIOUS
    <2>1. TypeOK /\ dirs \in Directories /\ m_instance \in Managers \cup {None}
          /\ (m_instance # None => dirs[m_instance.m_path] # None)
      BY DEF LifeInv, TypeOK, Directories, ManagerPlace
    <2>2. dirs' = dirs => RecordsOf(p)' = RecordsOf(p)
      BY DEF RecordsOf
    <2>3. ASSUME Close(dirs, m_instance) PROVE Kept(p)
      BY <2>1, <2>3, CloseLeavesRecords
    <2>4. ASSUME NEW h \in Handles, NEW q \in Paths, Create(h, q)
          PROVE  Kept(p)
      <3>1. CASE p = q
        BY <2>4, <3>1
      <3>2. CASE p # q /\ m_instance = None
        <4>1. PICK new : dirs' = [dirs EXCEPT ![q] = new]
          BY <2>4, <3>2 DEF Create
        <4>2. dirs'[p] = dirs[p]
          BY <2>1, <3>2, <4>1 DEF Directories
        <4> QED BY <4>2 DEF RecordsOf
      <3>3. CASE p # q /\ m_instance # None
        <4> DEFINE ds == [dirs EXCEPT ![q] = <<>>]
        <4>1. Close(ds, m_instance)
          BY <2>4, <3>3 DEF Create, Throw
        <4>2. ds \in Directories /\ ds[p] = dirs[p] /\ (\A r \in Paths : r # q => ds[r] = dirs[r]) /\ ds[q] = <<>>
          BY <2>1, <3>3, NoPages DEF Directories
        <4>3. ds[m_instance.m_path] # None
          BY <2>1, <3>3, <4>2, NoPages, LifecycleAssumption DEF Managers
        <4> HIDE DEF ds
        <4> QED BY <2>1, <4>1, <4>2, <4>3, CloseLeavesRecords
      <3> QED BY <3>1, <3>2, <3>3
    <2>5. ASSUME NEW h \in Handles, NEW q \in Paths, CreateUnremovable(h, q) \/ OpenMissing(h, q)
          PROVE  Kept(p)
      BY <2>3, <2>5 DEF CreateUnremovable, OpenMissing, Throw
    <2>6. ASSUME NEW h \in Handles, NEW q \in Paths, Open(h, q)
          PROVE  Kept(p)
      <3> DEFINE started == [m_path |-> q, m_curpage |-> 0, default_page_size |-> 0]
      <3>1. dirs[q] # None /\ started \in Managers /\ started.m_path = q
        BY <2>6 DEF Open, Managers
      <3>2. CASE Throw(dirs, m_instance)
        BY <2>3, <3>2 DEF Throw
      <3>3. CASE Throw(dirs, started)
        BY <2>1, <3>1, <3>3, CloseLeavesRecords DEF Throw
      <3>4. ASSUME NEW i \in OldesPages(dirs[q]), Opened(h, q, i)
            PROVE  Kept(p)
        <4> DEFINE new == [dirs[q] EXCEPT ![i].isOpen = TRUE]
        <4>1. dirs' = [dirs EXCEPT ![q] = new]
          BY <3>4 DEF Opened
        <4>2. dirs[q] \in Seq(PageRecords) /\ i \in Nat
          BY <2>1, <3>1, <3>4 DEF Directories, OldesPages
        <4>3. new \in Seq(PageRecords) /\ SameRecords(new, dirs[q])
          BY <4>2, FlagFacts
        <4> HIDE DEF new
        <4>4. RecordsOn(new) = RecordsOn(dirs[q]) /\ new # None
          BY <4>3, SameFacts, LifecycleAssumption
        <4>5. dirs'[p] = IF p = q THEN new ELSE dirs[p]
          BY <2>1, <4>1 DEF Directories
        <4> QED BY <3>1, <4>4, <4>5 DEF RecordsOf
      <3> QED BY <2>6, <3>2, <3>3, <3>4 DEF Open
    <2>7. ASSUME NEW h \in Handles, WriteRecord(h)
          PROVE  Kept(p)
      <3>1. CASE m_instance = None
        BY <2>2, <2>7, <3>1 DEF WriteRecord
      <3>2. CASE m_instance # None
        <4> DEFINE q == m_instance.m_path
        <4>1. /\ \A x \in Paths \ {q} : dirs'[x] = dirs[x]
              /\ dirs'[q] # None /\ RecordsOn(dirs[q]) \subseteq RecordsOn(dirs'[q])
          BY <2>7, <3>2, WriteFacts
        <4> HIDE DEF q
        <4> QED BY <4>1 DEF RecordsOf
      <3> QED BY <3>1, <3>2
    <2>8. ASSUME NEW h \in Handles, Release(h)
          PROVE  Kept(p)
      BY <2>3, <2>8 DEF Release
    <2>9. ASSUME NEW h \in Handles, AppendTo(h)
          PROVE  Kept(p)
      BY <2>2, <2>9 DEF AppendTo
    <2>10. CASE Dies
      BY <2>2, <2>10 DEF Dies
    <2> QED BY <2>4, <2>5, <2>6, <2>7, <2>8, <2>9, <2>10 DEF Next
  <1> QED BY <1>1, LifeInvariant, PTL DEF Spec, RecordsStay
==============================================================================
