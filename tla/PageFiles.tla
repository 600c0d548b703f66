------------------------------ MODULE PageFiles ------------------------------
(***************************************************************************)
(* The files of one database directory (libnkvdb/page.cpp,                 *)
(* libnkvdb/page_manager.cpp): the mapped headers with their flags isOpen  *)
(* and ReadersCount, the records, and the .pagew files with the write      *)
(* windows, used by the writer of a Storage, by readers that open pages on *)
(* their own, and across Close, Open and crashes of the process.           *)
(*                                                                         *)
(* A mapped file survives the process: a crash loses the handles and       *)
(* everything in memory, and keeps headers, records and .pagew as they     *)
(* are.  A write window holds the latest value of every id; here it is the *)
(* time of that value, 0 where there is none (as in the code, which skips  *)
(* entries of time 0).                                                     *)
(***************************************************************************)
EXTENDS Naturals, Sequences, SequencesExt

CONSTANTS
    Pages,      \* file names getNewPageUniqueName may give
    Ids,        \* Meas::id
    MaxTime,    \* bound: times are 1..MaxTime
    PageCap,    \* records of a page of default_page_size
    Readers,    \* PageReader objects
    MaxCrashes, \* bound: deaths of the process
    NoPage

ASSUME FilesAssumption ==
    /\ NoPage \notin Pages
    /\ MaxTime \in Nat
    /\ PageCap \in Nat \ {0}
    /\ MaxCrashes \in Nat

Times == 0..MaxTime
Windows == [Ids -> Times]
NoWindow == [i \in Ids |-> 0]

VARIABLES
    m_page_list,        \* the pages of the directory, oldest first
    isOpen,             \* header
    ReadersCount,       \* header
    maxTime,            \* header: 0 for a page without records
    recs,               \* the records of a page: [id, time]
    pagew,              \* the .pagew file of a page
    m_curpage,          \* PageManager: the page being written
    m_writewindow,      \* the window of m_curpage
    sized,              \* default_page_size is set
    wstep,              \* where AsyncWriter::call is
    rpage, rwindow,     \* the page and the window of each reader
    running,            \* a Storage exists
    readers,            \* history: how reading went with writing
    crashes             \* history: how often the process has died

headerVars == <<isOpen, ReadersCount, maxTime>>
fileVars == <<m_page_list, recs, pagew>>
writerVars == <<m_curpage, m_writewindow, sized, wstep>>
readerVars == <<rpage, rwindow>>
history == <<readers, crashes>>
vars == <<headerVars, fileVars, writerVars, readerVars, running, history>>

Existing == Range(m_page_list)

TypeOK ==
    /\ m_page_list \in Seq(Pages)
    /\ isOpen \in [Pages -> BOOLEAN]
    /\ ReadersCount \in [Pages -> Nat]
    /\ maxTime \in [Pages -> Times]
    /\ recs \in [Pages -> Seq([id : Ids, time : 1..MaxTime])]
    /\ pagew \in [Pages -> Windows]
    /\ m_curpage \in Pages \cup {NoPage}
    /\ m_writewindow \in Windows
    /\ sized \in BOOLEAN
    /\ wstep \in {"idle", "append", "appended", "create", "created"}
    /\ rpage \in [Readers -> Pages \cup {NoPage}]
    /\ rwindow \in [Readers -> Windows]
    /\ running \in BOOLEAN
    /\ readers \in {"none", "turns", "mixed"}
    /\ crashes \in 0..MaxCrashes

\* Storage::Create has made the first page.
Init ==
    /\ \E p \in Pages :
          /\ m_page_list = <<p>>
          /\ m_curpage = p
          /\ isOpen = [q \in Pages |-> q = p]
    /\ ReadersCount = [p \in Pages |-> 0]
    /\ maxTime = [p \in Pages |-> 0]
    /\ recs = [p \in Pages |-> <<>>]
    /\ pagew = [p \in Pages |-> NoWindow]
    /\ m_writewindow = NoWindow
    /\ sized = TRUE
    /\ wstep = "idle"
    /\ rpage = [r \in Readers |-> NoPage]
    /\ rwindow = [r \in Readers |-> NoWindow]
    /\ running = TRUE
    /\ readers = "none"
    /\ crashes = 0

-----------------------------------------------------------------------------
(* Page *)

isFull(p) == Len(recs[p]) >= PageCap

\* updateWriteWindow: a newer value replaces an older one.
updateWriteWindow(w, m) ==
    IF w[m.id] < m.time THEN [w EXCEPT ![m.id] = m.time] ELSE w

\* flushWriteWindow: rewrites .pagew unless the window is empty.
flushWriteWindow(p, w) ==
    pagew' = IF w = NoWindow THEN pagew ELSE [pagew EXCEPT ![p] = w]

\* close(): the window is flushed, the flags are cleared, whoever else uses
\* the page.
close(p, w) ==
    /\ flushWriteWindow(p, w)
    /\ isOpen' = [isOpen EXCEPT ![p] = FALSE]
    /\ ReadersCount' = [ReadersCount EXCEPT ![p] = 0]
    /\ UNCHANGED maxTime

\* Users take turns when they drop their readers before they append or close,
\* and open them while the writer is idle, as readInterval() does.
ReadersGone == \A r \in Readers : rpage[r] = NoPage
Write == readers' = (IF ReadersGone THEN readers ELSE "mixed") /\ UNCHANGED crashes
Read == readers' = (IF wstep = "idle" /\ readers # "mixed" THEN "turns" ELSE "mixed") /\ UNCHANGED crashes

-----------------------------------------------------------------------------
(* The writer: AsyncWriter::call and PageManager *)

\* The times of the records of a page.
TimesOf(p) == {recs[p][i].time : i \in DOMAIN recs[p]}

\* One record of Page::append(begin, size) to a page that is not full: the
\* window, then the record.  Times increase: what is appended is newer than
\* all there is.
PageAppend(m) ==
    /\ running
    /\ wstep \in {"idle", "append", "created"}
    /\ ~isFull(m_curpage)
    /\ \A p \in Existing : \A t \in TimesOf(p) : t < m.time
    /\ recs' = [recs EXCEPT ![m_curpage] = Append(@, m)]
    /\ m_writewindow' = updateWriteWindow(m_writewindow, m)
    /\ wstep' = "append"
    /\ Write
    /\ UNCHANGED <<headerVars, m_page_list, pagew, m_curpage, sized, readerVars, running>>

\* The end of Page::append: only now updateMinMax() enters the last time
\* written (call() has sorted the records) in the header.
AppendEnd ==
    /\ wstep = "append"
    /\ maxTime' = [maxTime EXCEPT ![m_curpage] = Last(recs[m_curpage]).time]
    /\ wstep' = "appended"
    /\ UNCHANGED <<isOpen, ReadersCount, fileVars, m_curpage, m_writewindow, sized,
                   readerVars, running, history>>

\* Nothing is left to write: call() ends with flushWriteWindow().
EndCall ==
    /\ wstep = "appended"
    /\ flushWriteWindow(m_curpage, m_writewindow)
    /\ wstep' = "idle"
    /\ UNCHANGED <<headerVars, m_page_list, recs, m_curpage, m_writewindow, sized,
                   readerVars, running, history>>

\* Bound: a record is left to write while not all times are used.
RecordLeft == \A p \in Existing : MaxTime \notin TimesOf(p)

\* Mutant of RollClose: the full page is left without writing its window.
RollCloseUnflushed ==
    /\ running
    /\ wstep \in {"idle", "appended"}
    /\ isFull(m_curpage) /\ RecordLeft
    /\ sized
    /\ isOpen' = [isOpen EXCEPT ![m_curpage] = FALSE]
    /\ ReadersCount' = [ReadersCount EXCEPT ![m_curpage] = 0]
    /\ wstep' = "create"
    /\ Write
    /\ UNCHANGED <<maxTime, pagew, m_page_list, recs, m_curpage, m_writewindow, sized,
                   readerVars, running>>

\* createNewPage(), first half: something is left to write and the page is
\* full; it is closed.  After Open() default_page_size is 0 and Page::Create
\* has no defined result, so the model ends there.
RollClose ==
    /\ running
    /\ wstep \in {"idle", "appended"}
    /\ isFull(m_curpage) /\ RecordLeft
    /\ sized
    /\ close(m_curpage, m_writewindow)
    /\ wstep' = "create"
    /\ Write
    /\ UNCHANGED <<m_page_list, recs, m_curpage, m_writewindow, sized,
                   readerVars, running>>

\* Mutant of RollCreate: the new page starts with an empty window.
RollCreateEmpty ==
    /\ wstep = "create"
    /\ \E p \in Pages \ Existing :
          /\ m_page_list' = Append(m_page_list, p)
          /\ m_curpage' = p
          /\ isOpen' = [isOpen EXCEPT ![p] = TRUE]
    /\ m_writewindow' = NoWindow
    /\ wstep' = "created"
    /\ UNCHANGED <<ReadersCount, maxTime, recs, pagew, sized, readerVars, running, history>>

\* createNewPage(), second half: Page::Create under a new name, and
\* setWriteWindow with the window of the page before.
RollCreate ==
    /\ wstep = "create"
    /\ \E p \in Pages \ Existing :
          /\ m_page_list' = Append(m_page_list, p)
          /\ m_curpage' = p
          /\ isOpen' = [isOpen EXCEPT ![p] = TRUE]
    /\ wstep' = "created"
    /\ UNCHANGED <<ReadersCount, maxTime, recs, pagew, m_writewindow, sized, readerVars, running, history>>

-----------------------------------------------------------------------------
(* Storage::Close, Storage::Open and the end of the process *)

\* Mutant of CloseStorage: the page keeps its mark.
CloseStorageMarked ==
    /\ running
    /\ wstep = "idle"
    /\ flushWriteWindow(m_curpage, m_writewindow)
    /\ m_curpage' = NoPage
    /\ m_writewindow' = NoWindow
    /\ running' = FALSE
    /\ Write
    /\ UNCHANGED <<headerVars, m_page_list, recs, sized, wstep, readerVars>>

\* Close(): the writer has finished; closeCurrentPage, PageManager::stop.
CloseStorage ==
    /\ running
    /\ wstep = "idle"
    /\ close(m_curpage, m_writewindow)
    /\ m_curpage' = NoPage
    /\ m_writewindow' = NoWindow
    /\ running' = FALSE
    /\ Write
    /\ UNCHANGED <<m_page_list, recs, sized, wstep, readerVars>>

\* getOldesPage(): the page with the largest maxTime.  A page without
\* records resets the comparison, so beside one any page may be the result,
\* depending on the order in which the directory is listed.
OldesPages ==
    IF \E p \in Existing : maxTime[p] = 0
    THEN Existing
    ELSE {p \in Existing : \A q \in Existing : maxTime[q] <= maxTime[p]}

\* Mutant of OpenStorage: the page is not marked.
OpenStorageUnmarked ==
    /\ ~running
    /\ \E p \in OldesPages :
          /\ ~isOpen[p]
          /\ m_curpage' = p
          /\ m_writewindow' = pagew[p]
    /\ sized' = FALSE
    /\ running' = TRUE
    /\ UNCHANGED <<headerVars, fileVars, wstep, readerVars, history>>

\* Open(): the page is refused if it is marked; Open() throws then, and the
\* half-made Storage closes itself without touching a page.
OpenStorage ==
    /\ ~running
    /\ \E p \in OldesPages :
          /\ ~isOpen[p]
          /\ m_curpage' = p
          /\ isOpen' = [isOpen EXCEPT ![p] = TRUE]
          /\ m_writewindow' = pagew[p]
    /\ sized' = FALSE
    /\ running' = TRUE
    /\ UNCHANGED <<ReadersCount, maxTime, fileVars, wstep, readerVars, history>>

\* The process dies, between any two steps.
Crash ==
    /\ running
    /\ crashes < MaxCrashes
    /\ m_curpage' = NoPage
    /\ m_writewindow' = NoWindow
    /\ wstep' = "idle"
    /\ rpage' = [r \in Readers |-> NoPage]
    /\ rwindow' = [r \in Readers |-> NoWindow]
    /\ running' = FALSE
    /\ crashes' = crashes + 1
    /\ UNCHANGED <<headerVars, fileVars, sized, readers>>

-----------------------------------------------------------------------------
(* Readers: StorageReader::readNext opens a page read-only, a PageReader    *)
(* that has reached its end is destroyed                                    *)

\* Page::Open(name, true) and loadWriteWindow(), of a page with records.
ReaderOpen(r) ==
    /\ running
    /\ rpage[r] = NoPage
    /\ \E p \in Existing :
          /\ recs[p] # <<>>
          /\ rpage' = [rpage EXCEPT ![r] = p]
          /\ rwindow' = [rwindow EXCEPT ![r] = pagew[p]]
          /\ isOpen' = [isOpen EXCEPT ![p] = TRUE]
          /\ ReadersCount' = [ReadersCount EXCEPT ![p] = @ + 1]
    /\ Read
    /\ UNCHANGED <<maxTime, fileVars, writerVars, running>>

\* ~PageReader: readComplete() closes the page if the count becomes 0, and
\* ~Page closes it if it did not.
ReaderClose(r) ==
    /\ rpage[r] # NoPage
    /\ close(rpage[r], rwindow[r])
    /\ rpage' = [rpage EXCEPT ![r] = NoPage]
    /\ rwindow' = [rwindow EXCEPT ![r] = NoWindow]
    /\ UNCHANGED <<m_page_list, recs, writerVars, running, history>>

WriterStep ==
    \/ \E m \in [id : Ids, time : 1..MaxTime] : PageAppend(m)
    \/ AppendEnd \/ EndCall \/ RollClose \/ RollCreate

Next ==
    \/ WriterStep
    \/ CloseStorage \/ OpenStorage \/ Crash
    \/ \E r \in Readers : ReaderOpen(r) \/ ReaderClose(r)

Spec == Init /\ [][Next]_vars

-----------------------------------------------------------------------------
(* Properties *)

\* Page p has a record of id i and time t.
Holds(p, i, t) == \E j \in DOMAIN recs[p] : recs[p][j].id = i /\ recs[p][j].time = t

\* The times of an id on the first n pages, and 0.
Seen(n, i) == {0} \cup {t \in 1..MaxTime : \E k \in 1..n : Holds(m_page_list[k], i, t)}

\* The latest time of each id on the first n pages.
Latest(n) == [i \in Ids |-> CHOOSE t \in Seen(n, i) : \A u \in Seen(n, i) : u <= t]

\* Over all rolls, closings and reopenings the writer's window knows the
\* latest value of every id in the database, as long as writing and reading
\* take turns and no process has died: the next page inherits the window,
\* and loadCurValues() reads it from the .pagew file.
WindowIsLatest ==
    running /\ readers # "mixed" /\ crashes = 0 => m_writewindow = Latest(Len(m_page_list))

\* Nobody but the writer has touched the headers, or nothing went wrong.
Trusted == readers = "none" \/ (readers = "turns" /\ crashes = 0)

\* The mark isOpen tells whether a .pagew file can be trusted: that of a page
\* which nobody writes and which is not marked has the latest values up to
\* this page, also when the process died in the middle of anything, unless a
\* reader has cleared the writer's mark before.
UnmarkedHasLatest ==
    Trusted => \A n \in 1..Len(m_page_list) :
        LET p == m_page_list[n]
        IN p # m_curpage /\ ~isOpen[p] => pagew[p] = Latest(n)

\* After a crash Open() refuses, or continues with the latest values of all
\* ids, unless the crash left a page whose header has no times, beside which
\* getOldesPage() may return any page.
RefusedOrComplete ==
    Trusted /\ ~running /\ (\A p \in Existing : maxTime[p] # 0) =>
        \A p \in OldesPages : isOpen[p] \/ pagew[p] = Latest(Len(m_page_list))

\* A database that was closed can be opened again, whatever the readers did in
\* the meantime: once they are gone, the page that getOldesPage() returns has
\* no mark left by the writer or by one of them.
ClosedCanBeOpened ==
    ~running /\ crashes = 0 /\ ReadersGone => \A p \in OldesPages : ~isOpen[p]
=============================================================================
