--------------------------- MODULE PageFilesProofs ---------------------------
(***************************************************************************)
(* Proof that the properties of PageFiles hold for any number of pages,    *)
(* ids, times, records of a page, readers and crashes: the windows of the  *)
(* writer and of the .pagew files hold the latest values, a database that  *)
(* was closed can be opened, and after a crash it is refused or complete.  *)
(*                                                                         *)
(* The invariant speaks of what a window holds through Seen rather than    *)
(* through Latest: that Latest, a CHOOSE, has the value of a window        *)
(* follows from the window being in Seen and above all of it.              *)
(***************************************************************************)
EXTENDS PageFiles, SequenceTheorems, TLAPS

-----------------------------------------------------------------------------
(* The inductive invariant *)

\* A window holds nothing but what was written to the first n pages.
Written(w, n) == \A i \in Ids : w[i] \in Seen(n, i)

\* A window holds the latest value of every id on the first n pages.
IsLatest(w, n) == Written(w, n) /\ \A i \in Ids : \A u \in Seen(n, i) : u <= w[i]

Numbers == DOMAIN m_page_list

\* The directory: names are used once, all pages but the last one are full,
\* times ascend from page to page, and a header has a time of its page.
PageOrder ==
    /\ m_page_list # <<>>
    /\ \A n, k \in Numbers : m_page_list[n] = m_page_list[k] => n = k
    /\ \A p \in Pages \ Existing : recs[p] = <<>> /\ maxTime[p] = 0 /\ ~isOpen[p] /\ pagew[p] = NoWindow
    /\ \A n \in Numbers : n # Len(m_page_list) => isFull(m_page_list[n])
    /\ \A n, k \in Numbers : n < k =>
          \A t \in TimesOf(m_page_list[n]), u \in TimesOf(m_page_list[k]) : t < u
    /\ \A p \in Existing : maxTime[p] \in {0} \cup TimesOf(p)

\* The writer: what its place says of its page.
WriterPlace ==
    /\ running => m_curpage \in Existing
    /\ ~running => m_curpage = NoPage /\ wstep = "idle"
    /\ running /\ sized => m_curpage = Last(m_page_list)
    /\ wstep \in {"create", "created"} => sized
    /\ wstep \in {"append", "appended"} => m_curpage = Last(m_page_list) /\ recs[m_curpage] # <<>>
    /\ wstep = "create" => isFull(m_curpage)

\* The readers: while they take turns with the writer none is open during a
\* call or after Close(), and none has a window older than the file's.
ReaderPlace ==
    /\ \A r \in Readers : rpage[r] # NoPage => rpage[r] \in Existing
    /\ readers = "none" => ReadersGone
    /\ readers # "mixed" /\ (wstep # "idle" \/ ~running) => ReadersGone
    /\ readers # "mixed" => \A r \in Readers : rpage[r] # NoPage => rwindow[r] = pagew[rpage[r]]

\* Before the first crash a mark is the writer's or a reader's.
MarkedByUser ==
    crashes = 0 => \A p \in Pages : isOpen[p] =>
        \/ running /\ p = m_curpage /\ wstep # "create"
        \/ \E r \in Readers : rpage[r] = p

\* No window holds a value that is not on the pages it stands for.
NoneInvented ==
    \A n \in Numbers :
        /\ Written(pagew[m_page_list[n]], n)
        /\ m_page_list[n] = m_curpage => Written(m_writewindow, n)
        /\ \A r \in Readers : rpage[r] = m_page_list[n] => Written(rwindow[r], n)

\* Before the first crash the last page is the one that is written, and a
\* header without a time belongs to an empty page or to one in the middle of
\* append().
HeadersKnow ==
    crashes = 0 =>
        /\ running => m_curpage = Last(m_page_list)
        /\ \A p \in Existing : maxTime[p] = 0 => recs[p] = <<>> \/ (wstep = "append" /\ p = m_curpage)
        /\ \A p \in Existing : recs[p] = <<>> => wstep = "created" \/ Len(m_page_list) = 1

\* The writer's window is the latest; so is a .pagew file which nobody writes
\* and which is not marked, or which no crash has touched; and the page that
\* is written is marked as long as there are no readers.
WindowsKnow ==
    Trusted =>
        /\ \A n \in Numbers : running /\ m_page_list[n] = m_curpage => IsLatest(m_writewindow, n)
        /\ \A n \in Numbers :
              /\ m_page_list[n] # m_curpage \/ wstep = "create"
              /\ ~isOpen[m_page_list[n]] \/ crashes = 0
              => IsLatest(pagew[m_page_list[n]], n)
        /\ readers = "none" /\ running /\ wstep # "create" => isOpen[m_curpage]

FilesInv ==
    /\ TypeOK
    /\ PageOrder
    /\ WriterPlace
    /\ ReaderPlace
    /\ MarkedByUser
    /\ NoneInvented
    /\ HeadersKnow
    /\ WindowsKnow

-----------------------------------------------------------------------------
(* Facts used for several actions *)

\* The directory as a sequence.
LEMMA ListFacts ==
    ASSUME TypeOK, PageOrder
    PROVE  /\ Len(m_page_list) \in Nat \ {0}
           /\ Numbers = 1..Len(m_page_list)
           /\ Len(m_page_list) \in Numbers
           /\ \A n \in Numbers : m_page_list[n] \in Pages /\ m_page_list[n] \in Existing
           /\ \A p \in Existing : p \in Pages /\ p # NoPage /\ \E n \in Numbers : p = m_page_list[n]
           /\ Last(m_page_list) = m_page_list[Len(m_page_list)]
  BY FilesAssumption DEF TypeOK, PageOrder, Numbers, Existing, Range, Last

Records == [id : Ids, time : 1..MaxTime]

\* The last element of a sequence.
LEMMA LastFacts ==
    ASSUME NEW S, NEW s \in Seq(S), s # <<>>
    PROVE  Len(s) \in DOMAIN s /\ Last(s) = s[Len(s)] /\ Last(s) \in S
  BY DEF Last

\* What is seen depends on the records and the list of pages only.
LEMMA SameSeen ==
    ASSUME UNCHANGED <<m_page_list, recs>>
    PROVE  /\ \A n, i : Seen(n, i)' = Seen(n, i)
           /\ Numbers' = Numbers
           /\ Existing' = Existing
           /\ \A p : TimesOf(p)' = TimesOf(p)
           /\ \A p : isFull(p)' <=> isFull(p)
  BY DEF Seen, Holds, Numbers, Existing, TimesOf, isFull

\* A flush that writes a window that is written writes nothing else.
LEMMA FlushFacts ==
    ASSUME TypeOK, NEW p \in Pages, NEW w \in Windows, flushWriteWindow(p, w)
    PROVE  /\ pagew' \in [Pages -> Windows]
           /\ \A q \in Pages : q # p => pagew'[q] = pagew[q]
           /\ w # NoWindow => pagew'[p] = w
           /\ w = NoWindow => pagew' = pagew
  BY DEF TypeOK, flushWriteWindow

\* When the latest window is empty, so is every window that is written.
LEMMA EmptyIsLatest ==
    ASSUME NEW n, NEW w, Written(w, n), IsLatest(NoWindow, n)
    PROVE  IsLatest(w, n)
  BY FilesAssumption DEF Written, IsLatest, NoWindow, Seen

\* Once something has gone wrong it stays so.
LEMMA TrustIsLost ==
    ASSUME TypeOK, Write \/ Read \/ UNCHANGED history \/ (UNCHANGED readers /\ crashes' = crashes + 1)
    PROVE  /\ Trusted' => Trusted
           /\ readers' # "mixed" => readers # "mixed"
           /\ readers' = "none" => readers = "none"
           /\ crashes' = 0 => crashes = 0
  BY DEF TypeOK, Write, Read, history, Trusted

-----------------------------------------------------------------------------
(* Every action keeps the invariant *)

\* updateMinMax() at the end of append().
LEMMA AppendEndKeeps ==
    ASSUME FilesInv, AppendEnd
    PROVE  FilesInv'
  <1> USE DEF AppendEnd, fileVars, readerVars, history
  <1>1. TypeOK /\ PageOrder /\ WriterPlace
    BY DEF FilesInv
  <1>2. m_curpage \in Pages /\ m_curpage \in Existing /\ m_curpage = Last(m_page_list)
    BY <1>1, ListFacts DEF WriterPlace
  <1>3. /\ Last(recs[m_curpage]).time \in TimesOf(m_curpage)
        /\ Last(recs[m_curpage]).time \in 1..MaxTime
    <2>1. recs[m_curpage] \in Seq(Records) /\ recs[m_curpage] # <<>>
      BY <1>1, <1>2 DEF TypeOK, WriterPlace, Records
    <2>2. /\ Len(recs[m_curpage]) \in DOMAIN recs[m_curpage]
          /\ Last(recs[m_curpage]) = recs[m_curpage][Len(recs[m_curpage])]
          /\ Last(recs[m_curpage]) \in Records
      BY <2>1, LastFacts
    <2>3. Last(recs[m_curpage]).time \in TimesOf(m_curpage)
      BY <2>2 DEF TimesOf
    <2>4. Last(recs[m_curpage]).time \in 1..MaxTime
      BY <2>2 DEF Records
    <2> QED BY <2>3, <2>4
  <1>4. TypeOK'
    <2>1. Last(recs[m_curpage]).time \in Times
      BY <1>3, FilesAssumption DEF Times
    <2>2. maxTime' \in [Pages -> Times]
      BY <1>1, <2>1 DEF TypeOK
    <2> QED BY <1>1, <2>2 DEF TypeOK
  <1>5. PageOrder'
    BY <1>1, <1>2, <1>3, SameSeen DEF PageOrder, TypeOK
  <1>6. WriterPlace'
    BY <1>1, SameSeen DEF WriterPlace
  <1>7. ReaderPlace' /\ MarkedByUser'
    BY SameSeen DEF FilesInv, ReaderPlace, ReadersGone, MarkedByUser
  <1>8. NoneInvented'
    BY SameSeen DEF FilesInv, NoneInvented, Written
  <1>9. HeadersKnow'
    BY <1>1, <1>2, <1>3, SameSeen DEF FilesInv, HeadersKnow, TypeOK
  <1>10. WindowsKnow'
    BY SameSeen DEF FilesInv, WindowsKnow, Trusted, IsLatest, Written
  <1> QED BY <1>4, <1>5, <1>6, <1>7, <1>8, <1>9, <1>10 DEF FilesInv

\* The last flush of call().
LEMMA EndCallKeeps ==
    ASSUME FilesInv, EndCall
    PROVE  FilesInv'
  <1> USE DEF EndCall, headerVars, readerVars, history
  <1>1. TypeOK /\ PageOrder /\ WriterPlace
    BY DEF FilesInv
  <1>2. m_curpage \in Pages /\ m_curpage \in Existing /\ m_curpage = Last(m_page_list)
    BY <1>1, ListFacts DEF WriterPlace
  <1>3. /\ pagew' \in [Pages -> Windows]
        /\ \A q \in Pages : q # m_curpage => pagew'[q] = pagew[q]
        /\ pagew'[m_curpage] \in {m_writewindow, pagew[m_curpage]}
    BY <1>1, <1>2, FlushFacts DEF TypeOK
  <1>4. TypeOK'
    BY <1>1, <1>3 DEF TypeOK
  <1>5. PageOrder'
    BY <1>1, <1>2, <1>3, SameSeen DEF PageOrder
  <1>6. WriterPlace'
    BY <1>1, SameSeen DEF WriterPlace
  <1>7. ReaderPlace' /\ MarkedByUser'
    BY SameSeen DEF FilesInv, ReaderPlace, ReadersGone, MarkedByUser
  <1>8. NoneInvented'
    BY <1>1, <1>2, <1>3, ListFacts, SameSeen DEF FilesInv, NoneInvented, Written
  <1>9. HeadersKnow'
    BY SameSeen DEF FilesInv, HeadersKnow
  <1>10. WindowsKnow'
    BY <1>1, <1>3, ListFacts, SameSeen DEF FilesInv, WindowsKnow, Trusted, IsLatest, Written
  <1> QED BY <1>4, <1>5, <1>6, <1>7, <1>8, <1>9, <1>10 DEF FilesInv

\* createNewPage() closes the full page.
LEMMA RollCloseKeeps ==
    ASSUME FilesInv, RollClose
    PROVE  FilesInv'
  <1> USE DEF RollClose, close, readerVars
  <1>1. TypeOK /\ PageOrder /\ WriterPlace
    BY DEF FilesInv
  <1>2. m_curpage \in Pages /\ m_curpage \in Existing /\ m_curpage = Last(m_page_list)
    BY <1>1, ListFacts DEF WriterPlace
  <1>3. /\ pagew' \in [Pages -> Windows]
        /\ \A q \in Pages : q # m_curpage => pagew'[q] = pagew[q]
        /\ \/ pagew'[m_curpage] = m_writewindow
           \/ m_writewindow = NoWindow /\ pagew'[m_curpage] = pagew[m_curpage]
    BY <1>1, <1>2, FlushFacts DEF TypeOK
  <1>4. TypeOK'
    BY <1>1, <1>2, <1>3 DEF TypeOK, Write
  <1>5. PageOrder'
    BY <1>1, <1>2, <1>3, SameSeen DEF PageOrder, TypeOK
  <1>6. WriterPlace'
    BY <1>1, SameSeen DEF WriterPlace
  <1>7. ReaderPlace'
    BY SameSeen DEF FilesInv, ReaderPlace, ReadersGone, Write
  <1>8. MarkedByUser'
    BY <1>1 DEF FilesInv, MarkedByUser, Write, TypeOK
  <1>9. NoneInvented'
    BY <1>1, <1>2, <1>3, ListFacts, SameSeen DEF FilesInv, NoneInvented, Written
  <1>10. HeadersKnow'
    BY SameSeen DEF FilesInv, HeadersKnow, Write
  <1>11. WindowsKnow'
    <2>1. ASSUME Trusted, NEW n \in Numbers, m_page_list[n] = m_curpage
          PROVE  IsLatest(m_writewindow, n) /\ IsLatest(pagew'[m_curpage], n)
      BY <1>3, <2>1, EmptyIsLatest DEF FilesInv, WindowsKnow, NoneInvented
    <2>2. \A n, w : IsLatest(w, n) => \A i \in Ids : w[i] \in Seen(n, i)' /\ \A u \in Seen(n, i)' : u <= w[i]
      BY SameSeen DEF IsLatest, Written
    <2>3. ASSUME Trusted', NEW n \in Numbers, ~isOpen'[m_page_list[n]] \/ crashes' = 0
          PROVE  IsLatest(pagew'[m_page_list[n]], n)
      BY <1>1, <1>2, <1>3, <2>1, <2>3, TrustIsLost, ListFacts DEF FilesInv, WindowsKnow, TypeOK
    <2> QED BY <1>1, <2>1, <2>2, <2>3, TrustIsLost, SameSeen DEF WindowsKnow, IsLatest, Written
  <1> QED BY <1>4, <1>5, <1>6, <1>7, <1>8, <1>9, <1>10, <1>11 DEF FilesInv

\* Close(): the writer is idle, its page is closed.
LEMMA CloseStorageKeeps ==
    ASSUME FilesInv, CloseStorage
    PROVE  FilesInv'
  <1> USE DEF CloseStorage, close, readerVars
  <1>1. TypeOK /\ PageOrder /\ WriterPlace
    BY DEF FilesInv
  <1>2. m_curpage \in Pages /\ m_curpage \in Existing /\ m_curpage # NoPage
    BY <1>1, ListFacts DEF WriterPlace
  <1>3. /\ pagew' \in [Pages -> Windows]
        /\ \A q \in Pages : q # m_curpage => pagew'[q] = pagew[q]
        /\ \/ pagew'[m_curpage] = m_writewindow
           \/ m_writewindow = NoWindow /\ pagew'[m_curpage] = pagew[m_curpage]
    BY <1>1, <1>2, FlushFacts DEF TypeOK
  <1>4. TypeOK'
    <2>1. NoWindow \in Windows
      BY FilesAssumption DEF NoWindow, Windows, Times
    <2> QED BY <1>1, <1>2, <1>3, <2>1 DEF TypeOK, Write
  <1>5. PageOrder'
    BY <1>1, <1>2, <1>3, SameSeen DEF PageOrder, TypeOK
  <1>6. WriterPlace'
    BY <1>1, SameSeen DEF WriterPlace
  <1>7. ReaderPlace'
    BY SameSeen DEF FilesInv, ReaderPlace, ReadersGone, Write
  <1>8. MarkedByUser'
    BY <1>1 DEF FilesInv, MarkedByUser, Write, TypeOK
  <1>9. NoneInvented'
    <2>1. \A n \in Numbers : m_page_list[n] # NoPage /\ m_page_list[n] \in Pages
      BY <1>1, ListFacts
    <2> QED BY <1>1, <1>2, <1>3, <2>1, SameSeen DEF FilesInv, NoneInvented, Written
  <1>10. HeadersKnow'
    BY SameSeen DEF FilesInv, HeadersKnow, Write
  <1>11. WindowsKnow'
    <2>1. ASSUME Trusted, NEW n \in Numbers, m_page_list[n] = m_curpage
          PROVE  IsLatest(pagew'[m_curpage], n)
      BY <1>3, <2>1, EmptyIsLatest DEF FilesInv, WindowsKnow, NoneInvented
    <2>2. \A n, w : IsLatest(w, n) => \A i \in Ids : w[i] \in Seen(n, i)' /\ \A u \in Seen(n, i)' : u <= w[i]
      BY SameSeen DEF IsLatest, Written
    <2>3. ASSUME Trusted', NEW n \in Numbers, ~isOpen'[m_page_list[n]] \/ crashes' = 0
          PROVE  IsLatest(pagew'[m_page_list[n]], n)
      BY <1>1, <1>2, <1>3, <2>1, <2>3, TrustIsLost, ListFacts DEF FilesInv, WindowsKnow, TypeOK
    <2> QED BY <1>1, <2>1, <2>2, <2>3, TrustIsLost, SameSeen DEF WindowsKnow, IsLatest, Written
  <1> QED BY <1>4, <1>5, <1>6, <1>7, <1>8, <1>9, <1>10, <1>11 DEF FilesInv

\* Where every header has a time, getOldesPage() returns the last page.
LEMMA OldestIsLast ==
    ASSUME TypeOK, PageOrder,
           (\A p \in Existing : maxTime[p] # 0) \/ Len(m_page_list) = 1,
           NEW p \in OldesPages
    PROVE  p = Last(m_page_list)
  <1>1. PICK n \in Numbers : p = m_page_list[n]
    BY ListFacts DEF OldesPages
  <1>2. CASE Len(m_page_list) = 1
    BY <1>1, <1>2, ListFacts
  <1>3. CASE \A q \in Existing : maxTime[q] # 0
    <2> DEFINE q == m_page_list[Len(m_page_list)]
    <2>1. q \in Existing /\ q \in Pages /\ p \in Pages /\ p \in Existing
      BY <1>1, ListFacts
    <2>2. maxTime[q] \in TimesOf(q) /\ maxTime[p] \in TimesOf(p)
      BY <1>3, <2>1 DEF PageOrder
    <2>3. maxTime[q] <= maxTime[p]
      BY <1>3, <2>1 DEF OldesPages
    <2>4. maxTime[q] \in Nat /\ maxTime[p] \in Nat
      BY <2>1, FilesAssumption DEF TypeOK, Times
    <2>5. n < Len(m_page_list) => maxTime[p] < maxTime[q]
      BY <1>1, <2>2, ListFacts DEF PageOrder
    <2> QED BY <1>1, <2>3, <2>4, <2>5, ListFacts
  <1> QED BY <1>2, <1>3

\* Open() of a page that is not marked.
LEMMA OpenStorageKeeps ==
    ASSUME FilesInv, OpenStorage
    PROVE  FilesInv'
  <1> USE DEF OpenStorage, fileVars, readerVars, history
  <1>1. TypeOK /\ PageOrder /\ WriterPlace
    BY DEF FilesInv
  <1>2. PICK p \in OldesPages : /\ ~isOpen[p]
                                /\ m_curpage' = p
                                /\ isOpen' = [isOpen EXCEPT ![p] = TRUE]
                                /\ m_writewindow' = pagew[p]
    OBVIOUS
  <1>3. p \in Existing /\ p \in Pages /\ m_curpage = NoPage /\ p # NoPage /\ wstep = "idle"
    BY <1>1, <1>2, ListFacts DEF OldesPages, WriterPlace
  <1>4. TypeOK'
    BY <1>1, <1>2, <1>3 DEF TypeOK
  <1>5. PageOrder'
    BY <1>1, <1>2, <1>3, SameSeen DEF PageOrder, TypeOK
  <1>6. WriterPlace'
    BY <1>1, <1>2, <1>3, SameSeen DEF WriterPlace
  <1>7. ReaderPlace'
    BY SameSeen DEF FilesInv, ReaderPlace, ReadersGone
  <1>8. MarkedByUser'
    BY <1>1, <1>2, <1>3 DEF FilesInv, MarkedByUser, TypeOK
  <1>9. NoneInvented'
    BY <1>1, <1>2, <1>3, SameSeen DEF FilesInv, NoneInvented, Written
  <1>10. HeadersKnow'
    <2>1. crashes = 0 => p = Last(m_page_list)
      <3>1. crashes = 0 => (\A q \in Existing : maxTime[q] # 0) \/ Len(m_page_list) = 1
        BY <1>3 DEF FilesInv, HeadersKnow
      <3> QED BY <1>1, <3>1, OldestIsLast
    <2> QED BY <1>2, <1>3, <2>1, SameSeen DEF FilesInv, HeadersKnow
  <1>11. WindowsKnow'
    <2>1. \A n \in Numbers : m_page_list[n] \in Pages /\ m_page_list[n] # m_curpage
      BY <1>1, <1>3, ListFacts
    <2>2. \A n, w : IsLatest(w, n) => \A i \in Ids : w[i] \in Seen(n, i)' /\ \A u \in Seen(n, i)' : u <= w[i]
      BY SameSeen DEF IsLatest, Written
    <2>3. ASSUME Trusted, NEW n \in Numbers, ~isOpen[m_page_list[n]] \/ crashes = 0
          PROVE  IsLatest(pagew[m_page_list[n]], n)
      BY <2>1, <2>3 DEF FilesInv, WindowsKnow
    <2>4. (Trusted' => Trusted) /\ isOpen'[p] /\ \A q \in Pages : ~isOpen'[q] => ~isOpen[q]
      BY <1>1, <1>2, <1>3 DEF Trusted, TypeOK
    <2>5. \A n \in Numbers : m_page_list[n] = p => ~isOpen[m_page_list[n]]
      BY <1>2
    <2> QED BY <1>2, <1>3, <2>1, <2>2, <2>3, <2>4, <2>5, SameSeen DEF WindowsKnow, IsLatest, Written
  <1> QED BY <1>4, <1>5, <1>6, <1>7, <1>8, <1>9, <1>10, <1>11 DEF FilesInv

\* The process dies.
LEMMA CrashKeeps ==
    ASSUME FilesInv, Crash
    PROVE  FilesInv'
  <1> USE DEF Crash, headerVars, fileVars
  <1>1. TypeOK /\ PageOrder /\ WriterPlace
    BY DEF FilesInv
  <1>2. crashes' # 0 /\ crashes' \in 0..MaxCrashes
    BY <1>1, FilesAssumption DEF TypeOK
  <1>3. TypeOK'
    <2>1. NoWindow \in Windows
      BY FilesAssumption DEF NoWindow, Windows, Times
    <2> QED BY <1>1, <1>2, <2>1 DEF TypeOK
  <1>4. PageOrder'
    BY <1>1, SameSeen DEF PageOrder
  <1>5. WriterPlace'
    BY <1>1 DEF WriterPlace
  <1>6. ReaderPlace'
    BY DEF ReaderPlace, ReadersGone
  <1>7. MarkedByUser' /\ HeadersKnow'
    BY <1>2 DEF MarkedByUser, HeadersKnow
  <1>8. \A n \in Numbers : m_page_list[n] # NoPage
    BY <1>1, ListFacts
  <1>9. NoneInvented'
    BY <1>8, SameSeen DEF FilesInv, NoneInvented, Written
  <1>10. WindowsKnow'
    BY <1>2, <1>8, SameSeen DEF FilesInv, WindowsKnow, Trusted, IsLatest, Written
  <1> QED BY <1>3, <1>4, <1>5, <1>6, <1>7, <1>9, <1>10 DEF FilesInv

\* A reader opens a page.
LEMMA ReaderOpenKeeps ==
    ASSUME FilesInv, NEW r \in Readers, ReaderOpen(r)
    PROVE  FilesInv'
  <1> USE DEF ReaderOpen, fileVars, writerVars
  <1>1. TypeOK /\ PageOrder /\ WriterPlace /\ ReaderPlace
    BY DEF FilesInv
  <1>2. PICK p \in Existing : /\ rpage' = [rpage EXCEPT ![r] = p]
                              /\ rwindow' = [rwindow EXCEPT ![r] = pagew[p]]
                              /\ isOpen' = [isOpen EXCEPT ![p] = TRUE]
                              /\ ReadersCount' = [ReadersCount EXCEPT ![p] = @ + 1]
    OBVIOUS
  <1>3. p \in Pages /\ p # NoPage
    BY <1>1, ListFacts
  <1>4. TypeOK'
    <2>1. ReadersCount[p] \in Nat /\ ReadersCount' \in [Pages -> Nat]
      BY <1>1, <1>2, <1>3 DEF TypeOK
    <2>2. isOpen' \in [Pages -> BOOLEAN] /\ rpage' \in [Readers -> Pages \cup {NoPage}]
      BY <1>1, <1>2, <1>3 DEF TypeOK
    <2>3. rwindow' \in [Readers -> Windows]
      BY <1>1, <1>2, <1>3 DEF TypeOK
    <2>4. readers' \in {"none", "turns", "mixed"} /\ crashes' \in 0..MaxCrashes
      BY <1>1 DEF TypeOK, Read
    <2> QED BY <1>1, <2>1, <2>2, <2>3, <2>4 DEF TypeOK
  <1>5. PageOrder'
    BY <1>1, <1>2, <1>3, SameSeen DEF PageOrder, TypeOK
  <1>6. WriterPlace'
    BY <1>1, SameSeen DEF WriterPlace
  <1>7. ReaderPlace'
    <2>1. \A x \in Readers : rpage'[x] # NoPage => rpage'[x] \in Existing
      BY <1>1, <1>2 DEF ReaderPlace, TypeOK
    <2>2. readers' # "none" /\ (readers' # "mixed" => wstep = "idle" /\ readers # "mixed")
      BY DEF Read
    <2>3. readers # "mixed" => \A x \in Readers : rpage'[x] # NoPage => rwindow'[x] = pagew[rpage'[x]]
      BY <1>1, <1>2 DEF ReaderPlace, TypeOK
    <2> QED BY <2>1, <2>2, <2>3, SameSeen DEF ReaderPlace
  <1>8. MarkedByUser'
    <2>1. \A x \in Readers : rpage[x] # NoPage => rpage'[x] = rpage[x]
      BY <1>1, <1>2 DEF TypeOK
    <2>2. rpage'[r] = p /\ UNCHANGED <<running, m_curpage, wstep, crashes>>
      BY <1>1, <1>2 DEF TypeOK, Read
    <2>3. \A q \in Pages : q # NoPage /\ (isOpen'[q] => isOpen[q] \/ q = p)
      BY <1>1, <1>2, FilesAssumption DEF TypeOK
    <2> QED BY <2>1, <2>2, <2>3 DEF FilesInv, MarkedByUser
  <1>9. NoneInvented'
    <2>1. ASSUME NEW n \in Numbers, NEW x \in Readers, rpage'[x] = m_page_list[n]
          PROVE  Written(rwindow'[x], n)
      BY <1>1, <1>2, <2>1 DEF FilesInv, NoneInvented, TypeOK
    <2> QED BY <2>1, SameSeen DEF FilesInv, NoneInvented, Written
  <1>10. HeadersKnow'
    BY SameSeen DEF FilesInv, HeadersKnow, Read
  <1>11. WindowsKnow'
    <2>1. readers' # "none" /\ UNCHANGED crashes
      BY DEF Read
    <2>2. Trusted' => Trusted /\ crashes = 0
      BY <1>1, <2>1, TrustIsLost DEF Trusted
    <2> QED BY <2>1, <2>2, SameSeen DEF FilesInv, WindowsKnow, IsLatest, Written
  <1> QED BY <1>4, <1>5, <1>6, <1>7, <1>8, <1>9, <1>10, <1>11 DEF FilesInv

\* A reader closes its page.
LEMMA ReaderCloseKeeps ==
    ASSUME FilesInv, NEW r \in Readers, ReaderClose(r)
    PROVE  FilesInv'
  <1> USE DEF ReaderClose, close, writerVars, history
  <1> DEFINE p == rpage[r]
  <1>1. TypeOK /\ PageOrder /\ WriterPlace /\ ReaderPlace
    BY DEF FilesInv
  <1>2. p \in Existing /\ p \in Pages /\ p # NoPage /\ rwindow[r] \in Windows
    BY <1>1, ListFacts DEF ReaderPlace, TypeOK
  <1>3. /\ pagew' \in [Pages -> Windows]
        /\ \A q \in Pages : q # p => pagew'[q] = pagew[q]
        /\ pagew'[p] \in {rwindow[r], pagew[p]}
    BY <1>1, <1>2, FlushFacts
  <1>4. readers # "mixed" => pagew' = pagew
    <2>1. readers # "mixed" => rwindow[r] = pagew[p]
      BY <1>1 DEF ReaderPlace
    <2> QED BY <1>1, <1>3, <2>1 DEF TypeOK
  <1>5. TypeOK'
    <2>1. NoWindow \in Windows
      BY FilesAssumption DEF NoWindow, Windows, Times
    <2> QED BY <1>1, <1>2, <1>3, <2>1 DEF TypeOK
  <1>6. PageOrder'
    BY <1>1, <1>2, <1>3, SameSeen DEF PageOrder, TypeOK
  <1>7. WriterPlace'
    BY <1>1, SameSeen DEF WriterPlace
  <1>8. ReaderPlace'
    BY <1>1, <1>4, SameSeen DEF ReaderPlace, ReadersGone, TypeOK
  <1>9. MarkedByUser'
    BY <1>1, <1>2 DEF FilesInv, MarkedByUser, TypeOK
  <1>10. NoneInvented'
    <2>1. ASSUME NEW n \in Numbers, NEW x \in Readers, rpage'[x] = m_page_list[n]
          PROVE  Written(rwindow'[x], n)
      <3>1. m_page_list[n] # NoPage
        BY <1>1, ListFacts
      <3> QED BY <1>1, <2>1, <3>1 DEF FilesInv, NoneInvented, TypeOK
    <2>2. ASSUME NEW n \in Numbers
          PROVE  Written(pagew'[m_page_list[n]], n)
      BY <1>1, <1>3, ListFacts DEF FilesInv, NoneInvented
    <2> QED BY <2>1, <2>2, SameSeen DEF FilesInv, NoneInvented, Written
  <1>11. HeadersKnow'
    BY SameSeen DEF FilesInv, HeadersKnow
  <1>12. WindowsKnow'
    <2>1. Trusted' => Trusted /\ crashes = 0 /\ readers = "turns" /\ pagew' = pagew
      BY <1>1, <1>2, <1>4, TrustIsLost DEF Trusted, ReaderPlace, ReadersGone
    <2> QED BY <2>1, SameSeen DEF FilesInv, WindowsKnow, IsLatest, Written
  <1> QED BY <1>5, <1>6, <1>7, <1>8, <1>9, <1>10, <1>11, <1>12 DEF FilesInv

\* What a new page changes: nothing is on it.
LEMMA CreateFacts ==
    ASSUME TypeOK, PageOrder, NEW p \in Pages, p \notin Existing,
           m_page_list' = Append(m_page_list, p), UNCHANGED recs
    PROVE  /\ Len(m_page_list)' = Len(m_page_list) + 1
           /\ Numbers' = Numbers \cup {Len(m_page_list) + 1}
           /\ \A n \in Numbers : m_page_list'[n] = m_page_list[n] /\ n # Len(m_page_list) + 1
           /\ m_page_list'[Len(m_page_list) + 1] = p
           /\ m_page_list' \in Seq(Pages)
           /\ Last(m_page_list)' = p
           /\ Existing' = Existing \cup {p}
           /\ \A n \in Numbers, i \in Ids : Seen(n, i)' = Seen(n, i)
           /\ \A i \in Ids, n \in {Len(m_page_list) + 1} : Seen(n, i)' = Seen(Len(m_page_list), i)
           /\ \A q : TimesOf(q)' = TimesOf(q)
           /\ \A q : isFull(q)' <=> isFull(q)
           /\ TimesOf(p) = {}
  <1> DEFINE l == Len(m_page_list)
  <1>1. /\ l \in Nat \ {0} /\ Numbers = 1..l
        /\ m_page_list \in Seq(Pages)
        /\ recs[p] = <<>>
    BY ListFacts DEF TypeOK, PageOrder
  <1>2. /\ m_page_list' \in Seq(Pages) /\ Len(m_page_list)' = l + 1
        /\ Numbers' = 1..(l + 1)
        /\ \A n \in 1..l : m_page_list'[n] = m_page_list[n]
        /\ m_page_list'[l + 1] = p
    BY <1>1 DEF Numbers
  <1>3. Last(m_page_list)' = p
    BY <1>2 DEF Last
  <1>4. Existing' = Existing \cup {p}
    BY <1>1, <1>2 DEF Existing, Range, Numbers
  <1>5. (\A q, i, t : Holds(q, i, t)' <=> Holds(q, i, t)) /\ \A i, t : ~Holds(p, i, t)
    BY <1>1 DEF Holds
  <1>6. /\ \A n \in Numbers, i \in Ids : Seen(n, i)' = Seen(n, i)
        /\ \A i \in Ids, n \in {l + 1} : Seen(n, i)' = Seen(l, i)
    <2>1. ASSUME NEW n \in Numbers, NEW i \in Ids
          PROVE  Seen(n, i)' = Seen(n, i)
      BY <1>1, <1>2, <1>5 DEF Seen
    <2>2. ASSUME NEW i \in Ids, NEW n \in {l + 1}
          PROVE  Seen(n, i)' = Seen(l, i)
      <3>1. \A t : (\E k \in 1..n : Holds(m_page_list'[k], i, t)) <=> (\E k \in 1..l : Holds(m_page_list[k], i, t))
        BY <1>1, <1>2, <1>5
      <3> QED BY <1>5, <3>1 DEF Seen
    <2> QED BY <2>1, <2>2
  <1>7. TimesOf(p) = {} /\ (\A q : TimesOf(q)' = TimesOf(q)) /\ (\A q : isFull(q)' <=> isFull(q))
    BY <1>1 DEF TimesOf, isFull
  <1> QED BY <1>1, <1>2, <1>3, <1>4, <1>5, <1>6, <1>7

\* createNewPage() makes the next page.
LEMMA RollCreateKeeps ==
    ASSUME FilesInv, RollCreate
    PROVE  FilesInv'
  <1> USE DEF RollCreate, readerVars, history
  <1>1. TypeOK /\ PageOrder /\ WriterPlace /\ ReaderPlace
    BY DEF FilesInv
  <1>2. PICK p \in Pages \ Existing : /\ m_page_list' = Append(m_page_list, p)
                                      /\ m_curpage' = p
                                      /\ isOpen' = [isOpen EXCEPT ![p] = TRUE]
    OBVIOUS
  <1> DEFINE l == Len(m_page_list)
  <1>3. l \in Numbers /\ l \in Nat /\ Numbers = 1..l /\ p # NoPage
    BY <1>1, ListFacts, FilesAssumption
  <1>4. /\ running /\ m_curpage = Last(m_page_list) /\ m_curpage = m_page_list[l]
        /\ m_curpage \in Pages /\ m_curpage \in Existing /\ m_curpage # p
    BY <1>1, <1>2, ListFacts DEF WriterPlace
  <1>5. /\ Len(m_page_list)' = l + 1
        /\ Numbers' = Numbers \cup {l + 1}
        /\ \A n \in Numbers : m_page_list'[n] = m_page_list[n] /\ n # l + 1
        /\ m_page_list'[l + 1] = p
        /\ m_page_list' \in Seq(Pages)
        /\ Last(m_page_list)' = p
        /\ Existing' = Existing \cup {p}
    BY <1>1, <1>2, CreateFacts
  <1>6. /\ \A n \in Numbers, i \in Ids : Seen(n, i)' = Seen(n, i)
        /\ \A i \in Ids, n \in {l + 1} : Seen(n, i)' = Seen(l, i)
        /\ \A q : TimesOf(q)' = TimesOf(q)
        /\ \A q : isFull(q)' <=> isFull(q)
        /\ TimesOf(p) = {}
    BY <1>1, <1>2, CreateFacts
  <1>7. \A n \in Numbers : m_page_list[n] # p /\ m_page_list[n] \in Pages
    BY <1>1, <1>2, ListFacts
  <1>8. TypeOK'
    BY <1>1, <1>2, <1>5 DEF TypeOK
  <1>9. PageOrder'
    <2>1. m_page_list' # <<>>
      BY <1>3, <1>5
    <2>2. (\A n, k \in Numbers : m_page_list[n] = m_page_list[k] => n = k)'
      <3> SUFFICES ASSUME NEW n \in Numbers', NEW k \in Numbers', m_page_list'[n] = m_page_list'[k]
                   PROVE  n = k
        OBVIOUS
      <3>1. CASE n \in Numbers /\ k \in Numbers
        BY <1>1, <1>5, <3>1 DEF PageOrder
      <3>2. CASE n = l + 1 \/ k = l + 1
        BY <1>5, <1>7, <3>2
      <3> QED BY <1>5, <3>1, <3>2
    <2>3. \A q \in Pages \ Existing' : recs[q] = <<>> /\ maxTime[q] = 0 /\ ~isOpen'[q] /\ pagew[q] = NoWindow
      BY <1>1, <1>2, <1>5 DEF PageOrder, TypeOK
    <2>4. (\A n \in Numbers : n # Len(m_page_list) => isFull(m_page_list[n]))'
      BY <1>1, <1>3, <1>4, <1>5, <1>6 DEF PageOrder, WriterPlace
    <2>5. (\A n, k \in Numbers : n < k =>
              \A t \in TimesOf(m_page_list[n]), u \in TimesOf(m_page_list[k]) : t < u)'
      BY <1>1, <1>3, <1>5, <1>6 DEF PageOrder
    <2>6. (\A q \in Existing : maxTime[q] \in {0} \cup TimesOf(q))'
      BY <1>1, <1>2, <1>5, <1>6 DEF PageOrder
    <2> QED BY <2>1, <2>2, <2>3, <2>4, <2>5, <2>6 DEF PageOrder
  <1>10. WriterPlace'
    BY <1>1, <1>2, <1>4, <1>5 DEF WriterPlace
  <1>11. ReaderPlace'
    BY <1>1, <1>5 DEF ReaderPlace, ReadersGone
  <1>12. MarkedByUser'
    BY <1>1, <1>2, <1>4 DEF FilesInv, MarkedByUser, TypeOK
  <1>13. NoneInvented'
    <2>1. (\A n \in Numbers : \A w : Written(w, n) => \A i \in Ids : w[i] \in Seen(n, i)')
      BY <1>6 DEF Written
    <2>2. pagew[p] = NoWindow /\ \A x \in Readers : rpage[x] # p
      BY <1>1, <1>2, <1>3 DEF PageOrder, ReaderPlace
    <2>3. \A i \in Ids, n \in {l + 1} : NoWindow[i] \in Seen(n, i)'
      BY DEF Seen, NoWindow
    <2>4. \A i \in Ids, n \in {l + 1} : m_writewindow[i] \in Seen(n, i)'
      BY <1>3, <1>4, <1>6 DEF FilesInv, NoneInvented, Written
    <2>5. ASSUME NEW n \in Numbers
          PROVE  /\ Written(pagew[m_page_list[n]], n)
                 /\ \A x \in Readers : rpage[x] = m_page_list[n] => Written(rwindow[x], n)
      BY DEF FilesInv, NoneInvented
    <2> QED BY <1>2, <1>5, <1>7, <2>1, <2>2, <2>3, <2>4, <2>5 DEF NoneInvented, Written
  <1>14. HeadersKnow'
    BY <1>1, <1>2, <1>4, <1>5 DEF FilesInv, HeadersKnow, PageOrder
  <1>15. WindowsKnow'
    <2>1. \A n \in Numbers : \A w : IsLatest(w, n) => \A i \in Ids : w[i] \in Seen(n, i)' /\ \A u \in Seen(n, i)' : u <= w[i]
      BY <1>6 DEF IsLatest, Written
    <2>2. ASSUME Trusted
          PROVE  \A i \in Ids, n \in {l + 1} :
                    m_writewindow[i] \in Seen(n, i)' /\ \A u \in Seen(n, i)' : u <= m_writewindow[i]
      BY <1>3, <1>4, <1>6, <2>2 DEF FilesInv, WindowsKnow, IsLatest, Written
    <2>3. ASSUME Trusted, NEW n \in Numbers, ~isOpen'[m_page_list[n]] \/ crashes = 0
          PROVE  IsLatest(pagew[m_page_list[n]], n)
      BY <1>1, <1>2, <1>7, <2>3 DEF FilesInv, WindowsKnow, TypeOK
    <2>4. (Trusted' => Trusted) /\ isOpen'[p]
      BY <1>1, <1>2 DEF Trusted, TypeOK
    <2> QED BY <1>2, <1>5, <1>7, <2>1, <2>2, <2>3, <2>4 DEF WindowsKnow, IsLatest, Written
  <1> QED BY <1>8, <1>9, <1>10, <1>11, <1>12, <1>13, <1>14, <1>15 DEF FilesInv

\* What a record changes: it is on the last page, and newer than all others.
LEMMA AppendFacts ==
    ASSUME TypeOK, PageOrder, WriterPlace, NEW m \in Records, PageAppend(m)
    PROVE  /\ m_curpage = m_page_list[Len(m_page_list)]
           /\ m_curpage \in Pages /\ m_curpage \in Existing
           /\ recs' \in [Pages -> Seq(Records)]
           /\ recs'[m_curpage] # <<>>
           /\ \A p \in Pages : p # m_curpage => recs'[p] = recs[p]
           /\ \A p \in Pages : \A i, t : Holds(p, i, t)' <=>
                 Holds(p, i, t) \/ (p = m_curpage /\ i = m.id /\ t = m.time)
           /\ \A p \in Pages : TimesOf(p)' = TimesOf(p) \cup (IF p = m_curpage THEN {m.time} ELSE {})
           /\ \A p \in Existing, i \in Ids : \A t : Holds(p, i, t) => t < m.time
  <1> USE DEF PageAppend
  <1>1. m_curpage \in Existing /\ m_curpage \in Pages
    BY ListFacts DEF WriterPlace
  <1>2. m_curpage = m_page_list[Len(m_page_list)]
    <2>1. PICK n \in Numbers : m_curpage = m_page_list[n]
      BY <1>1, ListFacts
    <2> QED BY <2>1 DEF PageOrder
  <1> DEFINE s == recs[m_curpage]
  <1>3. s \in Seq(Records)
    BY <1>1 DEF TypeOK, Records
  <1>4. recs'[m_curpage] = Append(s, m) /\ \A p \in Pages : p # m_curpage => recs'[p] = recs[p]
    BY <1>1 DEF TypeOK
  <1>5. /\ Append(s, m) \in Seq(Records) /\ Append(s, m) # <<>>
        /\ DOMAIN Append(s, m) = DOMAIN s \cup {Len(s) + 1}
        /\ \A j \in DOMAIN s : Append(s, m)[j] = s[j]
        /\ Append(s, m)[Len(s) + 1] = m
    BY <1>3
  <1>6. recs' \in [Pages -> Seq(Records)]
    BY <1>1, <1>5 DEF TypeOK, Records
  <1>7. ASSUME NEW p \in Pages, NEW i, NEW t
        PROVE  Holds(p, i, t)' <=> Holds(p, i, t) \/ (p = m_curpage /\ i = m.id /\ t = m.time)
    <2>1. CASE p # m_curpage
      BY <1>4, <2>1 DEF Holds
    <2>2. CASE p = m_curpage
      <3> HIDE DEF s
      <3>1. (\E j \in DOMAIN Append(s, m) : Append(s, m)[j].id = i /\ Append(s, m)[j].time = t)
            <=> (\E j \in DOMAIN s : s[j].id = i /\ s[j].time = t) \/ (m.id = i /\ m.time = t)
        BY <1>5
      <3> USE DEF s
      <3>2. Holds(p, i, t)' <=> \E j \in DOMAIN Append(s, m) : Append(s, m)[j].id = i /\ Append(s, m)[j].time = t
        BY <1>4, <2>2 DEF Holds
      <3>3. Holds(p, i, t) <=> \E j \in DOMAIN s : s[j].id = i /\ s[j].time = t
        BY <2>2 DEF Holds
      <3> QED BY <2>2, <3>1, <3>2, <3>3
    <2> QED BY <2>1, <2>2
  <1>8. ASSUME NEW p \in Pages
        PROVE  TimesOf(p)' = TimesOf(p) \cup (IF p = m_curpage THEN {m.time} ELSE {})
    <2>1. CASE p # m_curpage
      BY <1>4, <2>1 DEF TimesOf
    <2>2. CASE p = m_curpage
      <3>1. TimesOf(p)' = {Append(s, m)[j].time : j \in DOMAIN Append(s, m)}
        BY <1>4, <2>2 DEF TimesOf
      <3>2. TimesOf(p) = {s[j].time : j \in DOMAIN s}
        BY <2>2 DEF TimesOf
      <3> HIDE DEF s
      <3>3. {Append(s, m)[j].time : j \in DOMAIN Append(s, m)} = {s[j].time : j \in DOMAIN s} \cup {m.time}
        BY <1>5
      <3> QED BY <2>2, <3>1, <3>2, <3>3
    <2> QED BY <2>1, <2>2
  <1>9. ASSUME NEW p \in Existing, NEW i \in Ids, NEW t, Holds(p, i, t)
        PROVE  t < m.time
    BY <1>9 DEF Holds, TimesOf
  <1> QED BY <1>1, <1>2, <1>4, <1>5, <1>6, <1>7, <1>8, <1>9

\* One record of Page::append().
LEMMA PageAppendKeeps ==
    ASSUME FilesInv, NEW m \in Records, PageAppend(m)
    PROVE  FilesInv'
  <1> USE DEF PageAppend, headerVars, readerVars
  <1>1. TypeOK /\ PageOrder /\ WriterPlace /\ ReaderPlace
    BY DEF FilesInv
  <1> DEFINE l == Len(m_page_list)
  <1>2. /\ l \in Numbers /\ Numbers = 1..l /\ l \in Nat
        /\ \A n \in Numbers : m_page_list[n] \in Pages /\ m_page_list[n] \in Existing
        /\ Last(m_page_list) = m_page_list[l]
    BY <1>1, ListFacts
  <1>3. Numbers' = Numbers /\ Existing' = Existing
    BY DEF Numbers, Existing
  <1>4. /\ m_curpage = m_page_list[l]
        /\ m_curpage \in Pages /\ m_curpage \in Existing
        /\ recs' \in [Pages -> Seq(Records)]
        /\ recs'[m_curpage] # <<>>
        /\ \A p \in Pages : p # m_curpage => recs'[p] = recs[p]
        /\ \A p \in Pages : TimesOf(p)' = TimesOf(p) \cup (IF p = m_curpage THEN {m.time} ELSE {})
    BY <1>1, AppendFacts
  <1>5. /\ \A n \in Numbers, i \in Ids : n # l => Seen(n, i)' = Seen(n, i)
        /\ \A i \in Ids, n \in {l} : Seen(n, i)' = Seen(n, i) \cup (IF i = m.id THEN {m.time} ELSE {})
        /\ \A i \in Ids : \A u \in Seen(l, i) : u < m.time
    <2>1. \A p \in Pages : \A i, t : Holds(p, i, t)' <=>
             Holds(p, i, t) \/ (p = m_curpage /\ i = m.id /\ t = m.time)
      BY <1>1, AppendFacts
    <2>2. \A p \in Existing, i \in Ids : \A t : Holds(p, i, t) => t < m.time
      BY <1>1, AppendFacts
    <2>3. \A n \in Numbers : n # l => m_page_list[n] # m_curpage
      BY <1>1, <1>2, <1>4 DEF PageOrder
    <2>4. m.time \in 1..MaxTime /\ 0 < m.time
      BY FilesAssumption DEF Records
    <2>5. ASSUME NEW n \in Numbers, NEW i \in Ids, n # l
          PROVE  Seen(n, i)' = Seen(n, i)
      <3>1. \A t : \A k \in 1..n : Holds(m_page_list[k], i, t)' <=> Holds(m_page_list[k], i, t)
        BY <1>2, <2>1, <2>3, <2>5
      <3> QED BY <3>1 DEF Seen
    <2>6. ASSUME NEW i \in Ids, NEW n \in {l}
          PROVE  Seen(n, i)' = Seen(n, i) \cup (IF i = m.id THEN {m.time} ELSE {})
      <3>1. \A t : (\E k \in 1..n : Holds(m_page_list[k], i, t)') <=>
                      (\E k \in 1..n : Holds(m_page_list[k], i, t)) \/ (i = m.id /\ t = m.time)
        BY <1>2, <1>4, <2>1
      <3> QED BY <2>4, <3>1 DEF Seen
    <2>7. \A i \in Ids : \A u \in Seen(l, i) : u < m.time
      BY <1>2, <2>2, <2>4 DEF Seen
    <2> QED BY <2>5, <2>6, <2>7
  <1>6. /\ m_writewindow' \in Windows
        /\ m.id \in Ids
        /\ m_writewindow'[m.id] = m.time
        /\ \A i \in Ids : i # m.id => m_writewindow'[i] = m_writewindow[i]
    <2>1. m.id \in Ids /\ m.time \in Times /\ m_writewindow \in [Ids -> Times]
      BY <1>1, FilesAssumption DEF TypeOK, Records, Windows, Times
    <2>2. m_writewindow[m.id] < m.time
      BY <1>2, <1>4, <1>5, <2>1 DEF FilesInv, NoneInvented, Written
    <2>3. m_writewindow' = [m_writewindow EXCEPT ![m.id] = m.time]
      BY <2>2 DEF updateWriteWindow
    <2> QED BY <2>1, <2>3 DEF Windows
  <1>7. TypeOK'
    BY <1>1, <1>4, <1>6 DEF TypeOK, Write, Records
  <1>8. PageOrder'
    <2>1. \A n \in Numbers : n # l => isFull(m_page_list[n])'
      BY <1>1, <1>2, <1>4 DEF PageOrder, isFull
    <2>2. \A n, k \in Numbers : n < k =>
              \A t \in TimesOf(m_page_list[n])', u \in TimesOf(m_page_list[k])' : t < u
      <3> SUFFICES ASSUME NEW n \in Numbers, NEW k \in Numbers, n < k,
                          NEW t \in TimesOf(m_page_list[n])', NEW u \in TimesOf(m_page_list[k])'
                   PROVE  t < u
        OBVIOUS
      <3>1. m_page_list[n] # m_curpage /\ t \in TimesOf(m_page_list[n])
        BY <1>1, <1>2, <1>4 DEF PageOrder
      <3>2. t < m.time
        BY <1>2, <3>1
      <3>3. u = m.time \/ u \in TimesOf(m_page_list[k])
        BY <1>2, <1>4
      <3> QED BY <1>1, <3>1, <3>2, <3>3 DEF PageOrder
    <2>3. \A p \in Existing : maxTime[p] \in {0} \cup TimesOf(p)'
      BY <1>1, <1>4, ListFacts DEF PageOrder
    <2>4. \A p \in Pages \ Existing : recs'[p] = <<>>
      BY <1>1, <1>4 DEF PageOrder
    <2> QED BY <1>1, <1>3, <2>1, <2>2, <2>3, <2>4 DEF PageOrder
  <1>9. WriterPlace'
    BY <1>1, <1>2, <1>3, <1>4 DEF WriterPlace
  <1>10. ReaderPlace'
    BY <1>1, <1>3 DEF ReaderPlace, ReadersGone, Write
  <1>11. MarkedByUser'
    BY <1>1 DEF FilesInv, MarkedByUser, WriterPlace, Write, PageOrder
  <1>12. NoneInvented'
    <2>1. \A n \in Numbers : \A w : Written(w, n) => \A i \in Ids : w[i] \in Seen(n, i)'
      BY <1>5 DEF Written
    <2>2. \A n \in Numbers : m_page_list[n] = m_curpage => \A i \in Ids : m_writewindow'[i] \in Seen(n, i)'
      <3>1. \A n \in Numbers : m_page_list[n] = m_curpage => n = l
        BY <1>1, <1>2, <1>4 DEF PageOrder
      <3>2. \A i \in Ids : m_writewindow[i] \in Seen(l, i)
        BY <1>2, <1>4 DEF FilesInv, NoneInvented, Written
      <3> QED BY <1>5, <1>6, <3>1, <3>2
    <2> QED BY <1>3, <2>1, <2>2 DEF FilesInv, NoneInvented, Written
  <1>13. HeadersKnow'
    <2>1. Existing \subseteq Pages /\ crashes' = crashes /\ wstep' = "append"
      BY <1>1, ListFacts DEF Write
    <2>2. \A p \in Existing : recs'[p] = <<>> => p # m_curpage /\ recs[p] = <<>>
      BY <1>4, <2>1
    <2>3. \A p \in Existing : recs[p] = <<>> => p = m_curpage
      <3>1. \A p \in Pages : recs[p] = <<>> => ~isFull(p)
        BY FilesAssumption DEF isFull
      <3> QED BY <1>1, <1>2, <1>4, <3>1, ListFacts DEF PageOrder
    <2>4. \A p \in Existing : maxTime[p] = 0 /\ p # m_curpage /\ crashes = 0 => recs[p] = <<>>
      BY DEF FilesInv, HeadersKnow
    <2> QED BY <1>2, <1>3, <1>4, <2>1, <2>2, <2>3, <2>4 DEF HeadersKnow
  <1>14. WindowsKnow'
    <2>1. Trusted' => Trusted
      BY <1>1, TrustIsLost
    <2>2. \A n \in Numbers : m_page_list[n] = m_curpage <=> n = l
      BY <1>1, <1>2, <1>4 DEF PageOrder
    <2>3. ASSUME Trusted
          PROVE  \A i \in Ids, n \in {l} :
                    m_writewindow'[i] \in Seen(n, i)' /\ \A u \in Seen(n, i)' : u <= m_writewindow'[i]
      <3>1. \A i \in Ids : m_writewindow[i] \in Seen(l, i) /\ \A u \in Seen(l, i) : u <= m_writewindow[i]
        BY <1>2, <1>4, <2>3 DEF FilesInv, WindowsKnow, IsLatest, Written
      <3>2. \A i \in Ids : Seen(l, i) \subseteq Nat /\ m.time \in Nat
        BY FilesAssumption DEF Seen, Records
      <3> QED BY <1>5, <1>6, <3>1, <3>2
    <2>4. \A n \in Numbers : \A w : n # l /\ IsLatest(w, n) =>
             \A i \in Ids : w[i] \in Seen(n, i)' /\ \A u \in Seen(n, i)' : u <= w[i]
      BY <1>5 DEF IsLatest, Written
    <2>5. wstep # "create" /\ wstep' # "create" /\ crashes' = crashes /\ (readers' = "none" => readers = "none")
      BY DEF Write
    <2> QED BY <1>3, <2>1, <2>2, <2>3, <2>4, <2>5 DEF FilesInv, WindowsKnow, IsLatest, Written
  <1> QED BY <1>7, <1>8, <1>9, <1>10, <1>11, <1>12, <1>13, <1>14 DEF FilesInv

-----------------------------------------------------------------------------
(* The theorems *)

\* A new database.
LEMMA InitHolds ==
    ASSUME Init
    PROVE  FilesInv
  <1> USE DEF Init
  <1>1. PICK p \in Pages : m_page_list = <<p>> /\ m_curpage = p /\ isOpen = [q \in Pages |-> q = p]
    OBVIOUS
  <1>2. Numbers = {1} /\ Existing = {p} /\ m_page_list[1] = p /\ Last(m_page_list) = p /\ Len(m_page_list) = 1
    BY <1>1 DEF Numbers, Existing, Range, Last
  <1>3. TypeOK
    BY <1>1, FilesAssumption DEF TypeOK, Times, Windows, NoWindow
  <1>4. \A i \in Ids : Seen(1, i) = {0}
    <2>1. \A i, t : ~Holds(p, i, t)
      BY DEF Holds
    <2> QED BY <1>1, <2>1 DEF Seen
  <1>5. IsLatest(NoWindow, 1)
    BY <1>4 DEF IsLatest, Written, NoWindow
  <1>6. PageOrder
    <2>1. \A i, j \in Numbers : i = j
      BY <1>2
    <2>2. \A q \in Pages : recs[q] = <<>> /\ TimesOf(q) = {} /\ Len(recs[q]) = 0
      BY DEF TimesOf
    <2> QED BY <1>1, <1>2, <2>1, <2>2 DEF PageOrder
  <1>7. WriterPlace /\ ReaderPlace /\ MarkedByUser /\ HeadersKnow
    BY <1>1, <1>2 DEF WriterPlace, ReaderPlace, ReadersGone, MarkedByUser, HeadersKnow
  <1>8. NoneInvented
    BY <1>1, <1>2, <1>5, FilesAssumption DEF NoneInvented, IsLatest
  <1>9. WindowsKnow
    BY <1>1, <1>2, <1>5 DEF WindowsKnow
  <1> QED BY <1>3, <1>6, <1>7, <1>8, <1>9 DEF FilesInv

\* A step that changes nothing.
LEMMA StutterKeeps ==
    ASSUME FilesInv, UNCHANGED vars
    PROVE  FilesInv'
  <1> USE DEF vars, headerVars, fileVars, writerVars, readerVars, history
  <1>1. TypeOK' /\ WriterPlace'
    BY DEF FilesInv, TypeOK, WriterPlace, Existing, Numbers, isFull
  <1>2. PageOrder'
    BY DEF FilesInv, PageOrder, Numbers, Existing, TimesOf, isFull
  <1>3. ReaderPlace' /\ MarkedByUser' /\ HeadersKnow'
    BY SameSeen DEF FilesInv, ReaderPlace, ReadersGone, MarkedByUser, HeadersKnow
  <1>4. NoneInvented' /\ WindowsKnow'
    BY SameSeen DEF FilesInv, NoneInvented, WindowsKnow, Trusted, IsLatest, Written
  <1> QED BY <1>1, <1>2, <1>3, <1>4 DEF FilesInv

\* FilesInv is an invariant: the directory, the writer, the readers, the marks
\* and the windows agree over appends, rolls, Close(), Open() and crashes.
THEOREM FilesInvariant == Spec => []FilesInv
  <1>1. Init => FilesInv
    BY InitHolds
  <1>2. FilesInv /\ [Next]_vars => FilesInv'
    <2> SUFFICES ASSUME FilesInv, [Next]_vars
                 PROVE  FilesInv'
      OBVIOUS
    <2>1. ASSUME NEW m \in [id : Ids, time : 1..MaxTime], PageAppend(m)
          PROVE  FilesInv'
      BY <2>1, PageAppendKeeps DEF Records
    <2>2. CASE AppendEnd
      BY <2>2, AppendEndKeeps
    <2>3. CASE EndCall
      BY <2>3, EndCallKeeps
    <2>4. CASE RollClose
      BY <2>4, RollCloseKeeps
    <2>5. CASE RollCreate
      BY <2>5, RollCreateKeeps
    <2>6. CASE CloseStorage
      BY <2>6, CloseStorageKeeps
    <2>7. CASE OpenStorage
      BY <2>7, OpenStorageKeeps
    <2>8. CASE Crash
      BY <2>8, CrashKeeps
    <2>9. ASSUME NEW r \in Readers, ReaderOpen(r)
          PROVE  FilesInv'
      BY <2>9, ReaderOpenKeeps
    <2>10. ASSUME NEW r \in Readers, ReaderClose(r)
           PROVE  FilesInv'
      BY <2>10, ReaderCloseKeeps
    <2>11. CASE UNCHANGED vars
      BY <2>11, StutterKeeps
    <2> QED BY <2>1, <2>2, <2>3, <2>4, <2>5, <2>6, <2>7, <2>8, <2>9, <2>10, <2>11 DEF Next, WriterStep
  <1> QED BY <1>1, <1>2, PTL DEF Spec

\* A window that is in Seen and above all of it is the one Latest chooses.
LEMMA LatestIsUnique ==
    ASSUME NEW n, NEW w \in Windows, IsLatest(w, n)
    PROVE  w = Latest(n)
  <1>1. ASSUME NEW i \in Ids
        PROVE  w[i] = CHOOSE t \in Seen(n, i) : \A u \in Seen(n, i) : u <= t
    <2> DEFINE c == CHOOSE t \in Seen(n, i) : \A u \in Seen(n, i) : u <= t
    <2>1. w[i] \in Seen(n, i) /\ \A u \in Seen(n, i) : u <= w[i]
      BY DEF IsLatest, Written
    <2>2. c \in Seen(n, i) /\ \A u \in Seen(n, i) : u <= c
      BY <2>1
    <2>3. Seen(n, i) \subseteq Nat
      BY FilesAssumption DEF Seen
    <2>4. c \in Nat /\ w[i] \in Nat /\ c <= w[i] /\ w[i] <= c
      BY <2>1, <2>2, <2>3
    <2> HIDE DEF c
    <2>5. w[i] = c
      BY <2>4
    <2> QED BY <2>5 DEF c
  <1> QED BY <1>1 DEF Latest, Windows

\* While writing and reading take turns and no process has died, the writer's
\* window has the latest value of every id, over all rolls of createNewPage(),
\* Close() and Open().
THEOREM WriterKnowsLatest == Spec => []WindowIsLatest
  <1>1. FilesInv => WindowIsLatest
    <2> SUFFICES ASSUME FilesInv, running, readers # "mixed", crashes = 0
                 PROVE  m_writewindow = Latest(Len(m_page_list))
      BY DEF WindowIsLatest
    <2>1. TypeOK /\ PageOrder
      BY DEF FilesInv
    <2>2. Trusted
      BY <2>1 DEF Trusted, TypeOK
    <2>3. Len(m_page_list) \in Numbers /\ m_curpage = m_page_list[Len(m_page_list)]
      BY <2>1, ListFacts DEF FilesInv, HeadersKnow
    <2>4. IsLatest(m_writewindow, Len(m_page_list))
      BY <2>2, <2>3 DEF FilesInv, WindowsKnow
    <2> QED BY <2>1, <2>4, LatestIsUnique DEF TypeOK
  <1> QED BY <1>1, FilesInvariant, PTL

\* A .pagew file that nobody writes and whose page is not marked has the latest
\* values, whenever the process dies.
LEMMA UnmarkedIsLatest ==
    ASSUME FilesInv
    PROVE  UnmarkedHasLatest
  <1> SUFFICES ASSUME Trusted, NEW n \in 1..Len(m_page_list),
                      m_page_list[n] # m_curpage, ~isOpen[m_page_list[n]]
               PROVE  pagew[m_page_list[n]] = Latest(n)
    BY DEF UnmarkedHasLatest
  <1>1. TypeOK /\ PageOrder
    BY DEF FilesInv
  <1>2. n \in Numbers /\ pagew[m_page_list[n]] \in Windows
    BY <1>1, ListFacts DEF TypeOK
  <1>3. IsLatest(pagew[m_page_list[n]], n)
    BY <1>2 DEF FilesInv, WindowsKnow
  <1> QED BY <1>2, <1>3, LatestIsUnique

\* The mark isOpen says which .pagew files can be trusted.
THEOREM UnmarkedCanBeTrusted == Spec => []UnmarkedHasLatest
  BY UnmarkedIsLatest, FilesInvariant, PTL

\* After a crash Open() refuses the database or finds the latest values.
THEOREM CrashIsNoticed == Spec => []RefusedOrComplete
  <1>1. FilesInv => RefusedOrComplete
    <2> SUFFICES ASSUME FilesInv, Trusted, ~running, \A p \in Existing : maxTime[p] # 0,
                        NEW p \in OldesPages, ~isOpen[p]
                 PROVE  pagew[p] = Latest(Len(m_page_list))
      BY DEF RefusedOrComplete
    <2>1. TypeOK /\ PageOrder /\ WriterPlace
      BY DEF FilesInv
    <2>2. p = m_page_list[Len(m_page_list)] /\ Len(m_page_list) \in 1..Len(m_page_list) /\ p # NoPage
      BY <2>1, OldestIsLast, ListFacts
    <2>3. p # m_curpage
      BY <2>1, <2>2 DEF WriterPlace
    <2> QED BY <2>2, <2>3, UnmarkedIsLatest DEF UnmarkedHasLatest
  <1> QED BY <1>1, FilesInvariant, PTL

\* A database that was closed can be opened once the readers are gone,
\* whatever they did to the flags of its pages.
THEOREM ClosedIsUnmarked == Spec => []ClosedCanBeOpened
  <1>1. FilesInv => ClosedCanBeOpened
    <2> SUFFICES ASSUME FilesInv, ~running, crashes = 0, ReadersGone, NEW p \in OldesPages
                 PROVE  ~isOpen[p]
      BY DEF ClosedCanBeOpened
    <2>1. p \in Pages /\ p # NoPage
      BY ListFacts DEF FilesInv, OldesPages
    <2> QED BY <2>1 DEF FilesInv, MarkedByUser, ReadersGone
  <1> QED BY <1>1, FilesInvariant, PTL
==============================================================================
