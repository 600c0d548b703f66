------------------------------ MODULE CurValues ------------------------------
(***************************************************************************)
(* Storage's current values: CurValuesCache (libnkvdb/cache.cpp), which    *)
(* append(array) fills as it goes, and loadCurValues                       *)
(* (libnkvdb/storage.cpp), which fills it from the write window of a page  *)
(* after Open.  The pages are those of Queries.                            *)
(***************************************************************************)
EXTENDS Queries

VARIABLES
    m_cache,        \* what append() has not handed to the writer
    m_cur_values,   \* CurValuesCache
    sized           \* PageManager::default_page_size is set: not after Open()

cvars == <<vars, m_cache, m_cur_values, sized>>

Appended == Given \cup Range(m_cache)
CurIds == Ids \cup {0}
NoValues == [id \in CurIds |-> EmptyMeas]

CurInit == Init /\ m_cache = <<>> /\ m_cur_values = NoValues /\ sized = TRUE

\* CurValuesCache::writeValue
writeValue(values, m) == [values EXCEPT ![m.id] = m]

\* CurValuesCache::readValue: Meas::empty() where there is no value.
readValue(id) == m_cur_values[id]

\* Values come by ascending time.
Comes(m) ==
    /\ m \notin Appended /\ \E s \in Series : Appended \cup {m} \subseteq s
    /\ \A g \in Appended : g.time <= m.time

\* Storage::append(const Meas&): Cache::append(value) leaves the current
\* values alone.
AppendOne(m) ==
    /\ Comes(m)
    /\ m_cache' = Append(m_cache, m)
    /\ UNCHANGED <<vars, m_cur_values, sized>>

\* Mutant: the value is not noted when the array is appended.
AppendArray_silent(m) ==
    /\ Comes(m)
    /\ m_cache' = Append(m_cache, m)
    /\ UNCHANGED <<vars, m_cur_values, sized>>

\* One element of Storage::append(begin, size), in Cache::append(begin, size).
AppendArray(m) ==
    /\ Comes(m)
    /\ m_cache' = Append(m_cache, m)
    /\ m_cur_values' = writeValue(m_cur_values, m)
    /\ UNCHANGED <<vars, sized>>

\* writeCache(), and the writer's call() for the cache.  Once opened, a storage
\* has no size for another page (Page::Create has no defined result then), so
\* the model ends where the page is full.
WriteCache ==
    /\ sized \/ Len(m_cache) + Len(Last(pages).recs) <= default_page_size
    /\ m_cache' = <<>>
    /\ IF m_cache = <<>> THEN UNCHANGED vars ELSE call(Range(m_cache))

\* A full cache, a query, or Storage::curValues() before it reads.
Flush == m_cache # <<>> /\ WriteCache /\ UNCHANGED <<m_cur_values, sized>>

\* Close() and Open(): the current values are those of a new object.
Reopen ==
    /\ Given # {}
    /\ WriteCache
    /\ m_cur_values' = NoValues
    /\ sized' = FALSE

\* The pages whose id filter has one of the ids, by ascending maxTime.
PagesWith(ids) ==
    {SelectSeq(ps, LAMBDA p : \E id \in ids : bloom_check(p.id_fltr, id)) : ps \in pagesByTime} \ {<<>>}

\* Mutant: the oldest page instead of the newest.
LoadPage_oldest(ids) == {ps[1] : ps \in PagesWith(ids)}

\* The newest of them (front() of an empty vector when there is none).
LoadPage(ids) == {Last(ps) : ps \in PagesWith(ids)}

\* Storage::loadCurValues: every entry of that page's write window, the empty
\* ones too, which have id 0.  It does not look at m_cache: here it is called,
\* as after Open(), with nothing there.
loadCurValues(ids) ==
    /\ m_cache = <<>>
    /\ \E p \in LoadPage(ids) :
          m_cur_values' = FoldLeft(writeValue, m_cur_values, p.ww)
    /\ UNCHANGED <<vars, m_cache, sized>>

IdArrays == SUBSET Ids \ {{}}

CurNext ==
    \/ \E m \in Meas : AppendOne(m) \/ AppendArray(m)
    \/ Flush
    \/ Reopen
    \/ \E ids \in IdArrays : loadCurValues(ids)

CurSpec == CurInit /\ [][CurNext]_cvars

-----------------------------------------------------------------------------
(* Properties *)

Latest(id) == {m \in Appended : m.id = id /\ \A o \in Appended : o.id = id => o.time <= m.time}

IsCurrent(id) == readValue(id) \in Latest(id) \cup {EmptyMeas}

\* A load can say what the value of an id is: there is one newest page, and
\* for id 0 the write windows have no gap, an empty entry of an id below the
\* greatest (it overwrites the value of id 0).
Loadable(id) ==
    /\ DifferentEnds
    /\ id = 0 => \A p \in Range(pages) : EmptyMeas \notin Range(p.ww)

\* What curValues() returns for an id is its latest value or, after Open(),
\* nothing: through arrays, flushes, new pages, restarts and loads of all ids
\* it never becomes older.  (append() of one value, and loadCurValues() of
\* some of the ids, may leave an old value.)
CurStaysLatest ==
    [][/\ (\E m \in Meas : AppendArray(m)) \/ Flush \/ Reopen =>
              \A id \in Ids : IsCurrent(id) => IsCurrent(id)'
       /\ loadCurValues(Ids) =>
              \A id \in Ids : IsCurrent(id) /\ Loadable(id) => IsCurrent(id)']_cvars

\* After loadCurValues(ids) every one of these ids that ever had a value has
\* its latest one.
LoadFinds ==
    [][\A ids \in IdArrays : loadCurValues(ids) =>
          \A id \in ids : Loadable(id) /\ Latest(id) # {} => m_cur_values'[id] \in Latest(id)]_cvars
==============================================================================
