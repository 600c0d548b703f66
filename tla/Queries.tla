------------------------------- MODULE Queries -------------------------------
(***************************************************************************)
(* What readInterval() and readInTimePoint() of Storage                    *)
(* (libnkvdb/storage.cpp) return from the pages that AsyncWriter::call has *)
(* filled.  The state is the pages of the database, oldest first, and the  *)
(* size Create() was given; a step writes one cache.  The queries change   *)
(* nothing: the properties ask them of every state.                        *)
(***************************************************************************)
EXTENDS PageIndex, TLC

CONSTANTS
    Series,     \* sets of measurements; those of one of them may be appended
    PageCaps,   \* page sizes given to Create(), as the records a page has room for
    MaxBatch,   \* bound: the records of one cache
    MaxTime     \* bound: the times of measurements and queries are 1..MaxTime

Meas == UNION Series

ASSUME QueriesAssumption ==
    /\ MaxTime \in Nat
    /\ \A s \in Series : IsFiniteSet(s)
    /\ \A m \in Meas : m.time \in 1..MaxTime /\ m.id \in Nat
    /\ PageCaps \subseteq Nat \ {0}
    /\ MaxBatch \in Nat \ {0}

VARIABLES pages, default_page_size

vars == <<pages, default_page_size>>

Records(ps) == UNION {Range(ps[i].recs) : i \in DOMAIN ps}
Given == Records(pages)

\* Storage::Create
Init == pages = <<NewPage(<<>>)>> /\ default_page_size \in PageCaps

\* One turn of the writing loop of AsyncWriter::call: what the page has no
\* room for is left for a new one, which takes over the write window.
WriteTurn(ps, b) ==
    LET p == Last(ps)
        writed == Min({Len(b), default_page_size - Len(p.recs)})
        filled == IF writed = 0 THEN p ELSE Page_append(p, SubSeq(b, 1, writed))
        done == [ps EXCEPT ![Len(ps)] = filled]
    IN  IF writed = Len(b) THEN [pages |-> done, left |-> <<>>]
        ELSE [pages |-> Append(done, NewPage(filled.ww)), left |-> SubSeq(b, writed + 1, Len(b))]

\* The loop; but for the first turn each writes something.
WriteAll(ps, b) ==
    LET turns[k \in 0 .. Len(b) + 1] ==
            IF k = 0 THEN [pages |-> ps, left |-> b]
            ELSE LET w == turns[k - 1]
                 IN  IF w.left = <<>> THEN w ELSE WriteTurn(w.pages, w.left)
    IN  turns[Len(b) + 1].pages

\* AsyncWriter::call for a cache with the measurements of S: std::sort by time
\* leaves the order of equal times open.
call(S) ==
    \E b \in SetToSeqs(S) :
        /\ \A i \in 1 .. Len(b) - 1 : b[i].time <= b[i + 1].time
        /\ pages' = WriteAll(pages, b)
        /\ UNCHANGED default_page_size

Next ==
    \E s \in Series : \E S \in UNION {kSubset(k, s \ Given) : k \in 1..MaxBatch} :
        Given \subseteq s /\ call(S)

Spec == Init /\ [][Next]_vars

-----------------------------------------------------------------------------
(* Storage *)

\* PageManager::pagesByTime, reversed: by ascending maxTime.  std::sort and
\* the listing of the directory leave the order of equal times open.
pagesByTime ==
    {[i \in DOMAIN pages |-> pages[o[i]]] :
        o \in {o \in SetToSeqs(DOMAIN pages) :
                 \A i \in 1 .. Len(o) - 1 : pages[o[i]].maxTime <= pages[o[i + 1]].maxTime}}

\* Mutant: a page must hold all the ids.
MayHold_all(p, q) ==
    /\ (q.flag # 0 /\ p.flag_fltr # {}) => bloom_check(p.flag_fltr, q.flag)
    /\ (q.source # 0 /\ p.src_fltr # {}) => bloom_check(p.src_fltr, q.source)
    /\ (q.ids # {} /\ p.id_fltr # {}) => \A id \in q.ids : bloom_check(p.id_fltr, id)

\* The bloom filters of a page's header do not exclude the query.
MayHold(p, q) ==
    /\ (q.flag # 0 /\ p.flag_fltr # {}) => bloom_check(p.flag_fltr, q.flag)
    /\ (q.source # 0 /\ p.src_fltr # {}) => bloom_check(p.src_fltr, q.source)
    /\ (q.ids # {} /\ p.id_fltr # {}) => \E id \in q.ids : bloom_check(p.id_fltr, id)

\* One page of the loop of Storage::readInterval: the pages to read and
\* prev_interval_page, as positions in ps.
SelectPage(ps, q, acc, i) ==
    LET h == ps[i]
        Read(s) == [acc EXCEPT !.read = @ \o s]
        Behind(a) == [a EXCEPT !.prev = IF i > 1 THEN i - 1 ELSE @]
    IN  IF ~MayHold(h, q) THEN acc
        ELSE IF h.minTime <= q.from /\ h.maxTime >= q.to
        THEN IF acc.prev = 0 /\ acc.read = <<>> THEN Behind(Read(<<i>>)) ELSE Read(<<i>>)
        ELSE IF h.minTime <= q.from /\ h.maxTime > q.from
        THEN Behind(Read(<<i>>))
        ELSE IF h.minTime > q.from /\ i > 1 /\ ps[i - 1].maxTime <= q.from
        THEN Read(<<i - 1, i>>)
        ELSE IF h.minTime >= q.from /\ (h.minTime <= q.to \/ h.maxTime <= q.to)
        THEN Read(<<i>>)
        ELSE acc

\* Mutant: the page before is not opened.
prev_ww_none(ps, prev) == <<>>

\* The write window of prev_interval_page.
prev_ww(ps, prev) == IF prev = 0 THEN <<>> ELSE ps[prev].ww

\* StorageReader read to its end: the pages sel.read one after the other, each
\* by a reader of its own; out[i] is what that of page i returns.
StorageReader(sel, out) == Concat([k \in DOMAIN sel.read |-> out[sel.read[k]]])

\* Storage::readInterval of the pages ps in pagesByTime.
readInterval(ps, q) ==
    LET after[i \in 0 .. Len(ps)] ==
            IF i = 0 THEN [read |-> <<>>, prev |-> 0] ELSE SelectPage(ps, q, after[i - 1], i)
        sel == after[Len(ps)]
    IN  StorageReader(sel, [i \in DOMAIN ps |-> Page_readInterval(ps[i], q, prev_ww(ps, sel.prev))])

\* Storage::readInTimePoint, the same: the first page that stops its loop.
readInTimePoint(ps, q) ==
    LET tp == q.from
        IsLast(i) == ps[i].minTime <= tp /\ ps[i].maxTime <= tp /\ i = Len(ps)
        Around(i) == ps[i].minTime <= tp /\ ps[i].maxTime >= tp
        Behind(i) == ps[i].minTime > tp /\ i > 1 /\ ps[i - 1].maxTime <= tp
        stops == {i \in DOMAIN ps : MayHold(ps[i], q) /\ (IsLast(i) \/ Around(i) \/ Behind(i))}
        i == Min(stops)
        sel == IF stops = {} THEN [read |-> <<>>, prev |-> 0]
               ELSE IF IsLast(i) THEN [read |-> <<i>>, prev |-> 0]
               ELSE IF Around(i) THEN [read |-> <<i>>, prev |-> i - 1]
               ELSE [read |-> <<i - 1>>, prev |-> 0]
    IN  StorageReader(sel, [k \in DOMAIN ps |-> Page_readInTimePoint(ps[k], q, prev_ww(ps, sel.prev))])

\* Mutant: the other end of the list.
maxTime_first(ps) == ps[1].maxTime

\* Storage::minTime and maxTime: the last and the first page by maxTime.
minTime(ps) == ps[1].minTime
maxTime(ps) == Last(ps).maxTime

-----------------------------------------------------------------------------
(* What the queries should return *)

Times == 1..MaxTime
Ids == {m.id : m \in Meas}
Flags == {m.flag : m \in Meas}
Sources == {m.source : m \in Meas}

Query(ids, source, flag, from, to) ==
    [ids |-> ids, source |-> source, flag |-> flag, from |-> from, to |-> to]
Unfiltered(from, to) == Query({}, 0, 0, from, to)

InInterval(q) == {m \in Given : inInterval(q.from, q.to, m.time) /\ checkValueFlags(q, m)}

\* The latest values before tp, one for an id.
LatestBefore(tp) ==
    {m \in Given : /\ m.time < tp
                   /\ \A o \in Given : o.id = m.id /\ o.time < tp => o.time <= m.time}

\* Intervals that begin before the last time there is.
Inner == {r \in Times \X Times : r[1] <= r[2] /\ \E m \in Given : r[1] < m.time}

\* The records have come by ascending time.
InOrder ==
    \A i, j \in DOMAIN pages : \A k \in DOMAIN pages[i].recs, l \in DOMAIN pages[j].recs :
        i < j \/ (i = j /\ k < l) => pages[i].recs[k].time <= pages[j].recs[l].time

\* No page ends at t.
NotAPageEnd(t) == \A p \in Range(pages) : p.maxTime # t

\* No two pages end at one time.
DifferentEnds == \A i, j \in DOMAIN pages : pages[i].maxTime = pages[j].maxTime => i = j

\* The index of every page is a single leaf.
OneLeaf == \A p \in Range(pages) : Len(p.index.node) = 1

\* Every page got its records from one cache, in one group.
OneIndexRecord == \A p \in Range(pages) : Len(p.index.node[1].vals) <= 1

\* No id has two values of one time.
OneValue == \A m, n \in Given : m.id = n.id /\ m.time = n.time => m = n

\* A sequence without repetitions.
Distinct(s) == \A i, j \in DOMAIN s : s[i] = s[j] => i = j

\* s holds the elements of S, each once.
ListsOnce(s, S) == Range(s) = S /\ Distinct(s)

-----------------------------------------------------------------------------
(* Properties.  Their conditions are the ones under which the code keeps   *)
(* what doc/overview.md says of the queries.                                *)

\* An interval that begins before maxTime() gets all its records: from
\* whatever pages when records came in order, from one page in whatever order
\* they came, as long as a page's index is a single leaf.  At the end of a
\* page it may begin when the next page does not end there too, and the write
\* window, which has one value of an id, can stand for that page.
IntervalComplete ==
    OneLeaf /\ (InOrder \/ Len(pages) = 1) => \A ps \in pagesByTime, r \in Inner :
        NotAPageEnd(r[1]) \/ (DifferentEnds /\ OneValue) =>
            LET q == Unfiltered(r[1], r[2]) IN InInterval(q) \subseteq Range(readInterval(ps, q))

\* A query whose interval has all times in it, and begins before the first of
\* them, is exact under every filter, in whatever order records came and
\* whatever times pages end at: the bloom filters of the headers never hide a
\* page that is needed, nothing else is returned, and nothing twice.
WholeExact ==
    Given # {} => \A ps \in pagesByTime, from \in {0} \cup Times, to \in Times :
        (\A m \in Given : from < m.time /\ m.time <= to) =>
            \A ids \in SUBSET Ids, source \in {0} \cup Sources, flag \in {0} \cup Flags :
                LET q == Query(ids, source, flag, from, to)
                IN  ListsOnce(readInterval(ps, q), InInterval(q))

\* When records come in order, no id has two values of one time, each page
\* holds one index record and no two pages end at one time, an interval that
\* does not begin at the end of a page gets its records and the value every id
\* had when it began, each once, and nothing else but entries for ids that
\* have no value.
IntervalExact ==
    (InOrder /\ OneValue /\ OneIndexRecord /\ DifferentEnds) =>
        \A ps \in pagesByTime, r \in Inner :
            LET q == Unfiltered(r[1], r[2])
            IN  NotAPageEnd(r[1]) =>
                    ListsOnce(SelectSeq(readInterval(ps, q), LAMBDA m : m # EmptyMeas),
                              InInterval(q) \cup LatestBefore(r[1]))

\* Under the same conditions a time point gets the latest value before it of
\* every id, from its page, the one before, or a page that ended long ago.  Of
\* an id with a value at tp itself nothing is said: doc/overview.md:88 wants
\* the value before tp, doc/read_model.md:31 the one of tp.
PointExact ==
    (InOrder /\ OneValue /\ OneIndexRecord /\ DifferentEnds /\ Given # {}) =>
        \A ps \in pagesByTime, tp \in Times :
            LET Undisputed(m) == \A o \in Given : o.id = m.id => o.time # tp
            IN  NotAPageEnd(tp) =>
                    ListsOnce(SelectSeq(readInTimePoint(ps, Unfiltered(tp, tp)), Undisputed),
                              {m \in LatestBefore(tp) : Undisputed(m)})

\* maxTime() is the greatest time of all records, in whatever order they
\* came; minTime() is the least when they came in order and no two pages end
\* at one time.
TimesExact ==
    Given # {} =>
        \A ps \in pagesByTime :
            /\ maxTime(ps) = Max({m.time : m \in Given})
            /\ InOrder /\ DifferentEnds => minTime(ps) = Min({m.time : m \in Given})
==============================================================================
