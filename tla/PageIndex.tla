------------------------------ MODULE PageIndex ------------------------------
(***************************************************************************)
(* The records of one page, its Index (libnkvdb/index.cpp) and the readers *)
(* of the page (libnkvdb/page.cpp, libnkvdb/readers.cpp), as operators on  *)
(* a page value                                                            *)
(*   [recs, index, minTime, maxTime, ww, id_fltr, flag_fltr, src_fltr].    *)
(* A measurement is [id, time, flag, source]; positions in recs start at   *)
(* 1.  The write window ww is a sequence whose entry id + 1 belongs to id. *)
(* A bloom filter is the set of the bits that are set in it.               *)
(***************************************************************************)
EXTENDS BTree, Integers, FiniteSetsExt

CONSTANTS
    N,              \* the order of the tree of an index
    IndexGroup      \* records of a batch per index record: 100 in the code

\* The sequences of the sequence ss one behind the other (a recursive function,
\* which can be proved about), and the elements of s that are in S.
Concat(ss) ==
    LET cat[k \in 0 .. Len(ss)] == IF k = 0 THEN <<>> ELSE cat[k - 1] \o ss[k]
    IN  cat[Len(ss)]

Selected(s, S) == Concat([k \in DOMAIN s |-> IF s[k] \in S THEN <<s[k]>> ELSE <<>>])

\* Meas::empty(), also what a resized window is filled with.
EmptyMeas == [id |-> 0, time |-> 0, flag |-> 0, source |-> 0]

inInterval(from, to, v) == from <= v /\ v <= to

\* bloom_filter.h; bloom_add one after the other for all values of vs.
Bits(v) == {b \in 0..4 : (v \div 2^b) % 2 = 1}
bloom_add(fltr, vs) == fltr \cup UNION {Bits(v) : v \in vs}
bloom_check(fltr, v) == Bits(v) \subseteq fltr

NewPage(ww) == [recs |-> <<>>, index |-> init_cache(N), minTime |-> 0, maxTime |-> 0, ww |-> ww,
                id_fltr |-> {}, flag_fltr |-> {}, src_fltr |-> {}]

-----------------------------------------------------------------------------
(* Writing *)

\* updateWriteWindow, and its call for every record of a batch.
updateWriteWindow(ww, m) ==
    [i \in 1 .. Max({Len(ww), m.id + 1}) |->
        LET old == IF i <= Len(ww) THEN ww[i] ELSE EmptyMeas
        IN  IF i = m.id + 1 /\ old.time < m.time THEN m ELSE old]

WindowAfter(ww, b) == FoldLeft(updateWriteWindow, ww, b)

\* The index records of batch b, written behind position pos: one for every
\* IndexGroup records that others follow, and one for the rest.  The first
\* kind has times where ids belong, and both filters, computed alike, collect
\* ids: up to and with the first record of the next group.
IndexRecords(b, pos) ==
    LET full == (Len(b) - 1) \div IndexGroup
        Rec(g) ==
          LET start == (g - 1) * IndexGroup + 1
              stop == IF g <= full THEN g * IndexGroup ELSE Len(b)
              since == IF g = 1 THEN 1 ELSE start + 1
              until == IF g <= full THEN stop + 1 ELSE stop
          IN  [key |-> b[start].time, pos |-> pos + start, count |-> stop - start + 1,
               minTime |-> b[start].time, maxTime |-> b[stop].time,
               minId |-> IF g <= full THEN b[start].time ELSE b[start].id,
               maxId |-> IF g <= full THEN b[stop].time ELSE b[stop].id,
               fltr |-> UNION {Bits(b[i].id) : i \in since .. until}]
    IN  IF b = <<>> THEN <<>> ELSE [g \in 1 .. full + 1 |-> Rec(g)]

\* BTree::split_node with its calls of itself, each for the node that got the
\* middle value, and BTree::insert.
split_node(t, n) ==
    LET calls[k \in 0 .. Len(t.node)] ==
            IF k = 0 THEN [tree |-> t, next |-> n]
            ELSE LET c == calls[k - 1]
                     u == split(c.tree, c.next)
                     p == node2insert(c.tree, c.next)
                 IN  IF c.next = 0 THEN c
                     ELSE [tree |-> u, next |-> IF isFull(u, u.node[p]) THEN p ELSE 0]
    IN  calls[Len(t.node)].tree

insert(t, kv) ==
    LET n == iner_find(t, t.root, kv.key).node
        stored == store(t, n, kv)
    IN  IF isFull(t, t.node[n]) THEN split_node(stored, n) ELSE stored

\* writeIndexRec and flush: the records go into the tree in their order.
\* AsyncWriter::call flushes at its end, so none is pending between calls.
writeIndexRecs(t, irecs) == FoldLeft(insert, t, irecs)

\* updateMinMax() with the first and with the last record of a batch.
minTimeAfter(p, b) == IF p.recs = <<>> THEN b[1].time ELSE Min({b[1].time, p.minTime})
maxTimeAfter(p, b) == Max({Last(b).time, p.maxTime})

\* Page::append(begin, size) of a batch sorted by time for which the page has
\* room.
Page_append(p, b) ==
    [recs |-> p.recs \o b,
     index |-> writeIndexRecs(p.index, IndexRecords(b, Len(p.recs))),
     minTime |-> minTimeAfter(p, b),
     maxTime |-> maxTimeAfter(p, b),
     ww |-> WindowAfter(p.ww, b),
     id_fltr |-> bloom_add(p.id_fltr, {m.id : m \in Range(b)}),
     flag_fltr |-> bloom_add(p.flag_fltr, {m.flag : m \in Range(b)}),
     src_fltr |-> bloom_add(p.src_fltr, {m.source : m \in Range(b)})]

-----------------------------------------------------------------------------
(* Reading.  A query is [ids, source, flag, from, to]. *)

\* checkValueFlags
checkValueFlags(q, m) ==
    /\ q.flag # 0 => m.flag = q.flag
    /\ q.source # 0 => m.source = q.source
    /\ q.ids # {} => m.id \in q.ids

\* Mutant: a record that spans the interval is not seen.
checkInterval_ends(r, from, to) ==
    inInterval(from, to, r.minTime) \/ inInterval(from, to, r.maxTime)

\* Index::checkInterval
checkInterval(r, from, to) ==
    \/ inInterval(from, to, r.minTime)
    \/ inInterval(from, to, r.maxTime)
    \/ inInterval(r.minTime, r.maxTime, from)

\* The conditions findInIndex has on an index record.
IndexMatches(q, from, to, r) ==
    /\ (q.flag # 0 /\ r.fltr # {}) => bloom_check(r.fltr, q.flag)
    /\ (q.source # 0 /\ r.fltr # {}) => bloom_check(r.fltr, q.source)
    /\ checkInterval(r, from, to)
    /\ q.ids # {} => \/ inInterval(Min(q.ids), Max(q.ids), r.minId)
                     \/ inInterval(Min(q.ids), Max(q.ids), r.maxId)

\* The loop of findInIndex: it leaves the chain of leaves at the stop node,
\* which it scans only if nothing has matched before.
ScanLeaves(t, start, stop, q, from, to) ==
    LET scan[k \in 0 .. Len(t.node)] ==
            IF k = 0 THEN [node |-> start, hits |-> <<>>]
            ELSE LET s == scan[k - 1]
                     nd == t.node[s.node]
                 IN  IF s.node = 0 \/ (s.node = stop /\ s.hits # <<>>) THEN s
                     ELSE [node |-> nd.next,
                           hits |-> s.hits \o SelectSeq(nd.vals, LAMBDA r : IndexMatches(q, from, to, r))]
    IN  scan[Len(t.node)].hits

\* Adjacent positions become one range.
Joined(acc, r) ==
    IF acc # <<>> /\ Last(acc).pos + Last(acc).count = r.pos
    THEN [acc EXCEPT ![Len(acc)].count = @ + r.count]
    ELSE Append(acc, [pos |-> r.pos, count |-> r.count])

\* Index::findInIndex: the ranges of positions to read.
findInIndex(p, q, from, to) ==
    FoldLeft(Joined, <<>>,
             ScanLeaves(p.index, find_node(p.index, from), find_node(p.index, to), q, from, to))

ReadRange(p, r) == SubSeq(p.recs, r.pos, r.pos + r.count - 1)

\* One record of Page::backwardRead.  The test of the ids is the wrong way
\* round, and a later record of an id already found is not tested at all.
BackwardStep(q, tp, found, m) ==
    LET old == {f \in found : f.id = m.id}
    IN  IF m.time >= tp THEN found
        ELSE IF old # {}
        THEN IF \E f \in old : f.time < m.time THEN (found \ old) \cup {m} ELSE found
        ELSE IF /\ q.flag # 0 => m.flag = q.flag
                /\ q.source # 0 => m.source = q.source
                /\ q.ids # {} => m.id \notin q.ids
             THEN found \cup {m} ELSE found

\* Page::backwardRead: from the end of the last range to the begin of the first.
backwardRead(p, q, tp) ==
    LET ranges == IF tp = p.minTime THEN <<[pos |-> 1, count |-> Len(p.recs)]>>
                  ELSE findInIndex(p, q, tp, p.maxTime)
        forward == Concat([k \in DOMAIN ranges |-> ReadRange(p, ranges[k])])
    IN  FoldLeft(LAMBDA f, m : BackwardStep(q, tp, f, m), {}, Reverse(forward))

\* Mutant: what the previous page knows is added without a comparison.
timePointRead_all(p, q, tp, prev_ww) ==
    LET Wanted(m) == m.time # 0 /\ checkValueFlags(q, m)
    IN  IF tp > p.maxTime THEN SelectSeq(p.ww, Wanted)
        ELSE SelectSeq(prev_ww, Wanted) \o SetToSeq(backwardRead(p, q, tp))

\* PageReader::timePointRead
timePointRead(p, q, tp, prev_ww) ==
    LET Wanted(m) == m.time # 0 /\ checkValueFlags(q, m)
        sub == backwardRead(p, q, tp)
    IN  IF tp > p.maxTime THEN SelectSeq(p.ww, Wanted)
        ELSE SelectSeq(prev_ww, LAMBDA m : Wanted(m) /\ \A s \in sub : s.id # m.id)
             \o SetToSeq(sub)

\* PageReaderInterval, read to its end.  A reader with nothing to read is at
\* its end before it looks for the values at `from`.
PageReaderInterval(p, q, ranges, prev_ww) ==
    LET wanted == {m \in Range(p.recs) : inInterval(q.from, q.to, m.time) /\ checkValueFlags(q, m)}
    IN  IF q.from > p.maxTime
        THEN SelectSeq(p.ww, LAMBDA m : checkValueFlags(q, m))
        ELSE IF ranges = <<>> THEN <<>>
        ELSE (IF q.from >= p.minTime THEN timePointRead(p, q, q.from, prev_ww) ELSE <<>>)
             \o Concat([k \in DOMAIN ranges |-> Selected(ReadRange(p, ranges[k]), wanted)])

\* Page::readInterval: all of the page, or what the index finds.
Page_readInterval(p, q, prev_ww) ==
    PageReaderInterval(p, q,
        IF q.from <= p.minTime /\ q.to >= p.maxTime
        THEN <<[pos |-> 1, count |-> Len(p.recs)]>>
        ELSE findInIndex(p, q, q.from, q.to), prev_ww)

\* Page::readInTimePoint, and PageReader_TimePoint read to its end.
Page_readInTimePoint(p, q, prev_ww) == timePointRead(p, q, q.from, prev_ww)
==============================================================================
