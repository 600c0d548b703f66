---------------------------- MODULE NumericProofs ----------------------------
(***************************************************************************)
(* Proofs about the three components whose correctness is arithmetic: the  *)
(* byte layout of a page (PageLayout.tla), interpolation search            *)
(* (Search.tla), and the past-time filter (PastTime.tla).                  *)
(*                                                                         *)
(* Page layout.  When every value has the same size V and the page size    *)
(* leaves less than sizeof(Meas) behind a whole number of sizeof(Meas) + V,*)
(* the unsigned subtraction of isFull() never wraps and records and values *)
(* never overlap.  calc_size(n) with 8 byte values is such a size          *)
(* (remainder 0).                                                          *)
(*                                                                         *)
(* Search.  For every sorted array the interval stays in the array, and a  *)
(* value that is there is found.                                           *)
(*                                                                         *)
(* Past time.  For every width of Time, clock, batch and size of a cache,  *)
(* what is stored is what was recent, and no cache is overrun.             *)
(***************************************************************************)
EXTENDS PageLayout, Search, PastTime, TLAPS

\* The page sizes for which isFull() is right for values of V bytes.
Suits(V) ==
    /\ V \in Nat
    /\ ValueSizes = {V}
    /\ \A f \in PageSizes :
          \E k \in Nat, r \in 0..(MeasSize - 1) :
              f = HeaderSize + k * (MeasSize + V) + r

\* The bytes that isFull() believes to be free.
Free == write_value_pos - (HeaderSize + MeasSize * write_pos)

\* The inductive invariant: there is room for a whole number of further
\* records, by isFull()'s own count.
RoomForSome(V) ==
    /\ TypeOK
    /\ \E k \in Nat, r \in 0..(MeasSize - 1) : Free = k * (MeasSize + V) + r

\* Products of naturals, for the provers: they are naturals, grow by one
\* factor per step and are monotonic.
LEMMA Products ==
    ASSUME NEW m \in Nat, NEW b \in Nat
    PROVE  /\ m * b \in Nat
           /\ m * (b + 1) = m * b + m
           /\ (b + 1) * m = b * m + m
           /\ \A c \in Nat : c <= m => c * b <= m * b
  OBVIOUS

\* Page::Create leaves room for a whole number of records.
LEMMA RoomInit == ASSUME NEW V, Suits(V) PROVE Init => RoomForSome(V)
  <1> SUFFICES ASSUME Init PROVE RoomForSome(V)
    OBVIOUS
  <1> USE LayoutAssumption
  <1>1. size \in PageSizes /\ size \in Nat /\ size < Word
    BY DEF Init
  <1>2. TypeOK
    BY <1>1 DEF Init, TypeOK
  <1>3. PICK k \in Nat, r \in 0..(MeasSize - 1) :
            size = HeaderSize + k * (MeasSize + V) + r
    BY <1>1 DEF Suits
  <1>4. Free = size - HeaderSize
    BY <1>1 DEF Init, Free
  <1>5. k * (MeasSize + V) \in Nat
    BY DEF Suits
  <1>6. Free = k * (MeasSize + V) + r
    BY <1>3, <1>4, <1>5
  <1> QED BY <1>2, <1>6 DEF RoomForSome

\* Page::append takes one record's worth of that room, and stops when there
\* is less than one: the unsigned subtraction does not wrap.
LEMMA AppendTakesRoom ==
    ASSUME NEW V, Suits(V), RoomForSome(V), Next
    PROVE  RoomForSome(V)' /\ write_value_pos' = write_value_pos - V
  <1> USE LayoutAssumption
  <1>0. V \in Nat /\ ValueSizes = {V}
    BY DEF Suits
  <1>1. /\ ~isFull
        /\ write_value_pos' = UDiff(write_value_pos, V)
        /\ write_pos' = write_pos + 1
        /\ size' = size
    BY <1>0 DEF Next, append
  <1>2. PICK k \in Nat, r \in 0..(MeasSize - 1) : Free = k * (MeasSize + V) + r
    BY DEF RoomForSome
  <1> DEFINE meta == MeasSize * write_pos
  <1>3. /\ write_pos \in Nat /\ write_value_pos \in Nat /\ size \in PageSizes
        /\ write_value_pos < Word
    BY DEF RoomForSome, TypeOK
  <1>4. meta \in Nat /\ MeasSize * (write_pos + 1) = meta + MeasSize
    BY <1>3, Products
  <1>5. k * (MeasSize + V) \in Nat
    BY <1>0, Products
  <1>6. Free >= 0 /\ Free \in Nat
    BY <1>2, <1>5
  <1>7. Free >= MeasSize
    <2>1. write_value_pos >= HeaderSize + meta
      BY <1>3, <1>4, <1>6 DEF Free
    <2>2. UDiff(write_value_pos, HeaderSize + meta) = Free
      BY <2>1 DEF UDiff, Free
    <2> QED BY <1>1, <1>6, <2>2 DEF isFull
  <1>8. k # 0
    <2> SUFFICES ASSUME k = 0 PROVE FALSE
      OBVIOUS
    <2>1. k * (MeasSize + V) = 0
      BY <1>0
    <2> QED BY <1>2, <1>7, <2>1
  <1>9. PICK j \in Nat : k = j + 1
    <2>1. k - 1 \in Nat /\ k = (k - 1) + 1
      BY <1>8
    <2> QED BY <2>1
  <1>10. /\ j * (MeasSize + V) \in Nat
         /\ k * (MeasSize + V) = j * (MeasSize + V) + (MeasSize + V)
    BY <1>0, <1>9, Products
  <1>11. write_value_pos' = write_value_pos - V /\ write_value_pos' \in 0..(Word - 1)
    <2>1. write_value_pos >= V
      BY <1>0, <1>2, <1>3, <1>4, <1>10 DEF Free
    <2> QED BY <1>0, <1>1, <1>3, <2>1 DEF UDiff
  <1>12. Free' = Free - MeasSize - V
    BY <1>0, <1>1, <1>3, <1>4, <1>11 DEF Free
  <1>13. Free' = j * (MeasSize + V) + r
    BY <1>0, <1>2, <1>10, <1>12
  <1>14. TypeOK'
    BY <1>1, <1>3, <1>11 DEF TypeOK
  <1> QED BY <1>11, <1>13, <1>14 DEF RoomForSome

LEMMA RoomNext ==
    ASSUME NEW V, Suits(V) PROVE RoomForSome(V) /\ [Next]_vars => RoomForSome(V)'
  <1> SUFFICES ASSUME RoomForSome(V), [Next]_vars PROVE RoomForSome(V)'
    OBVIOUS
  <1>1. CASE UNCHANGED vars
    BY <1>1 DEF vars, RoomForSome, TypeOK, Free
  <1>2. CASE Next
    BY <1>2, AppendTakesRoom
  <1> QED BY <1>1, <1>2

\* As long as there is room left by isFull()'s count, records end below values.
LEMMA RoomIsSafe == ASSUME NEW V, Suits(V), RoomForSome(V) PROVE NoOverlap
  <1> USE LayoutAssumption
  <1>1. PICK k \in Nat, r \in 0..(MeasSize - 1) : Free = k * (MeasSize + V) + r
    BY DEF RoomForSome
  <1>2. k * (MeasSize + V) \in Nat
    BY Products DEF Suits
  <1>3. write_pos \in Nat /\ write_value_pos \in Nat
    BY DEF RoomForSome, TypeOK
  <1>4. RecordSize * write_pos <= MeasSize * write_pos
    BY <1>3, Products
  <1>5. MeasSize * write_pos \in Nat /\ RecordSize * write_pos \in Nat
    BY <1>3, Products
  <1> QED BY <1>1, <1>2, <1>3, <1>4, <1>5 DEF Free, NoOverlap

\* Pages that fit never mix up records and values, however large they are
\* and whatever the word size: isFull() stops Page::append in time.
THEOREM UniformPagesAreSafe ==
    ASSUME NEW V, Suits(V) PROVE Spec => []NoOverlap
  <1>1. Init => RoomForSome(V)
    BY RoomInit
  <1>2. RoomForSome(V) /\ [Next]_vars => RoomForSome(V)'
    BY RoomNext
  <1>3. RoomForSome(V) => NoOverlap
    BY RoomIsSafe
  <1> QED BY <1>1, <1>2, <1>3, PTL DEF Spec

\* Every record has put one value of V bytes at the end of the page.
Used(V) == RoomForSome(V) /\ size \in Nat /\ write_value_pos = size - V * write_pos

LEMMA UsedInit == ASSUME NEW V, Suits(V) PROVE Init => Used(V)
  <1> SUFFICES ASSUME Init PROVE Used(V)
    OBVIOUS
  <1>1. size \in Nat /\ V \in Nat
    BY LayoutAssumption DEF Init, Suits
  <1>2. write_value_pos = size - V * write_pos
    BY <1>1 DEF Init
  <1> QED BY <1>1, <1>2, RoomInit DEF Used

\* Page::append moves write_value_pos by the size of the value: there is
\* room, so the unsigned subtraction does not wrap.
LEMMA UsedNext ==
    ASSUME NEW V, Suits(V) PROVE Used(V) /\ [Next]_vars => Used(V)'
  <1> SUFFICES ASSUME Used(V), [Next]_vars PROVE Used(V)'
    OBVIOUS
  <1>1. RoomForSome(V) /\ RoomForSome(V)'
    BY RoomNext DEF Used
  <1>2. CASE UNCHANGED vars
    BY <1>1, <1>2 DEF vars, Used
  <1>3. CASE Next
    <2>1. /\ write_value_pos' = UDiff(write_value_pos, V)
          /\ write_pos' = write_pos + 1 /\ size' = size
      BY <1>3 DEF Next, append, Suits
    <2>2. V \in Nat /\ write_pos \in Nat /\ size \in Nat /\ Word \in Nat
          /\ write_value_pos \in Nat /\ write_value_pos < Word /\ write_value_pos' < Word
      BY <1>1, LayoutAssumption DEF Suits, RoomForSome, TypeOK, Used
    <2>3. V * (write_pos + 1) = V * write_pos + V /\ V * write_pos \in Nat
      BY <2>2, Products
    <2>4. write_value_pos' = write_value_pos - V
      BY <1>1, <1>3, AppendTakesRoom
    <2>5. write_value_pos' = size' - V * write_pos'
      BY <2>1, <2>2, <2>3, <2>4 DEF Used
    <2> QED BY <1>1, <2>1, <2>2, <2>5 DEF Used
  <1> QED BY <1>2, <1>3

\* A page of calc_size(n) takes exactly n records of 8 byte values, for every
\* n and every size of header and record (Page::append, Page::isFull).
THEOREM PagesHoldN == ASSUME Suits(8) PROVE Spec => []HoldsN
  <1>1. Init => Used(8)
    BY UsedInit
  <1>2. Used(8) /\ [Next]_vars => Used(8)'
    BY UsedNext
  <1>3. Used(8) => HoldsN
    <2> SUFFICES ASSUME Used(8), NEW n \in 1..size, size = calc_size(n)
                 PROVE  write_pos <= n /\ (isFull => write_pos = n)
      BY DEF HoldsN
    <2> DEFINE room == n - write_pos
               step == MeasSize + 8
    <2>1. /\ n \in Nat /\ write_pos \in Nat /\ size \in Nat /\ write_value_pos \in Nat
          /\ MeasSize \in Nat \ {0} /\ HeaderSize \in Nat /\ step \in Nat /\ room \in Int
      BY LayoutAssumption DEF Used, RoomForSome, TypeOK
    <2>2. Free = step * room
      BY <2>1 DEF Used, Free, calc_size
    <2>3. Free >= 0 /\ Free \in Int
      <3>1. PICK k \in Nat, r \in 0..(MeasSize - 1) : Free = k * (MeasSize + 8) + r
        BY DEF Used, RoomForSome
      <3>2. k * (MeasSize + 8) \in Nat
        BY <2>1, Products
      <3> QED BY <2>1, <3>1, <3>2
    <2>4. room >= 0
      BY <2>1, <2>2, <2>3
    <2>5. ASSUME isFull PROVE room = 0
      <3>1. Free < MeasSize
        BY <2>1, <2>3, <2>5, Products DEF isFull, UDiff, Free
      <3>2. room >= 1 => step * room >= step
        BY <2>1
      <3> QED BY <2>1, <2>2, <2>4, <3>1, <3>2
    <2> QED BY <2>1, <2>4, <2>5
  <1> QED BY <1>1, <1>2, <1>3, PTL DEF Spec

-----------------------------------------------------------------------------

\* A quotient x * n \div d with 0 < x < d and 0 < n is one of 0 .. n - 1.
LEMMA Quotient ==
    ASSUME NEW x \in Int, NEW d \in Int, NEW n \in Int, 0 < x, x < d, 0 < n
    PROVE  (x * n) \div d \in 0 .. n - 1
<1> DEFINE q == (x * n) \div d
<1>1. d \in Nat /\ d > 0 /\ x * n \in Int
  OBVIOUS
<1>2. q \in Int /\ d * q <= x * n /\ x * n < d * (q + 1)
  BY <1>1, Z3
<1>3. 0 < x * n
  BY Z3
<1>4. x * n < d * n
  BY Z3
<1>5. q < n
  BY <1>2, <1>4, Z3
<1>6. 0 <= q
  BY <1>2, <1>3, Z3
<1> QED
  BY <1>2, <1>5, <1>6

\* The array is sorted, the interval is in it, and a value that is in the
\* array is in the interval until it is returned.
SortedType ==
    /\ a \in Seq(Int)
    /\ \A i, j \in 1 .. Len(a) : i < j => a[i] <= a[j]
    /\ val \in Int
    /\ low \in 1 .. Len(a) /\ high \in 1 .. Len(a) /\ low <= high
    /\ result \in 0 .. Len(a)

Present == \E i \in 1 .. Len(a) : a[i] = val

SInv ==
    /\ SortedType
    /\ Present => IF result = 0 THEN \E i \in low .. high : a[i] = val
                  ELSE a[result] = val

\* Interpolation gives a position in the interval, and not its end.
LEMMA MidInside ==
    ASSUME SortedType, Between
    PROVE  mid \in low .. high - 1
<1>1. /\ low \in Int /\ high \in Int /\ val \in Int
      /\ a[low] \in Int /\ a[high] \in Int
  BY DEF SortedType
<1>2. low < high
  <2>1. low # high
    BY <1>1 DEF Between
  <2> QED
    BY <1>1, <2>1 DEF SortedType
<1> DEFINE x == val - a[low]
           n == high - low
           d == a[high] - a[low]
<1>3. x \in Int /\ n \in Int /\ d \in Int /\ 0 < x /\ x < d /\ 0 < n
  BY <1>1, <1>2 DEF Between
<1>4. mid = low + (x * n) \div d
  BY DEF mid
<1>5. high = low + n
  BY <1>1
<1> HIDE DEF x, n, d
<1>6. (x * n) \div d \in 0 .. n - 1
  BY <1>3, Quotient, Zenon
<1> QED
  BY <1>1, <1>3, <1>4, <1>5, <1>6

LEMMA InitSInv == SearchInit => SInv
<1> SUFFICES ASSUME SearchInit
             PROVE  SInv
  OBVIOUS
<1>1. PICK n \in 1..MaxLen : a \in [1..n -> Values]
  BY DEF SearchInit, Arrays
<1>2. a \in Seq(Int) /\ Len(a) = n /\ n \in Nat \ {0} /\ DOMAIN a = 1..n
  <2>1. n \in Nat \ {0}
    BY <1>1, SearchAssumption
  <2>2. a \in [1..n -> Int]
    BY <1>1, SearchAssumption, Zenon
  <2> QED
    BY <2>1, <2>2
<1>3. \A i, j \in 1 .. Len(a) : i < j => a[i] <= a[j]
  BY <1>2 DEF SearchInit, Arrays
<1>4. SortedType
  BY <1>2, <1>3, SearchAssumption DEF SearchInit, SortedType
<1> QED
  BY <1>2, <1>4 DEF SearchInit, SInv, Present

LEMMA NextSInv == SInv /\ [SearchNext]_searchVars => SInv'
<1> SUFFICES ASSUME SInv, [SearchNext]_searchVars
             PROVE  SInv'
  OBVIOUS
<1>t. SortedType /\ low \in Int /\ high \in Int /\ val \in Int /\ Len(a) \in Nat
  BY DEF SInv, SortedType
<1>e. \A i \in 1 .. Len(a) : a[i] \in Int
  BY <1>t DEF SortedType
<1>1. CASE Turn
  <2>1. mid \in low .. high - 1 /\ mid \in 1 .. Len(a) /\ result = 0 /\ a' = a /\ val' = val
    BY <1>1, <1>t, MidInside DEF Turn, SortedType
  <2>2. CASE a[mid] < val /\ low' = mid + 1 /\ UNCHANGED <<high, result>>
    <3>1. SortedType'
      BY <2>1, <2>2, <1>t DEF SortedType
    <3>2. ASSUME NEW i \in low .. high, a[i] = val
          PROVE  i \in low' .. high'
      <4>1. i \in 1 .. Len(a) /\ i \in Int
        BY <1>t DEF SortedType
      <4>2. ~(i < mid) /\ i # mid
        BY <2>1, <2>2, <3>2, <4>1, <1>t, <1>e DEF SortedType
      <4> QED
        BY <2>1, <2>2, <4>1, <4>2, <1>t
    <3> QED
      BY <2>1, <2>2, <3>1, <3>2 DEF SInv, Present
  <2>3. CASE a[mid] > val /\ high' = mid - 1 /\ UNCHANGED <<low, result>>
    <3>0. mid # low
      BY <1>1, <2>3, <1>t, <1>e DEF Turn, Between, SortedType
    <3>1. SortedType'
      BY <2>1, <2>3, <3>0, <1>t DEF SortedType
    <3>2. ASSUME NEW i \in low .. high, a[i] = val
          PROVE  i \in low' .. high'
      <4>1. i \in 1 .. Len(a) /\ i \in Int
        BY <1>t DEF SortedType
      <4>2. ~(mid < i) /\ i # mid
        BY <2>1, <2>3, <3>2, <4>1, <1>t, <1>e DEF SortedType
      <4> QED
        BY <2>1, <2>3, <4>1, <4>2, <1>t
    <3> QED
      BY <2>1, <2>3, <3>1, <3>2 DEF SInv, Present
  <2>4. CASE a[mid] = val /\ result' = mid /\ UNCHANGED <<low, high>>
    <3>1. SortedType'
      BY <2>1, <2>4 DEF SInv, SortedType
    <3>2. result' # 0 /\ (a[result] = val)'
      BY <2>1, <2>4
    <3> QED
      BY <3>1, <3>2 DEF SInv
  <2> QED
    BY <1>1, <2>2, <2>3, <2>4 DEF Turn
<1>2. CASE Return
  <2>1. /\ result = 0 /\ ~Between /\ a' = a /\ val' = val /\ low' = low /\ high' = high
        /\ result' = IF val # a[low] /\ val = a[high] THEN high ELSE low
    BY <1>2 DEF Return
  <2>2. SortedType' /\ result' # 0
    BY <2>1, <1>t DEF SortedType
  <2>3. ASSUME NEW i \in low .. high, a[i] = val
        PROVE  a[result'] = val
    <3>1. a[low] \in Int /\ a[high] \in Int /\ i \in 1 .. Len(a) /\ i \in Int
      BY <1>t, <1>e DEF SortedType
    <3>2. a[low] <= val /\ val <= a[high]
      <4>1. (low < i => a[low] <= a[i]) /\ (i < high => a[i] <= a[high])
        BY <1>t, <3>1 DEF SortedType
      <4> QED
        BY <1>t, <2>3, <3>1, <4>1
    <3>3. a[low] = val \/ a[high] = val
      BY <2>1, <3>1, <3>2, <1>t DEF Between
    <3> QED
      BY <2>1, <3>3
  <2> QED
    BY <2>1, <2>2, <2>3 DEF SInv, Present
<1>3. CASE UNCHANGED searchVars
  BY <1>3 DEF searchVars, SInv, SortedType, Present
<1> QED
  BY <1>1, <1>2, <1>3 DEF SearchNext

\* Interpolation search reads only elements of the array, for every sorted
\* array and every value (include/search.h).
THEOREM SearchInBounds == SearchSpec => []InBounds
<1>1. SInv => InBounds
  BY MidInside DEF SInv, SortedType, InBounds
<1> QED
  BY <1>1, InitSInv, NextSInv, PTL DEF SearchSpec

\* A value that is in the array is found, for every sorted array.
THEOREM SearchFinds == SearchSpec => []Found
<1>1. SInv => Found
  BY DEF SInv, SortedType, Present, Found
<1> QED
  BY <1>1, InitSInv, NextSInv, PTL DEF SearchSpec

-----------------------------------------------------------------------------

\* The unsigned difference of two times.
LEMMA UnsignedDifference ==
    ASSUME NEW s \in Times, NEW t \in Times, MaxTime < Modulus
    PROVE  /\ t <= s => (s - t) % Modulus = s - t
           /\ s < t => (s - t) % Modulus = s - t + Modulus
BY PastTimeAssumption DEF Times

\* checkPastTime without wrap: a past time that cannot reach over the range
\* of Time accepts exactly what is recent, and nothing from the future.
LEMMA CheckMeansRecent ==
    ASSUME PastTypeOK, NEW t \in Times
    PROVE  checkPastTime(t, m_past_time) <=>
               m_past_time = 0 \/ (t <= now /\ now - t <= m_past_time)
<1>1. CASE m_past_time = 0
  BY <1>1 DEF checkPastTime
<1>2. CASE m_past_time # 0
  <2>1. m_past_time \in Pasts /\ m_past_time \in Nat /\ now \in Times
    BY <1>2, PastTimeAssumption DEF PastTypeOK
  <2>2. m_past_time + MaxTime < Modulus /\ MaxTime < Modulus
    BY <2>1, PastTimeAssumption
  <2>3. CASE t <= now
    <3>1. (now - t) % Modulus = now - t
      BY <2>1, <2>2, <2>3, UnsignedDifference
    <3> QED
      BY <1>2, <2>3, <3>1 DEF checkPastTime
  <2>4. CASE now < t
    <3>1. (now - t) % Modulus = now - t + Modulus
      BY <2>1, <2>2, <2>4, UnsignedDifference
    <3>2. ~(now - t + Modulus <= m_past_time)
      BY <2>1, <2>2, PastTimeAssumption DEF Times
    <3> QED
      BY <1>2, <2>1, <2>4, <3>1, <3>2 DEF checkPastTime, Times
  <2> QED
    BY <2>1, <2>3, <2>4, PastTimeAssumption DEF Times
<1> QED
  BY <1>1, <1>2

\* A call began before now, and the properties themselves.
RecentInv == PastTypeOK /\ called <= now /\ Fits /\ RecentKept

\* A batch is a sequence of times.
LEMMA BatchType ==
    ASSUME NEW b \in Batches
    PROVE  b \in Seq(Times)
BY DEF Batches

LEMMA InitRecentInv == PastInit => RecentInv
BY PastTimeAssumption DEF PastInit, RecentInv, PastTypeOK, Fits, RecentKept, Busy, Times

\* The measurement the loops look at.
LEMMA NextElement ==
    ASSUME PastTypeOK, Busy
    PROVE  /\ pos \in DOMAIN batch /\ batch[pos] \in Times
           /\ pos + 1 \in 1 .. Len(batch) + 1
BY DEF PastTypeOK, Busy

\* One more measurement has been looked at: kept if it is recent.
LEMMA ElementKeepsRecent ==
    ASSUME RecentInv, Busy, pos' = pos + 1,
           UNCHANGED <<now, m_past_time, callVars>>,
           \/ checkPastTime(batch[pos], m_past_time) /\ kept' = kept \cup {pos}
           \/ ~checkPastTime(batch[pos], m_past_time) /\ kept' = kept
    PROVE  RecentKept' /\ kept' \in SUBSET (1 .. pos' - 1)
<1> DEFINE t == batch[pos]
<1>1. /\ t \in Times /\ now \in Times /\ called \in Times /\ called <= now
      /\ m_past_time \in Nat /\ pos \in Nat \ {0} /\ kept \in SUBSET (1 .. pos - 1)
  BY NextElement, PastTimeAssumption DEF RecentInv, PastTypeOK
<1>2. checkPastTime(t, m_past_time) <=>
          m_past_time = 0 \/ (t <= now /\ now - t <= m_past_time)
  BY <1>1, CheckMeansRecent DEF RecentInv
<1>3. batch' = batch /\ called' = called /\ now' = now /\ m_past_time' = m_past_time
  BY DEF callVars
<1>4. kept' \in SUBSET (1 .. pos' - 1)
  <2>1. kept' \subseteq kept \cup {pos}
    OBVIOUS
  <2>2. \A i \in kept \cup {pos} : i \in 1 .. pos' - 1
    BY <1>1
  <2> QED
    BY <2>1, <2>2
<1>5. pos \in kept' <=> checkPastTime(t, m_past_time)
  BY <1>1
<1>6. SUFFICES ASSUME NEW i \in 1 .. pos
               PROVE  /\ m_past_time = 0 \/ (batch[i] <= called /\ now - batch[i] < m_past_time) => i \in kept'
                      /\ i \in kept' /\ m_past_time # 0 =>
                            batch[i] - now <= m_past_time /\ called - batch[i] <= m_past_time
  <2>1. 1 .. pos' - 1 = 1 .. pos
    BY <1>1
  <2> QED
    BY <1>3, <1>4, <2>1 DEF RecentKept
<1>7. CASE i = pos
  <2>1. t \in Nat /\ now \in Nat /\ called \in Nat
    BY <1>1, PastTimeAssumption DEF Times
  <2> QED
    BY <1>1, <1>2, <1>5, <1>7, <2>1
<1>8. CASE i \in 1 .. pos - 1
  <2>1. i \in kept' <=> i \in kept
    BY <1>1, <1>8
  <2> QED
    BY <1>8, <2>1 DEF RecentInv, RecentKept
<1> QED
  BY <1>1, <1>6, <1>7, <1>8

\* Every step preserves the invariant.
LEMMA NextInv == RecentInv /\ [PastNext]_pastVars => RecentInv'
<1> SUFFICES ASSUME RecentInv, [PastNext]_pastVars
             PROVE  RecentInv'
  OBVIOUS
<1> USE PastTimeAssumption
<1>1. CASE Tick
  <2>1. now \in Times /\ now' = now + 1 /\ now' \in Times /\ UNCHANGED <<m_past_time, cacheVars, callVars>>
    BY <1>1 DEF Tick, RecentInv, PastTypeOK, Times
  <2>2. PastTypeOK' /\ Fits'
    BY <2>1 DEF RecentInv, PastTypeOK, Fits, Busy, cacheVars, callVars
  <2>3. called <= now' /\ called' = called /\ m_past_time \in Nat
    BY <2>1 DEF RecentInv, PastTypeOK, Times, callVars
  <2>4. ASSUME NEW i \in 1 .. pos - 1
        PROVE  /\ m_past_time = 0 \/ (batch[i] <= called /\ now' - batch[i] < m_past_time) => i \in kept
               /\ i \in kept /\ m_past_time # 0 =>
                      batch[i] - now' <= m_past_time /\ called - batch[i] <= m_past_time
    <3>1. batch[i] \in Int /\ now \in Int
      BY <2>1 DEF RecentInv, PastTypeOK, Times
    <3>2. /\ m_past_time = 0 \/ (batch[i] <= called /\ now - batch[i] < m_past_time) => i \in kept
          /\ i \in kept /\ m_past_time # 0 =>
                batch[i] - now <= m_past_time /\ called - batch[i] <= m_past_time
      BY DEF RecentInv, RecentKept
    <3> QED
      BY <2>1, <2>3, <3>1, <3>2
  <2>5. RecentKept'
    BY <2>1, <2>4 DEF RecentKept, cacheVars, callVars
  <2> QED
    BY <2>2, <2>3, <2>5 DEF RecentInv
<1>2. ASSUME NEW p \in Pasts, setPastTime(p)
      PROVE  RecentInv'
  <2>1. /\ batch' = <<>> /\ pos' = 1 /\ kept' = {} /\ called' = now /\ left' = 0
        /\ m_past_time' = p /\ now' = now /\ m_size' = m_size /\ kind' = kind
    BY <1>2 DEF setPastTime
  <2>2. batch' \in Seq(Times) /\ Len(batch') = 0
    BY <2>1
  <2>3. PastTypeOK'
    BY <2>1, <2>2 DEF RecentInv, PastTypeOK
  <2>4. Fits' /\ RecentKept' /\ (called <= now)'
    BY <2>1, <2>2 DEF RecentInv, PastTypeOK, Fits, RecentKept, Busy, Times
  <2> QED
    BY <2>3, <2>4 DEF RecentInv
<1>3. ASSUME NEW b \in Batches, AppendArray(b) \/ AppendList(b)
      PROVE  RecentInv'
  <2>1. b \in Seq(Times)
    BY BatchType
  <2>2. batch' = b /\ pos' = 1 /\ kept' = {} /\ called' = now /\ now' = now /\ m_past_time' = m_past_time
    BY <1>3 DEF AppendArray, AppendList
  <2>3. PastTypeOK'
    <3>1. m_size' \in 0..CacheSize /\ left' \in 0..CacheSize /\ kind' \in {"array", "list"}
      BY <1>3 DEF AppendArray, AppendList, RecentInv, PastTypeOK
    <3>2. pos' \in 1 .. Len(batch') + 1 /\ kept' \in SUBSET (1 .. pos' - 1)
      BY <2>1, <2>2
    <3> QED
      BY <2>1, <2>2, <3>1, <3>2 DEF RecentInv, PastTypeOK
  <2>4. Fits'
    <3>1. m_size' \in 0..CacheSize
      BY <2>3 DEF PastTypeOK
    <3>2. kind' = "list" \/ left' = CacheSize - m_size'
      BY <1>3 DEF AppendArray, AppendList
    <3> QED
      BY <3>1, <3>2 DEF Fits
  <2>5. RecentKept' /\ (called <= now)'
    BY <2>2 DEF RecentKept, RecentInv, PastTypeOK, Times
  <2> QED
    BY <2>3, <2>4, <2>5 DEF RecentInv
<1>4. CASE ArrayElement
  <2>1. RecentKept' /\ kept' \in SUBSET (1 .. pos' - 1)
    BY <1>4, ElementKeepsRecent DEF ArrayElement
  <2>2. Fits' /\ m_size' \in 0..CacheSize /\ left' \in 0..CacheSize
    BY <1>4 DEF ArrayElement, RecentInv, PastTypeOK, Fits, callVars
  <2>3. PastTypeOK'
    BY <1>4, <2>1, <2>2, NextElement DEF ArrayElement, RecentInv, PastTypeOK, callVars
  <2> QED
    BY <1>4, <2>1, <2>2, <2>3 DEF ArrayElement, RecentInv, callVars
<1>5. CASE HandOn
  BY <1>5 DEF HandOn, RecentInv, PastTypeOK, Fits, RecentKept, Busy, callVars
<1>6. CASE ListElement
  <2>1. kind' = "list" /\ batch' = batch /\ called' = called
        /\ now' = now /\ m_past_time' = m_past_time /\ left' = left
    BY <1>6 DEF ListElement, callVars
  <2>2. m_size' \in 0..CacheSize
    BY <1>6 DEF ListElement, RecentInv, PastTypeOK
  <2>3. RecentKept' /\ kept' \in SUBSET (1 .. pos' - 1) /\ pos' \in 1 .. Len(batch') + 1
    <3>1. CASE pos' = pos + 1
      BY <1>6, <3>1, <2>1, ElementKeepsRecent, NextElement DEF ListElement, RecentInv
    <3>2. CASE pos' = pos /\ kept' = kept
      BY <3>2, <2>1 DEF RecentInv, PastTypeOK, RecentKept
    <3> QED
      BY <1>6, <3>1, <3>2 DEF ListElement
  <2>4. PastTypeOK'
    BY <2>1, <2>2, <2>3 DEF RecentInv, PastTypeOK
  <2>5. Fits'
    BY <2>1, <2>2 DEF Fits
  <2> QED
    BY <2>1, <2>3, <2>4, <2>5 DEF RecentInv
<1>7. CASE UNCHANGED pastVars
  BY <1>7 DEF pastVars, cacheVars, callVars, RecentInv, PastTypeOK, Fits, RecentKept, Busy
<1> QED
  BY <1>1, <1>2, <1>3, <1>4, <1>5, <1>6, <1>7 DEF PastNext

\* Whatever is appended while the clock advances, what is less than the past
\* time away is stored and what is stored was not further away, and no loop of Cache::append stores outside
\* of its array: for every width of Time and every past time that does not
\* reach over its range (libnkvdb/meas.cpp, libnkvdb/cache.cpp).
THEOREM PastTimeSafe == PastSpec => []RecentKept
<1>1. RecentInv => RecentKept
  BY DEF RecentInv
<1> QED
  BY <1>1, InitRecentInv, NextInv, PTL DEF PastSpec

\* The types hold, and Cache::append(array) stays within its array.
THEOREM AppendFits == PastSpec => [](PastTypeOK /\ Fits)
<1>1. RecentInv => PastTypeOK /\ Fits
  BY DEF RecentInv
<1> QED
  BY <1>1, InitRecentInv, NextInv, PTL DEF PastSpec
=============================================================================
