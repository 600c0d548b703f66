---------------------------- MODULE QueriesProofs ----------------------------
(***************************************************************************)
(* Proofs about Queries.tla, for any measurements, batches and page sizes: *)
(* what the headers of the pages say is true, so a query over all times is *)
(* exact, and so are the first and the last time.                          *)
(***************************************************************************)
EXTENDS Queries, FiniteSetTheorems, SequenceTheorems, NaturalsInduction, WellFoundedInduction, TLAPS

-----------------------------------------------------------------------------
(* Induction, and the recursive functions of the model *)

\* A set of natural numbers with 0 and with every successor is all of them.
LEMMA SetInduction ==
    ASSUME NEW T \in SUBSET Nat, 0 \in T, \A k \in T : k + 1 \in T
    PROVE  T = Nat
<1> SUFFICES ASSUME Nat \ T # {} PROVE FALSE
  OBVIOUS
<1>1. PICK x \in Nat \ T : \A y \in Nat \ T : ~(<<y, x>> \in OpToRel(<, Nat))
  BY NatLessThanWellFounded, WFMin
<1>2. \A y \in Nat : y < x => y \in T
  BY <1>1 DEF OpToRel
<1>3. x \in Nat /\ x \notin T
  OBVIOUS
<1>4. x # 0
  BY <1>3
<1>5. x - 1 \in T
  BY <1>2, <1>3, <1>4
<1>6. (x - 1) + 1 \in T
  BY <1>5
<1>7. (x - 1) + 1 = x
  BY <1>3
<1> QED
  BY <1>3, <1>6, <1>7

\* Concat is what its recursion says.
LEMMA ConcatEquation ==
    ASSUME NEW S, NEW ss \in Seq(S)
    PROVE  \E f : /\ f = [k \in 0 .. Len(ss) |-> IF k = 0 THEN <<>> ELSE f[k - 1] \o ss[k]]
                  /\ Concat(ss) = f[Len(ss)]
<1> DEFINE L == Len(ss)
           Rhs(f) == [k \in 0 .. L |-> IF k = 0 THEN <<>> ELSE f[k - 1] \o ss[k]]
           Upto(k) == \E f : \A n \in 0 .. L : n < k => f[n] = Rhs(f)[n]
           T == {k \in Nat : Upto(k)}
<1>1. L \in Nat
  OBVIOUS
<1>2. 0 \in T
  <2>1. \A n \in 0 .. L : ~(n < 0)
    BY <1>1
  <2> QED
    BY <2>1
<1>3. ASSUME NEW k \in T PROVE k + 1 \in T
  <2>1. PICK f : \A n \in 0 .. L : n < k => f[n] = Rhs(f)[n]
    OBVIOUS
  <2>2. ASSUME NEW n \in 0 .. L, n < k + 1 PROVE Rhs(f)[n] = Rhs(Rhs(f))[n]
    <3>1. CASE n = 0
      BY <3>1
    <3>2. CASE n # 0
      <4>1. n - 1 \in 0 .. L /\ n - 1 < k
        BY <1>1, <2>2, <3>2
      <4>2. f[n - 1] = Rhs(f)[n - 1]
        BY <2>1, <4>1
      <4> QED
        BY <3>2, <4>2
    <3> QED
      BY <3>1, <3>2
  <2>3. Upto(k + 1)
    <3> HIDE DEF Rhs
    <3> QED
      BY <2>2
  <2> QED
    BY <2>3
<1>4. Upto(L + 1)
  <2> HIDE DEF Upto
  <2>1. T = Nat
    BY <1>2, <1>3, SetInduction
  <2> QED
    BY <1>1, <2>1
<1>5. PICK f : \A n \in 0 .. L : n < L + 1 => f[n] = Rhs(f)[n]
  BY <1>4
<1>6. Rhs(f) = Rhs(Rhs(f))
  <2>1. ASSUME NEW n \in 0 .. L PROVE Rhs(f)[n] = Rhs(Rhs(f))[n]
    <3>1. CASE n = 0
      BY <3>1
    <3>2. CASE n # 0
      <4>1. n - 1 \in 0 .. L /\ n - 1 < L + 1
        BY <1>1, <3>2
      <4>2. f[n - 1] = Rhs(f)[n - 1]
        BY <1>5, <4>1
      <4> QED
        BY <3>2, <4>2
    <3> QED
      BY <3>1, <3>2
  <2> QED
    BY <2>1
<1> DEFINE g == CHOOSE h : h = Rhs(h)
<1>7. g = Rhs(g)
  BY <1>6
<1>8. Concat(ss) = g[L]
  BY DEF Concat
<1> QED
  BY <1>7, <1>8

\* The elements of a sequence.
LEMMA RangeOf ==
    ASSUME NEW S, NEW s \in Seq(S)
    PROVE  /\ Range(s) = {s[i] : i \in 1 .. Len(s)}
           /\ Range(s) \subseteq S
           /\ Distinct(s) <=> \A i, j \in 1 .. Len(s) : s[i] = s[j] => i = j
<1>1. DOMAIN s = 1 .. Len(s)
  OBVIOUS
<1>2. \A i \in 1 .. Len(s) : s[i] \in S
  OBVIOUS
<1>3. Range(s) = {s[i] : i \in 1 .. Len(s)}
  BY <1>1 DEF Range
<1>4. Distinct(s) <=> \A i, j \in 1 .. Len(s) : s[i] = s[j] => i = j
  BY <1>1 DEF Distinct
<1> QED
  BY <1>2, <1>3, <1>4

\* Two sequences one behind the other.
LEMMA TwoSequences ==
    ASSUME NEW S, NEW s \in Seq(S), NEW t \in Seq(S)
    PROVE  /\ s \o t \in Seq(S)
           /\ Range(s \o t) = Range(s) \cup Range(t)
           /\ Distinct(s) /\ Distinct(t) /\ Range(s) \cap Range(t) = {} => Distinct(s \o t)
<1> DEFINE u == s \o t
<1>1. /\ u \in Seq(S) /\ Len(u) = Len(s) + Len(t)
      /\ Len(s) \in Nat /\ Len(t) \in Nat
      /\ \A i \in 1 .. Len(u) : u[i] = IF i <= Len(s) THEN s[i] ELSE t[i - Len(s)]
  BY ConcatProperties
<1> HIDE DEF u
<1>2. \A i \in 1 .. Len(u) :
          \/ i \in 1 .. Len(s) /\ u[i] = s[i]
          \/ i > Len(s) /\ i - Len(s) \in 1 .. Len(t) /\ u[i] = t[i - Len(s)]
  BY <1>1
<1>3. /\ \A i \in 1 .. Len(s) : i \in 1 .. Len(u) /\ u[i] = s[i]
      /\ \A i \in 1 .. Len(t) : Len(s) + i \in 1 .. Len(u) /\ u[Len(s) + i] = t[i]
  <2>1. ASSUME NEW i \in 1 .. Len(s) PROVE i \in 1 .. Len(u) /\ u[i] = s[i]
    BY <1>1
  <2>2. ASSUME NEW i \in 1 .. Len(t) PROVE Len(s) + i \in 1 .. Len(u) /\ u[Len(s) + i] = t[i]
    <3>1. Len(s) + i \in 1 .. Len(u) /\ ~(Len(s) + i <= Len(s)) /\ Len(s) + i - Len(s) = i
      BY <1>1
    <3>2. u[Len(s) + i] = t[Len(s) + i - Len(s)]
      BY <1>1, <3>1
    <3> QED
      BY <3>1, <3>2
  <2> QED
    BY <2>1, <2>2
<1>4. /\ Range(s) = {s[i] : i \in 1 .. Len(s)} /\ Range(t) = {t[i] : i \in 1 .. Len(t)}
      /\ Range(u) = {u[i] : i \in 1 .. Len(u)}
  <2>1. Range(s) = {s[i] : i \in 1 .. Len(s)}
    BY RangeOf
  <2>2. Range(t) = {t[i] : i \in 1 .. Len(t)}
    BY RangeOf
  <2>3. Range(u) = {u[i] : i \in 1 .. Len(u)}
    BY <1>1, RangeOf
  <2> QED
    BY <2>1, <2>2, <2>3
<1>5. Range(u) = Range(s) \cup Range(t)
  <2>1. ASSUME NEW x \in Range(u) PROVE x \in Range(s) \cup Range(t)
    <3>1. PICK i \in 1 .. Len(u) : x = u[i]
      BY <1>4
    <3> QED
      BY <1>2, <1>4, <3>1
  <2>2. ASSUME NEW x \in Range(s) PROVE x \in Range(u)
    <3>1. PICK i \in 1 .. Len(s) : x = s[i]
      BY <1>4
    <3> QED
      BY <1>3, <1>4, <3>1
  <2>3. ASSUME NEW x \in Range(t) PROVE x \in Range(u)
    <3>1. PICK i \in 1 .. Len(t) : x = t[i]
      BY <1>4
    <3> QED
      BY <1>3, <1>4, <3>1
  <2> QED
    BY <2>1, <2>2, <2>3
<1>6. ASSUME Distinct(s), Distinct(t), Range(s) \cap Range(t) = {} PROVE Distinct(u)
  <2>1. SUFFICES ASSUME NEW i \in 1 .. Len(u), NEW j \in 1 .. Len(u), u[i] = u[j] PROVE i = j
    BY <1>1, RangeOf
  <2>2. CASE i \in 1 .. Len(s) /\ j \in 1 .. Len(s)
    <3>1. s[i] = s[j]
      BY <1>3, <2>1, <2>2
    <3> QED
      BY <1>6, <2>2, <3>1, RangeOf
  <2>3. CASE i > Len(s) /\ j > Len(s)
    <3>1. i - Len(s) \in 1 .. Len(t) /\ j - Len(s) \in 1 .. Len(t) /\ t[i - Len(s)] = t[j - Len(s)]
      BY <1>1, <1>2, <2>1, <2>3
    <3>2. i - Len(s) = j - Len(s)
      BY <1>6, <3>1, RangeOf
    <3> QED
      BY <1>1, <3>2
  <2>4. CASE i \in 1 .. Len(s) /\ j > Len(s)
    <3>1. u[i] \in Range(s) /\ u[j] \in Range(t)
      BY <1>1, <1>2, <1>4, <2>4
    <3> QED
      BY <1>6, <2>1, <3>1
  <2>5. CASE i > Len(s) /\ j \in 1 .. Len(s)
    <3>1. u[j] \in Range(s) /\ u[i] \in Range(t)
      BY <1>1, <1>2, <1>4, <2>5
    <3> QED
      BY <1>6, <2>1, <3>1
  <2> QED
    BY <1>1, <1>2, <2>2, <2>3, <2>4, <2>5
<1> QED
  BY <1>1, <1>5, <1>6 DEF u

\* Sequences one behind the other have the elements of all of them, and none
\* twice if none of them and no two of them have it twice.
LEMMA ConcatFacts ==
    ASSUME NEW S, NEW ss \in Seq(Seq(S))
    PROVE  /\ Concat(ss) \in Seq(S)
           /\ \A x : x \in Range(Concat(ss)) <=> \E k \in 1 .. Len(ss) : x \in Range(ss[k])
           /\ (/\ \A k \in 1 .. Len(ss) : Distinct(ss[k])
               /\ \A k, l \in 1 .. Len(ss) : k # l => Range(ss[k]) \cap Range(ss[l]) = {})
              => Distinct(Concat(ss))
<1>1. PICK f : /\ f = [k \in 0 .. Len(ss) |-> IF k = 0 THEN <<>> ELSE f[k - 1] \o ss[k]]
               /\ Concat(ss) = f[Len(ss)]
  BY ConcatEquation
<1>2. Len(ss) \in Nat /\ \A k \in 1 .. Len(ss) : ss[k] \in Seq(S)
  OBVIOUS
<1>3. f[0] = <<>> /\ \A k \in 1 .. Len(ss) : f[k] = f[k - 1] \o ss[k]
  <2>1. 0 \in 0 .. Len(ss) /\ \A k \in 1 .. Len(ss) : k \in 0 .. Len(ss) /\ k # 0
    BY <1>2
  <2> QED
    BY <1>1, <2>1
<1> DEFINE Apart == /\ \A k \in 1 .. Len(ss) : Distinct(ss[k])
                    /\ \A k, l \in 1 .. Len(ss) : k # l => Range(ss[k]) \cap Range(ss[l]) = {}
           P(k) == /\ f[k] \in Seq(S)
                   /\ \A x : x \in Range(f[k]) <=> \E l \in 1 .. k : x \in Range(ss[l])
                   /\ Apart => Distinct(f[k])
           T == {k \in Nat : k <= Len(ss) => P(k)}
<1>4. 0 \in T
  <2>1. f[0] \in Seq(S) /\ Len(f[0]) = 0
    BY <1>3
  <2>2. Range(f[0]) = {} /\ Distinct(f[0])
    BY <2>1, RangeOf
  <2> QED
    BY <2>1, <2>2
<1>5. ASSUME NEW k \in T PROVE k + 1 \in T
  <2>h. k \in Nat /\ (k <= Len(ss) => P(k)) /\ (k + 1 \in T <=> (k + 1 <= Len(ss) => P(k + 1)))
    <3> HIDE DEF P
    <3> QED
      OBVIOUS
  <2>1. SUFFICES ASSUME k + 1 <= Len(ss) PROVE P(k + 1)
    <3> HIDE DEF P
    <3> QED
      BY <2>h
  <2>2. k \in Nat /\ k + 1 \in 1 .. Len(ss) /\ P(k) /\ (k + 1) - 1 = k
    <3> HIDE DEF P
    <3> QED
      BY <1>2, <2>h, <2>1
  <2>3. f[k + 1] = f[k] \o ss[k + 1] /\ ss[k + 1] \in Seq(S) /\ f[k] \in Seq(S)
    BY <1>2, <1>3, <2>2
  <2>4. /\ f[k + 1] \in Seq(S)
        /\ Range(f[k + 1]) = Range(f[k]) \cup Range(ss[k + 1])
        /\ Distinct(f[k]) /\ Distinct(ss[k + 1]) /\ Range(f[k]) \cap Range(ss[k + 1]) = {}
             => Distinct(f[k + 1])
    BY <2>3, TwoSequences
  <2>5. ASSUME NEW x PROVE x \in Range(f[k + 1]) <=> \E l \in 1 .. k + 1 : x \in Range(ss[l])
    <3>1. \A l : l \in 1 .. k + 1 <=> l \in 1 .. k \/ l = k + 1
      BY <2>2
    <3>2. x \in Range(f[k]) <=> \E l \in 1 .. k : x \in Range(ss[l])
      BY <2>2
    <3> QED
      BY <2>4, <3>1, <3>2
  <2>6. ASSUME Apart PROVE Distinct(f[k + 1])
    <3>1. ASSUME NEW x \in Range(f[k]), x \in Range(ss[k + 1]) PROVE FALSE
      <4>1. PICK l \in 1 .. k : x \in Range(ss[l])
        BY <2>2
      <4>2. l \in 1 .. Len(ss) /\ l # k + 1
        BY <1>2, <2>2
      <4>3. Range(ss[l]) \cap Range(ss[k + 1]) = {}
        BY <2>2, <2>6, <4>2
      <4> QED
        BY <3>1, <4>1, <4>3
    <3>2. Distinct(f[k]) /\ Distinct(ss[k + 1])
      BY <2>2, <2>6
    <3> QED
      BY <2>4, <3>1, <3>2
  <2> QED
    BY <2>4, <2>5, <2>6
<1>6. P(Len(ss))
  <2> HIDE DEF P
  <2>1. T = Nat
    BY <1>4, <1>5, SetInduction
  <2> QED
    BY <1>2, <2>1
<1> QED
  BY <1>1, <1>6

\* Selected keeps the elements of S, and repeats none.
LEMMA SelectedFacts ==
    ASSUME NEW M, NEW s \in Seq(M), NEW S
    PROVE  /\ Selected(s, S) \in Seq(M)
           /\ Range(Selected(s, S)) = Range(s) \cap S
           /\ Distinct(s) => Distinct(Selected(s, S))
<1> DEFINE ss == [k \in DOMAIN s |-> IF s[k] \in S THEN <<s[k]>> ELSE <<>>]
<1>1. DOMAIN s = 1 .. Len(s) /\ Len(s) \in Nat /\ \A k \in 1 .. Len(s) : s[k] \in M
  OBVIOUS
<1>2. \A m \in M : <<m>> \in Seq(M) /\ Len(<<m>>) = 1 /\ <<m>>[1] = m
  OBVIOUS
<1>3. <<>> \in Seq(M) /\ Len(<<>>) = 0
  OBVIOUS
<1>4. ss \in Seq(Seq(M)) /\ Len(ss) = Len(s)
  <2>1. ss \in [1 .. Len(s) -> Seq(M)]
    BY <1>1, <1>2, <1>3
  <2> QED
    BY <1>1, <2>1
<1>5. ASSUME NEW k \in 1 .. Len(s)
      PROVE  Range(ss[k]) = (IF s[k] \in S THEN {s[k]} ELSE {}) /\ Distinct(ss[k])
  <2>1. CASE s[k] \in S
    <3>1. ss[k] = <<s[k]>> /\ s[k] \in M
      BY <1>1, <2>1
    <3>2. Range(<<s[k]>>) = {s[k]} /\ Distinct(<<s[k]>>)
      BY DEF Range, Distinct
    <3> QED
      BY <2>1, <3>1, <3>2
  <2>2. CASE s[k] \notin S
    <3>1. ss[k] = <<>>
      BY <1>1, <2>2
    <3>3. Range(<<>>) = {} /\ Distinct(<<>>)
      BY DEF Range, Distinct
    <3> QED
      BY <2>2, <3>1, <3>3
  <2> QED
    BY <2>1, <2>2
<1>6. Selected(s, S) = Concat(ss)
  BY DEF Selected
<1> HIDE DEF ss
<1>7. \A x : x \in Range(Concat(ss)) <=> \E k \in 1 .. Len(ss) : x \in Range(ss[k])
  BY <1>4, ConcatFacts
<1>8. Range(Concat(ss)) = Range(s) \cap S
  <2>1. Range(s) = {s[k] : k \in 1 .. Len(s)}
    BY RangeOf
  <2>2. ASSUME NEW x \in Range(Concat(ss)) PROVE x \in Range(s) /\ x \in S
    <3>1. PICK k \in 1 .. Len(s) : x \in Range(ss[k])
      BY <1>4, <1>7
    <3>2. s[k] \in S /\ x = s[k]
      BY <1>5, <3>1
    <3> QED
      BY <2>1, <3>2
  <2>3. ASSUME NEW x \in Range(s), x \in S PROVE x \in Range(Concat(ss))
    <3>1. PICK k \in 1 .. Len(s) : x = s[k]
      BY <2>1
    <3>2. x \in Range(ss[k])
      BY <1>5, <2>3, <3>1
    <3> QED
      BY <1>4, <1>7, <3>2
  <2> QED
    BY <2>2, <2>3
<1>9. ASSUME Distinct(s) PROVE Distinct(Concat(ss))
  <2>1. \A k, l \in 1 .. Len(s) : s[k] = s[l] => k = l
    BY <1>9, RangeOf
  <2>2. ASSUME NEW k \in 1 .. Len(ss), NEW l \in 1 .. Len(ss), k # l
        PROVE  Range(ss[k]) \cap Range(ss[l]) = {}
    <3>1. ASSUME NEW x, x \in Range(ss[k]), x \in Range(ss[l]) PROVE FALSE
      <4>1. k \in 1 .. Len(s) /\ l \in 1 .. Len(s)
        BY <1>4
      <4>2. x = s[k] /\ x = s[l]
        BY <1>5, <3>1, <4>1
      <4> QED
        BY <2>1, <2>2, <4>1, <4>2
    <3> QED
      BY <3>1
  <2>3. \A k \in 1 .. Len(ss) : Distinct(ss[k])
    BY <1>4, <1>5
  <2> QED
    BY <1>4, <2>2, <2>3, ConcatFacts
<1>10. Concat(ss) \in Seq(M)
  BY <1>4, ConcatFacts
<1> QED
  BY <1>6, <1>8, <1>9, <1>10

-----------------------------------------------------------------------------
(* Writing *)

\* What a page's header says of its records.
HeaderTrue(p) ==
    /\ p.recs \in Seq(Meas) /\ Distinct(p.recs)
    /\ p.minTime \in Nat /\ p.maxTime \in Nat
    /\ p.recs = <<>> => p.maxTime = 0
    /\ p.recs # <<>> => /\ \E m \in Range(p.recs) : m.time = p.minTime
                        /\ \E m \in Range(p.recs) : m.time = p.maxTime
    /\ \A m \in Range(p.recs) :
          /\ p.minTime <= m.time /\ m.time <= p.maxTime
          /\ Bits(m.id) \subseteq p.id_fltr
          /\ Bits(m.flag) \subseteq p.flag_fltr
          /\ Bits(m.source) \subseteq p.src_fltr

Ascending(b) == \A i, j \in 1 .. Len(b) : i < j => b[i].time <= b[j].time

LEMMA MeasTimes ==
    ASSUME NEW m \in Meas
    PROVE  m.time \in Nat /\ 1 <= m.time /\ m.time <= MaxTime /\ MaxTime \in Nat
  BY QueriesAssumption

LEMMA OfTwo ==
    ASSUME NEW x \in Int, NEW y \in Int
    PROVE  /\ Max({x, y}) \in {x, y} /\ x <= Max({x, y}) /\ y <= Max({x, y})
           /\ Min({x, y}) \in {x, y} /\ Min({x, y}) <= x /\ Min({x, y}) <= y
<1>1. \E z \in {x, y} : \A u \in {x, y} : z >= u
  <2>1. CASE x >= y
    BY <2>1
  <2>2. CASE y >= x
    BY <2>2
  <2> QED
    BY <2>1, <2>2
<1>2. \E z \in {x, y} : \A u \in {x, y} : z =< u
  <2>1. CASE x >= y
    BY <2>1
  <2>2. CASE y >= x
    BY <2>2
  <2> QED
    BY <2>1, <2>2
<1>3. Max({x, y}) \in {x, y} /\ \A u \in {x, y} : Max({x, y}) >= u
  BY <1>1 DEF Max
<1>4. Min({x, y}) \in {x, y} /\ \A u \in {x, y} : Min({x, y}) =< u
  BY <1>2 DEF Min
<1> QED
  BY <1>3, <1>4

\* A new page's header.
LEMMA NewPageHeader ==
    ASSUME NEW ww
    PROVE  HeaderTrue(NewPage(ww)) /\ NewPage(ww).recs = <<>> /\ Range(NewPage(ww).recs) = {}
<1>1. NewPage(ww).recs = <<>> /\ NewPage(ww).minTime = 0 /\ NewPage(ww).maxTime = 0
  BY DEF NewPage
<1>2. Range(<<>>) = {} /\ Distinct(<<>>) /\ <<>> \in Seq(Meas)
  BY DEF Range, Distinct
<1> QED
  BY <1>1, <1>2 DEF HeaderTrue

\* Page::append keeps the header true.
LEMMA AppendKeepsHeader ==
    ASSUME NEW p, HeaderTrue(p), NEW b \in Seq(Meas), b # <<>>, Distinct(b), Ascending(b),
           Range(b) \cap Range(p.recs) = {}
    PROVE  /\ HeaderTrue(Page_append(p, b))
           /\ Page_append(p, b).recs = p.recs \o b
           /\ Range(p.recs \o b) = Range(p.recs) \cup Range(b)
<1> DEFINE u == Page_append(p, b)
<1>1. /\ u.recs = p.recs \o b
      /\ u.minTime = IF p.recs = <<>> THEN b[1].time ELSE Min({b[1].time, p.minTime})
      /\ u.maxTime = Max({b[Len(b)].time, p.maxTime})
      /\ u.id_fltr = p.id_fltr \cup UNION {Bits(v) : v \in {m.id : m \in Range(b)}}
      /\ u.flag_fltr = p.flag_fltr \cup UNION {Bits(v) : v \in {m.flag : m \in Range(b)}}
      /\ u.src_fltr = p.src_fltr \cup UNION {Bits(v) : v \in {m.source : m \in Range(b)}}
  BY DEF Page_append, minTimeAfter, maxTimeAfter, Last, bloom_add
<1> HIDE DEF u
<1>2. p.recs \in Seq(Meas) /\ Distinct(p.recs) /\ p.minTime \in Nat /\ p.maxTime \in Nat
  BY DEF HeaderTrue
<1>3. /\ u.recs \in Seq(Meas) /\ Distinct(u.recs)
      /\ Range(p.recs \o b) = Range(p.recs) \cup Range(b)
      /\ Range(u.recs) = Range(p.recs) \cup Range(b)
  BY <1>1, <1>2, TwoSequences
<1>4. /\ Len(b) \in Nat /\ 1 \in 1 .. Len(b) /\ Len(b) \in 1 .. Len(b)
      /\ b[1] \in Meas /\ b[Len(b)] \in Meas
      /\ Range(b) = {b[i] : i \in 1 .. Len(b)} /\ Range(b) \subseteq Meas
  <2>1. Len(b) \in Nat /\ Len(b) # 0
    BY EmptySeq
  <2>2. 1 \in 1 .. Len(b) /\ Len(b) \in 1 .. Len(b)
    BY <2>1
  <2> QED
    BY <2>1, <2>2, RangeOf
<1>5. /\ b[1].time \in Nat /\ b[Len(b)].time \in Nat
      /\ \A m \in Range(b) : m.time \in Nat /\ b[1].time <= m.time /\ m.time <= b[Len(b)].time
  <2>1. b[1].time \in Nat /\ b[Len(b)].time \in Nat
    BY <1>4, MeasTimes
  <2>2. ASSUME NEW m \in Range(b)
        PROVE  m.time \in Nat /\ b[1].time <= m.time /\ m.time <= b[Len(b)].time
    <3>1. PICK i \in 1 .. Len(b) : m = b[i]
      BY <1>4
    <3>2. m.time \in Nat
      BY <1>4, MeasTimes
    <3>3. i = 1 \/ 1 < i
      BY <1>4
    <3>4. i = Len(b) \/ i < Len(b)
      BY <1>4
    <3>5. b[1].time <= b[i].time
      BY <1>4, <2>1, <3>1, <3>2, <3>3 DEF Ascending
    <3>6. b[i].time <= b[Len(b)].time
      BY <1>4, <2>1, <3>1, <3>2, <3>4 DEF Ascending
    <3> QED
      BY <3>1, <3>2, <3>5, <3>6
  <2> QED
    BY <2>1, <2>2
<1>6. u.recs # <<>>
  <2>1. b[1] \in Range(u.recs)
    BY <1>3, <1>4
  <2> QED
    BY <2>1 DEF Range
<1>7. /\ u.maxTime \in Nat /\ u.maxTime \in {b[Len(b)].time, p.maxTime}
      /\ b[Len(b)].time <= u.maxTime /\ p.maxTime <= u.maxTime
  <2> DEFINE x == b[Len(b)].time
             y == p.maxTime
  <2>1. x \in Nat /\ y \in Nat
    BY <1>2, <1>5
  <2>2. u.maxTime = Max({x, y})
    BY <1>1
  <2> HIDE DEF x, y
  <2>i. x \in Int /\ y \in Int
    BY <2>1
  <2>3. Max({x, y}) \in {x, y} /\ x <= Max({x, y}) /\ y <= Max({x, y})
    BY <2>i, OfTwo, Zenon
  <2>4. u.maxTime \in Nat /\ u.maxTime \in {x, y} /\ x <= u.maxTime /\ y <= u.maxTime
    BY <2>1, <2>2, <2>3
  <2> QED
    BY <2>4 DEF x, y
<1>8. /\ u.minTime \in Nat /\ u.minTime <= b[1].time
      /\ p.recs # <<>> => u.minTime \in {b[1].time, p.minTime} /\ u.minTime <= p.minTime
      /\ p.recs = <<>> => u.minTime = b[1].time
  <2>1. CASE p.recs = <<>>
    BY <1>1, <1>5, <2>1
  <2>2. CASE p.recs # <<>>
    <3> DEFINE x == b[1].time
               y == p.minTime
    <3>1. x \in Nat /\ y \in Nat
      BY <1>2, <1>5
    <3>2. u.minTime = Min({x, y})
      BY <1>1, <2>2
    <3> HIDE DEF x, y
    <3>i. x \in Int /\ y \in Int
      BY <3>1
    <3>3. Min({x, y}) \in {x, y} /\ Min({x, y}) <= x /\ Min({x, y}) <= y
      BY <3>i, OfTwo, Zenon
    <3>4. u.minTime \in Nat /\ u.minTime \in {x, y} /\ u.minTime <= x /\ u.minTime <= y
      BY <3>1, <3>2, <3>3
    <3> QED
      BY <2>2, <3>4 DEF x, y
  <2> QED
    BY <2>1, <2>2
<1>9. \A m \in Range(p.recs) : m \in Meas /\ m.time \in Nat
  BY <1>2, RangeOf, MeasTimes
<1>10. ASSUME NEW m \in Range(u.recs) PROVE u.minTime <= m.time /\ m.time <= u.maxTime
  <2>1. CASE m \in Range(b)
    BY <1>5, <1>7, <1>8, <2>1
  <2>2. CASE m \in Range(p.recs)
    <3>1. p.recs # <<>>
      BY <2>2 DEF Range
    <3>2. p.minTime <= m.time /\ m.time <= p.maxTime /\ m.time \in Nat
      BY <1>9, <2>2 DEF HeaderTrue
    <3> QED
      BY <1>2, <1>7, <1>8, <3>1, <3>2
  <2> QED
    BY <1>3, <2>1, <2>2
<1>11. \E m \in Range(u.recs) : m.time = u.minTime
  <2>1. CASE u.minTime = b[1].time
    BY <1>3, <1>4, <2>1
  <2>2. CASE u.minTime # b[1].time
    <3>1. p.recs # <<>> /\ u.minTime = p.minTime
      BY <1>8, <2>2
    <3>2. \E m \in Range(p.recs) : m.time = p.minTime
      BY <3>1 DEF HeaderTrue
    <3> QED
      BY <1>3, <3>1, <3>2
  <2> QED
    BY <2>1, <2>2
<1>12. \E m \in Range(u.recs) : m.time = u.maxTime
  <2>1. CASE u.maxTime = b[Len(b)].time
    BY <1>3, <1>4, <2>1
  <2>2. CASE u.maxTime # b[Len(b)].time
    <3>1. u.maxTime = p.maxTime
      BY <1>7, <2>2
    <3>2. p.recs # <<>>
      <4>1. p.recs = <<>> => p.maxTime = 0
        BY DEF HeaderTrue
      <4>2. b[Len(b)].time >= 1
        BY <1>4, MeasTimes
      <4> QED
        BY <1>5, <1>7, <3>1, <4>1, <4>2
    <3>3. \E m \in Range(p.recs) : m.time = p.maxTime
      BY <3>2 DEF HeaderTrue
    <3> QED
      BY <1>3, <3>1, <3>3
  <2> QED
    BY <2>1, <2>2
<1>13. ASSUME NEW m \in Range(u.recs)
       PROVE  /\ Bits(m.id) \subseteq u.id_fltr
              /\ Bits(m.flag) \subseteq u.flag_fltr
              /\ Bits(m.source) \subseteq u.src_fltr
  <2>1. CASE m \in Range(b)
    BY <1>1, <2>1
  <2>2. CASE m \in Range(p.recs)
    <3>1. /\ Bits(m.id) \subseteq p.id_fltr
          /\ Bits(m.flag) \subseteq p.flag_fltr
          /\ Bits(m.source) \subseteq p.src_fltr
      BY <2>2 DEF HeaderTrue
    <3> QED
      BY <1>1, <3>1
  <2> QED
    BY <1>3, <2>1, <2>2
<1>14. HeaderTrue(u)
  BY <1>3, <1>6, <1>7, <1>8, <1>10, <1>11, <1>12, <1>13 DEF HeaderTrue
<1> QED
  BY <1>1, <1>3, <1>14 DEF u

\* A part of a batch is a batch.
LEMMA Part ==
    ASSUME NEW b \in Seq(Meas), Distinct(b), Ascending(b),
           NEW m \in Nat, NEW n \in Nat, 1 <= m, m <= n + 1, n <= Len(b)
    PROVE  /\ SubSeq(b, m, n) \in Seq(Meas) /\ Len(SubSeq(b, m, n)) = n - m + 1
           /\ Distinct(SubSeq(b, m, n)) /\ Ascending(SubSeq(b, m, n))
           /\ Range(SubSeq(b, m, n)) = {b[i] : i \in m .. n}
<1> DEFINE u == SubSeq(b, m, n)
<1>1. Len(b) \in Nat /\ \A i \in m .. n : i \in 1 .. Len(b) /\ b[i] \in Meas
  OBVIOUS
<1>2. /\ u \in Seq(Meas)
      /\ Len(u) = IF m <= n THEN n - m + 1 ELSE 0
      /\ \A i \in 1 .. n - m + 1 : u[i] = b[m + i - 1]
  BY <1>1, SubSeqProperties
<1> HIDE DEF u
<1>3. Len(u) = n - m + 1
  BY <1>2
<1>4. \A i \in 1 .. Len(u) : u[i] = b[m + i - 1] /\ m + i - 1 \in m .. n /\ m + i - 1 \in 1 .. Len(b)
  BY <1>1, <1>2, <1>3
<1>5. Distinct(u)
  <2>1. \A i, j \in 1 .. Len(b) : b[i] = b[j] => i = j
    BY RangeOf
  <2>2. ASSUME NEW i \in 1 .. Len(u), NEW j \in 1 .. Len(u), u[i] = u[j] PROVE i = j
    <3>1. m + i - 1 = m + j - 1
      BY <1>4, <2>1, <2>2
    <3> QED
      BY <3>1
  <2> QED
    BY <1>2, <2>2, RangeOf
<1>6. Ascending(u)
  <2>1. SUFFICES ASSUME NEW i \in 1 .. Len(u), NEW j \in 1 .. Len(u), i < j
                 PROVE  u[i].time <= u[j].time
    BY DEF Ascending
  <2>2. m + i - 1 < m + j - 1
    BY <2>1
  <2> QED
    BY <1>4, <2>2 DEF Ascending
<1>7. Range(u) = {b[i] : i \in m .. n}
  <2>1. Range(u) = {u[i] : i \in 1 .. Len(u)}
    BY <1>2, RangeOf
  <2>2. ASSUME NEW i \in m .. n PROVE \E j \in 1 .. Len(u) : u[j] = b[i]
    <3>1. i - m + 1 \in 1 .. Len(u) /\ m + (i - m + 1) - 1 = i
      BY <1>3
    <3>2. u[i - m + 1] = b[m + (i - m + 1) - 1]
      BY <1>4, <3>1
    <3> QED
      BY <3>1, <3>2
  <2>3. ASSUME NEW x \in Range(u) PROVE \E i \in m .. n : x = b[i]
    <3>1. PICK j \in 1 .. Len(u) : x = u[j]
      BY <2>1
    <3> QED
      BY <1>4, <3>1
  <2>4. ASSUME NEW i \in m .. n PROVE b[i] \in Range(u)
    BY <2>1, <2>2
  <2> QED
    BY <2>3, <2>4
<1> QED
  BY <1>2, <1>3, <1>5, <1>6, <1>7 DEF u

\* Pages ps, with b still to be written: the headers are true, only the last
\* page may be empty, and only when something is to come or it is the first,
\* and no record is in two places.
Written(ps, b) ==
    /\ \E S : ps \in Seq(S)
    /\ Len(ps) >= 1
    /\ \A i \in 1 .. Len(ps) : HeaderTrue(ps[i]) /\ Len(ps[i].recs) <= default_page_size
    /\ \A i \in 1 .. Len(ps) : ps[i].recs = <<>> => i = Len(ps) /\ (i = 1 \/ b # <<>>)
    /\ \A i, j \in 1 .. Len(ps) : i # j => Range(ps[i].recs) \cap Range(ps[j].recs) = {}
    /\ b \in Seq(Meas) /\ Distinct(b) /\ Ascending(b)
    /\ \A i \in 1 .. Len(ps) : Range(b) \cap Range(ps[i].recs) = {}

\* The last page has been filled with some of b, and r of b is left.
LEMMA LastPageFilled ==
    ASSUME NEW ps, NEW b, Written(ps, b), NEW p, HeaderTrue(p), Len(p.recs) <= default_page_size,
           p.recs # <<>>, NEW r \in Seq(Meas), Distinct(r), Ascending(r), Range(r) \subseteq Range(b),
           Range(p.recs) \subseteq Range(ps[Len(ps)].recs) \cup Range(b),
           Range(r) \cap Range(p.recs) = {}
    PROVE  /\ Written([ps EXCEPT ![Len(ps)] = p], r)
           /\ Len([ps EXCEPT ![Len(ps)] = p]) = Len(ps)
           /\ [ps EXCEPT ![Len(ps)] = p][Len(ps)] = p
<1> DEFINE n == Len(ps)
           done == [ps EXCEPT ![n] = p]
<1>1. PICK S : ps \in Seq(S)
  BY DEF Written
<1>2. n \in Nat /\ n >= 1 /\ n \in 1 .. n
  BY <1>1 DEF Written
<1>3. ps \in Seq(S \cup {p})
  BY <1>1
<1>4. /\ done \in Seq(S \cup {p}) /\ Len(done) = n
      /\ \A i \in 1 .. n : done[i] = IF i = n THEN p ELSE ps[i]
  BY <1>2, <1>3
<1>e. \E U : done \in Seq(U)
  BY <1>4
<1> HIDE DEF done
<1>5. \A i \in 1 .. n : HeaderTrue(done[i]) /\ Len(done[i].recs) <= default_page_size
  BY <1>4 DEF Written
<1>6. ASSUME NEW i \in 1 .. n, done[i].recs = <<>> PROVE FALSE
  <2>1. i # n /\ ps[i].recs = <<>>
    BY <1>4, <1>6
  <2> QED
    BY <2>1 DEF Written
<1>7. ASSUME NEW i \in 1 .. n, i # n
      PROVE  /\ Range(done[i].recs) = Range(ps[i].recs)
             /\ Range(ps[i].recs) \cap Range(p.recs) = {}
  <2>1. done[i] = ps[i]
    BY <1>4, <1>7
  <2>2. Range(ps[i].recs) \cap Range(ps[n].recs) = {} /\ Range(b) \cap Range(ps[i].recs) = {}
    BY <1>2, <1>7 DEF Written
  <2> QED
    BY <2>1, <2>2
<1>8. done[n] = p
  BY <1>2, <1>4
<1>9. ASSUME NEW i \in 1 .. n, NEW j \in 1 .. n, i # j
      PROVE  Range(done[i].recs) \cap Range(done[j].recs) = {}
  <2>1. CASE i = n
    BY <1>7, <1>8, <1>9, <2>1
  <2>2. CASE j = n
    BY <1>7, <1>8, <1>9, <2>2
  <2>3. CASE i # n /\ j # n
    <3>1. Range(ps[i].recs) \cap Range(ps[j].recs) = {}
      BY <1>9 DEF Written
    <3> QED
      BY <1>7, <2>3, <3>1
  <2> QED
    BY <2>1, <2>2, <2>3
<1>10. ASSUME NEW i \in 1 .. n PROVE Range(r) \cap Range(done[i].recs) = {}
  <2>1. CASE i = n
    BY <1>8, <2>1
  <2>2. CASE i # n
    <3>1. Range(b) \cap Range(ps[i].recs) = {}
      BY DEF Written
    <3> QED
      BY <1>7, <2>2, <3>1
  <2> QED
    BY <2>1, <2>2
<1>11. Written(done, r)
  BY <1>2, <1>4, <1>e, <1>5, <1>6, <1>9, <1>10 DEF Written
<1> QED
  BY <1>4, <1>8, <1>11 DEF done

\* A new page, for what is left.
LEMMA PageAdded ==
    ASSUME NEW ps, NEW b, Written(ps, b), b # <<>>, ps[Len(ps)].recs # <<>>, NEW ww,
           default_page_size \in Nat
    PROVE  /\ Written(Append(ps, NewPage(ww)), b)
           /\ Last(Append(ps, NewPage(ww))).recs = <<>>
<1> DEFINE n == Len(ps)
           p == NewPage(ww)
           out == Append(ps, p)
<1>p. HeaderTrue(p) /\ p.recs = <<>> /\ Range(p.recs) = {} /\ Len(p.recs) <= default_page_size
  <2>1. HeaderTrue(p) /\ p.recs = <<>> /\ Range(p.recs) = {}
    BY NewPageHeader
  <2>2. Len(<<>>) = 0
    OBVIOUS
  <2> HIDE DEF p
  <2> QED
    BY <2>1, <2>2
<1>1. PICK S : ps \in Seq(S)
  BY DEF Written
<1>2. n \in Nat /\ n >= 1 /\ n \in 1 .. n
  BY <1>1 DEF Written
<1> HIDE DEF p
<1>3. ps \in Seq(S \cup {p})
  BY <1>1
<1>4. /\ out \in Seq(S \cup {p}) /\ Len(out) = n + 1
      /\ \A i \in 1 .. n : out[i] = ps[i]
      /\ out[n + 1] = p
  BY <1>3, AppendProperties
<1>e. \E U : out \in Seq(U)
  BY <1>4
<1> HIDE DEF out
<1>5. \A i \in 1 .. n + 1 : i \in 1 .. n \/ i = n + 1
  BY <1>2
<1>6. \A i \in 1 .. n + 1 : HeaderTrue(out[i]) /\ Len(out[i].recs) <= default_page_size
  <2>1. \A i \in 1 .. n : HeaderTrue(ps[i]) /\ Len(ps[i].recs) <= default_page_size
    BY DEF Written
  <2> QED
    BY <1>p, <1>4, <1>5, <2>1
<1>7. ASSUME NEW i \in 1 .. n + 1, out[i].recs = <<>> PROVE i = n + 1
  <2>1. SUFFICES ASSUME i \in 1 .. n PROVE FALSE
    BY <1>5
  <2>2. ps[i].recs = <<>>
    BY <1>4, <1>7, <2>1
  <2>3. i = n
    BY <2>1, <2>2 DEF Written
  <2> QED
    BY <2>2, <2>3
<1>8. ASSUME NEW i \in 1 .. n + 1, NEW j \in 1 .. n + 1, i # j
      PROVE  Range(out[i].recs) \cap Range(out[j].recs) = {}
  <2>1. CASE i = n + 1 \/ j = n + 1
    BY <1>p, <1>4, <2>1
  <2>2. CASE i \in 1 .. n /\ j \in 1 .. n
    BY <1>4, <1>8, <2>2 DEF Written
  <2> QED
    BY <1>5, <2>1, <2>2
<1>9. ASSUME NEW i \in 1 .. n + 1 PROVE Range(b) \cap Range(out[i].recs) = {}
  <2>1. CASE i = n + 1
    BY <1>p, <1>4, <2>1
  <2>2. CASE i \in 1 .. n
    BY <1>4, <2>2 DEF Written
  <2> QED
    BY <1>5, <2>1, <2>2
<1>10. Written(out, b)
  <2>1. b \in Seq(Meas) /\ Distinct(b) /\ Ascending(b)
    BY DEF Written
  <2>2. Len(out) >= 1
    BY <1>2, <1>4
  <2> QED
    BY <1>4, <1>e, <1>6, <1>7, <1>8, <1>9, <2>1, <2>2 DEF Written
<1>11. Last(out).recs = <<>>
  BY <1>p, <1>4 DEF Last
<1> QED
  BY <1>10, <1>11 DEF out, p

\* What has come: the records of the pages ps, and b.
All(ps, b) == Records(ps) \cup Range(b)

LEMMA AllIs ==
    ASSUME NEW ps, NEW b, \E S : ps \in Seq(S)
    PROVE  \A x : x \in All(ps, b) <=> x \in Range(b) \/ \E i \in 1 .. Len(ps) : x \in Range(ps[i].recs)
<1>1. PICK S : ps \in Seq(S)
  OBVIOUS
<1>2. DOMAIN ps = 1 .. Len(ps)
  BY <1>1
<1> QED
  BY <1>2 DEF All, Records

\* What goes from b to the last page, and a new page, leave it as it is.
LEMMA SameAll ==
    ASSUME NEW ps, NEW b, Written(ps, b), NEW p, NEW r,
           Range(p.recs) \cup Range(r) = Range(ps[Len(ps)].recs) \cup Range(b)
    PROVE  All([ps EXCEPT ![Len(ps)] = p], r) = All(ps, b)
<1> DEFINE n == Len(ps)
           done == [ps EXCEPT ![n] = p]
<1>1. PICK S : ps \in Seq(S)
  BY DEF Written
<1>2. n \in Nat /\ n \in 1 .. n
  BY <1>1 DEF Written
<1>3. ps \in Seq(S \cup {p})
  BY <1>1
<1>4. /\ done \in Seq(S \cup {p}) /\ Len(done) = n
      /\ \A i \in 1 .. n : done[i] = IF i = n THEN p ELSE ps[i]
  BY <1>2, <1>3
<1>e. \E U : done \in Seq(U)
  BY <1>4
<1> HIDE DEF done
<1>5. \A x : x \in All(done, r) <=> x \in Range(r) \/ \E i \in 1 .. n : x \in Range(done[i].recs)
  BY <1>4, <1>e, AllIs
<1>6. \A x : x \in All(ps, b) <=> x \in Range(b) \/ \E i \in 1 .. n : x \in Range(ps[i].recs)
  BY <1>1, AllIs
<1>7. ASSUME NEW x \in All(done, r) PROVE x \in All(ps, b)
  <2>1. CASE x \in Range(r)
    BY <1>2, <1>6, <2>1
  <2>2. CASE \E i \in 1 .. n : x \in Range(done[i].recs)
    <3>1. PICK i \in 1 .. n : x \in Range(done[i].recs)
      BY <2>2
    <3>2. CASE i = n
      <4>1. x \in Range(p.recs)
        BY <1>4, <3>1, <3>2
      <4> QED
        BY <1>2, <1>6, <4>1
    <3>3. CASE i # n
      <4>1. x \in Range(ps[i].recs)
        BY <1>4, <3>1, <3>3
      <4> QED
        BY <1>6, <4>1
    <3> QED
      BY <3>2, <3>3
  <2> QED
    BY <1>5, <2>1, <2>2
<1>8. ASSUME NEW x \in All(ps, b) PROVE x \in All(done, r)
  <2>n. done[n] = p
    BY <1>2, <1>4
  <2>1. CASE x \in Range(b) \/ x \in Range(ps[n].recs)
    <3>1. x \in Range(p.recs) \/ x \in Range(r)
      BY <2>1
    <3> QED
      BY <1>2, <1>5, <2>n, <3>1
  <2>2. CASE \E i \in 1 .. n : i # n /\ x \in Range(ps[i].recs)
    <3>1. PICK i \in 1 .. n : i # n /\ x \in Range(ps[i].recs)
      BY <2>2
    <3>2. done[i] = ps[i]
      BY <1>4, <3>1
    <3> QED
      BY <1>5, <3>1, <3>2
  <2> QED
    BY <1>6, <2>1, <2>2
<1> QED
  BY <1>7, <1>8 DEF done

LEMMA NewPageAll ==
    ASSUME NEW ps, NEW b, \E S : ps \in Seq(S), NEW ww
    PROVE  All(Append(ps, NewPage(ww)), b) = All(ps, b)
<1> DEFINE n == Len(ps)
           p == NewPage(ww)
           out == Append(ps, p)
<1>p. Range(p.recs) = {}
  BY NewPageHeader
<1> HIDE DEF p
<1>1. PICK S : ps \in Seq(S)
  OBVIOUS
<1>2. n \in Nat
  BY <1>1
<1>3. ps \in Seq(S \cup {p})
  BY <1>1
<1>4. /\ out \in Seq(S \cup {p}) /\ Len(out) = n + 1
      /\ \A i \in 1 .. n : out[i] = ps[i]
      /\ out[n + 1] = p
  BY <1>3, AppendProperties
<1>e. \E U : out \in Seq(U)
  BY <1>4
<1> HIDE DEF out
<1>5. \A i : i \in 1 .. n + 1 <=> i \in 1 .. n \/ i = n + 1
  BY <1>2
<1>6. \A x : x \in All(out, b) <=> x \in Range(b) \/ \E i \in 1 .. Len(out) : x \in Range(out[i].recs)
  BY <1>e, AllIs
<1>7. \A x : x \in All(ps, b) <=> x \in Range(b) \/ \E i \in 1 .. n : x \in Range(ps[i].recs)
  BY <1>1, AllIs
<1>8. ASSUME NEW x PROVE x \in All(out, b) <=> x \in All(ps, b)
  BY <1>p, <1>4, <1>5, <1>6, <1>7
<1> QED
  BY <1>8 DEF out, p

\* One turn of the loop of AsyncWriter::call.  When something is left, it is
\* for an empty page, and less than before if the page was empty before.
LEMMA TurnKeeps ==
    ASSUME NEW ps, NEW b, Written(ps, b), b # <<>>, default_page_size \in Nat \ {0},
           NEW w, w = WriteTurn(ps, b)
    PROVE  /\ Written(w.pages, w.left)
           /\ Len(w.left) <= Len(b)
           /\ w.left # <<>> => Last(w.pages).recs = <<>>
           /\ Last(ps).recs = <<>> => Len(w.left) < Len(b)
           /\ All(w.pages, w.left) = All(ps, b)
<1> DEFINE n == Len(ps)
           p == ps[n]
           room == default_page_size - Len(p.recs)
           writed == Min({Len(b), room})
           h == SubSeq(b, 1, writed)
           r == SubSeq(b, writed + 1, Len(b))
           filled == IF writed = 0 THEN p ELSE Page_append(p, h)
           done == [ps EXCEPT ![n] = filled]
<1>1. w = IF writed = Len(b) THEN [pages |-> done, left |-> <<>>]
          ELSE [pages |-> Append(done, NewPage(filled.ww)), left |-> r]
  BY DEF WriteTurn, Last
<1>2. n \in Nat /\ n \in 1 .. n
  <2>1. PICK S : ps \in Seq(S)
    BY DEF Written
  <2> QED
    BY <2>1 DEF Written
<1>3. HeaderTrue(p) /\ Len(p.recs) <= default_page_size /\ Range(b) \cap Range(p.recs) = {}
  BY <1>2 DEF Written
<1>4. p.recs \in Seq(Meas) /\ Len(p.recs) \in Nat
  <2>1. p.recs \in Seq(Meas)
    BY <1>3 DEF HeaderTrue
  <2> QED
    BY <2>1, LenProperties
<1>5. b \in Seq(Meas) /\ Distinct(b) /\ Ascending(b) /\ Len(b) \in Nat /\ Len(b) # 0
  <2>1. b \in Seq(Meas) /\ Distinct(b) /\ Ascending(b)
    BY DEF Written
  <2> QED
    BY <2>1, EmptySeq, LenProperties
<1>6. room \in Nat /\ (room = 0 => Len(p.recs) # 0)
  BY <1>3, <1>4
<1>7. /\ writed \in Nat /\ writed <= Len(b) /\ writed <= room
      /\ writed = 0 => room = 0
  <2> HIDE DEF room
  <2>1. Len(b) \in Int /\ room \in Int
    BY <1>5, <1>6
  <2>2. writed \in {Len(b), room} /\ writed <= Len(b) /\ writed <= room
    BY <2>1, OfTwo, Zenon
  <2> HIDE DEF writed
  <2> QED
    BY <1>5, <1>6, <2>2
<1>8. /\ h \in Seq(Meas) /\ Len(h) = writed /\ Distinct(h) /\ Ascending(h)
      /\ Range(h) = {b[i] : i \in 1 .. writed}
  <2> HIDE DEF writed
  <2>1. SubSeq(b, 1, writed) \in Seq(Meas) /\ Len(SubSeq(b, 1, writed)) = writed - 1 + 1
    BY <1>5, <1>7, Part
  <2>2. Distinct(h) /\ Ascending(h) /\ Range(h) = {b[i] : i \in 1 .. writed}
    BY <1>5, <1>7, Part
  <2> QED
    BY <1>7, <2>1, <2>2
<1>9. /\ r \in Seq(Meas) /\ Len(r) = Len(b) - writed /\ Distinct(r) /\ Ascending(r)
      /\ Range(r) = {b[i] : i \in writed + 1 .. Len(b)}
  <2> HIDE DEF writed
  <2>1. /\ writed + 1 \in Nat /\ 1 <= writed + 1 /\ writed + 1 <= Len(b) + 1
        /\ Len(b) - (writed + 1) + 1 = Len(b) - writed
    BY <1>5, <1>7
  <2>2. /\ r \in Seq(Meas) /\ Len(r) = Len(b) - (writed + 1) + 1 /\ Distinct(r) /\ Ascending(r)
        /\ Range(r) = {b[i] : i \in writed + 1 .. Len(b)}
    BY <1>5, <2>1, Part
  <2> QED
    BY <2>1, <2>2
<1> HIDE DEF writed, h, r, room
<1>10. /\ Range(h) \subseteq Range(b) /\ Range(r) \subseteq Range(b) /\ Range(h) \cap Range(r) = {}
       /\ Range(h) \cup Range(r) = Range(b)
  <2>1. Range(b) = {b[i] : i \in 1 .. Len(b)} /\ \A i, j \in 1 .. Len(b) : b[i] = b[j] => i = j
    BY <1>5, RangeOf
  <2>2. \A i \in 1 .. writed : i \in 1 .. Len(b) /\ i <= writed
    BY <1>5, <1>7
  <2>3. \A i \in writed + 1 .. Len(b) : i \in 1 .. Len(b) /\ ~(i <= writed)
    BY <1>5, <1>7
  <2>4. Range(h) \subseteq Range(b)
    BY <1>8, <2>1, <2>2
  <2>5. Range(r) \subseteq Range(b)
    BY <1>9, <2>1, <2>3
  <2>6. ASSUME NEW x, x \in Range(h), x \in Range(r) PROVE FALSE
    <3>1. PICK i \in 1 .. writed : x = b[i]
      BY <1>8, <2>6
    <3>2. PICK j \in writed + 1 .. Len(b) : x = b[j]
      BY <1>9, <2>6
    <3>3. i = j
      BY <2>1, <2>2, <2>3, <3>1, <3>2
    <3> QED
      BY <2>2, <2>3, <3>1, <3>2, <3>3
  <2>7. ASSUME NEW x \in Range(b) PROVE x \in Range(h) \cup Range(r)
    <3>1. PICK i \in 1 .. Len(b) : x = b[i]
      BY <2>1
    <3>2. i \in 1 .. writed \/ i \in writed + 1 .. Len(b)
      BY <1>5, <1>7
    <3> QED
      BY <1>8, <1>9, <3>1, <3>2
  <2> QED
    BY <2>4, <2>5, <2>6, <2>7
<1>11. /\ HeaderTrue(filled) /\ Len(filled.recs) <= default_page_size /\ filled.recs # <<>>
       /\ Range(filled.recs) = Range(p.recs) \cup Range(h)
  <2>1. CASE writed = 0
    <3>1. filled = p /\ Len(p.recs) # 0
      BY <1>6, <1>7, <2>1
    <3>3. Range(h) = {}
      BY <1>8, <2>1
    <3>2. p.recs # <<>>
      BY <1>4, <3>1, EmptySeq
    <3> QED
      BY <1>3, <3>1, <3>2, <3>3
  <2>2. CASE writed # 0
    <3>1. filled = Page_append(p, h)
      BY <2>2
    <3>2. h # <<>> /\ Range(h) \cap Range(p.recs) = {}
      <4>1. Len(<<>>) = 0
        OBVIOUS
      <4> QED
        BY <1>3, <1>8, <1>10, <2>2, <4>1
    <3> HIDE DEF p, filled
    <3>3. /\ HeaderTrue(filled) /\ filled.recs = p.recs \o h
          /\ Range(p.recs \o h) = Range(p.recs) \cup Range(h)
      BY <1>3, <1>8, <3>1, <3>2, AppendKeepsHeader
    <3>4. Len(filled.recs) = Len(p.recs) + writed
      BY <1>4, <1>8, <3>3, ConcatProperties
    <3>5. Len(p.recs) + writed <= default_page_size /\ Len(p.recs) + writed # 0
      BY <1>4, <1>7, <2>2 DEF room
    <3>6. filled.recs # <<>>
      <4>1. Len(<<>>) = 0
        OBVIOUS
      <4> QED
        BY <3>4, <3>5, <4>1
    <3> QED
      BY <3>3, <3>4, <3>5, <3>6
  <2> QED
    BY <2>1, <2>2
<1> HIDE DEF filled
<1>12. CASE writed = Len(b)
  <2>1. w.pages = done /\ w.left = <<>>
    BY <1>1, <1>12
  <2>2. <<>> \in Seq(Meas) /\ Distinct(<<>>) /\ Ascending(<<>>) /\ Range(<<>>) = {} /\ Len(<<>>) = 0
    BY DEF Distinct, Ascending, Range
  <2>3. Range(filled.recs) \subseteq Range(ps[n].recs) \cup Range(b)
    BY <1>10, <1>11
  <2>4. Written(done, <<>>)
    <3> HIDE DEF p
    <3> QED
      BY <1>11, <2>2, <2>3, LastPageFilled
  <2>5. Range(r) = {}
    <3>1. writed + 1 .. Len(b) = {}
      BY <1>5, <1>12
    <3> QED
      BY <1>9, <3>1
  <2>6. Range(filled.recs) \cup Range(<<>>) = Range(ps[n].recs) \cup Range(b)
    BY <1>10, <1>11, <2>2, <2>5
  <2>7. All(done, <<>>) = All(ps, b)
    <3> HIDE DEF p
    <3> QED
      BY <2>6, SameAll
  <2> HIDE DEF done
  <2> QED
    BY <1>5, <2>1, <2>2, <2>4, <2>7
<1>13. CASE writed # Len(b)
  <2>1. w.pages = Append(done, NewPage(filled.ww)) /\ w.left = r
    BY <1>1, <1>13
  <2>2. Range(filled.recs) \subseteq Range(ps[n].recs) \cup Range(b)
    BY <1>10, <1>11
  <2>3. Range(r) \cap Range(filled.recs) = {}
    BY <1>3, <1>10, <1>11
  <2>4. Written(done, r) /\ Len(done) = n /\ done[n] = filled
    <3> HIDE DEF p
    <3> QED
      BY <1>9, <1>10, <1>11, <2>2, <2>3, LastPageFilled
  <2>5. r # <<>>
    <3>1. Len(<<>>) = 0
      OBVIOUS
    <3> QED
      BY <1>5, <1>7, <1>9, <1>13, <3>1
  <2>9. Range(filled.recs) \cup Range(r) = Range(ps[n].recs) \cup Range(b)
    BY <1>10, <1>11
  <2>10. All(done, r) = All(ps, b)
    <3> HIDE DEF p
    <3> QED
      BY <2>9, SameAll
  <2> HIDE DEF done
  <2>11. All(Append(done, NewPage(filled.ww)), r) = All(done, r)
    <3>1. \E S : done \in Seq(S)
      BY <2>4 DEF Written
    <3> QED
      BY <3>1, NewPageAll
  <2>6. done[Len(done)].recs # <<>>
    BY <1>11, <2>4
  <2>7. Written(Append(done, NewPage(filled.ww)), r) /\ Last(Append(done, NewPage(filled.ww))).recs = <<>>
    BY <2>4, <2>5, <2>6, PageAdded
  <2>8. Len(r) <= Len(b) /\ (Last(ps).recs = <<>> => Len(r) < Len(b))
    <3>1. ASSUME Last(ps).recs = <<>> PROVE writed # 0
      <4>1. Len(p.recs) = 0
        BY <3>1 DEF Last
      <4> QED
        BY <1>6, <1>7, <4>1
    <3> QED
      BY <1>5, <1>7, <1>9, <3>1
  <2> QED
    BY <2>1, <2>7, <2>8, <2>10, <2>11
<1> QED
  BY <1>12, <1>13

\* The loop is what its recursion says.
LEMMA WriteAllEquation ==
    ASSUME NEW ps, NEW b, Len(b) \in Nat
    PROVE  \E f : /\ f[0] = [pages |-> ps, left |-> b]
                  /\ \A k \in 1 .. Len(b) + 1 :
                        f[k] = IF f[k - 1].left = <<>> THEN f[k - 1]
                               ELSE WriteTurn(f[k - 1].pages, f[k - 1].left)
                  /\ WriteAll(ps, b) = f[Len(b) + 1].pages
<1> DEFINE L == Len(b) + 1
           Begin == [pages |-> ps, left |-> b]
           Turn(w) == IF w.left = <<>> THEN w ELSE WriteTurn(w.pages, w.left)
           Rhs(f) == [k \in 0 .. L |-> IF k = 0 THEN Begin ELSE Turn(f[k - 1])]
           Upto(k) == \E f : \A n \in 0 .. L : n < k => f[n] = Rhs(f)[n]
           T == {k \in Nat : Upto(k)}
<1>a. WriteAll(ps, b) = (CHOOSE h : h = Rhs(h))[L].pages
  BY DEF WriteAll
<1>t. \A w : Turn(w) = IF w.left = <<>> THEN w ELSE WriteTurn(w.pages, w.left)
  OBVIOUS
<1> HIDE DEF Turn, Begin
<1>1. L \in Nat
  OBVIOUS
<1> HIDE DEF L
<1>2. 0 \in T
  <2>1. \A n \in 0 .. L : ~(n < 0)
    BY <1>1
  <2> QED
    BY <2>1
<1>3. ASSUME NEW k \in T PROVE k + 1 \in T
  <2>1. PICK f : \A n \in 0 .. L : n < k => f[n] = Rhs(f)[n]
    OBVIOUS
  <2>2. ASSUME NEW n \in 0 .. L, n < k + 1 PROVE Rhs(f)[n] = Rhs(Rhs(f))[n]
    <3>1. CASE n = 0
      BY <3>1
    <3>2. CASE n # 0
      <4>1. n - 1 \in 0 .. L /\ n - 1 < k
        BY <1>1, <2>2, <3>2
      <4>2. f[n - 1] = Rhs(f)[n - 1]
        BY <2>1, <4>1
      <4> QED
        BY <3>2, <4>2
    <3> QED
      BY <3>1, <3>2
  <2>3. Upto(k + 1)
    <3> HIDE DEF Rhs
    <3> QED
      BY <2>2
  <2> QED
    BY <2>3
<1>4. Upto(L + 1)
  <2> HIDE DEF Upto
  <2>1. T = Nat
    BY <1>2, <1>3, SetInduction
  <2> QED
    BY <1>1, <2>1
<1>5. PICK f : \A n \in 0 .. L : n < L + 1 => f[n] = Rhs(f)[n]
  BY <1>4
<1>6. Rhs(f) = Rhs(Rhs(f))
  <2>1. ASSUME NEW n \in 0 .. L PROVE Rhs(f)[n] = Rhs(Rhs(f))[n]
    <3>1. CASE n = 0
      BY <3>1
    <3>2. CASE n # 0
      <4>1. n - 1 \in 0 .. L /\ n - 1 < L + 1
        BY <1>1, <3>2
      <4>2. f[n - 1] = Rhs(f)[n - 1]
        BY <1>5, <4>1
      <4> QED
        BY <3>2, <4>2
    <3> QED
      BY <3>1, <3>2
  <2> QED
    BY <2>1
<1> DEFINE g == CHOOSE h : h = Rhs(h)
<1>7. g = Rhs(g)
  BY <1>6
<1>8. WriteAll(ps, b) = g[L].pages
  BY <1>a
<1> HIDE DEF g
<1>9. g[0] = Begin
  BY <1>1, <1>7
<1>10. \A k \in 1 .. L : g[k] = Turn(g[k - 1])
  <2>1. \A k \in 1 .. L : k \in 0 .. L /\ k # 0
    BY <1>1
  <2> QED
    BY <1>7, <2>1
<1>11. \A k \in 1 .. L : g[k] = IF g[k - 1].left = <<>> THEN g[k - 1]
                                ELSE WriteTurn(g[k - 1].pages, g[k - 1].left)
  BY <1>10, <1>t
<1> QED
  BY <1>8, <1>9, <1>11 DEF L, Begin

\* The loop writes all of b.
LEMMA WriteAllKeeps ==
    ASSUME NEW ps, NEW b, Written(ps, b), default_page_size \in Nat \ {0}
    PROVE  Written(WriteAll(ps, b), <<>>) /\ Records(WriteAll(ps, b)) = Records(ps) \cup Range(b)
<1>1. Len(b) \in Nat
  BY LenProperties DEF Written
<1>2. PICK f : /\ f[0] = [pages |-> ps, left |-> b]
               /\ \A k \in 1 .. Len(b) + 1 :
                     f[k] = IF f[k - 1].left = <<>> THEN f[k - 1]
                            ELSE WriteTurn(f[k - 1].pages, f[k - 1].left)
               /\ WriteAll(ps, b) = f[Len(b) + 1].pages
  BY <1>1, WriteAllEquation
<1> DEFINE P(k) == /\ Written(f[k].pages, f[k].left)
                   /\ f[k].left # <<>> /\ k >= 1 =>
                        Last(f[k].pages).recs = <<>> /\ Len(f[k].left) <= Len(b) - k + 1
                   /\ Len(f[k].left) <= Len(b)
                   /\ All(f[k].pages, f[k].left) = All(ps, b)
           T == {k \in Nat : k <= Len(b) + 1 => P(k)}
<1>3. 0 \in T
  BY <1>1, <1>2
<1>4. ASSUME NEW k \in T PROVE k + 1 \in T
  <2>h. k \in Nat /\ (k <= Len(b) + 1 => P(k)) /\ (k + 1 \in T <=> (k + 1 <= Len(b) + 1 => P(k + 1)))
    <3> HIDE DEF P
    <3> QED
      OBVIOUS
  <2>1. SUFFICES ASSUME k + 1 <= Len(b) + 1 PROVE P(k + 1)
    <3> HIDE DEF P
    <3> QED
      BY <2>h
  <2>2. k + 1 \in 1 .. Len(b) + 1 /\ P(k) /\ (k + 1) - 1 = k
    <3> HIDE DEF P
    <3> QED
      BY <1>1, <2>h, <2>1
  <2>3. f[k + 1] = IF f[k].left = <<>> THEN f[k] ELSE WriteTurn(f[k].pages, f[k].left)
    BY <1>2, <2>2
  <2>4. CASE f[k].left = <<>>
    BY <2>2, <2>3, <2>4
  <2>5. CASE f[k].left # <<>>
    <3> DEFINE w == f[k + 1]
               v == f[k]
    <3>1. w = WriteTurn(v.pages, v.left) /\ Written(v.pages, v.left) /\ v.left # <<>>
      BY <2>2, <2>3, <2>5
    <3>2. /\ Len(v.left) <= Len(b)
          /\ All(v.pages, v.left) = All(ps, b)
          /\ k >= 1 => Last(v.pages).recs = <<>> /\ Len(v.left) <= Len(b) - k + 1
      BY <2>2, <2>5
    <3> HIDE DEF w, v
    <3>3. /\ Written(w.pages, w.left)
          /\ Len(w.left) <= Len(v.left)
          /\ w.left # <<>> => Last(w.pages).recs = <<>>
          /\ Last(v.pages).recs = <<>> => Len(w.left) < Len(v.left)
          /\ All(w.pages, w.left) = All(v.pages, v.left)
      BY <3>1, TurnKeeps
    <3>4. Len(w.left) \in Nat /\ Len(v.left) \in Nat
      BY <3>1, <3>3, LenProperties DEF Written
    <3>5. Len(w.left) <= Len(b) - (k + 1) + 1 /\ Len(w.left) <= Len(b)
      BY <1>1, <2>h, <3>2, <3>3, <3>4
    <3> QED
      BY <3>2, <3>3, <3>5 DEF w
  <2> QED
    BY <2>4, <2>5
<1>5. P(Len(b) + 1)
  <2> HIDE DEF P
  <2>1. T = Nat
    BY <1>3, <1>4, SetInduction
  <2> QED
    BY <1>1, <2>1
<1> DEFINE w == f[Len(b) + 1]
<1>6. /\ Written(w.pages, w.left) /\ (w.left # <<>> => Len(w.left) <= 0)
      /\ All(w.pages, w.left) = All(ps, b)
  BY <1>1, <1>5
<1> HIDE DEF w
<1>7. w.left \in Seq(Meas) /\ Len(w.left) \in Nat
  BY <1>6, LenProperties DEF Written
<1>8. w.left = <<>>
  BY <1>6, <1>7, EmptySeq
<1>9. WriteAll(ps, b) = w.pages
  BY <1>2 DEF w
<1>10. All(w.pages, <<>>) = Records(w.pages)
  BY DEF All, Range
<1>11. Written(w.pages, <<>>) /\ Records(w.pages) = Records(ps) \cup Range(b)
  BY <1>6, <1>8, <1>10 DEF All
<1> QED
  BY <1>9, <1>11

\* What is sorted from each to the next is sorted.
LEMMA Sorted ==
    ASSUME NEW n \in Nat, NEW t, \A i \in 1 .. n : t[i] \in Int,
           \A i \in 1 .. n - 1 : t[i] <= t[i + 1]
    PROVE  \A i, j \in 1 .. n : i <= j => t[i] <= t[j]
<1> DEFINE P(j) == \A i \in 1 .. n : i <= j => t[i] <= t[j]
           T == {j \in Nat : j \in 1 .. n => P(j)}
<1>1. 0 \in T
  OBVIOUS
<1>2. ASSUME NEW j \in T PROVE j + 1 \in T
  <2>h. j \in Nat /\ (j \in 1 .. n => P(j)) /\ (j + 1 \in T <=> (j + 1 \in 1 .. n => P(j + 1)))
    <3> HIDE DEF P
    <3> QED
      OBVIOUS
  <2>1. SUFFICES ASSUME j + 1 \in 1 .. n PROVE P(j + 1)
    <3> HIDE DEF P
    <3> QED
      BY <2>h
  <2>2. SUFFICES ASSUME NEW i \in 1 .. n, i <= j + 1 PROVE t[i] <= t[j + 1]
    OBVIOUS
  <2>3. CASE i = j + 1
    BY <2>3
  <2>4. CASE i # j + 1
    <3>1. i <= j /\ j \in 1 .. n /\ j \in 1 .. n - 1
      BY <2>h, <2>1, <2>2, <2>4
    <3>2. t[i] <= t[j]
      BY <2>h, <3>1
    <3>3. t[j] <= t[j + 1]
      BY <3>1
    <3>4. t[i] \in Int /\ t[j] \in Int /\ t[j + 1] \in Int
      BY <2>1, <3>1
    <3> QED
      BY <3>2, <3>3, <3>4
  <2> QED
    BY <2>3, <2>4
<1>3. T = Nat
  <2> HIDE DEF P
  <2> QED
    BY <1>1, <1>2, SetInduction
<1>4. \A j \in 1 .. n : j \in Nat
  OBVIOUS
<1>5. \A j \in 1 .. n : P(j)
  <2> HIDE DEF P
  <2> QED
    BY <1>3, <1>4
<1> QED
  BY <1>5

\* A batch of AsyncWriter::call.
LEMMA BatchIs ==
    ASSUME NEW S \in SUBSET Meas, IsFiniteSet(S), NEW b \in SetToSeqs(S),
           \A i \in 1 .. Len(b) - 1 : b[i].time <= b[i + 1].time
    PROVE  b \in Seq(Meas) /\ Distinct(b) /\ Ascending(b) /\ Range(b) = S
<1> DEFINE n == Cardinality(S)
<1>1. b \in [1 .. n -> S] /\ \A i, j \in 1 .. n : i # j => b[i] # b[j]
  BY DEF SetToSeqs
<1>2. n \in Nat
  BY FS_CardinalityType
<1>c. IsFiniteSet(1 .. n) /\ Cardinality(1 .. n) = n
  <2>1. 1 \in Int /\ n \in Int /\ (1 > n => n = 0) /\ n - 1 + 1 = n
    BY <1>2
  <2> HIDE DEF n
  <2> QED
    BY <2>1, FS_Interval
<1>s. \A x \in S : \E i \in 1 .. n : b[i] = x
  <2>1. b \in Injection(1 .. n, S)
    BY <1>1 DEF Injection, IsInjective
  <2>2. Cardinality(1 .. n) = Cardinality(S)
    BY <1>c
  <2>3. b \in Surjection(1 .. n, S)
    BY <2>1, <2>2, FS_Injection
  <2> QED
    BY <2>3 DEF Surjection
<1> HIDE DEF n
<1>3. b \in Seq(S) /\ Len(b) = n
  BY <1>1, <1>2
<1>4. b \in Seq(Meas)
  BY <1>3
<1>5. Distinct(b) /\ Range(b) = S
  <2>1. Distinct(b) /\ Range(b) \subseteq S /\ Range(b) = {b[i] : i \in 1 .. n}
    BY <1>1, <1>3, RangeOf
  <2> QED
    BY <1>s, <2>1
<1> DEFINE t == [i \in 1 .. n |-> b[i].time]
<1>6. \A i \in 1 .. n : t[i] = b[i].time /\ t[i] \in Int
  <2>1. \A i \in 1 .. n : b[i] \in Meas
    BY <1>1
  <2> QED
    BY <2>1, MeasTimes
<1> HIDE DEF t
<1>7. \A i \in 1 .. n - 1 : t[i] <= t[i + 1]
  <2>1. \A i \in 1 .. n - 1 : i \in 1 .. n /\ i + 1 \in 1 .. n
    BY <1>2
  <2> QED
    BY <1>3, <1>6, <2>1
<1>8. \A i, j \in 1 .. n : i <= j => t[i] <= t[j]
  BY <1>2, <1>6, <1>7, Sorted
<1>9. Ascending(b)
  <2>1. \A i, j \in 1 .. n : i < j => i <= j
    BY <1>2
  <2> QED
    BY <1>3, <1>6, <1>8, <2>1 DEF Ascending
<1> QED
  BY <1>4, <1>5, <1>9

-----------------------------------------------------------------------------
(* The inductive invariant: all that has come is written, under true headers *)

QueriesInv == Written(pages, <<>>) /\ default_page_size \in PageCaps

LEMMA NothingLeft ==
    <<>> \in Seq(Meas) /\ Distinct(<<>>) /\ Ascending(<<>>) /\ Range(<<>>) = {} /\ Len(<<>>) = 0
  BY DEF Distinct, Ascending, Range

LEMMA InitQueriesInv == Init => QueriesInv
<1> SUFFICES ASSUME Init PROVE QueriesInv
  OBVIOUS
<1> DEFINE p == NewPage(<<>>)
<1>1. pages = <<p>> /\ default_page_size \in PageCaps
  BY DEF Init
<1>2. HeaderTrue(p) /\ p.recs = <<>> /\ Range(p.recs) = {}
  BY NewPageHeader
<1>3. default_page_size \in Nat
  BY <1>1, QueriesAssumption
<1> HIDE DEF p
<1>4. /\ pages \in Seq({p}) /\ Len(pages) = 1
      /\ \A i \in 1 .. Len(pages) : i = 1 /\ pages[i] = p
  BY <1>1
<1>5. \E U : pages \in Seq(U)
  BY <1>4
<1>6. Len(p.recs) <= default_page_size
  BY <1>2, <1>3, NothingLeft
<1>7. Written(pages, <<>>)
  BY <1>2, <1>4, <1>5, <1>6, NothingLeft DEF Written
<1> QED
  BY <1>1, <1>7 DEF QueriesInv

\* AsyncWriter::call writes what is in the cache, all of it and nothing else.
LEMMA CallKeeps ==
    ASSUME QueriesInv, NEW S \in SUBSET (Meas \ Given), IsFiniteSet(S), call(S)
    PROVE  QueriesInv' /\ Given' = Given \cup S
<1>1. PICK b \in SetToSeqs(S) :
              /\ \A i \in 1 .. Len(b) - 1 : b[i].time <= b[i + 1].time
              /\ pages' = WriteAll(pages, b)
              /\ UNCHANGED default_page_size
  BY DEF call
<1>2. b \in Seq(Meas) /\ Distinct(b) /\ Ascending(b) /\ Range(b) = S
  BY <1>1, BatchIs
<1>3. Written(pages, b)
  <2>0. PICK U : pages \in Seq(U)
    BY DEF QueriesInv, Written
  <2>1. DOMAIN pages = 1 .. Len(pages)
    BY <2>0
  <2>2. ASSUME NEW i \in 1 .. Len(pages) PROVE Range(b) \cap Range(pages[i].recs) = {}
    <3>1. Range(pages[i].recs) \subseteq Given
      BY <2>1, <2>2 DEF Given, Records
    <3> QED
      BY <1>2, <3>1
  <2>3. /\ \E V : pages \in Seq(V)
        /\ Len(pages) >= 1
        /\ \A i \in 1 .. Len(pages) : HeaderTrue(pages[i]) /\ Len(pages[i].recs) <= default_page_size
        /\ \A i \in 1 .. Len(pages) : pages[i].recs = <<>> => i = Len(pages) /\ i = 1
        /\ \A i, j \in 1 .. Len(pages) : i # j => Range(pages[i].recs) \cap Range(pages[j].recs) = {}
    BY DEF QueriesInv, Written
  <2> QED
    BY <1>2, <2>2, <2>3 DEF Written
<1>4. default_page_size \in Nat \ {0}
  BY QueriesAssumption DEF QueriesInv
<1>5. Written(WriteAll(pages, b), <<>>) /\ Records(WriteAll(pages, b)) = Records(pages) \cup Range(b)
  BY <1>3, <1>4, WriteAllKeeps
<1>6. Written(pages, <<>>)'
  BY <1>1, <1>5 DEF Written
<1>7. Records(pages') = Records(WriteAll(pages, b))
  BY <1>1
<1>8. Given' = Given \cup S
  BY <1>2, <1>5, <1>7 DEF Given
<1> QED
  BY <1>1, <1>6, <1>8 DEF QueriesInv

\* What Next calls it with.
LEMMA NextCalls ==
    ASSUME Next
    PROVE  \E S \in SUBSET (Meas \ Given) : S # {} /\ IsFiniteSet(S) /\ call(S)
<1>1. PICK s \in Series : \E S \in UNION {kSubset(k, s \ Given) : k \in 1..MaxBatch} :
                            Given \subseteq s /\ call(S)
  BY DEF Next
<1>2. PICK S \in UNION {kSubset(k, s \ Given) : k \in 1..MaxBatch} : call(S)
  BY <1>1
<1>3. PICK k \in 1..MaxBatch : S \in kSubset(k, s \ Given)
  BY <1>2
<1>4. S \subseteq s \ Given /\ Cardinality(S) = k
  BY <1>3 DEF kSubset
<1>5. S \subseteq Meas \ Given
  BY <1>1, <1>4 DEF Meas
<1>6. IsFiniteSet(S)
  <2>1. IsFiniteSet(s) /\ S \subseteq s
    BY <1>1, <1>4, QueriesAssumption
  <2> QED
    BY <2>1, FS_Subset
<1>7. S # {}
  <2>1. k # 0
    BY <1>3, QueriesAssumption
  <2> QED
    BY <1>4, <2>1, FS_EmptySet
<1> QED
  BY <1>2, <1>5, <1>6, <1>7

LEMMA NextQueriesInv == QueriesInv /\ [Next]_vars => QueriesInv'
<1> SUFFICES ASSUME QueriesInv, [Next]_vars PROVE QueriesInv'
  OBVIOUS
<1>1. CASE UNCHANGED vars
  <2>1. pages' = pages /\ default_page_size' = default_page_size
    BY <1>1 DEF vars
  <2> QED
    BY <2>1 DEF QueriesInv, Written
<1>2. CASE Next
  <2>1. PICK S \in SUBSET (Meas \ Given) : S # {} /\ IsFiniteSet(S) /\ call(S)
    BY <1>2, NextCalls
  <2> QED
    BY <2>1, CallKeeps
<1> QED
  BY <1>1, <1>2

\* The headers of all pages are true, and no record is in two places, after
\* whatever calls of AsyncWriter::call.
THEOREM HeadersAlwaysTrue == Spec => []QueriesInv
<1>1. Init => QueriesInv
  BY InitQueriesInv
<1>2. QueriesInv /\ [Next]_vars => QueriesInv'
  BY NextQueriesInv
<1> QED
  BY <1>1, <1>2, PTL DEF Spec

\* A step writes a cache: it loses no record, neither an old one nor one of
\* the cache, and invents none.
WritesACache ==
    \E S \in SUBSET (Meas \ Given) : S # {} /\ call(S) /\ Given' = Given \cup S

\* AsyncWriter::call loses nothing, however the cache is cut into pages.
THEOREM NothingIsLost == Spec => [][WritesACache]_vars
<1>1. ASSUME QueriesInv, Next PROVE WritesACache
  <2>1. PICK S \in SUBSET (Meas \ Given) : S # {} /\ IsFiniteSet(S) /\ call(S)
    BY <1>1, NextCalls
  <2>2. Given' = Given \cup S
    BY <1>1, <2>1, CallKeeps
  <2> QED
    BY <2>1, <2>2 DEF WritesACache
<1>2. QueriesInv /\ [Next]_vars => [WritesACache]_vars
  BY <1>1
<1> QED
  BY <1>2, HeadersAlwaysTrue, PTL DEF Spec

-----------------------------------------------------------------------------
(* Reading *)

\* The pages ps are those of the database, ordered by maxTime.
Ordered(ps) ==
    /\ \E U : ps \in Seq(U)
    /\ Len(ps) >= 1
    /\ \A i \in 1 .. Len(ps) : HeaderTrue(ps[i])
    /\ \A i, j \in 1 .. Len(ps) : i # j => Range(ps[i].recs) \cap Range(ps[j].recs) = {}
    /\ \A x : x \in Given <=> \E i \in 1 .. Len(ps) : x \in Range(ps[i].recs)
    /\ Given # {} => \A i \in 1 .. Len(ps) : ps[i].recs # <<>>
    /\ \A i, j \in 1 .. Len(ps) : i <= j => ps[i].maxTime <= ps[j].maxTime

\* pagesByTime gives every page one place.
LEMMA Placed ==
    ASSUME QueriesInv, NEW ps \in pagesByTime
    PROVE  /\ \E U : ps \in Seq(U)
           /\ Len(ps) = Len(pages) /\ Len(ps) \in Nat /\ Len(ps) >= 1
           /\ DOMAIN pages = 1 .. Len(ps)
           /\ \E o \in [1 .. Len(ps) -> 1 .. Len(ps)] :
                /\ \A i \in 1 .. Len(ps) : ps[i] = pages[o[i]]
                /\ \A i, j \in 1 .. Len(ps) : o[i] = o[j] => i = j
                /\ \A j \in 1 .. Len(ps) : \E i \in 1 .. Len(ps) : o[i] = j
                /\ \A i, j \in 1 .. Len(ps) : i <= j => ps[i].maxTime <= ps[j].maxTime
<1> DEFINE n == Len(pages)
<1>1. PICK U : pages \in Seq(U)
  BY DEF QueriesInv, Written
<1>2. n \in Nat /\ n >= 1 /\ DOMAIN pages = 1 .. n
  BY <1>1 DEF QueriesInv, Written
<1>3. PICK o \in SetToSeqs(DOMAIN pages) :
             /\ \A i \in 1 .. Len(o) - 1 : pages[o[i]].maxTime <= pages[o[i + 1]].maxTime
             /\ ps = [i \in DOMAIN pages |-> pages[o[i]]]
  BY DEF pagesByTime
<1>4. Cardinality(1 .. n) = n /\ IsFiniteSet(1 .. n)
  <2>1. 1 \in Int /\ n \in Int /\ ~(1 > n) /\ n - 1 + 1 = n
    BY <1>2
  <2> HIDE DEF n
  <2> QED
    BY <2>1, FS_Interval
<1>t. \A i \in 1 .. n : pages[i] \in U /\ pages[i].maxTime \in Nat
  <2>1. \A i \in 1 .. n : HeaderTrue(pages[i])
    BY DEF QueriesInv, Written
  <2>2. \A i \in 1 .. n : pages[i].maxTime \in Nat
    BY <2>1 DEF HeaderTrue
  <2> QED
    BY <1>1, <2>2
<1> HIDE DEF n
<1>5. o \in [1 .. n -> 1 .. n] /\ \A i, j \in 1 .. n : i # j => o[i] # o[j]
  BY <1>2, <1>3, <1>4 DEF SetToSeqs
<1>6. ps = [i \in 1 .. n |-> pages[o[i]]]
  BY <1>2, <1>3
<1>7. ps \in Seq(U) /\ Len(ps) = n /\ \A i \in 1 .. n : ps[i] = pages[o[i]]
  <2>1. \A i \in 1 .. n : ps[i] = pages[o[i]] /\ pages[o[i]] \in U
    BY <1>5, <1>6, <1>t
  <2>2. ps \in [1 .. n -> U]
    BY <1>6, <2>1
  <2>3. ps \in Seq(U) /\ Len(ps) = n
    BY <1>2, <2>2
  <2> QED
    BY <2>1, <2>3
<1>8. \A j \in 1 .. n : \E i \in 1 .. n : o[i] = j
  <2>1. o \in Injection(1 .. n, 1 .. n)
    BY <1>5 DEF Injection, IsInjective
  <2>2. o \in Surjection(1 .. n, 1 .. n)
    BY <1>4, <2>1, FS_Injection
  <2> QED
    BY <2>2 DEF Surjection
<1> DEFINE t == [i \in 1 .. n |-> ps[i].maxTime]
<1>9. \A i \in 1 .. n : t[i] = ps[i].maxTime /\ t[i] \in Int
  BY <1>5, <1>7, <1>t
<1> HIDE DEF t
<1>10. \A i \in 1 .. n - 1 : t[i] <= t[i + 1]
  <2>1. \A i \in 1 .. n - 1 : i \in 1 .. n /\ i + 1 \in 1 .. n
    BY <1>2
  <2>2. Len(o) = n
    BY <1>2, <1>5
  <2> QED
    BY <1>3, <1>7, <1>9, <2>1, <2>2
<1>11. \A i, j \in 1 .. n : i <= j => t[i] <= t[j]
  BY <1>2, <1>9, <1>10, Sorted
<1>12. \A i, j \in 1 .. n : i <= j => ps[i].maxTime <= ps[j].maxTime
  BY <1>9, <1>11
<1>13. \A i, j \in 1 .. n : o[i] = o[j] => i = j
  BY <1>5
<1>14. \E V : ps \in Seq(V)
  BY <1>7
<1>16. n = Len(ps)
  BY <1>7
<1>17. n = Len(pages)
  BY DEF n
<1>18. /\ Len(ps) = Len(pages) /\ Len(ps) \in Nat /\ Len(ps) >= 1
       /\ DOMAIN pages = 1 .. Len(ps)
  BY <1>2, <1>16, <1>17
<1>19. \E q \in [1 .. Len(ps) -> 1 .. Len(ps)] :
         /\ \A i \in 1 .. Len(ps) : ps[i] = pages[q[i]]
         /\ \A i, j \in 1 .. Len(ps) : q[i] = q[j] => i = j
         /\ \A j \in 1 .. Len(ps) : \E i \in 1 .. Len(ps) : q[i] = j
         /\ \A i, j \in 1 .. Len(ps) : i <= j => ps[i].maxTime <= ps[j].maxTime
  <2>1. o \in [1 .. Len(ps) -> 1 .. Len(ps)]
    BY <1>5, <1>16
  <2>2. \A i \in 1 .. Len(ps) : ps[i] = pages[o[i]]
    BY <1>7, <1>16
  <2>3. \A i, j \in 1 .. Len(ps) : o[i] = o[j] => i = j
    BY <1>13, <1>16
  <2>4. \A j \in 1 .. Len(ps) : \E i \in 1 .. Len(ps) : o[i] = j
    BY <1>8, <1>16
  <2>5. \A i, j \in 1 .. Len(ps) : i <= j => ps[i].maxTime <= ps[j].maxTime
    BY <1>12, <1>16
  <2> QED
    BY <2>1, <2>2, <2>3, <2>4, <2>5, Zenon
<1> QED
  BY <1>14, <1>18, <1>19, Zenon

LEMMA PagesAreOrdered ==
    ASSUME QueriesInv, NEW ps \in pagesByTime
    PROVE  Ordered(ps)
<1> DEFINE n == Len(ps)
<1>1. /\ \E U : ps \in Seq(U)
      /\ n = Len(pages) /\ n \in Nat /\ n >= 1 /\ DOMAIN pages = 1 .. n
  BY Placed
<1>2. PICK o \in [1 .. n -> 1 .. n] :
                /\ \A i \in 1 .. n : ps[i] = pages[o[i]]
                /\ \A i, j \in 1 .. n : o[i] = o[j] => i = j
                /\ \A j \in 1 .. n : \E i \in 1 .. n : o[i] = j
                /\ \A i, j \in 1 .. n : i <= j => ps[i].maxTime <= ps[j].maxTime
  BY Placed
<1>3. /\ \A i \in 1 .. n : HeaderTrue(pages[i])
      /\ \A i \in 1 .. n : pages[i].recs = <<>> => i = n /\ i = 1
      /\ \A i, j \in 1 .. n : i # j => Range(pages[i].recs) \cap Range(pages[j].recs) = {}
  BY <1>1 DEF QueriesInv, Written
<1> HIDE DEF n
<1>4. \A i \in 1 .. n : HeaderTrue(ps[i])
  BY <1>2, <1>3
<1>5. ASSUME NEW i \in 1 .. n, NEW j \in 1 .. n, i # j
      PROVE  Range(ps[i].recs) \cap Range(ps[j].recs) = {}
  <2>1. o[i] \in 1 .. n /\ o[j] \in 1 .. n /\ o[i] # o[j]
    BY <1>2, <1>5
  <2>2. Range(pages[o[i]].recs) \cap Range(pages[o[j]].recs) = {}
    BY <1>3, <2>1
  <2>3. ps[i] = pages[o[i]] /\ ps[j] = pages[o[j]]
    BY <1>2
  <2> QED
    BY <2>2, <2>3
<1>6. ASSUME NEW x PROVE x \in Given <=> \E i \in 1 .. n : x \in Range(ps[i].recs)
  <2>1. x \in Given <=> \E j \in 1 .. n : x \in Range(pages[j].recs)
    BY <1>1 DEF Given, Records
  <2>2. ASSUME NEW j \in 1 .. n, x \in Range(pages[j].recs) PROVE \E i \in 1 .. n : x \in Range(ps[i].recs)
    <3>1. PICK i \in 1 .. n : o[i] = j
      BY <1>2
    <3> QED
      BY <1>2, <2>2, <3>1
  <2>3. ASSUME NEW i \in 1 .. n, x \in Range(ps[i].recs) PROVE \E j \in 1 .. n : x \in Range(pages[j].recs)
    <3>1. o[i] \in 1 .. n /\ ps[i] = pages[o[i]]
      BY <1>2
    <3> QED
      BY <2>3, <3>1
  <2> QED
    BY <2>1, <2>2, <2>3
<1>7. ASSUME Given # {}, NEW i \in 1 .. n, ps[i].recs = <<>> PROVE FALSE
  <2>1. o[i] \in 1 .. n /\ pages[o[i]].recs = <<>>
    BY <1>2, <1>7
  <2>2. n = 1
    BY <1>3, <2>1
  <2>3. PICK x : x \in Given
    BY <1>7
  <2>4. PICK j \in 1 .. n : x \in Range(ps[j].recs)
    BY <1>6, <2>3
  <2>5. i = j
    BY <2>2
  <2>6. Range(<<>>) = {}
    BY NothingLeft
  <2> QED
    BY <1>7, <2>4, <2>5, <2>6
<1> QED
  BY <1>1, <1>2, <1>4, <1>5, <1>6, <1>7 DEF Ordered, n

\* All records of p are in the interval of q, which begins before the first.
Covers(q, p) ==
    /\ q.from \in Nat /\ q.to \in Nat
    /\ \A m \in Range(p.recs) : q.from < m.time /\ m.time <= q.to

\* Then the times of the header are in it, too.
LEMMA HeaderCovered ==
    ASSUME NEW p, HeaderTrue(p), p.recs # <<>>, NEW q, Covers(q, p)
    PROVE  /\ p.minTime \in Nat /\ p.maxTime \in Nat
           /\ q.from < p.minTime /\ p.minTime <= q.to
           /\ q.from < p.maxTime /\ p.maxTime <= q.to
<1>1. PICK m \in Range(p.recs) : m.time = p.minTime
  BY DEF HeaderTrue
<1>2. PICK k \in Range(p.recs) : k.time = p.maxTime
  BY DEF HeaderTrue
<1>3. p.minTime \in Nat /\ p.maxTime \in Nat
  BY DEF HeaderTrue
<1> QED
  BY <1>1, <1>2, <1>3 DEF Covers

\* A page all of which is in the interval is read from its first to its last
\* record, for the ones that pass the filter.
LEMMA PageReadWhole ==
    ASSUME NEW p, HeaderTrue(p), p.recs # <<>>, NEW q, Covers(q, p), NEW ww
    PROVE  /\ Page_readInterval(p, q, ww) \in Seq(Meas)
           /\ Range(Page_readInterval(p, q, ww)) = {m \in Range(p.recs) : checkValueFlags(q, m)}
           /\ Distinct(Page_readInterval(p, q, ww))
<1> DEFINE wanted == {m \in Range(p.recs) : inInterval(q.from, q.to, m.time) /\ checkValueFlags(q, m)}
           r == [pos |-> 1, count |-> Len(p.recs)]
           ranges == <<r>>
           ss == [k \in DOMAIN ranges |-> Selected(ReadRange(p, ranges[k]), wanted)]
<1>1. /\ p.minTime \in Nat /\ p.maxTime \in Nat /\ q.from \in Nat /\ q.to \in Nat
      /\ q.from < p.minTime /\ p.minTime <= q.to
      /\ q.from < p.maxTime /\ p.maxTime <= q.to
  BY HeaderCovered DEF Covers
<1>2. /\ q.from <= p.minTime /\ q.to >= p.maxTime
      /\ ~(q.from > p.maxTime) /\ ~(q.from >= p.minTime)
  BY <1>1
<1>3. ranges # <<>>
  OBVIOUS
<1>4. Page_readInterval(p, q, ww) = <<>> \o Concat(ss)
  <2>1. Page_readInterval(p, q, ww) = PageReaderInterval(p, q, ranges, ww)
    BY <1>2 DEF Page_readInterval
  <2>2. PageReaderInterval(p, q, ranges, ww) = <<>> \o Concat(ss)
    BY <1>2, <1>3 DEF PageReaderInterval
  <2> QED
    BY <2>1, <2>2
<1>5. p.recs \in Seq(Meas) /\ Distinct(p.recs) /\ Len(p.recs) \in Nat
  <2>1. p.recs \in Seq(Meas) /\ Distinct(p.recs)
    BY DEF HeaderTrue
  <2> QED
    BY <2>1, LenProperties
<1>6. ReadRange(p, r) = p.recs
  <2>1. ReadRange(p, r) = SubSeq(p.recs, 1, 1 + Len(p.recs) - 1)
    BY DEF ReadRange
  <2>2. 1 + Len(p.recs) - 1 = Len(p.recs)
    BY <1>5
  <2>3. SubSeq(p.recs, 1, Len(p.recs)) = p.recs
    BY <1>5
  <2> QED
    BY <2>1, <2>2, <2>3
<1> DEFINE sel == Selected(p.recs, wanted)
<1>7. sel \in Seq(Meas) /\ Range(sel) = Range(p.recs) \cap wanted /\ Distinct(sel)
  <2> HIDE DEF wanted
  <2> QED
    BY <1>5, SelectedFacts
<1>8. DOMAIN ranges = 1 .. 1 /\ ranges[1] = r
  OBVIOUS
<1>9. ss = [k \in 1 .. 1 |-> sel]
  <2> HIDE DEF wanted, r
  <2>1. \A k \in 1 .. 1 : k = 1
    OBVIOUS
  <2> QED
    BY <1>6, <1>8, <2>1
<1> HIDE DEF ss, sel
<1>10. ss \in Seq(Seq(Meas)) /\ Len(ss) = 1 /\ ss[1] = sel /\ \A k \in 1 .. 1 : k = 1
  BY <1>7, <1>9
<1>11. Concat(ss) \in Seq(Meas) /\ \A x : x \in Range(Concat(ss)) <=> x \in Range(sel)
  <2>1. Concat(ss) \in Seq(Meas) /\ \A x : x \in Range(Concat(ss)) <=> \E k \in 1 .. Len(ss) : x \in Range(ss[k])
    BY <1>10, ConcatFacts
  <2> QED
    BY <1>10, <2>1
<1>12. Distinct(Concat(ss))
  <2>1. /\ \A k \in 1 .. Len(ss) : Distinct(ss[k])
        /\ \A k, l \in 1 .. Len(ss) : k # l => Range(ss[k]) \cap Range(ss[l]) = {}
    BY <1>7, <1>10
  <2> QED
    BY <1>10, <2>1, ConcatFacts
<1>13. <<>> \o Concat(ss) = Concat(ss)
  BY <1>11
<1>14. wanted = {m \in Range(p.recs) : checkValueFlags(q, m)}
  <2>1. \A m \in Range(p.recs) : inInterval(q.from, q.to, m.time)
    <3>1. \A m \in Range(p.recs) : m \in Meas /\ m.time \in Nat
      BY <1>5, RangeOf, MeasTimes
    <3> QED
      BY <1>1, <3>1 DEF Covers, inInterval
  <2> QED
    BY <2>1
<1>15. Range(Concat(ss)) = {m \in Range(p.recs) : checkValueFlags(q, m)}
  <2> HIDE DEF wanted
  <2>1. \A x : x \in Range(Concat(ss)) <=> x \in Range(p.recs) /\ x \in wanted
    BY <1>7, <1>11
  <2> QED
    BY <1>14, <2>1
<1> QED
  BY <1>4, <1>11, <1>12, <1>13, <1>15

\* The bloom filters do not exclude a page with a record the query wants.
LEMMA FiltersKeep ==
    ASSUME NEW p, HeaderTrue(p), NEW q, NEW m \in Range(p.recs), checkValueFlags(q, m)
    PROVE  MayHold(p, q)
<1>1. /\ Bits(m.id) \subseteq p.id_fltr
      /\ Bits(m.flag) \subseteq p.flag_fltr
      /\ Bits(m.source) \subseteq p.src_fltr
  BY DEF HeaderTrue
<1>2. /\ q.flag # 0 => m.flag = q.flag
      /\ q.source # 0 => m.source = q.source
      /\ q.ids # {} => m.id \in q.ids
  BY DEF checkValueFlags
<1> QED
  BY <1>1, <1>2 DEF MayHold, bloom_check

\* The loop of Storage::readInterval is what its recursion says.
LEMMA ReadIntervalEquation ==
    ASSUME NEW ps, NEW q, Len(ps) \in Nat
    PROVE  \E f : /\ f[0] = [read |-> <<>>, prev |-> 0]
                  /\ \A k \in 1 .. Len(ps) : f[k] = SelectPage(ps, q, f[k - 1], k)
                  /\ readInterval(ps, q) =
                       StorageReader(f[Len(ps)],
                           [i \in DOMAIN ps |->
                               Page_readInterval(ps[i], q, prev_ww(ps, f[Len(ps)].prev))])
<1> DEFINE L == Len(ps)
           Begin == [read |-> <<>>, prev |-> 0]
           Out(sel) == StorageReader(sel, [i \in DOMAIN ps |->
                                             Page_readInterval(ps[i], q, prev_ww(ps, sel.prev))])
           Rhs(f) == [k \in 0 .. L |-> IF k = 0 THEN Begin ELSE SelectPage(ps, q, f[k - 1], k)]
           Upto(k) == \E f : \A n \in 0 .. L : n < k => f[n] = Rhs(f)[n]
           T == {k \in Nat : Upto(k)}
<1>a. readInterval(ps, q) = Out((CHOOSE h : h = Rhs(h))[L])
  BY DEF readInterval
<1>o. \A sel : Out(sel) = StorageReader(sel, [i \in DOMAIN ps |->
                                             Page_readInterval(ps[i], q, prev_ww(ps, sel.prev))])
  OBVIOUS
<1> HIDE DEF Out, Begin
<1>1. L \in Nat
  OBVIOUS
<1> HIDE DEF L
<1>2. 0 \in T
  <2>1. \A n \in 0 .. L : ~(n < 0)
    BY <1>1
  <2> QED
    BY <2>1
<1>3. ASSUME NEW k \in T PROVE k + 1 \in T
  <2>1. PICK f : \A n \in 0 .. L : n < k => f[n] = Rhs(f)[n]
    OBVIOUS
  <2>2. ASSUME NEW n \in 0 .. L, n < k + 1 PROVE Rhs(f)[n] = Rhs(Rhs(f))[n]
    <3>1. CASE n = 0
      BY <3>1
    <3>2. CASE n # 0
      <4>1. n - 1 \in 0 .. L /\ n - 1 < k
        BY <1>1, <2>2, <3>2
      <4>2. f[n - 1] = Rhs(f)[n - 1]
        BY <2>1, <4>1
      <4> QED
        BY <3>2, <4>2
    <3> QED
      BY <3>1, <3>2
  <2>3. Upto(k + 1)
    <3> HIDE DEF Rhs
    <3> QED
      BY <2>2
  <2> QED
    BY <2>3
<1>4. Upto(L + 1)
  <2> HIDE DEF Upto
  <2>1. T = Nat
    BY <1>2, <1>3, SetInduction
  <2> QED
    BY <1>1, <2>1
<1>5. PICK f : \A n \in 0 .. L : n < L + 1 => f[n] = Rhs(f)[n]
  BY <1>4
<1>6. Rhs(f) = Rhs(Rhs(f))
  <2>1. ASSUME NEW n \in 0 .. L PROVE Rhs(f)[n] = Rhs(Rhs(f))[n]
    <3>1. CASE n = 0
      BY <3>1
    <3>2. CASE n # 0
      <4>1. n - 1 \in 0 .. L /\ n - 1 < L + 1
        BY <1>1, <3>2
      <4>2. f[n - 1] = Rhs(f)[n - 1]
        BY <1>5, <4>1
      <4> QED
        BY <3>2, <4>2
    <3> QED
      BY <3>1, <3>2
  <2> QED
    BY <2>1
<1> DEFINE g == CHOOSE h : h = Rhs(h)
<1>7. g = Rhs(g)
  BY <1>6
<1>8. readInterval(ps, q) = Out(g[L])
  BY <1>a
<1> HIDE DEF g
<1>9. g[0] = Begin
  BY <1>1, <1>7
<1>10. \A k \in 1 .. L : g[k] = SelectPage(ps, q, g[k - 1], k)
  <2>1. \A k \in 1 .. L : k \in 0 .. L /\ k # 0
    BY <1>1
  <2> QED
    BY <1>7, <2>1
<1>11. readInterval(ps, q) = StorageReader(g[L], [i \in DOMAIN ps |->
                                             Page_readInterval(ps[i], q, prev_ww(ps, g[L].prev))])
  BY <1>8, <1>o
<1> QED
  BY <1>9, <1>10, <1>11 DEF L, Begin

\* When the interval has all times in it, a page is read alone or not at all.
LEMMA SelectsAlone ==
    ASSUME NEW ps, Ordered(ps), Given # {}, NEW q, \A i \in 1 .. Len(ps) : Covers(q, ps[i]),
           NEW i \in 1 .. Len(ps), NEW s
    PROVE  SelectPage(ps, q, [read |-> s, prev |-> 0], i) =
               [read |-> IF MayHold(ps[i], q) THEN s \o <<i>> ELSE s, prev |-> 0]
<1> DEFINE h == ps[i]
           acc == [read |-> s, prev |-> 0]
<1>1. HeaderTrue(h) /\ h.recs # <<>> /\ Covers(q, h)
  BY DEF Ordered
<1>2. /\ h.minTime \in Nat /\ h.maxTime \in Nat /\ q.from \in Nat /\ q.to \in Nat
      /\ q.from < h.minTime /\ h.minTime <= q.to
  <2> HIDE DEF h
  <2> QED
    BY <1>1, HeaderCovered DEF Covers
<1>3. ASSUME i > 1 PROVE ~(ps[i - 1].maxTime <= q.from)
  <2>0. Len(ps) \in Nat
    <3>1. PICK U : ps \in Seq(U)
      BY DEF Ordered
    <3> QED
      BY <3>1
  <2>1. i - 1 \in 1 .. Len(ps)
    BY <1>3, <2>0
  <2> DEFINE g == ps[i - 1]
  <2>2. HeaderTrue(g) /\ g.recs # <<>> /\ Covers(q, g)
    BY <2>1 DEF Ordered
  <2>3. g.maxTime \in Nat /\ q.from < g.maxTime
    <3> HIDE DEF g
    <3> QED
      BY <2>2, HeaderCovered
  <2> QED
    BY <1>2, <2>3
<1>4. ~(h.minTime <= q.from) /\ h.minTime >= q.from
  BY <1>2
<1>5. SelectPage(ps, q, acc, i) = IF MayHold(h, q) THEN [acc EXCEPT !.read = @ \o <<i>>] ELSE acc
  BY <1>2, <1>3, <1>4 DEF SelectPage
<1>6. [acc EXCEPT !.read = @ \o <<i>>] = [read |-> s \o <<i>>, prev |-> 0]
  <2> DEFINE t == s \o <<i>>
  <2>1. [acc EXCEPT !.read = @ \o <<i>>] = [acc EXCEPT !.read = t]
    OBVIOUS
  <2> HIDE DEF t
  <2>2. [acc EXCEPT !.read = t] = [read |-> t, prev |-> 0]
    OBVIOUS
  <2> QED
    BY <2>1, <2>2 DEF t
<1> QED
  BY <1>5, <1>6

\* Then Storage::readInterval reads every page its filters let it, once.
LEMMA SelectsOnce ==
    ASSUME NEW ps, Ordered(ps), Given # {}, NEW q, \A i \in 1 .. Len(ps) : Covers(q, ps[i]), NEW f,
           f[0] = [read |-> <<>>, prev |-> 0],
           \A k \in 1 .. Len(ps) : f[k] = SelectPage(ps, q, f[k - 1], k)
    PROVE  /\ f[Len(ps)].read \in Seq(1 .. Len(ps))
           /\ Distinct(f[Len(ps)].read)
           /\ \A i : i \in Range(f[Len(ps)].read) <=> i \in 1 .. Len(ps) /\ MayHold(ps[i], q)
<1> DEFINE n == Len(ps)
           P(k) == /\ f[k] = [read |-> f[k].read, prev |-> 0]
                   /\ f[k].read \in Seq(1 .. n)
                   /\ Distinct(f[k].read)
                   /\ \A i : i \in Range(f[k].read) <=> i \in 1 .. k /\ MayHold(ps[i], q)
           T == {k \in Nat : k <= n => P(k)}
<1>1. n \in Nat
  <2>1. PICK U : ps \in Seq(U)
    BY DEF Ordered
  <2> QED
    BY <2>1
<1>2. 0 \in T
  <2>1. f[0] = [read |-> f[0].read, prev |-> 0] /\ f[0].read = <<>>
    OBVIOUS
  <2>2. <<>> \in Seq(1 .. n) /\ Distinct(<<>>) /\ Range(<<>>) = {} /\ 1 .. 0 = {}
    BY NothingLeft
  <2>3. P(0)
    BY <2>1, <2>2
  <2> HIDE DEF P
  <2> QED
    BY <2>3
<1>3. ASSUME NEW k \in T PROVE k + 1 \in T
  <2>h. k \in Nat /\ (k <= n => P(k)) /\ (k + 1 \in T <=> (k + 1 <= n => P(k + 1)))
    <3> HIDE DEF P
    <3> QED
      OBVIOUS
  <2>1. SUFFICES ASSUME k + 1 <= n PROVE P(k + 1)
    <3> HIDE DEF P
    <3> QED
      BY <2>h
  <2>2. k + 1 \in 1 .. n /\ P(k) /\ (k + 1) - 1 = k
    <3> HIDE DEF P
    <3> QED
      BY <1>1, <2>h, <2>1
  <2> DEFINE s == f[k].read
             m == k + 1
  <2>3. f[k] = [read |-> s, prev |-> 0] /\ s \in Seq(1 .. n) /\ Distinct(s)
    BY <2>2
  <2>4. \A i : i \in Range(s) <=> i \in 1 .. k /\ MayHold(ps[i], q)
    BY <2>2
  <2>5. f[m] = SelectPage(ps, q, f[k], m)
    BY <2>2
  <2>6. m \in 1 .. n /\ \A i : i \in 1 .. m <=> i \in 1 .. k \/ i = m
    BY <2>h, <2>2
  <2>7. m \notin 1 .. k
    BY <2>h
  <2> HIDE DEF s, m
  <2>8. f[m] = [read |-> IF MayHold(ps[m], q) THEN s \o <<m>> ELSE s, prev |-> 0]
    <3>1. SelectPage(ps, q, [read |-> s, prev |-> 0], m) =
             [read |-> IF MayHold(ps[m], q) THEN s \o <<m>> ELSE s, prev |-> 0]
      BY <2>6, SelectsAlone
    <3> QED
      BY <2>3, <2>5, <3>1
  <2>9. CASE MayHold(ps[m], q)
    <3>1. f[m].read = s \o <<m>> /\ f[m] = [read |-> f[m].read, prev |-> 0]
      BY <2>8, <2>9
    <3>2. <<m>> \in Seq(1 .. n) /\ Distinct(<<m>>) /\ Range(<<m>>) = {m}
      BY <2>6 DEF Distinct, Range
    <3>3. Range(s) \cap Range(<<m>>) = {}
      BY <2>4, <2>7, <3>2
    <3>4. s \o <<m>> \in Seq(1 .. n) /\ Range(s \o <<m>>) = Range(s) \cup {m} /\ Distinct(s \o <<m>>)
      <4> DEFINE t == <<m>>
      <4>1. t \in Seq(1 .. n) /\ Distinct(t) /\ Range(t) = {m} /\ Range(s) \cap Range(t) = {}
        BY <3>2, <3>3
      <4> HIDE DEF t
      <4>2. s \o t \in Seq(1 .. n) /\ Range(s \o t) = Range(s) \cup {m} /\ Distinct(s \o t)
        BY <2>3, <4>1, TwoSequences
      <4> QED
        BY <4>2 DEF t
    <3>5. \A i : i \in Range(f[m].read) <=> i \in 1 .. m /\ MayHold(ps[i], q)
      BY <2>4, <2>6, <2>9, <3>1, <3>4
    <3>6. P(m)
      BY <3>1, <3>4, <3>5
    <3> QED
      BY <3>6 DEF m
  <2>10. CASE ~MayHold(ps[m], q)
    <3>1. f[m].read = s /\ f[m] = [read |-> f[m].read, prev |-> 0]
      BY <2>8, <2>10
    <3>2. \A i : i \in Range(f[m].read) <=> i \in 1 .. m /\ MayHold(ps[i], q)
      BY <2>4, <2>6, <2>10, <3>1
    <3>3. P(m)
      BY <2>3, <3>1, <3>2
    <3> QED
      BY <3>3 DEF m
  <2> QED
    BY <2>9, <2>10
<1>4. P(n)
  <2> HIDE DEF P, n
  <2>1. T = Nat
    BY <1>2, <1>3, SetInduction
  <2> QED
    BY <1>1, <2>1
<1> QED
  BY <1>4

\* A query over all times is exact.
LEMMA WholeReadExact ==
    ASSUME NEW ps, Ordered(ps), Given # {}, NEW q, q.from \in Nat, q.to \in Nat,
           \A m \in Given : q.from < m.time /\ m.time <= q.to
    PROVE  Range(readInterval(ps, q)) = InInterval(q) /\ Distinct(readInterval(ps, q))
<1> DEFINE n == Len(ps)
<1>1. PICK U : ps \in Seq(U)
  BY DEF Ordered
<1>2. n \in Nat /\ DOMAIN ps = 1 .. n
  BY <1>1
<1>3. PICK f : /\ f[0] = [read |-> <<>>, prev |-> 0]
               /\ \A k \in 1 .. n : f[k] = SelectPage(ps, q, f[k - 1], k)
               /\ readInterval(ps, q) =
                    StorageReader(f[n], [i \in DOMAIN ps |->
                        Page_readInterval(ps[i], q, prev_ww(ps, f[n].prev))])
  BY <1>2, ReadIntervalEquation
<1>4. \A x : x \in Given <=> \E i \in 1 .. n : x \in Range(ps[i].recs)
  BY DEF Ordered
<1>5. \A i \in 1 .. n : Covers(q, ps[i])
  BY <1>4 DEF Covers
<1>6. \A i \in 1 .. n : HeaderTrue(ps[i]) /\ ps[i].recs # <<>>
  BY DEF Ordered
<1> DEFINE read == f[n].read
           ww == prev_ww(ps, f[n].prev)
           out == [i \in DOMAIN ps |-> Page_readInterval(ps[i], q, ww)]
           ss == [k \in DOMAIN read |-> out[read[k]]]
<1>7. /\ read \in Seq(1 .. n) /\ Distinct(read)
      /\ \A i : i \in Range(read) <=> i \in 1 .. n /\ MayHold(ps[i], q)
  BY <1>3, <1>5, SelectsOnce
<1>8. readInterval(ps, q) = Concat(ss)
  BY <1>3 DEF StorageReader
<1> HIDE DEF read, ww
<1>9. ASSUME NEW i \in 1 .. n
      PROVE  /\ out[i] \in Seq(Meas) /\ Distinct(out[i])
             /\ Range(out[i]) = {m \in Range(ps[i].recs) : checkValueFlags(q, m)}
  <2>1. out[i] = Page_readInterval(ps[i], q, ww)
    BY <1>2
  <2> DEFINE p == ps[i]
  <2>2. HeaderTrue(p) /\ p.recs # <<>> /\ Covers(q, p)
    BY <1>5, <1>6
  <2> HIDE DEF p
  <2>3. /\ Page_readInterval(p, q, ww) \in Seq(Meas)
        /\ Range(Page_readInterval(p, q, ww)) = {m \in Range(p.recs) : checkValueFlags(q, m)}
        /\ Distinct(Page_readInterval(p, q, ww))
    BY <2>2, PageReadWhole
  <2> QED
    BY <2>1, <2>3 DEF p
<1> HIDE DEF out
<1>10. /\ Len(read) \in Nat /\ DOMAIN read = 1 .. Len(read)
       /\ \A k \in 1 .. Len(read) : read[k] \in 1 .. n
       /\ Range(read) = {read[k] : k \in 1 .. Len(read)}
       /\ \A k, l \in 1 .. Len(read) : read[k] = read[l] => k = l
  <2>1. /\ Len(read) \in Nat /\ DOMAIN read = 1 .. Len(read)
        /\ \A k \in 1 .. Len(read) : read[k] \in 1 .. n
    BY <1>7
  <2>2. Range(read) = {read[k] : k \in 1 .. Len(read)}
    BY <1>7, RangeOf
  <2>3. \A k, l \in 1 .. Len(read) : read[k] = read[l] => k = l
    BY <1>7, RangeOf
  <2> QED
    BY <2>1, <2>2, <2>3
<1>11. /\ ss \in Seq(Seq(Meas)) /\ Len(ss) = Len(read)
       /\ \A k \in 1 .. Len(read) : ss[k] = out[read[k]]
  BY <1>9, <1>10
<1> HIDE DEF ss, n
<1>12. \A x : x \in Range(Concat(ss)) <=> \E k \in 1 .. Len(ss) : x \in Range(ss[k])
  BY <1>11, ConcatFacts
<1>13. ASSUME NEW x \in Range(Concat(ss)) PROVE x \in Given /\ checkValueFlags(q, x)
  <2>1. PICK k \in 1 .. Len(read) : x \in Range(out[read[k]])
    BY <1>11, <1>12
  <2>2. x \in Range(ps[read[k]].recs) /\ checkValueFlags(q, x) /\ read[k] \in 1 .. n
    BY <1>9, <1>10, <2>1
  <2> QED
    BY <1>4, <2>2
<1>14. ASSUME NEW x \in Given, checkValueFlags(q, x) PROVE x \in Range(Concat(ss))
  <2>1. PICK i \in 1 .. n : x \in Range(ps[i].recs)
    BY <1>4
  <2>2. MayHold(ps[i], q)
    BY <1>6, <1>14, <2>1, FiltersKeep
  <2>3. PICK k \in 1 .. Len(read) : read[k] = i
    BY <1>7, <1>10, <2>2
  <2>4. x \in Range(ss[k])
    BY <1>9, <1>11, <1>14, <2>1, <2>3
  <2> QED
    BY <1>11, <1>12, <2>4
<1>15. InInterval(q) = {m \in Given : checkValueFlags(q, m)}
  <2>1. ASSUME NEW m \in Given PROVE inInterval(q.from, q.to, m.time)
    <3>1. PICK i \in 1 .. n : m \in Range(ps[i].recs)
      BY <1>4
    <3>2. m \in Meas
      BY <1>6, <3>1, RangeOf DEF HeaderTrue
    <3>3. m.time \in Nat
      BY <3>2, MeasTimes
    <3>4. q.from < m.time /\ m.time <= q.to
      OBVIOUS
    <3> QED
      BY <3>3, <3>4 DEF inInterval
  <2> QED
    BY <2>1 DEF InInterval
<1>16. Range(Concat(ss)) = InInterval(q)
  BY <1>13, <1>14, <1>15
<1>17. Distinct(Concat(ss))
  <2>1. \A k \in 1 .. Len(ss) : Distinct(ss[k])
    BY <1>9, <1>10, <1>11
  <2>2. ASSUME NEW k \in 1 .. Len(ss), NEW l \in 1 .. Len(ss), k # l
        PROVE  Range(ss[k]) \cap Range(ss[l]) = {}
    <3>1. read[k] \in 1 .. n /\ read[l] \in 1 .. n /\ read[k] # read[l]
      BY <1>10, <1>11, <2>2
    <3>2. Range(ps[read[k]].recs) \cap Range(ps[read[l]].recs) = {}
      BY <3>1 DEF Ordered, n
    <3>3. ss[k] = out[read[k]] /\ ss[l] = out[read[l]]
      BY <1>11
    <3>4. Range(out[read[k]]) \subseteq Range(ps[read[k]].recs)
      BY <1>9, <3>1
    <3>5. Range(out[read[l]]) \subseteq Range(ps[read[l]].recs)
      BY <1>9, <3>1
    <3> QED
      BY <3>2, <3>3, <3>4, <3>5
  <2> QED
    BY <1>11, <2>1, <2>2, ConcatFacts
<1> QED
  BY <1>8, <1>16, <1>17

LEMMA InvImpliesWholeExact == QueriesInv => WholeExact
<1> SUFFICES ASSUME QueriesInv, Given # {}, NEW ps \in pagesByTime,
                    NEW from \in {0} \cup Times, NEW to \in Times,
                    \A m \in Given : from < m.time /\ m.time <= to,
                    NEW ids \in SUBSET Ids, NEW source \in {0} \cup Sources,
                    NEW flag \in {0} \cup Flags
             PROVE  LET q == Query(ids, source, flag, from, to)
                    IN  ListsOnce(readInterval(ps, q), InInterval(q))
  BY DEF WholeExact
<1> DEFINE q == Query(ids, source, flag, from, to)
<1>1. q.from = from /\ q.to = to
  BY DEF Query
<1>2. from \in Nat /\ to \in Nat
  BY QueriesAssumption DEF Times
<1> HIDE DEF q
<1>3. Ordered(ps)
  BY PagesAreOrdered
<1>4. Range(readInterval(ps, q)) = InInterval(q) /\ Distinct(readInterval(ps, q))
  BY <1>1, <1>2, <1>3, WholeReadExact
<1> QED
  BY <1>4 DEF q, ListsOnce

\* In whatever order and in whatever batches records came, and whatever the
\* page size, Storage::readInterval over all times returns under every filter
\* what has come and passes the filter, once each.
THEOREM WholeQueryIsExact == Spec => []WholeExact
<1>1. QueriesInv => WholeExact
  BY InvImpliesWholeExact
<1> QED
  BY <1>1, HeadersAlwaysTrue, PTL

-----------------------------------------------------------------------------
(* The first and the last time *)

LEMMA MaxIs ==
    ASSUME NEW S \in SUBSET Int, NEW x \in S, \A y \in S : y <= x
    PROVE  Max(S) = x
<1>1. \A y \in S : x >= y
  OBVIOUS
<1>2. Max(S) \in S /\ \A y \in S : Max(S) >= y
  BY <1>1 DEF Max
<1>3. x >= Max(S) /\ Max(S) >= x
  BY <1>1, <1>2
<1> DEFINE z == Max(S)
<1>4. x \in Int /\ z \in Int /\ x >= z /\ z >= x
  BY <1>2, <1>3
<1> HIDE DEF z
<1>5. z = x
  BY <1>4
<1> QED
  BY <1>5 DEF z

LEMMA MinIs ==
    ASSUME NEW S \in SUBSET Int, NEW x \in S, \A y \in S : x <= y
    PROVE  Min(S) = x
<1>1. \A y \in S : x =< y
  OBVIOUS
<1>2. Min(S) \in S /\ \A y \in S : Min(S) =< y
  BY <1>1 DEF Min
<1>3. x =< Min(S) /\ Min(S) =< x
  BY <1>1, <1>2
<1> DEFINE z == Min(S)
<1>4. x \in Int /\ z \in Int /\ x =< z /\ z =< x
  BY <1>2, <1>3
<1> HIDE DEF z
<1>5. z = x
  BY <1>4
<1> QED
  BY <1>5 DEF z

\* When records come in order and no two pages end at one time, the oldest page
\* is the first by maxTime.
LEMMA OldestFirst ==
    ASSUME QueriesInv, Given # {}, NEW ps \in pagesByTime, InOrder, DifferentEnds
    PROVE  ps[1] = pages[1]
<1> DEFINE n == Len(ps)
<1>1. n \in Nat /\ n >= 1 /\ DOMAIN pages = 1 .. n
  BY Placed
<1>2. PICK o \in [1 .. n -> 1 .. n] :
                /\ \A i \in 1 .. n : ps[i] = pages[o[i]]
                /\ \A i, j \in 1 .. n : o[i] = o[j] => i = j
                /\ \A j \in 1 .. n : \E i \in 1 .. n : o[i] = j
                /\ \A i, j \in 1 .. n : i <= j => ps[i].maxTime <= ps[j].maxTime
  BY Placed
<1>3. \A i \in 1 .. n : HeaderTrue(ps[i]) /\ ps[i].recs # <<>>
  BY PagesAreOrdered DEF Ordered
<1> HIDE DEF n
<1>4. 1 \in 1 .. n
  BY <1>1
<1>5. PICK i \in 1 .. n : o[i] = 1
  BY <1>2, <1>4
<1> DEFINE j == o[1]
           p == pages[1]
           u == pages[j]
<1>6. j \in 1 .. n /\ ps[1] = u /\ ps[i] = p
  BY <1>2, <1>4, <1>5
<1>7. /\ HeaderTrue(p) /\ p.recs # <<>> /\ HeaderTrue(u) /\ u.recs # <<>>
  BY <1>3, <1>4, <1>6
<1>8. u.maxTime <= p.maxTime
  <2>1. 1 <= i
    BY <1>1
  <2>2. ps[1].maxTime <= ps[i].maxTime
    BY <1>2, <1>4, <2>1
  <2> QED
    BY <1>6, <2>2
<1>9. SUFFICES ASSUME j # 1 PROVE FALSE
  BY <1>6
<1>10. p.maxTime <= u.maxTime
  <2>1. PICK m \in Range(p.recs) : m.time = p.maxTime
    BY <1>7 DEF HeaderTrue
  <2>2. PICK k \in DOMAIN p.recs : m = p.recs[k]
    BY DEF Range
  <2>3. PICK x \in Range(u.recs) : x.time = u.maxTime
    BY <1>7 DEF HeaderTrue
  <2>4. PICK l \in DOMAIN u.recs : x = u.recs[l]
    BY DEF Range
  <2>5. 1 \in DOMAIN pages /\ j \in DOMAIN pages /\ 1 < j
    BY <1>1, <1>4, <1>6, <1>9
  <2>6. pages[1].recs[k].time <= pages[j].recs[l].time
    BY <2>2, <2>4, <2>5 DEF InOrder
  <2> QED
    BY <2>1, <2>2, <2>3, <2>4, <2>6
<1>11. p.maxTime \in Nat /\ u.maxTime \in Nat
  BY <1>7 DEF HeaderTrue
<1>12. pages[1].maxTime = pages[j].maxTime
  BY <1>8, <1>10, <1>11
<1> QED
  BY <1>1, <1>4, <1>6, <1>9, <1>12 DEF DifferentEnds

LEMMA InvImpliesTimesExact == QueriesInv => TimesExact
<1> SUFFICES ASSUME QueriesInv, Given # {}, NEW ps \in pagesByTime
             PROVE  /\ maxTime(ps) = Max({m.time : m \in Given})
                    /\ InOrder /\ DifferentEnds => minTime(ps) = Min({m.time : m \in Given})
  BY DEF TimesExact
<1> DEFINE n == Len(ps)
           S == {m.time : m \in Given}
<1>1. n \in Nat /\ n >= 1 /\ DOMAIN pages = 1 .. n /\ Len(pages) = n
  BY Placed
<1>2. /\ \A i \in 1 .. n : HeaderTrue(ps[i]) /\ ps[i].recs # <<>>
      /\ \A x : x \in Given <=> \E i \in 1 .. n : x \in Range(ps[i].recs)
      /\ \A i, j \in 1 .. n : i <= j => ps[i].maxTime <= ps[j].maxTime
  BY PagesAreOrdered DEF Ordered
<1>3. \A m \in Given : m \in Meas /\ m.time \in Nat
  <2>1. ASSUME NEW m \in Given PROVE m \in Meas
    <3>1. PICK i \in 1 .. n : m \in Range(ps[i].recs)
      BY <1>2
    <3> QED
      BY <1>2, <3>1, RangeOf DEF HeaderTrue
  <2> QED
    BY <2>1, MeasTimes
<1>4. S \in SUBSET Int
  BY <1>3
<1> HIDE DEF n
<1>5. n \in 1 .. n /\ 1 \in 1 .. n
  BY <1>1
<1>6. maxTime(ps) = Max(S)
  <2>1. PICK m \in Range(ps[n].recs) : m.time = ps[n].maxTime
    BY <1>2, <1>5 DEF HeaderTrue
  <2>2. m \in Given /\ m.time \in S
    BY <1>2, <1>5, <2>1
  <2>3. ASSUME NEW y \in S PROVE y <= m.time
    <3>1. PICK x \in Given : y = x.time
      OBVIOUS
    <3>2. PICK i \in 1 .. n : x \in Range(ps[i].recs)
      BY <1>2, <3>1
    <3>3. x.time <= ps[i].maxTime /\ ps[i].maxTime \in Nat /\ ps[n].maxTime \in Nat
      BY <1>2, <1>5, <3>2 DEF HeaderTrue
    <3>4. ps[i].maxTime <= ps[n].maxTime
      <4>1. i <= n
        BY <1>1
      <4> QED
        BY <1>2, <1>5, <4>1
    <3>5. x.time \in Nat
      BY <1>3, <3>1
    <3> QED
      BY <2>1, <3>1, <3>3, <3>4, <3>5
  <2>4. maxTime(ps) = m.time
    BY <2>1 DEF maxTime, Last, n
  <2> HIDE DEF S
  <2> QED
    BY <1>4, <2>2, <2>3, <2>4, MaxIs
<1>7. ASSUME InOrder, DifferentEnds PROVE minTime(ps) = Min(S)
  <2>1. ps[1] = pages[1]
    BY <1>7, OldestFirst
  <2> DEFINE p == pages[1]
  <2>2. HeaderTrue(p) /\ p.recs # <<>>
    BY <1>2, <1>5, <2>1
  <2>3. PICK m \in Range(p.recs) : m.time = p.minTime
    BY <2>2 DEF HeaderTrue
  <2>4. m \in Given /\ m.time \in S
    BY <1>2, <1>5, <2>1, <2>3
  <2>5. ASSUME NEW y \in S PROVE m.time <= y
    <3>1. PICK x \in Given : y = x.time
      OBVIOUS
    <3>2. PICK j \in 1 .. n : x \in Range(pages[j].recs)
      BY <1>1 DEF Given, Records
    <3>3. CASE j = 1
      BY <2>2, <2>3, <3>1, <3>2, <3>3 DEF HeaderTrue
    <3>4. CASE j # 1
      <4>1. PICK k \in DOMAIN p.recs : m = p.recs[k]
        BY <2>3 DEF Range
      <4>2. PICK l \in DOMAIN pages[j].recs : x = pages[j].recs[l]
        BY <3>2 DEF Range
      <4>3. 1 \in DOMAIN pages /\ j \in DOMAIN pages /\ 1 < j
        BY <1>1, <1>5, <3>2, <3>4
      <4>4. pages[1].recs[k].time <= pages[j].recs[l].time
        BY <1>7, <4>1, <4>2, <4>3 DEF InOrder
      <4> QED
        BY <3>1, <4>1, <4>2, <4>4
    <3> QED
      BY <3>3, <3>4
  <2>6. minTime(ps) = m.time
    BY <2>1, <2>3 DEF minTime
  <2> HIDE DEF S
  <2> QED
    BY <1>4, <2>4, <2>5, <2>6, MinIs
<1> QED
  BY <1>6, <1>7

\* Storage::maxTime is the greatest time of all records; Storage::minTime the
\* least, when they came in order and no two pages end at one time.
THEOREM TimesAreExact == Spec => []TimesExact
<1>1. QueriesInv => TimesExact
  BY InvImpliesTimesExact
<1> QED
  BY <1>1, HeadersAlwaysTrue, PTL
==============================================================================
