----------------------------- MODULE BTreeProofs -----------------------------
(***************************************************************************)
(* Proofs about BTreeInserts.tla.                                          *)
(***************************************************************************)
EXTENDS BTreeInserts, FiniteSetTheorems, SequenceTheorems, WellFoundedInduction, TLAPS

-----------------------------------------------------------------------------
(* Numbers, sequences, recursive functions *)

\* A set of natural numbers that is not empty has a least one.
LEMMA LeastExists ==
    ASSUME NEW T \in SUBSET Nat, T # {}
    PROVE  \E x \in T : \A y \in T : x <= y
<1>1. PICK x \in T : \A y \in T : ~(<<y, x>> \in OpToRel(<, Nat))
  BY NatLessThanWellFounded, WFMin
<1>2. \A y \in T : ~(y < x)
  BY <1>1 DEF OpToRel
<1> QED
  BY <1>2

\* The two halves of a full leaf, of a full interior node, of its childs.
LEMMA Halves ==
    ASSUME NEW n \in Nat
    PROVE  (2 * n) \div 2 = n /\ (n >= 1 => (2 * n - 1) \div 2 = n - 1)
  BY Z3

LEMMA OneBelow ==
    ASSUME NEW w \in Nat, NEW n \in Nat, w <= 2 * n - 2, w + 2 >= 2 * n
    PROVE  w + 1 = 2 * n - 1
  OBVIOUS

LEMMA FullInterior ==
    ASSUME NEW w \in Nat, NEW n \in Nat, w = 2 * n - 1 \/ w <= 2 * n - 2
    PROVE  w <= 2 * n /\ w < 2 * n /\ w + 1 <= 2 * n
  OBVIOUS

\* r is s with e at position p.
Inserted(S, s, p, e, r) ==
    /\ r \in Seq(S)
    /\ Len(r) = Len(s) + 1
    /\ \A i \in 1 .. p - 1 : r[i] = s[i]
    /\ r[p] = e
    /\ \A i \in p + 1 .. Len(s) + 1 : r[i] = s[i - 1]

LEMMA InsertFacts ==
    ASSUME NEW S, NEW s \in Seq(S), NEW p \in 1 .. Len(s) + 1, NEW e \in S
    PROVE  Inserted(S, s, p, e, insert_to_array(s, p, e))
<1> DEFINE a == SubSeq(s, 1, p - 1)
           b == SubSeq(s, p, Len(s))
<1>1. a \in Seq(S) /\ Len(a) = p - 1 /\ \A i \in 1 .. p - 1 : a[i] = s[i]
  <2>1. \A i \in 1 .. p - 1 : s[i] \in S
    OBVIOUS
  <2> QED
    BY <2>1, SubSeqProperties, Z3
<1>2. b \in Seq(S) /\ Len(b) = Len(s) - p + 1 /\ \A i \in 1 .. Len(s) - p + 1 : b[i] = s[p + i - 1]
  <2>1. \A i \in p .. Len(s) : s[i] \in S
    OBVIOUS
  <2> QED
    BY <2>1, SubSeqProperties, Z3
<1> HIDE DEF a, b
<1> DEFINE d == a \o <<e>>
<1>3. <<e>> \in Seq(S) /\ Len(<<e>>) = 1 /\ <<e>>[1] = e
  OBVIOUS
<1>4. /\ d \in Seq(S) /\ Len(d) = p
      /\ \A i \in 1 .. p : d[i] = IF i <= p - 1 THEN a[i] ELSE <<e>>[i - (p - 1)]
  BY <1>1, <1>3, ConcatProperties
<1>5. d[p] = e /\ \A i \in 1 .. p - 1 : d[i] = s[i]
  BY <1>1, <1>3, <1>4
<1> HIDE DEF d
<1>6. /\ d \o b \in Seq(S) /\ Len(d \o b) = p + (Len(s) - p + 1)
      /\ \A i \in 1 .. p + (Len(s) - p + 1) : (d \o b)[i] = IF i <= p THEN d[i] ELSE b[i - p]
  <2>1. /\ d \o b \in Seq(S) /\ Len(d \o b) = Len(d) + Len(b)
        /\ \A i \in 1 .. Len(d) + Len(b) : (d \o b)[i] = IF i <= Len(d) THEN d[i] ELSE b[i - Len(d)]
    BY <1>2, <1>4, ConcatProperties
  <2> QED
    BY <1>2, <1>4, <2>1
<1>7. insert_to_array(s, p, e) = d \o b
  BY DEF insert_to_array, InsertAt, a, b, d
<1>8. \A i \in p + 1 .. Len(s) + 1 : (d \o b)[i] = s[i - 1]
  <2> TAKE i \in p + 1 .. Len(s) + 1
  <2>1. (d \o b)[i] = b[i - p]
    BY <1>6
  <2>2. i - p \in 1 .. Len(s) - p + 1 /\ p + (i - p) - 1 = i - 1
    OBVIOUS
  <2> QED
    BY <1>2, <2>1, <2>2
<1> QED
  BY <1>4, <1>5, <1>6, <1>7, <1>8 DEF Inserted

-----------------------------------------------------------------------------
(* Values, nodes and trees *)

Value == [key : Nat, copy : Nat]
Node == [is_leaf : BOOLEAN, vals : Seq(Value), childs : Seq(Nat), parent : Nat, next : Nat]
Tree == [N : Nat \ {0, 1}, node : Seq(Node), root : Nat]

Nodes(t) == 1 .. Len(t.node)

LEMMA ValueFacts ==
    ASSUME NEW vals \in Seq(Value)
    PROVE  \A i \in 1 .. Len(vals) : vals[i] \in Value /\ vals[i].key \in Nat
<1> TAKE i \in 1 .. Len(vals)
<1>1. vals[i] \in Value
  OBVIOUS
<1> QED
  BY <1>1 DEF Value

\* std::lower_bound on the values of a node.
LEMMA LowerBoundFacts ==
    ASSUME NEW vals \in Seq(Value), NEW key \in Nat
    PROVE  /\ lower_bound(vals, key) \in 1 .. Len(vals) + 1
           /\ \A i \in 1 .. lower_bound(vals, key) - 1 : vals[i].key < key
           /\ lower_bound(vals, key) <= Len(vals) => vals[lower_bound(vals, key)].key >= key
<1> DEFINE T == {p \in 1 .. Len(vals) + 1 : p <= Len(vals) => vals[p].key >= key}
<1>1. Len(vals) + 1 \in T /\ T \in SUBSET Nat
  OBVIOUS
<1>2. PICK x \in T : \A y \in T : x <= y
  BY <1>1, LeastExists
<1>3. \A i \in 1 .. x - 1 : vals[i].key < key
  <2> TAKE i \in 1 .. x - 1
  <2>1. i \notin T /\ i \in 1 .. Len(vals)
    BY <1>2
  <2>2. vals[i] \in Value
    BY <2>1
  <2> QED
    BY <2>1, <2>2 DEF Value
<1> QED
  BY <1>2, <1>3 DEF lower_bound

\* It is the only such position.
LEMMA LowerBoundIs ==
    ASSUME NEW vals \in Seq(Value), NEW key \in Nat, NEW p \in 1 .. Len(vals) + 1,
           \A i \in 1 .. p - 1 : vals[i].key < key,
           p <= Len(vals) => vals[p].key >= key
    PROVE  lower_bound(vals, key) = p
<1> DEFINE b == lower_bound(vals, key)
<1>1. /\ b \in 1 .. Len(vals) + 1
      /\ \A i \in 1 .. b - 1 : vals[i].key < key
      /\ b <= Len(vals) => vals[b].key >= key
  BY LowerBoundFacts
<1> HIDE DEF b
<1>2. \A i \in 1 .. Len(vals) : vals[i].key \in Nat
  BY ValueFacts
<1>3. ~(b < p)
  BY <1>1, <1>2
<1>4. ~(p < b)
  BY <1>1, <1>2
<1> QED
  BY <1>1, <1>3, <1>4 DEF b

\* Node::insertValue: the value is put where lower_bound says.
LEMMA InsertValueFacts ==
    ASSUME NEW vals \in Seq(Value), NEW kv \in Value
    PROVE  Inserted(Value, vals, lower_bound(vals, kv.key), kv, insertValue(vals, kv))
<1>1. kv.key \in Nat
  BY DEF Value
<1>2. lower_bound(vals, kv.key) \in 1 .. Len(vals) + 1
  BY <1>1, LowerBoundFacts
<1> QED
  BY <1>2, InsertFacts DEF insertValue

\* lower_bound finds it again.
LEMMA InsertedAt ==
    ASSUME NEW vals \in Seq(Value), NEW kv \in Value
    PROVE  lower_bound(insertValue(vals, kv), kv.key) = lower_bound(vals, kv.key)
<1> DEFINE b == lower_bound(vals, kv.key)
           w == insertValue(vals, kv)
<1>1. kv.key \in Nat
  BY DEF Value
<1>2. b \in 1 .. Len(vals) + 1 /\ \A i \in 1 .. b - 1 : vals[i].key < kv.key
  BY <1>1, LowerBoundFacts
<1>3. w \in Seq(Value) /\ Len(w) = Len(vals) + 1 /\ w[b] = kv
      /\ \A i \in 1 .. b - 1 : w[i] = vals[i]
  BY InsertValueFacts DEF Inserted
<1> HIDE DEF b, w
<1>4. b \in 1 .. Len(w) + 1 /\ (\A i \in 1 .. b - 1 : w[i].key < kv.key) /\ w[b].key >= kv.key
  BY <1>1, <1>2, <1>3
<1>5. lower_bound(w, kv.key) = b
  BY <1>1, <1>3, <1>4, LowerBoundIs
<1> QED
  BY <1>5 DEF b, w

\* A sorted node stays sorted.
Ascending(vals) == \A i, j \in 1 .. Len(vals) : i < j => vals[i].key <= vals[j].key

LEMMA InsertValueSorts ==
    ASSUME NEW vals \in Seq(Value), NEW kv \in Value, Ascending(vals)
    PROVE  Ascending(insertValue(vals, kv))
<1> DEFINE b == lower_bound(vals, kv.key)
           w == insertValue(vals, kv)
<1>1. kv.key \in Nat /\ \A i \in 1 .. Len(vals) : vals[i].key \in Nat
  BY ValueFacts DEF Value
<1>2. /\ b \in 1 .. Len(vals) + 1 /\ \A i \in 1 .. b - 1 : vals[i].key < kv.key
      /\ b <= Len(vals) => vals[b].key >= kv.key
  BY <1>1, LowerBoundFacts
<1>3. /\ w \in Seq(Value) /\ Len(w) = Len(vals) + 1 /\ w[b] = kv
      /\ \A i \in 1 .. b - 1 : w[i] = vals[i]
      /\ \A i \in b + 1 .. Len(vals) + 1 : w[i] = vals[i - 1]
  BY InsertValueFacts DEF Inserted
<1> HIDE DEF b, w
<1>4. \A j \in b .. Len(vals) : vals[j].key >= kv.key
  BY <1>1, <1>2 DEF Ascending
<1>5. ASSUME NEW i \in 1 .. Len(w), NEW j \in 1 .. Len(w), i < j
      PROVE  w[i].key <= w[j].key
  <2>1. CASE j < b
    <3>1. i \in 1 .. b - 1 /\ j \in 1 .. b - 1 /\ i \in 1 .. Len(vals) /\ j \in 1 .. Len(vals)
      BY <1>2, <1>3, <1>5, <2>1
    <3> QED
      BY <1>3, <1>5, <3>1 DEF Ascending
  <2>2. CASE j = b
    <3>1. i \in 1 .. b - 1
      BY <1>2, <1>3, <1>5, <2>2
    <3> QED
      BY <1>1, <1>2, <1>3, <2>2, <3>1
  <2>3. CASE j > b
    <3>1. w[j] = vals[j - 1] /\ j - 1 \in b .. Len(vals) /\ j - 1 \in 1 .. Len(vals)
      BY <1>2, <1>3, <2>3
    <3>2. CASE i < b
      <4>1. w[i] = vals[i] /\ i \in 1 .. Len(vals) /\ i < j - 1
        BY <1>2, <1>3, <1>5, <2>3, <3>2
      <4> QED
        BY <3>1, <4>1 DEF Ascending
    <3>3. CASE i = b
      BY <1>3, <1>4, <3>1, <3>3
    <3>4. CASE i > b
      <4>1. w[i] = vals[i - 1] /\ i - 1 \in 1 .. Len(vals) /\ i - 1 < j - 1
        BY <1>2, <1>3, <1>5, <2>3, <3>4
      <4> QED
        BY <3>1, <4>1 DEF Ascending
    <3> QED
      BY <1>2, <3>2, <3>3, <3>4
  <2> QED
    BY <1>2, <2>1, <2>2, <2>3
<1> QED
  BY <1>5 DEF Ascending, w

\* Node::insertChild: the child is put behind another one; with the key new
\* in the node, behind the one at the key's place.
LEMMA InsertChildFacts ==
    ASSUME NEW vals \in Seq(Value), NEW kv \in Value,
           NEW childs \in Seq(Nat), Len(childs) = Len(vals) + 1, NEW c \in Nat
    PROVE  \E q \in 2 .. Len(childs) + 1 :
              /\ Inserted(Nat, childs, q, c, insertChild(insertValue(vals, kv), childs, kv.key, c))
              /\ (\A i \in 1 .. Len(vals) : vals[i].key # kv.key)
                    => q = lower_bound(vals, kv.key) + 1
<1> DEFINE b == lower_bound(vals, kv.key)
           w == insertValue(vals, kv)
           new == insertChild(w, childs, kv.key, c)
<1>1. kv.key \in Nat
  BY DEF Value
<1>2. b \in 1 .. Len(vals) + 1 /\ b + 1 \in 2 .. Len(childs) + 1 /\ b + 1 \in 1 .. Len(childs) + 1
  <2>1. b \in 1 .. Len(vals) + 1
    BY <1>1, LowerBoundFacts
  <2> QED
    BY <2>1
<1>3. /\ w \in Seq(Value) /\ Len(w) = Len(vals) + 1 /\ w[b] = kv
      /\ \A i \in b + 1 .. Len(vals) + 1 : w[i] = vals[i - 1]
  BY InsertValueFacts DEF Inserted
<1>4. lower_bound(w, kv.key) = b
  BY InsertedAt
<1>5. CASE kv.key = Last(w).key
  <2> DEFINE q == Len(childs) + 1
  <2>1. new = Append(childs, c)
    BY <1>5 DEF insertChild
  <2>2. ASSUME \A i \in 1 .. Len(vals) : vals[i].key # kv.key
        PROVE  q = b + 1
    <3>1. SUFFICES ASSUME b # Len(w) PROVE FALSE
      BY <1>2, <1>3
    <3>2. Len(w) \in b + 1 .. Len(vals) + 1 /\ Len(w) - 1 \in 1 .. Len(vals)
      BY <1>2, <1>3, <3>1
    <3>3. w[Len(w)] = vals[Len(w) - 1]
      BY <1>3, <3>2
    <3> QED
      BY <1>5, <2>2, <3>2, <3>3 DEF Last
  <2>3. q \in 2 .. Len(childs) + 1
    OBVIOUS
  <2>4. Inserted(Nat, childs, q, c, new)
    BY <2>1 DEF Inserted
  <2> HIDE DEF q
  <2> QED
    BY <2>2, <2>3, <2>4
<1>6. CASE kv.key # Last(w).key
  <2>1. new = insert_to_array(childs, b + 1, c)
    BY <1>4, <1>6 DEF insertChild
  <2>2. Inserted(Nat, childs, b + 1, c, new)
    BY <1>2, <2>1, InsertFacts
  <2> QED
    BY <1>2, <2>2
<1> QED
  BY <1>5, <1>6

-----------------------------------------------------------------------------
(* What holds of the tree after every step.  s is the node split_node is   *)
(* called for, 0 between the inserts.                                      *)

\* How many values and childs the nodes have.
Sized(t, s) ==
    \A n \in Nodes(t) :
        /\ t.node[n].is_leaf =>
              /\ t.node[n].childs = <<>>
              /\ IF n = s THEN Len(t.node[n].vals) = 2 * t.N
                 ELSE Len(t.node[n].vals) <= 2 * t.N - 1
        /\ ~t.node[n].is_leaf =>
              /\ Len(t.node[n].childs) = Len(t.node[n].vals) + 1
              /\ Len(t.node[n].vals) >= 1
              /\ IF n = s THEN Len(t.node[n].vals) = 2 * t.N - 1
                 ELSE Len(t.node[n].vals) <= 2 * t.N - 2
        /\ n # t.root => Len(t.node[n].vals) + 1 >= t.N

\* Parents and childs know each other.
Linked(t) ==
    /\ t.root \in Nodes(t)
    /\ \A n \in Nodes(t) : t.node[n].parent = 0 <=> n = t.root
    /\ \A n \in Nodes(t) : \A i \in 1 .. Len(t.node[n].childs) :
          t.node[n].childs[i] \in Nodes(t) /\ t.node[t.node[n].childs[i]].parent = n
    /\ \A n \in Nodes(t) : \A i, j \in 1 .. Len(t.node[n].childs) :
          t.node[n].childs[i] = t.node[n].childs[j] => i = j
    /\ \A n \in Nodes(t) : n # t.root =>
          /\ t.node[n].parent \in Nodes(t)
          /\ \E i \in 1 .. Len(t.node[t.node[n].parent].childs) :
                t.node[t.node[n].parent].childs[i] = n

\* level is the height of each node.
Levels(t, level) ==
    /\ level \in [Nodes(t) -> Nat]
    /\ \A n \in Nodes(t) : t.node[n].is_leaf <=> level[n] = 0
    /\ \A n \in Nodes(t) : \A i \in 1 .. Len(t.node[n].childs) :
          level[t.node[n].childs[i]] + 1 = level[n]
    /\ \A n \in Nodes(t) : level[n] <= level[t.root]

Sound(t, s) == t \in Tree /\ Sized(t, s) /\ Linked(t) /\ \E level : Levels(t, level)

\* What is left of this when the split of the root ends half way: every child
\* still knows its parent, but there is a second node without one.
Joined(t) ==
    /\ t.root \in Nodes(t)
    /\ \A n \in Nodes(t) : \A i \in 1 .. Len(t.node[n].childs) :
          t.node[n].childs[i] \in Nodes(t) /\ t.node[t.node[n].childs[i]].parent = n

Shaped(t, s) == t \in Tree /\ Sized(t, s) /\ Joined(t) /\ \E level : Levels(t, level)

LEMMA SoundShaped ==
    ASSUME NEW t, NEW s, Sound(t, s)
    PROVE  Shaped(t, s)
  BY DEF Sound, Linked, Shaped, Joined

\* The fields of a node have their types.
LEMMA NodeFacts ==
    ASSUME NEW t \in Tree, NEW n \in Nodes(t)
    PROVE  /\ t.node[n] \in Node
           /\ t.node[n].is_leaf \in BOOLEAN
           /\ t.node[n].vals \in Seq(Value)
           /\ t.node[n].childs \in Seq(Nat)
           /\ t.node[n].parent \in Nat
           /\ t.node[n].next \in Nat
<1>1. t.node \in Seq(Node)
  BY DEF Tree
<1>2. t.node[n] \in Node
  BY <1>1 DEF Nodes
<1> QED
  BY <1>2 DEF Node

LEMMA TreeFacts ==
    ASSUME NEW t \in Tree
    PROVE  /\ t.N \in Nat /\ t.N >= 2
           /\ t.node \in Seq(Node)
           /\ Len(t.node) \in Nat
           /\ DOMAIN t.node = Nodes(t)
           /\ t.root \in Nat
  BY DEF Tree, Nodes

-----------------------------------------------------------------------------
(* Searching *)

\* The key is between those around the child i.
Covers(nd, i, key) ==
    /\ i \in 1 .. Len(nd.childs)
    /\ i > 1 => nd.vals[i - 1].key <= key
    /\ i <= Len(nd.vals) => key < nd.vals[i].key

Strict(vals) == \A i, j \in 1 .. Len(vals) : i < j => vals[i].key < vals[j].key

\* iner_find goes on with the child that covers the key, or gives up; not so
\* when the keys in the node differ.
LEMMA ChildFacts ==
    ASSUME NEW nd \in Node, Len(nd.childs) = Len(nd.vals) + 1, Len(nd.vals) >= 1,
           NEW key \in Nat
    PROVE  /\ child_for(nd, key) = 0 \/ \E i : Covers(nd, i, key) /\ child_for(nd, key) = nd.childs[i]
           /\ Strict(nd.vals) => \E i : Covers(nd, i, key) /\ child_for(nd, key) = nd.childs[i]
<1> DEFINE lb == lower_bound(nd.vals, key)
           low == IF nd.vals[lb].key # key THEN lb - 1 ELSE lb
           m == Len(nd.vals)
           ch == child_for(nd, key)
<1>1. nd.vals \in Seq(Value) /\ nd.childs \in Seq(Nat)
  BY DEF Node
<1>2. m \in Nat /\ \A i \in 1 .. m : nd.vals[i].key \in Nat
  BY <1>1, ValueFacts
<1>3. /\ lb \in 1 .. m + 1
      /\ \A i \in 1 .. lb - 1 : nd.vals[i].key < key
      /\ lb <= m => nd.vals[lb].key >= key
  BY <1>1, LowerBoundFacts
<1>4. ch = IF key < nd.vals[1].key THEN nd.childs[1]
           ELSE IF key >= nd.vals[m].key THEN nd.childs[m + 1]
           ELSE IF key < nd.vals[low + 1].key THEN nd.childs[low + 1]
           ELSE 0
  BY DEF child_for, Last
<1> HIDE DEF lb, m, ch
<1>m. m = Len(nd.vals) /\ m >= 1 /\ Len(nd.childs) = m + 1
  BY DEF m
<1>5. CASE key < nd.vals[1].key
  <2>1. Covers(nd, 1, key) /\ ch = nd.childs[1]
    BY <1>2, <1>4, <1>5, <1>m DEF Covers
  <2> QED
    BY <2>1 DEF ch
<1>6. CASE ~(key < nd.vals[1].key) /\ key >= nd.vals[m].key
  <2>1. Covers(nd, m + 1, key) /\ ch = nd.childs[m + 1]
    BY <1>2, <1>4, <1>6, <1>m DEF Covers
  <2> QED
    BY <2>1 DEF ch
<1>7. CASE ~(key < nd.vals[1].key) /\ ~(key >= nd.vals[m].key)
  <2>1. lb <= m
    <3>1. SUFFICES ASSUME lb = m + 1 PROVE FALSE
      BY <1>2, <1>3
    <3>2. m \in 1 .. lb - 1 /\ m \in 1 .. m
      BY <1>2, <1>m, <3>1
    <3> QED
      BY <1>2, <1>3, <1>7, <3>2
  <2>2. CASE nd.vals[lb].key # key
    <3>1. low + 1 = lb /\ lb # 1
      BY <1>2, <1>3, <1>7, <2>1, <2>2
    <3>2. key < nd.vals[lb].key /\ nd.vals[lb - 1].key <= key
      BY <1>2, <1>3, <2>1, <2>2, <3>1
    <3>3. ch = nd.childs[lb]
      BY <1>4, <1>7, <3>1, <3>2
    <3>4. Covers(nd, lb, key)
      BY <1>3, <1>m, <2>1, <3>2 DEF Covers
    <3> QED
      BY <3>3, <3>4 DEF ch
  <2>3. CASE nd.vals[lb].key = key
    <3>1. low + 1 = lb + 1 /\ lb + 1 <= m
      BY <1>2, <1>3, <1>7, <2>1, <2>3
    <3>2. ch = IF key < nd.vals[lb + 1].key THEN nd.childs[lb + 1] ELSE 0
      BY <1>4, <1>7, <3>1
    <3>3. key < nd.vals[lb + 1].key => Covers(nd, lb + 1, key)
      BY <1>2, <1>3, <1>m, <2>3, <3>1 DEF Covers
    <3>4. Strict(nd.vals) => key < nd.vals[lb + 1].key
      <4>1. lb \in 1 .. Len(nd.vals) /\ lb + 1 \in 1 .. Len(nd.vals) /\ lb < lb + 1
        BY <1>3, <1>m, <3>1
      <4> QED
        BY <2>3, <4>1 DEF Strict
    <3> QED
      BY <3>2, <3>3, <3>4 DEF ch
  <2> QED
    BY <2>2, <2>3
<1> QED
  BY <1>5, <1>6, <1>7

\* A recursion on numbers whose argument gets a smaller rank has a solution.
Ranked(L, step, final, rank, top) ==
    /\ L \in Nat /\ step \in [0 .. L -> 0 .. L] /\ rank \in [0 .. L -> Nat] /\ top \in Nat
    /\ \A n \in 0 .. L : rank[n] <= top
    /\ \A n \in 1 .. L : n \notin final => rank[step[n]] < rank[n]

Solves(g, L, step, final) ==
    g = [n \in 0 .. L |-> IF n = 0 THEN 0 ELSE IF n \in final THEN n ELSE g[step[n]]]

LEMMA DescentExists ==
    ASSUME NEW L, NEW step, NEW final, NEW rank, NEW top, Ranked(L, step, final, rank, top)
    PROVE  \E g : Solves(g, L, step, final)
<1> USE DEF Ranked
<1> DEFINE Rhs(g) == [n \in 0 .. L |-> IF n = 0 THEN 0 ELSE IF n \in final THEN n ELSE g[step[n]]]
           Upto(k) == \E g \in [0 .. L -> 0 .. L] : \A n \in 0 .. L : rank[n] < k => g[n] = Rhs(g)[n]
           T == {k \in Nat : ~Upto(k)}
<1> HIDE DEF Upto
<1>1. \A k \in Nat : Upto(k)
  <2>1. SUFFICES ASSUME T # {} PROVE FALSE
    OBVIOUS
  <2>2. PICK k \in T : \A y \in T : k <= y
    BY <2>1, LeastExists
  <2>k. k \in Nat /\ ~Upto(k) /\ \A y \in Nat : y < k => Upto(y)
    BY <2>2
  <2> HIDE DEF T
  <2>3. k # 0
    <3>1. [n \in 0 .. L |-> 0] \in [0 .. L -> 0 .. L]
      OBVIOUS
    <3>2. \A n \in 0 .. L : ~(rank[n] < 0)
      OBVIOUS
    <3>3. Upto(0)
      BY <3>1, <3>2 DEF Upto
    <3> QED
      BY <2>k, <3>3
  <2>4. k - 1 \in Nat /\ Upto(k - 1)
    BY <2>k, <2>3
  <2>5. PICK g \in [0 .. L -> 0 .. L] : \A n \in 0 .. L : rank[n] < k - 1 => g[n] = Rhs(g)[n]
    BY <2>4 DEF Upto
  <2>6. Rhs(g) \in [0 .. L -> 0 .. L]
    OBVIOUS
  <2>7. ASSUME NEW n \in 0 .. L, rank[n] < k PROVE Rhs(g)[n] = Rhs(Rhs(g))[n]
    <3>1. CASE n = 0
      BY <3>1
    <3>2. CASE n # 0 /\ n \in final
      BY <3>2
    <3>3. CASE n # 0 /\ n \notin final
      <4>1. rank[step[n]] < rank[n] /\ step[n] \in 0 .. L
        BY <3>3
      <4>2. rank[step[n]] < k - 1
        <5>1. rank[n] \in Nat /\ rank[step[n]] \in Nat
          BY <4>1
        <5> QED
          BY <2>k, <2>7, <4>1, <5>1
      <4>3. g[step[n]] = Rhs(g)[step[n]]
        BY <2>5, <4>1, <4>2
      <4> QED
        BY <3>3, <4>1, <4>3
    <3> QED
      BY <3>1, <3>2, <3>3
  <2>8. Upto(k)
    BY <2>6, <2>7 DEF Upto
  <2> QED
    BY <2>k, <2>8
<1>2. Upto(top + 1)
  BY <1>1
<1>3. PICK g \in [0 .. L -> 0 .. L] : \A n \in 0 .. L : rank[n] < top + 1 => g[n] = Rhs(g)[n]
  BY <1>2 DEF Upto
<1>4. \A n \in 0 .. L : g[n] = Rhs(g)[n]
  <2>1. ASSUME NEW n \in 0 .. L PROVE rank[n] < top + 1
    <3>1. rank[n] \in Nat /\ rank[n] <= top
      OBVIOUS
    <3> QED
      BY <3>1
  <2> HIDE DEF Rhs
  <2> QED
    BY <1>3, <2>1
<1>5. g = Rhs(g)
  BY <1>4
<1> QED
  BY <1>5 DEF Solves

\* One step of iner_find in a tree.
LEMMA ChildOf ==
    ASSUME NEW t, NEW s, Shaped(t, s), NEW n \in Nodes(t), ~t.node[n].is_leaf, NEW key \in Nat
    PROVE  /\ child_for(t.node[n], key) \in {0} \cup Nodes(t)
           /\ child_for(t.node[n], key) # 0 =>
                 \E i : /\ Covers(t.node[n], i, key)
                        /\ child_for(t.node[n], key) = t.node[n].childs[i]
           /\ Strict(t.node[n].vals) => child_for(t.node[n], key) # 0
<1>1. t \in Tree /\ Sized(t, s) /\ Joined(t)
  BY DEF Shaped
<1>2. t.node[n] \in Node
  BY <1>1, NodeFacts
<1>3. Len(t.node[n].childs) = Len(t.node[n].vals) + 1 /\ Len(t.node[n].vals) >= 1
  BY <1>1 DEF Sized
<1>4. /\ \/ child_for(t.node[n], key) = 0
         \/ \E i : Covers(t.node[n], i, key) /\ child_for(t.node[n], key) = t.node[n].childs[i]
      /\ Strict(t.node[n].vals) =>
            \E i : Covers(t.node[n], i, key) /\ child_for(t.node[n], key) = t.node[n].childs[i]
  BY <1>2, <1>3, ChildFacts
<1>5. \A i : Covers(t.node[n], i, key) => t.node[n].childs[i] \in Nodes(t)
  BY <1>1 DEF Covers, Joined
<1>6. 0 \notin Nodes(t)
  BY DEF Nodes
<1> QED
  BY <1>4, <1>5, <1>6

\* leaf_for is what its equation says.
LEMMA LeafForEquation ==
    ASSUME NEW t, NEW s, Shaped(t, s), NEW key \in Nat
    PROVE  \A n \in 0 .. Len(t.node) :
              leaf_for(t, key)[n] = IF n = 0 THEN 0
                                    ELSE IF t.node[n].is_leaf THEN n
                                    ELSE leaf_for(t, key)[child_for(t.node[n], key)]
<1>1. t \in Tree /\ Joined(t)
  BY DEF Shaped
<1>2. PICK level : Levels(t, level)
  BY DEF Shaped
<1> DEFINE L == Len(t.node)
           final == {n \in Nodes(t) : t.node[n].is_leaf}
           step == [n \in 0 .. L |-> IF n = 0 \/ n \in final THEN 0 ELSE child_for(t.node[n], key)]
           rank == [n \in 0 .. L |-> IF n = 0 THEN 0 ELSE level[n] + 1]
           top == level[t.root] + 1
           Eq(g) == [n \in 0 .. L |-> IF n = 0 THEN 0
                                      ELSE IF t.node[n].is_leaf THEN n
                                      ELSE g[child_for(t.node[n], key)]]
<1>3. L \in Nat /\ Nodes(t) = 1 .. L
  BY <1>1, TreeFacts DEF Nodes
<1>4. level \in [Nodes(t) -> Nat] /\ t.root \in Nodes(t)
  BY <1>1, <1>2 DEF Levels, Joined
<1>5. step \in [0 .. L -> 0 .. L]
  <2>1. ASSUME NEW n \in 1 .. L, n \notin final PROVE child_for(t.node[n], key) \in 0 .. L
    <3>1. n \in Nodes(t) /\ ~t.node[n].is_leaf
      BY <1>3, <2>1
    <3>2. child_for(t.node[n], key) \in {0} \cup Nodes(t)
      BY <3>1, ChildOf
    <3> QED
      BY <1>3, <3>2
  <2> QED
    BY <1>3, <2>1
<1>6. rank \in [0 .. L -> Nat] /\ top \in Nat
  BY <1>3, <1>4
<1>7. \A n \in 0 .. L : rank[n] <= top
  <2> TAKE n \in 0 .. L
  <2>1. CASE n = 0
    BY <1>4, <2>1
  <2>2. CASE n # 0
    <3>1. n \in Nodes(t)
      BY <1>3, <2>2
    <3>2. level[n] <= level[t.root] /\ level[n] \in Nat /\ level[t.root] \in Nat
      BY <1>2, <1>4, <3>1 DEF Levels
    <3> QED
      BY <2>2, <3>2
  <2> QED
    BY <2>1, <2>2
<1>8. \A n \in 1 .. L : n \notin final => rank[step[n]] < rank[n]
  <2> SUFFICES ASSUME NEW n \in 1 .. L, n \notin final PROVE rank[step[n]] < rank[n]
    OBVIOUS
  <2>1. n \in Nodes(t) /\ ~t.node[n].is_leaf /\ n \in 0 .. L /\ n # 0
    BY <1>3
  <2>2. step[n] = child_for(t.node[n], key) /\ rank[n] = level[n] + 1 /\ level[n] \in Nat
    BY <1>4, <2>1
  <2>3. CASE child_for(t.node[n], key) = 0
    BY <1>3, <2>2, <2>3
  <2>4. CASE child_for(t.node[n], key) # 0
    <3>1. PICK i : Covers(t.node[n], i, key) /\ child_for(t.node[n], key) = t.node[n].childs[i]
      BY <2>1, <2>4, ChildOf
    <3>2. i \in 1 .. Len(t.node[n].childs)
      BY <3>1 DEF Covers
    <3>3. t.node[n].childs[i] \in Nodes(t) /\ level[t.node[n].childs[i]] + 1 = level[n]
      BY <1>1, <1>2, <2>1, <3>2 DEF Levels, Joined
    <3>4. step[n] \in 0 .. L /\ step[n] # 0 /\ level[step[n]] \in Nat /\ level[step[n]] + 1 = level[n]
      BY <1>3, <1>4, <2>2, <3>1, <3>3
    <3>5. rank[step[n]] = level[step[n]] + 1
      BY <3>4
    <3> QED
      BY <2>2, <3>4, <3>5
  <2> QED
    BY <2>3, <2>4
<1> HIDE DEF rank, top, L
<1>9. PICK g : Solves(g, L, step, final)
  <2> HIDE DEF final, step
  <2>1. Ranked(L, step, final, rank, top)
    BY <1>3, <1>5, <1>6, <1>7, <1>8 DEF Ranked
  <2> QED
    BY <2>1, DescentExists
<1>10. ASSUME NEW n \in 0 .. L
       PROVE  (IF n = 0 THEN 0 ELSE IF n \in final THEN n ELSE g[step[n]])
                = (IF n = 0 THEN 0 ELSE IF t.node[n].is_leaf THEN n ELSE g[child_for(t.node[n], key)])
  <2>1. n # 0 => (n \in final <=> t.node[n].is_leaf)
    BY <1>3
  <2>2. n # 0 /\ n \notin final => step[n] = child_for(t.node[n], key)
    OBVIOUS
  <2> QED
    BY <2>1, <2>2
<1>11. g = Eq(g)
  <2> HIDE DEF final, step
  <2> QED
    BY <1>9, <1>10 DEF Solves
<1>12. leaf_for(t, key) = CHOOSE f : f = Eq(f)
  BY DEF leaf_for, L
<1>13. leaf_for(t, key) = Eq(leaf_for(t, key))
  BY <1>11, <1>12
<1> QED
  BY <1>13 DEF L

\* From a node of a set that iner_find does not leave, it gets to a leaf of
\* that set, unless it gives up.
LEMMA LeafForFacts ==
    ASSUME NEW t, NEW s, Shaped(t, s), NEW key \in Nat, NEW W \in SUBSET (0 .. Len(t.node)),
           \A n \in W : n # 0 /\ ~t.node[n].is_leaf => child_for(t.node[n], key) \in W
    PROVE  \A n \in W : /\ leaf_for(t, key)[n] \in W
                        /\ \/ leaf_for(t, key)[n] = 0
                           \/ leaf_for(t, key)[n] \in Nodes(t) /\ t.node[leaf_for(t, key)[n]].is_leaf
<1>1. t \in Tree /\ Joined(t)
  BY DEF Shaped
<1>2. PICK level : Levels(t, level)
  BY DEF Shaped
<1>3. Len(t.node) \in Nat /\ Nodes(t) = 1 .. Len(t.node)
  BY <1>1, TreeFacts DEF Nodes
<1>4. level \in [Nodes(t) -> Nat]
  BY <1>2 DEF Levels
<1> DEFINE f == leaf_for(t, key)
           Good(n) == f[n] \in W /\ (f[n] = 0 \/ (f[n] \in Nodes(t) /\ t.node[f[n]].is_leaf))
           T == {level[n] : n \in {m \in W : m # 0 /\ ~Good(m)}}
<1>5. \A n \in 0 .. Len(t.node) :
         f[n] = IF n = 0 THEN 0 ELSE IF t.node[n].is_leaf THEN n ELSE f[child_for(t.node[n], key)]
  BY LeafForEquation
<1> HIDE DEF f
<1>6. 0 \in W => Good(0)
  <2>1. 0 \in 0 .. Len(t.node)
    BY <1>3
  <2>2. f[0] = 0
    BY <1>5, <2>1
  <2> QED
    BY <2>2
<1>7. ASSUME NEW m \in W, m # 0, ~Good(m) PROVE FALSE
  <2>1. T \in SUBSET Nat /\ T # {}
    BY <1>3, <1>4, <1>7
  <2>2. PICK x \in T : \A y \in T : x <= y
    BY <2>1, LeastExists
  <2>3. PICK n \in W : n # 0 /\ ~Good(n) /\ x = level[n]
    BY <2>2
  <2>4. n \in Nodes(t) /\ level[n] \in Nat
    BY <1>3, <1>4, <2>3
  <2>5. CASE t.node[n].is_leaf
    <3>1. f[n] = n
      BY <1>5, <2>3, <2>5
    <3> QED
      BY <2>3, <2>4, <2>5, <3>1
  <2>6. CASE ~t.node[n].is_leaf
    <3> DEFINE d == child_for(t.node[n], key)
    <3>1. d \in W
      BY <2>3, <2>6
    <3>2. f[n] = f[d]
      BY <1>5, <2>3, <2>6
    <3>3. ~Good(d)
      BY <2>3, <3>2
    <3>4. d # 0
      BY <1>6, <3>1, <3>3
    <3>5. level[d] \in T
      BY <3>1, <3>3, <3>4
    <3>6. PICK i : Covers(t.node[n], i, key) /\ d = t.node[n].childs[i]
      BY <2>4, <2>6, <3>4, ChildOf
    <3>7. i \in 1 .. Len(t.node[n].childs)
      BY <3>6 DEF Covers
    <3>8. d \in Nodes(t) /\ level[d] + 1 = level[n]
      BY <1>1, <1>2, <2>4, <3>6, <3>7 DEF Joined, Levels
    <3>9. level[d] \in Nat
      BY <1>4, <3>8
    <3>10. level[n] <= level[d]
      BY <2>2, <2>3, <3>5
    <3> HIDE DEF d
    <3> QED
      BY <2>4, <3>8, <3>9, <3>10
  <2> QED
    BY <2>5, <2>6
<1>8. \A n \in W : Good(n)
  BY <1>6, <1>7
<1> QED
  BY <1>8 DEF f

\* Whatever the keys: a leaf, or the null pointer that insert asserts against.
LEMMA FindNodeFacts ==
    ASSUME NEW t, NEW s, Shaped(t, s), NEW key \in Nat
    PROVE  LET n == iner_find(t, t.root, key).node
           IN  n = 0 \/ (n \in Nodes(t) /\ t.node[n].is_leaf)
<1>1. t \in Tree /\ Joined(t)
  BY DEF Shaped
<1>2. Len(t.node) \in Nat /\ Nodes(t) = 1 .. Len(t.node) /\ t.root \in Nodes(t)
  BY <1>1, TreeFacts DEF Nodes, Joined
<1> DEFINE W == 0 .. Len(t.node)
<1>3. ASSUME NEW n \in W, n # 0, ~t.node[n].is_leaf PROVE child_for(t.node[n], key) \in W
  <2>1. n \in Nodes(t)
    BY <1>2, <1>3
  <2>2. child_for(t.node[n], key) \in {0} \cup Nodes(t)
    BY <1>3, <2>1, ChildOf
  <2> QED
    BY <1>2, <2>2
<1>4. t.root \in W
  BY <1>2
<1>5. \/ leaf_for(t, key)[t.root] = 0
      \/ leaf_for(t, key)[t.root] \in Nodes(t) /\ t.node[leaf_for(t, key)[t.root]].is_leaf
  <2>1. W \in SUBSET (0 .. Len(t.node))
    OBVIOUS
  <2>2. \A n \in W : n # 0 /\ ~t.node[n].is_leaf => child_for(t.node[n], key) \in W
    BY <1>3
  <2> HIDE DEF W
  <2> QED
    BY <1>4, <2>1, <2>2, LeafForFacts
<1>6. iner_find(t, t.root, key).node = leaf_for(t, key)[t.root]
  BY DEF iner_find
<1> QED
  BY <1>5, <1>6

-----------------------------------------------------------------------------
(* The new tree of split, field by field.  c is the new node, p the node   *)
(* that gets the middle value.                                             *)

HalfOf(t, n) == IF t.node[n].is_leaf THEN t.N ELSE t.N - 1
ChildHalf(t, n) == IF t.node[n].is_leaf THEN 0 ELSE t.N

\* The node and the new one share the values and the childs.
Shared(t, u, n, c, p) ==
    /\ u.node[n].is_leaf = t.node[n].is_leaf /\ u.node[c].is_leaf = t.node[n].is_leaf
    /\ u.node[n].parent = p /\ u.node[c].parent = p
    /\ u.node[n].next = c /\ u.node[c].next = t.node[n].next
    /\ Len(u.node[n].vals) = HalfOf(t, n) /\ Len(u.node[c].vals) = HalfOf(t, n)
    /\ \A i \in 1 .. HalfOf(t, n) : /\ u.node[n].vals[i] = t.node[n].vals[i]
                                    /\ u.node[c].vals[i] = t.node[n].vals[t.N + i]
    /\ Len(u.node[n].childs) = ChildHalf(t, n) /\ Len(u.node[c].childs) = ChildHalf(t, n)
    /\ \A i \in 1 .. ChildHalf(t, n) : /\ u.node[n].childs[i] = t.node[n].childs[i]
                                       /\ u.node[c].childs[i] = t.node[n].childs[t.N + i]

\* Of the other nodes only the childs of the new one change.
Moved(t, n, i) == ~t.node[n].is_leaf /\ \E j \in t.N + 1 .. 2 * t.N : t.node[n].childs[j] = i

Kept(t, u, n, c, p) ==
    \A i \in Nodes(t) \ {n, p} :
        /\ u.node[i].is_leaf = t.node[i].is_leaf
        /\ u.node[i].vals = t.node[i].vals
        /\ u.node[i].childs = t.node[i].childs
        /\ u.node[i].next = t.node[i].next
        /\ u.node[i].parent = IF Moved(t, n, i) THEN c ELSE t.node[i].parent

\* The parent has the middle value and, behind another child, the new node.
InParent(t, u, n, c, p) ==
    /\ p = t.node[n].parent /\ p \in Nodes(t) /\ p # n
    /\ ~t.node[p].is_leaf /\ ~u.node[p].is_leaf
    /\ Len(u.node) = c /\ u.root = t.root
    /\ u.node[p].parent = t.node[p].parent
    /\ Inserted(Value, t.node[p].vals, lower_bound(t.node[p].vals, midle(t.node[n]).key),
                midle(t.node[n]), u.node[p].vals)
    /\ u.node[p].vals = insertValue(t.node[p].vals, midle(t.node[n]))
    /\ \E q \in 2 .. Len(t.node[p].childs) + 1 :
          /\ Inserted(Nat, t.node[p].childs, q, c, u.node[p].childs)
          /\ (\A i \in 1 .. Len(t.node[p].vals) : t.node[p].vals[i].key # midle(t.node[n]).key)
                => q = lower_bound(t.node[p].vals, midle(t.node[n]).key) + 1

InRoot(t, u, n, c, p) ==
    /\ n = t.root
    /\ p = c + 1 /\ Len(u.node) = p /\ u.root = p
    /\ ~u.node[p].is_leaf /\ u.node[p].parent = 0
    /\ u.node[p].vals = <<midle(t.node[n])>>
    /\ u.node[p].childs = <<n, c>>

Splits(t, u, n, c, p) ==
    /\ u \in Tree /\ u.N = t.N
    /\ c = Len(t.node) + 1
    /\ Shared(t, u, n, c, p)
    /\ Kept(t, u, n, c, p)
    /\ InParent(t, u, n, c, p) \/ InRoot(t, u, n, c, p)

\* The sizes in the node that is split.
LEMMA FullFacts ==
    ASSUME NEW t, NEW n \in Nodes(t), Sound(t, n)
    PROVE  /\ t.node[n].is_leaf => Len(t.node[n].vals) = 2 * t.N /\ Len(t.node[n].childs) = 0
           /\ ~t.node[n].is_leaf => Len(t.node[n].vals) = 2 * t.N - 1 /\ Len(t.node[n].childs) = 2 * t.N
           /\ HalfOf(t, n) \in Nat /\ HalfOf(t, n) >= 1
           /\ Len(t.node[n].vals) \div 2 = HalfOf(t, n)
           /\ Len(t.node[n].childs) \div 2 = ChildHalf(t, n)
           /\ HalfOf(t, n) + 1 \in 1 .. Len(t.node[n].vals)
           /\ midle(t.node[n]) = t.node[n].vals[HalfOf(t, n) + 1]
           /\ midle(t.node[n]) \in Value
<1>1. t \in Tree /\ Sized(t, n)
  BY DEF Sound
<1>2. t.N \in Nat /\ t.N >= 2 /\ t.node[n].vals \in Seq(Value)
  BY <1>1, TreeFacts, NodeFacts
<1>3. /\ t.node[n].is_leaf => Len(t.node[n].vals) = 2 * t.N /\ Len(t.node[n].childs) = 0
      /\ ~t.node[n].is_leaf => Len(t.node[n].vals) = 2 * t.N - 1 /\ Len(t.node[n].childs) = 2 * t.N
  <2>1. CASE t.node[n].is_leaf
    <3>1. Len(t.node[n].vals) = 2 * t.N /\ t.node[n].childs = <<>>
      BY <1>1, <2>1 DEF Sized
    <3> QED
      BY <2>1, <3>1
  <2>2. CASE ~t.node[n].is_leaf
    <3>1. Len(t.node[n].vals) = 2 * t.N - 1 /\ Len(t.node[n].childs) = Len(t.node[n].vals) + 1
      BY <1>1, <2>2 DEF Sized
    <3>2. 2 * t.N - 1 + 1 = 2 * t.N
      BY <1>2
    <3> QED
      BY <2>2, <3>1, <3>2
  <2> QED
    BY <2>1, <2>2
<1>4. (2 * t.N) \div 2 = t.N /\ (2 * t.N - 1) \div 2 = t.N - 1 /\ 0 \div 2 = 0
  BY <1>2, Halves
<1>5. Len(t.node[n].vals) \div 2 = HalfOf(t, n) /\ Len(t.node[n].childs) \div 2 = ChildHalf(t, n)
  BY <1>3, <1>4 DEF HalfOf, ChildHalf
<1>6. HalfOf(t, n) \in Nat /\ HalfOf(t, n) >= 1 /\ HalfOf(t, n) + 1 \in 1 .. Len(t.node[n].vals)
  BY <1>2, <1>3 DEF HalfOf
<1>7. midle(t.node[n]) = t.node[n].vals[HalfOf(t, n) + 1]
  BY <1>5 DEF midle
<1>8. midle(t.node[n]) \in Value
  BY <1>2, <1>6, <1>7
<1> QED
  BY <1>3, <1>5, <1>6, <1>7, <1>8

LEMMA LowerHalfFacts ==
    ASSUME NEW t, NEW n \in Nodes(t), Sound(t, n), NEW c \in Nat, NEW p \in Nat
    PROVE  LET x == lower_half(t.node[n], p, c)
           IN  /\ x \in Node
               /\ x.is_leaf = t.node[n].is_leaf /\ x.parent = p /\ x.next = c
               /\ Len(x.vals) = HalfOf(t, n)
               /\ \A i \in 1 .. HalfOf(t, n) : x.vals[i] = t.node[n].vals[i]
               /\ Len(x.childs) = ChildHalf(t, n)
               /\ \A i \in 1 .. ChildHalf(t, n) : x.childs[i] = t.node[n].childs[i]
<1> DEFINE nd == t.node[n]
           h == HalfOf(t, n)
           k == ChildHalf(t, n)
           x == lower_half(nd, p, c)
           v == SubSeq(nd.vals, 1, h)
           w == SubSeq(nd.childs, 1, k)
<1>1. t \in Tree
  BY DEF Sound
<1>2. nd \in Node /\ nd.vals \in Seq(Value) /\ nd.childs \in Seq(Nat)
  BY <1>1, NodeFacts
<1>3. /\ h \in Nat /\ h + 1 \in 1 .. Len(nd.vals)
      /\ Len(nd.vals) \div 2 = h /\ Len(nd.childs) \div 2 = k
      /\ k \in Nat /\ k <= Len(nd.childs)
  <2>1. t.N \in Nat /\ t.N >= 2
    BY <1>1, TreeFacts
  <2>2. k \in Nat /\ k <= Len(nd.childs)
    <3>1. /\ nd.is_leaf => Len(nd.childs) = 0
          /\ ~nd.is_leaf => Len(nd.childs) = 2 * t.N
      BY FullFacts
    <3> QED
      BY <2>1, <3>1 DEF ChildHalf
  <2> QED
    BY <2>2, FullFacts
<1>4. x = [nd EXCEPT !.vals = v, !.childs = w, !.parent = p, !.next = c]
  BY <1>3 DEF lower_half
<1> HIDE DEF h, k, nd, x
<1>5. v \in Seq(Value) /\ Len(v) = h /\ \A i \in 1 .. h : v[i] = nd.vals[i]
  BY <1>2, <1>3
<1>6. w \in Seq(Nat) /\ Len(w) = k /\ \A i \in 1 .. k : w[i] = nd.childs[i]
  BY <1>2, <1>3
<1> HIDE DEF v, w
<1>7. x \in Node /\ x.is_leaf = nd.is_leaf /\ x.parent = p /\ x.next = c /\ x.vals = v /\ x.childs = w
  BY <1>2, <1>4, <1>5, <1>6 DEF Node
<1> QED
  BY <1>5, <1>6, <1>7 DEF h, k, nd, x

LEMMA UpperHalfFacts ==
    ASSUME NEW t, NEW n \in Nodes(t), Sound(t, n), NEW p \in Nat
    PROVE  LET x == upper_half(t.node[n], p)
           IN  /\ x \in Node
               /\ x.is_leaf = t.node[n].is_leaf /\ x.parent = p /\ x.next = t.node[n].next
               /\ Len(x.vals) = HalfOf(t, n)
               /\ \A i \in 1 .. HalfOf(t, n) : x.vals[i] = t.node[n].vals[t.N + i]
               /\ Len(x.childs) = ChildHalf(t, n)
               /\ \A i \in 1 .. ChildHalf(t, n) : x.childs[i] = t.node[n].childs[t.N + i]
<1> DEFINE nd == t.node[n]
           h == HalfOf(t, n)
           k == ChildHalf(t, n)
           x == upper_half(nd, p)
           v == SubSeq(nd.vals, t.N + 1, Len(nd.vals))
           w == SubSeq(nd.childs, k + 1, 2 * k)
<1>1. t \in Tree
  BY DEF Sound
<1>2. /\ nd \in Node /\ nd.vals \in Seq(Value) /\ nd.childs \in Seq(Nat)
      /\ nd.is_leaf \in BOOLEAN /\ nd.next \in Nat
  BY <1>1, NodeFacts
<1>n. t.N \in Nat /\ t.N >= 2
  BY <1>1, TreeFacts
<1>3. /\ h \in Nat /\ Len(nd.vals) = t.N + h
      /\ Len(nd.vals) \div 2 = h /\ Len(nd.childs) \div 2 = k
      /\ k \in Nat /\ Len(nd.childs) = 2 * k /\ (k = 0 \/ k = t.N)
      /\ h + (IF nd.is_leaf THEN 1 ELSE 2) = t.N + 1
  <2>1. /\ nd.is_leaf => Len(nd.vals) = 2 * t.N /\ Len(nd.childs) = 0
        /\ ~nd.is_leaf => Len(nd.vals) = 2 * t.N - 1 /\ Len(nd.childs) = 2 * t.N
    BY FullFacts
  <2>2. Len(nd.vals) \div 2 = h /\ Len(nd.childs) \div 2 = k
    BY FullFacts
  <2>3. CASE nd.is_leaf
    <3>1. h = t.N /\ k = 0
      BY <2>3 DEF HalfOf, ChildHalf
    <3>2. Len(nd.vals) = 2 * t.N /\ Len(nd.childs) = 0
      BY <2>1, <2>3
    <3>3. h + (IF nd.is_leaf THEN 1 ELSE 2) = h + 1
      BY <2>3
    <3> HIDE DEF h, k, nd
    <3>4. h \in Nat /\ Len(nd.vals) = t.N + h /\ k \in Nat /\ Len(nd.childs) = 2 * k /\ h + 1 = t.N + 1
      BY <1>n, <3>1, <3>2
    <3> QED
      BY <2>2, <3>1, <3>3, <3>4
  <2>4. CASE ~nd.is_leaf
    <3>1. h = t.N - 1 /\ k = t.N
      BY <2>4 DEF HalfOf, ChildHalf
    <3>2. Len(nd.vals) = 2 * t.N - 1 /\ Len(nd.childs) = 2 * t.N
      BY <2>1, <2>4
    <3>3. h + (IF nd.is_leaf THEN 1 ELSE 2) = h + 2
      BY <2>4
    <3> HIDE DEF h, k, nd
    <3>4. h \in Nat /\ Len(nd.vals) = t.N + h /\ k \in Nat /\ Len(nd.childs) = 2 * k /\ h + 2 = t.N + 1
      BY <1>n, <3>1, <3>2
    <3> QED
      BY <2>2, <3>1, <3>3, <3>4
  <2> QED
    BY <2>3, <2>4
<1>4. x = [is_leaf |-> nd.is_leaf, vals |-> v, childs |-> w, parent |-> p, next |-> nd.next]
  BY <1>3 DEF upper_half
<1> HIDE DEF h, k, nd, x
<1>5. v \in Seq(Value) /\ Len(v) = h /\ \A i \in 1 .. h : v[i] = nd.vals[t.N + i]
  <2>1. \A i \in t.N + 1 .. Len(nd.vals) : nd.vals[i] \in Value
    BY <1>2, <1>n
  <2>2. /\ v \in Seq(Value)
        /\ Len(v) = IF t.N + 1 <= Len(nd.vals) THEN Len(nd.vals) - (t.N + 1) + 1 ELSE 0
        /\ \A i \in 1 .. Len(nd.vals) - (t.N + 1) + 1 : v[i] = nd.vals[t.N + 1 + i - 1]
    <3> DEFINE lo == t.N + 1
               hi == Len(nd.vals)
    <3>1. lo \in Int /\ hi \in Int /\ \A i \in lo .. hi : nd.vals[i] \in Value
      BY <1>2, <1>n, <2>1
    <3> HIDE DEF lo, hi
    <3>2. /\ SubSeq(nd.vals, lo, hi) \in Seq(Value)
          /\ Len(SubSeq(nd.vals, lo, hi)) = IF lo <= hi THEN hi - lo + 1 ELSE 0
          /\ \A i \in 1 .. hi - lo + 1 : SubSeq(nd.vals, lo, hi)[i] = nd.vals[lo + i - 1]
      BY <3>1, SubSeqProperties
    <3> QED
      BY <3>2 DEF lo, hi
  <2> HIDE DEF v
  <2>3. Len(nd.vals) - (t.N + 1) + 1 = h /\ (t.N + 1 <= Len(nd.vals) <=> h >= 1)
    <3>1. h \in Nat /\ Len(nd.vals) = t.N + h
      BY <1>3
    <3> QED
      BY <1>n, <3>1
  <2>4. \A i \in 1 .. h : t.N + 1 + i - 1 = t.N + i
    BY <1>3, <1>n
  <2>5. h \in Nat
    BY <1>3
  <2>6. Len(v) = h
    BY <2>2, <2>3, <2>5
  <2> QED
    BY <2>2, <2>3, <2>4, <2>6
<1>6. w \in Seq(Nat) /\ Len(w) = k /\ \A i \in 1 .. k : w[i] = nd.childs[t.N + i]
  <2>1. w \in Seq(Nat) /\ Len(w) = k /\ \A i \in 1 .. k : w[i] = nd.childs[k + i]
    <3>1. \A i \in k + 1 .. 2 * k : nd.childs[i] \in Nat
      <4>1. k \in Nat /\ Len(nd.childs) = 2 * k
        BY <1>3
      <4>2. \A i \in k + 1 .. 2 * k : i \in 1 .. Len(nd.childs)
        BY <4>1
      <4> QED
        BY <1>2, <4>2
    <3>2. /\ w \in Seq(Nat)
          /\ Len(w) = IF k + 1 <= 2 * k THEN 2 * k - (k + 1) + 1 ELSE 0
          /\ \A i \in 1 .. 2 * k - (k + 1) + 1 : w[i] = nd.childs[k + 1 + i - 1]
      <4>1. k + 1 \in Int /\ 2 * k \in Int
        BY <1>3
      <4> QED
        BY <3>1, <4>1, SubSeqProperties
    <3> HIDE DEF w
    <3>3. 2 * k - (k + 1) + 1 = k /\ (k + 1 <= 2 * k <=> k >= 1)
      BY <1>3
    <3>4. \A i \in 1 .. k : k + 1 + i - 1 = k + i
      BY <1>3
    <3>5. Len(w) = k
      BY <1>3, <3>2, <3>3
    <3>6. ASSUME NEW i \in 1 .. k PROVE w[i] = nd.childs[k + i]
      <4>1. k + 1 + i - 1 = k + i
        BY <3>4
      <4>2. i \in 1 .. 2 * k - (k + 1) + 1
        BY <3>3
      <4>3. w[i] = nd.childs[k + 1 + i - 1]
        BY <3>2, <4>2
      <4> QED
        BY <4>1, <4>3
    <3> QED
      BY <3>2, <3>5, <3>6
  <2>2. CASE k = 0
    <3>1. \A i \in 1 .. k : FALSE
      BY <2>2
    <3> QED
      BY <2>1, <3>1
  <2>3. CASE k = t.N
    BY <2>1, <2>3
  <2> HIDE DEF w
  <2> QED
    BY <1>3, <2>2, <2>3
<1> HIDE DEF v, w
<1>7. x \in Node /\ x.is_leaf = nd.is_leaf /\ x.parent = p /\ x.next = nd.next /\ x.vals = v /\ x.childs = w
  BY <1>2, <1>4, <1>5, <1>6 DEF Node
<1> QED
  BY <1>5, <1>6, <1>7 DEF h, k, nd, x

\* A node that is not the root has an interior node above it.
LEMMA ParentFacts ==
    ASSUME NEW t, NEW s, Sound(t, s), NEW n \in Nodes(t), t.node[n].parent # 0
    PROVE  LET p == t.node[n].parent
           IN  /\ n # t.root /\ p \in Nodes(t) /\ p # n /\ ~t.node[p].is_leaf
               /\ Len(t.node[p].childs) = Len(t.node[p].vals) + 1
               /\ \E i \in 1 .. Len(t.node[p].childs) : t.node[p].childs[i] = n
<1> DEFINE p == t.node[n].parent
<1>1. t \in Tree /\ Sized(t, s) /\ Linked(t)
  BY DEF Sound
<1>2. PICK level : Levels(t, level)
  BY DEF Sound
<1>3. n # t.root /\ p \in Nodes(t) /\ \E i \in 1 .. Len(t.node[p].childs) : t.node[p].childs[i] = n
  BY <1>1 DEF Linked
<1>4. PICK i \in 1 .. Len(t.node[p].childs) : t.node[p].childs[i] = n
  BY <1>3
<1>5. level[n] + 1 = level[p] /\ level[n] \in Nat /\ level[p] \in Nat
  BY <1>2, <1>3, <1>4 DEF Levels
<1>6. p # n /\ ~t.node[p].is_leaf
  BY <1>2, <1>3, <1>5 DEF Levels
<1>7. Len(t.node[p].childs) = Len(t.node[p].vals) + 1
  BY <1>1, <1>3, <1>6 DEF Sized
<1> QED
  BY <1>3, <1>6, <1>7

LEMMA PutToParentFacts ==
    ASSUME NEW t, NEW n \in Nodes(t), Sound(t, n), NEW c \in Nat, t.node[n].parent # 0
    PROVE  LET p == t.node[n].parent
               x == put_to_parent(t, n, c)
           IN  /\ x \in Node
               /\ x.is_leaf = t.node[p].is_leaf /\ x.parent = t.node[p].parent
               /\ Inserted(Value, t.node[p].vals, lower_bound(t.node[p].vals, midle(t.node[n]).key),
                           midle(t.node[n]), x.vals)
               /\ x.vals = insertValue(t.node[p].vals, midle(t.node[n]))
               /\ \E q \in 2 .. Len(t.node[p].childs) + 1 :
                    /\ Inserted(Nat, t.node[p].childs, q, c, x.childs)
                    /\ (\A i \in 1 .. Len(t.node[p].vals) :
                            t.node[p].vals[i].key # midle(t.node[n]).key)
                          => q = lower_bound(t.node[p].vals, midle(t.node[n]).key) + 1
<1> DEFINE pn == t.node[t.node[n].parent]
           mid == midle(t.node[n])
           v == insertValue(pn.vals, mid)
           w == insertChild(v, pn.childs, mid.key, c)
           x == put_to_parent(t, n, c)
<1>1. t \in Tree /\ mid \in Value
  BY FullFacts DEF Sound
<1>2. t.node[n].parent \in Nodes(t) /\ Len(pn.childs) = Len(pn.vals) + 1
  BY ParentFacts
<1>3. pn \in Node /\ pn.vals \in Seq(Value) /\ pn.childs \in Seq(Nat)
  BY <1>1, <1>2, NodeFacts
<1>4. x = [pn EXCEPT !.vals = v, !.childs = w]
  BY DEF put_to_parent
<1> HIDE DEF pn, mid, x
<1>5. Inserted(Value, pn.vals, lower_bound(pn.vals, mid.key), mid, v)
  BY <1>1, <1>3, InsertValueFacts
<1>6. PICK q \in 2 .. Len(pn.childs) + 1 :
         /\ Inserted(Nat, pn.childs, q, c, w)
         /\ (\A i \in 1 .. Len(pn.vals) : pn.vals[i].key # mid.key)
                => q = lower_bound(pn.vals, mid.key) + 1
  BY <1>1, <1>2, <1>3, InsertChildFacts
<1>7. v \in Seq(Value) /\ w \in Seq(Nat)
  BY <1>5, <1>6 DEF Inserted
<1>8. v = insertValue(pn.vals, mid)
  OBVIOUS
<1> HIDE DEF v, w
<1>9. x \in Node /\ x.is_leaf = pn.is_leaf /\ x.parent = pn.parent /\ x.vals = v /\ x.childs = w
  BY <1>3, <1>4, <1>7 DEF Node
<1> QED
  BY <1>5, <1>6, <1>8, <1>9 DEF pn, mid, x

LEMMA NewRootFacts ==
    ASSUME NEW t, NEW n \in Nodes(t), Sound(t, n), NEW c \in Nat, t.node[n].parent = 0
    PROVE  LET x == put_to_parent(t, n, c)
           IN  /\ x \in Node
               /\ x.is_leaf = FALSE /\ x.parent = 0
               /\ x.vals = <<midle(t.node[n])>>
               /\ x.childs = <<n, c>>
<1> DEFINE mid == midle(t.node[n])
           x == put_to_parent(t, n, c)
<1>1. mid \in Value /\ n \in Nat
  <2>1. mid \in Value
    BY FullFacts
  <2> QED
    BY <2>1 DEF Nodes
<1>2. x = [is_leaf |-> FALSE, vals |-> <<mid>>, childs |-> <<n, c>>, parent |-> 0, next |-> 0]
  BY DEF put_to_parent, NewNode
<1> HIDE DEF mid, x
<1>3. <<mid>> \in Seq(Value) /\ <<n, c>> \in Seq(Nat)
  BY <1>1
<1>4. x \in Node
  BY <1>2, <1>3 DEF Node
<1> QED
  BY <1>2, <1>4 DEF mid, x

\* What split makes of the tree.
LEMMA SplitFacts ==
    ASSUME NEW t, NEW n \in Nodes(t), Sound(t, n)
    PROVE  Splits(t, split(t, n), n, Len(t.node) + 1, node2insert(t, n))
<1> DEFINE u == split(t, n)
           c == Len(t.node) + 1
           p == node2insert(t, n)
           nd == t.node[n]
           last == IF nd.parent # 0 THEN c ELSE p
           others(i) == IF \E j \in Len(nd.childs) \div 2 + 1 .. Len(nd.childs) : nd.childs[j] = i
                        THEN [t.node[i] EXCEPT !.parent = c] ELSE t.node[i]
<1>1. t \in Tree /\ Linked(t)
  BY DEF Sound
<1>2. t.N \in Nat \ {0, 1} /\ Len(t.node) \in Nat /\ t.root \in Nat /\ Nodes(t) = 1 .. Len(t.node)
  BY <1>1 DEF Tree, Nodes
<1>3. /\ c \in Nat /\ c \notin Nodes(t) /\ c # n /\ n \in Nat
      /\ nd.parent # 0 => p = nd.parent /\ p \in Nodes(t) /\ p # n /\ p # c /\ last = c
      /\ nd.parent = 0 => p = c + 1 /\ p \notin Nodes(t) /\ p # n /\ p # c /\ last = p
      /\ p \in Nat /\ last \in Nat
  <2>1. c \in Nat /\ c \notin Nodes(t) /\ c # n /\ n \in Nat
    BY <1>2
  <2>2. CASE nd.parent # 0
    <3>1. p = nd.parent /\ last = c
      BY <2>2 DEF node2insert
    <3>2. nd.parent \in Nodes(t) /\ nd.parent # n
      BY <2>2, ParentFacts
    <3> HIDE DEF c, p, last
    <3>3. p \in Nodes(t) /\ p # n /\ p # c
      BY <2>1, <3>1, <3>2
    <3>4. p \in Nat
      BY <1>2, <3>3
    <3> QED
      BY <2>1, <2>2, <3>1, <3>3, <3>4
  <2>3. CASE nd.parent = 0
    <3>1. p = Len(t.node) + 2 /\ last = p
      BY <2>3 DEF node2insert
    <3> HIDE DEF p, last
    <3>2. p = c + 1 /\ p \notin Nodes(t) /\ p # n /\ p # c /\ p \in Nat
      BY <1>2, <3>1
    <3> QED
      BY <2>1, <2>3, <3>1, <3>2
  <2> QED
    BY <2>2, <2>3
<1>4. /\ u.N = t.N
      /\ u.root = IF nd.parent # 0 THEN t.root ELSE p
      /\ u.node = [i \in 1 .. last |->
                     CASE i = n -> lower_half(nd, p, c)
                       [] i = c -> upper_half(nd, p)
                       [] i = p -> put_to_parent(t, n, c)
                       [] OTHER -> others(i)]
      /\ u = [N |-> u.N, node |-> u.node, root |-> u.root]
  BY DEF split
<1> HIDE DEF u, p, last, others
<1>5. 1 .. last = Nodes(t) \cup {c, p} /\ n \in 1 .. last /\ c \in 1 .. last /\ p \in 1 .. last
  <2>1. CASE nd.parent # 0
    <3>1. last = Len(t.node) + 1 /\ p \in Nodes(t)
      BY <1>3, <2>1
    <3> QED
      BY <1>2, <3>1
  <2>2. CASE nd.parent = 0
    <3>1. last = Len(t.node) + 2 /\ p = Len(t.node) + 2
      BY <1>2, <1>3, <2>2
    <3> QED
      BY <1>2, <3>1
  <2> QED
    BY <2>1, <2>2
<1> HIDE DEF c
<1>6. u.node[n] = lower_half(nd, p, c) /\ u.node[c] = upper_half(nd, p) /\ u.node[p] = put_to_parent(t, n, c)
  BY <1>3, <1>4, <1>5
<1>7. \A i \in Nodes(t) \ {n, p} : u.node[i] = others(i)
  BY <1>3, <1>4, <1>5
<1>8. ASSUME NEW i \in Nodes(t) \ {n, p}
      PROVE  /\ others(i) \in Node
             /\ others(i).is_leaf = t.node[i].is_leaf
             /\ others(i).vals = t.node[i].vals
             /\ others(i).childs = t.node[i].childs
             /\ others(i).next = t.node[i].next
             /\ others(i).parent = IF Moved(t, n, i) THEN c ELSE t.node[i].parent
  <2>1. t.node[i] \in Node
    BY <1>1, NodeFacts
  <2>2. (\E j \in Len(nd.childs) \div 2 + 1 .. Len(nd.childs) : nd.childs[j] = i) <=> Moved(t, n, i)
    <3>1. CASE nd.is_leaf
      <4>1. Len(nd.childs) = 0 /\ Len(nd.childs) \div 2 = 0
        BY <3>1, FullFacts DEF ChildHalf
      <4> QED
        BY <3>1, <4>1 DEF Moved
    <3>2. CASE ~nd.is_leaf
      <4>1. Len(nd.childs) = 2 * t.N /\ Len(nd.childs) \div 2 = t.N
        BY <3>2, FullFacts DEF ChildHalf
      <4> QED
        BY <3>2, <4>1 DEF Moved
    <3> QED
      BY <3>1, <3>2
  <2>3. others(i) = IF Moved(t, n, i) THEN [t.node[i] EXCEPT !.parent = c] ELSE t.node[i]
    BY <2>2 DEF others
  <2> QED
    BY <1>3, <2>1, <2>3 DEF Node
<1>9. Kept(t, u, n, c, p)
  BY <1>7, <1>8 DEF Kept
<1>10. u.node[n] \in Node /\ u.node[c] \in Node /\ Shared(t, u, n, c, p)
  <2>1. /\ u.node[n] \in Node
        /\ u.node[n].is_leaf = nd.is_leaf /\ u.node[n].parent = p /\ u.node[n].next = c
        /\ Len(u.node[n].vals) = HalfOf(t, n)
        /\ \A i \in 1 .. HalfOf(t, n) : u.node[n].vals[i] = nd.vals[i]
        /\ Len(u.node[n].childs) = ChildHalf(t, n)
        /\ \A i \in 1 .. ChildHalf(t, n) : u.node[n].childs[i] = nd.childs[i]
    <3> DEFINE x == lower_half(t.node[n], p, c)
    <3>1. /\ x \in Node
          /\ x.is_leaf = t.node[n].is_leaf /\ x.parent = p /\ x.next = c
          /\ Len(x.vals) = HalfOf(t, n)
          /\ \A i \in 1 .. HalfOf(t, n) : x.vals[i] = t.node[n].vals[i]
          /\ Len(x.childs) = ChildHalf(t, n)
          /\ \A i \in 1 .. ChildHalf(t, n) : x.childs[i] = t.node[n].childs[i]
      BY <1>3, LowerHalfFacts
    <3>2. u.node[n] = x
      BY <1>6
    <3> HIDE DEF x
    <3> QED
      BY <3>1, <3>2
  <2>2. /\ u.node[c] \in Node
        /\ u.node[c].is_leaf = nd.is_leaf /\ u.node[c].parent = p /\ u.node[c].next = nd.next
        /\ Len(u.node[c].vals) = HalfOf(t, n)
        /\ \A i \in 1 .. HalfOf(t, n) : u.node[c].vals[i] = nd.vals[t.N + i]
        /\ Len(u.node[c].childs) = ChildHalf(t, n)
        /\ \A i \in 1 .. ChildHalf(t, n) : u.node[c].childs[i] = nd.childs[t.N + i]
    BY <1>3, <1>6, UpperHalfFacts
  <2> QED
    BY <2>1, <2>2 DEF Shared
<1>11. u.node[p] \in Node
  <2>1. CASE nd.parent # 0
    BY <1>3, <1>6, <2>1, PutToParentFacts
  <2>2. CASE nd.parent = 0
    BY <1>3, <1>6, <2>2, NewRootFacts
  <2> QED
    BY <2>1, <2>2
<1>12. DOMAIN u.node = 1 .. last /\ \A i \in 1 .. last : u.node[i] \in Node
  <2>1. \A i \in Nodes(t) \ {n, p} : u.node[i] \in Node
    BY <1>7, <1>8
  <2>2. \A i \in 1 .. last : i \in Nodes(t) \ {n, p} \/ i \in {n, c, p}
    BY <1>5
  <2> QED
    BY <1>4, <1>10, <1>11, <2>1, <2>2
<1>13. u.node \in Seq(Node) /\ Len(u.node) = last
  BY <1>3, <1>4, <1>12
<1>14. u \in Tree
  <2>1. u.root \in Nat
    BY <1>2, <1>3, <1>4
  <2> QED
    BY <1>2, <1>4, <1>13, <2>1 DEF Tree
<1>15. InParent(t, u, n, c, p) \/ InRoot(t, u, n, c, p)
  <2>1. CASE nd.parent # 0
    <3>1. p = nd.parent /\ p \in Nodes(t) /\ p # n /\ Len(u.node) = c /\ u.root = t.root
      BY <1>3, <1>4, <1>13, <2>1
    <3>2. ~t.node[p].is_leaf
      BY <2>1, <3>1, ParentFacts
    <3>3. /\ u.node[p].is_leaf = t.node[p].is_leaf /\ u.node[p].parent = t.node[p].parent
          /\ Inserted(Value, t.node[p].vals, lower_bound(t.node[p].vals, midle(nd).key),
                      midle(nd), u.node[p].vals)
          /\ u.node[p].vals = insertValue(t.node[p].vals, midle(nd))
          /\ \E q \in 2 .. Len(t.node[p].childs) + 1 :
               /\ Inserted(Nat, t.node[p].childs, q, c, u.node[p].childs)
               /\ (\A i \in 1 .. Len(t.node[p].vals) :
                       t.node[p].vals[i].key # midle(nd).key)
                     => q = lower_bound(t.node[p].vals, midle(nd).key) + 1
      <4> DEFINE x == put_to_parent(t, n, c)
                 r == t.node[n].parent
      <4>1. /\ x.is_leaf = t.node[r].is_leaf /\ x.parent = t.node[r].parent
            /\ Inserted(Value, t.node[r].vals, lower_bound(t.node[r].vals, midle(t.node[n]).key),
                        midle(t.node[n]), x.vals)
            /\ x.vals = insertValue(t.node[r].vals, midle(t.node[n]))
            /\ \E q \in 2 .. Len(t.node[r].childs) + 1 :
                 /\ Inserted(Nat, t.node[r].childs, q, c, x.childs)
                 /\ (\A i \in 1 .. Len(t.node[r].vals) :
                         t.node[r].vals[i].key # midle(t.node[n]).key)
                       => q = lower_bound(t.node[r].vals, midle(t.node[n]).key) + 1
        BY <1>3, <2>1, PutToParentFacts
      <4>2. u.node[p] = x /\ p = r
        BY <1>6, <3>1
      <4> HIDE DEF x, r
      <4> QED
        BY <4>1, <4>2
    <3> QED
      BY <3>1, <3>2, <3>3 DEF InParent
  <2>2. CASE nd.parent = 0
    <3>1. p = c + 1 /\ Len(u.node) = p /\ u.root = p
      BY <1>3, <1>4, <1>13, <2>2
    <3>2. n = t.root
      BY <1>1, <2>2 DEF Linked
    <3>3. /\ u.node[p].is_leaf = FALSE /\ u.node[p].parent = 0
          /\ u.node[p].vals = <<midle(nd)>> /\ u.node[p].childs = <<n, c>>
      <4> DEFINE x == put_to_parent(t, n, c)
      <4>1. x.is_leaf = FALSE /\ x.parent = 0 /\ x.vals = <<midle(t.node[n])>> /\ x.childs = <<n, c>>
        BY <1>3, <2>2, NewRootFacts
      <4>2. u.node[p] = x
        BY <1>6
      <4> HIDE DEF x
      <4> QED
        BY <4>1, <4>2
    <3> QED
      BY <3>1, <3>2, <3>3 DEF InRoot
  <2> QED
    BY <2>1, <2>2
<1>16. Splits(t, u, n, c, p)
  BY <1>4, <1>9, <1>10, <1>14, <1>15 DEF Splits, c
<1> QED
  BY <1>16 DEF u, c, p

-----------------------------------------------------------------------------
(* split keeps the tree sound *)

\* What an insertion into an array keeps and adds.
KeepsAndAdds(s, e, r) ==
    /\ \A i \in 1 .. Len(s) : \E j \in 1 .. Len(r) : r[j] = s[i]
    /\ \E j \in 1 .. Len(r) : r[j] = e
    /\ \A j \in 1 .. Len(r) : r[j] = e \/ \E i \in 1 .. Len(s) : r[j] = s[i]
    /\ (/\ \A i, j \in 1 .. Len(s) : s[i] = s[j] => i = j
        /\ \A i \in 1 .. Len(s) : s[i] # e)
       => \A i, j \in 1 .. Len(r) : r[i] = r[j] => i = j

LEMMA InsertedElements ==
    ASSUME NEW S, NEW s \in Seq(S), NEW p \in 1 .. Len(s) + 1, NEW e, NEW r, Inserted(S, s, p, e, r)
    PROVE  KeepsAndAdds(s, e, r)
<1>1. /\ Len(r) = Len(s) + 1 /\ Len(s) \in Nat
      /\ \A i \in 1 .. p - 1 : r[i] = s[i]
      /\ r[p] = e
      /\ \A i \in p + 1 .. Len(s) + 1 : r[i] = s[i - 1]
  BY DEF Inserted
<1>2. ASSUME NEW i \in 1 .. Len(s) PROVE \E j \in 1 .. Len(r) : r[j] = s[i]
  <2>1. CASE i < p
    <3>1. i \in 1 .. p - 1 /\ i \in 1 .. Len(r)
      BY <1>1, <2>1
    <3> QED
      BY <1>1, <3>1
  <2>2. CASE i >= p
    <3>1. i + 1 \in p + 1 .. Len(s) + 1 /\ i + 1 \in 1 .. Len(r) /\ i + 1 - 1 = i
      BY <1>1, <2>2
    <3>2. r[i + 1] = s[i]
      BY <1>1, <3>1
    <3> QED
      BY <3>1, <3>2
  <2> QED
    BY <2>1, <2>2
<1>3. \E j \in 1 .. Len(r) : r[j] = e
  BY <1>1
<1>4. ASSUME NEW j \in 1 .. Len(r)
      PROVE  \/ j = p /\ r[j] = e
             \/ j < p /\ j \in 1 .. Len(s) /\ r[j] = s[j]
             \/ j > p /\ j - 1 \in 1 .. Len(s) /\ r[j] = s[j - 1]
  <2>1. CASE j < p
    <3>1. j \in 1 .. p - 1 /\ j \in 1 .. Len(s)
      BY <1>1, <2>1
    <3> QED
      BY <1>1, <2>1, <3>1
  <2>2. CASE j > p
    <3>1. j \in p + 1 .. Len(s) + 1 /\ j - 1 \in 1 .. Len(s)
      BY <1>1, <2>2
    <3> QED
      BY <1>1, <2>2, <3>1
  <2>3. CASE j = p
    BY <1>1, <2>3
  <2> QED
    BY <2>1, <2>2, <2>3
<1>5. \A j \in 1 .. Len(r) : r[j] = e \/ \E i \in 1 .. Len(s) : r[j] = s[i]
  BY <1>4
<1>6. ASSUME \A i, j \in 1 .. Len(s) : s[i] = s[j] => i = j,
             \A i \in 1 .. Len(s) : s[i] # e,
             NEW i \in 1 .. Len(r), NEW j \in 1 .. Len(r), r[i] = r[j]
      PROVE  i = j
  <2>1. /\ \/ i = p /\ r[i] = e
           \/ i < p /\ i \in 1 .. Len(s) /\ r[i] = s[i]
           \/ i > p /\ i - 1 \in 1 .. Len(s) /\ r[i] = s[i - 1]
        /\ \/ j = p /\ r[j] = e
           \/ j < p /\ j \in 1 .. Len(s) /\ r[j] = s[j]
           \/ j > p /\ j - 1 \in 1 .. Len(s) /\ r[j] = s[j - 1]
    BY <1>4
  <2> QED
    BY <1>6, <2>1
<1> QED
  BY <1>2, <1>3, <1>5, <1>6 DEF KeepsAndAdds

\* The nodes afterwards.
LEMMA SplitNodes ==
    ASSUME NEW t, NEW n \in Nodes(t), Sound(t, n), NEW u, NEW c, NEW p, Splits(t, u, n, c, p)
    PROVE  /\ Nodes(u) = Nodes(t) \cup {c, p}
           /\ c \notin Nodes(t) /\ c # n /\ c # p /\ n # p /\ 0 \notin Nodes(u)
           /\ InRoot(t, u, n, c, p) => p \notin Nodes(t)
<1>1. t \in Tree /\ c = Len(t.node) + 1
  BY DEF Sound, Splits
<1>2. Len(t.node) \in Nat /\ Nodes(t) = 1 .. Len(t.node)
  BY <1>1, TreeFacts DEF Nodes
<1>3. CASE InParent(t, u, n, c, p)
  <2>1. p \in Nodes(t) /\ p # n /\ Nodes(u) = 1 .. c
    BY <1>3 DEF InParent, Nodes
  <2>2. ~InRoot(t, u, n, c, p)
    BY <1>1, <1>2, <1>3 DEF InParent, InRoot
  <2> QED
    BY <1>1, <1>2, <2>1, <2>2
<1>4. CASE InRoot(t, u, n, c, p)
  <2>1. p = c + 1 /\ Nodes(u) = 1 .. p
    BY <1>4 DEF InRoot, Nodes
  <2> QED
    BY <1>1, <1>2, <2>1
<1> QED
  BY <1>3, <1>4 DEF Splits

\* The node that can be full now.
Next2split(u, p) == IF isFull(u, u.node[p]) THEN p ELSE 0

LEMMA SplitSized ==
    ASSUME NEW t, NEW n \in Nodes(t), Sound(t, n), NEW u, NEW c, NEW p, Splits(t, u, n, c, p)
    PROVE  Sized(u, Next2split(u, p))
<1> DEFINE s == Next2split(u, p)
<1>1. t \in Tree /\ u \in Tree /\ Sized(t, n) /\ u.N = t.N
  BY DEF Sound, Splits
<1>2. t.N \in Nat /\ t.N >= 2
  BY <1>1, TreeFacts
<1>3. /\ Nodes(u) = Nodes(t) \cup {c, p}
      /\ c \notin Nodes(t) /\ c # n /\ c # p /\ n # p /\ 0 \notin Nodes(u)
      /\ InRoot(t, u, n, c, p) => p \notin Nodes(t)
  BY SplitNodes
<1>4. s = p \/ s = 0
  BY DEF Next2split
<1>r. \A i \in Nodes(t) : i # n /\ i # u.root => i # t.root
  BY <1>3 DEF Splits, InParent, InRoot
<1> SUFFICES ASSUME NEW i \in Nodes(u)
             PROVE  /\ u.node[i].is_leaf =>
                          /\ u.node[i].childs = <<>>
                          /\ IF i = s THEN Len(u.node[i].vals) = 2 * u.N
                             ELSE Len(u.node[i].vals) <= 2 * u.N - 1
                    /\ ~u.node[i].is_leaf =>
                          /\ Len(u.node[i].childs) = Len(u.node[i].vals) + 1
                          /\ Len(u.node[i].vals) >= 1
                          /\ IF i = s THEN Len(u.node[i].vals) = 2 * u.N - 1
                             ELSE Len(u.node[i].vals) <= 2 * u.N - 2
                    /\ i # u.root => Len(u.node[i].vals) + 1 >= u.N
  BY DEF Sized
<1> HIDE DEF s
<1>5. CASE i = n \/ i = c
  <2>1. /\ u.node[i].is_leaf = t.node[n].is_leaf
        /\ Len(u.node[i].vals) = HalfOf(t, n) /\ Len(u.node[i].childs) = ChildHalf(t, n)
    BY <1>5 DEF Splits, Shared
  <2>2. i # s
    BY <1>3, <1>4, <1>5
  <2>3. u.node[i].childs \in Seq(Nat)
    BY <1>1, NodeFacts
  <2>4. CASE t.node[n].is_leaf
    <3>1. Len(u.node[i].vals) = t.N /\ Len(u.node[i].childs) = 0
      BY <2>1, <2>4 DEF HalfOf, ChildHalf
    <3>2. u.node[i].childs = <<>>
      BY <2>3, <3>1
    <3> QED
      BY <1>1, <1>2, <2>1, <2>2, <2>4, <3>1, <3>2
  <2>5. CASE ~t.node[n].is_leaf
    <3>1. Len(u.node[i].vals) = t.N - 1 /\ Len(u.node[i].childs) = t.N
      BY <2>1, <2>5 DEF HalfOf, ChildHalf
    <3> QED
      BY <1>1, <1>2, <2>1, <2>2, <2>5, <3>1
  <2> QED
    BY <2>4, <2>5
<1>6. CASE i = p /\ InParent(t, u, n, c, p)
  <2>1. ~u.node[p].is_leaf /\ ~t.node[p].is_leaf /\ p \in Nodes(t) /\ p # n /\ u.root = t.root
    BY <1>6 DEF InParent
  <2>2. Len(u.node[p].vals) = Len(t.node[p].vals) + 1 /\ Len(u.node[p].childs) = Len(t.node[p].childs) + 1
    BY <1>6 DEF InParent, Inserted
  <2>3. /\ Len(t.node[p].childs) = Len(t.node[p].vals) + 1
        /\ Len(t.node[p].vals) >= 1 /\ Len(t.node[p].vals) <= 2 * t.N - 2
        /\ p # t.root => Len(t.node[p].vals) + 1 >= t.N
    BY <1>1, <2>1 DEF Sized
  <2>4. t.node[p].vals \in Seq(Value)
    BY <1>1, <2>1, NodeFacts
  <2>5. Len(t.node[p].vals) \in Nat
    BY <2>4
  <2>6. s = IF Len(t.node[p].vals) + 2 >= 2 * t.N THEN p ELSE 0
    BY <1>1, <2>2, <2>5 DEF s, Next2split, isFull
  <2>7. IF p = s THEN Len(u.node[p].vals) = 2 * t.N - 1 ELSE Len(u.node[p].vals) <= 2 * t.N - 2
    <3>1. p # 0
      BY <1>3
    <3>2. CASE Len(t.node[p].vals) + 2 >= 2 * t.N
      <4>1. Len(t.node[p].vals) + 1 = 2 * t.N - 1
        <5>1. Len(t.node[p].vals) <= 2 * t.N - 2
          BY <2>3
        <5> QED
          BY <1>2, <2>5, <3>2, <5>1, OneBelow
      <4> QED
        BY <2>2, <2>6, <3>2, <4>1
    <3>3. CASE ~(Len(t.node[p].vals) + 2 >= 2 * t.N)
      BY <1>2, <2>2, <2>3, <2>5, <2>6, <3>1, <3>3
    <3> QED
      BY <3>2, <3>3
  <2>8. p # u.root => Len(u.node[p].vals) + 1 >= t.N
    BY <1>2, <2>1, <2>2, <2>3, <2>5
  <2> QED
    BY <1>1, <1>6, <2>1, <2>2, <2>3, <2>5, <2>7, <2>8
<1>7. CASE i = p /\ InRoot(t, u, n, c, p)
  <2>1. ~u.node[p].is_leaf /\ Len(u.node[p].vals) = 1 /\ Len(u.node[p].childs) = 2 /\ u.root = p
    BY <1>7 DEF InRoot
  <2>2. ~(1 + 1 >= 2 * t.N)
    BY <1>2
  <2>3. s = 0 /\ p # 0
    BY <1>1, <1>3, <2>1, <2>2 DEF s, Next2split, isFull
  <2> QED
    BY <1>1, <1>2, <1>7, <2>1, <2>3
<1>8. CASE i # n /\ i # c /\ i # p
  <2>1. i \in Nodes(t) \ {n, p}
    BY <1>3, <1>8
  <2>2. /\ u.node[i].is_leaf = t.node[i].is_leaf /\ u.node[i].vals = t.node[i].vals
        /\ u.node[i].childs = t.node[i].childs
    BY <2>1 DEF Splits, Kept
  <2>3. i # s
    BY <1>3, <1>4, <1>8
  <2>4. i # u.root => i # t.root
    BY <1>r, <2>1
  <2> QED
    BY <1>1, <2>1, <2>2, <2>3, <2>4 DEF Sized
<1> QED
  BY <1>5, <1>6, <1>7, <1>8 DEF Splits

\* No node is its own child or that of its child, and a parent is found by
\* its child only.
LEMMA Apart ==
    ASSUME NEW t, NEW n \in Nodes(t), Sound(t, n), NEW u, NEW c, NEW p, Splits(t, u, n, c, p)
    PROVE  /\ \A m \in Nodes(t) : \A i \in 1 .. Len(t.node[m].childs) :
                 t.node[m].childs[i] # m /\ t.node[m].childs[i] \in Nodes(t)
                 /\ t.node[t.node[m].childs[i]].parent = m
           /\ \A i \in 1 .. Len(t.node[n].childs) : t.node[n].childs[i] # p
           /\ InParent(t, u, n, c, p) => t.node[p].parent # n
<1>1. t \in Tree /\ Linked(t) /\ Sized(t, n)
  BY DEF Sound
<1>2. PICK level : Levels(t, level)
  BY DEF Sound
<1>3. ASSUME NEW m \in Nodes(t), NEW i \in 1 .. Len(t.node[m].childs)
      PROVE  /\ t.node[m].childs[i] # m /\ t.node[m].childs[i] \in Nodes(t)
             /\ t.node[t.node[m].childs[i]].parent = m
             /\ level[t.node[m].childs[i]] + 1 = level[m]
             /\ level[t.node[m].childs[i]] \in Nat /\ level[m] \in Nat
  <2>1. t.node[m].childs[i] \in Nodes(t) /\ t.node[t.node[m].childs[i]].parent = m
    BY <1>1 DEF Linked
  <2>2. /\ level[t.node[m].childs[i]] + 1 = level[m]
        /\ level[t.node[m].childs[i]] \in Nat /\ level[m] \in Nat
    BY <1>2, <2>1 DEF Levels
  <2>3. t.node[m].childs[i] # m
    BY <2>2
  <2> QED
    BY <2>1, <2>2, <2>3
<1>4. ASSUME InParent(t, u, n, c, p)
      PROVE  p \in Nodes(t) /\ level[p] = level[n] + 1 /\ level[p] \in Nat /\ level[n] \in Nat
  <2>1. p = t.node[n].parent /\ p \in Nodes(t)
    BY <1>4 DEF InParent
  <2>2. t.node[n].parent # 0
    BY <2>1 DEF Nodes
  <2>3. PICK i \in 1 .. Len(t.node[p].childs) : t.node[p].childs[i] = n
    BY <2>1, <2>2, ParentFacts
  <2> QED
    BY <1>3, <2>1, <2>3
<1>5. ASSUME NEW i \in 1 .. Len(t.node[n].childs) PROVE t.node[n].childs[i] # p
  <2>1. CASE InParent(t, u, n, c, p)
    <3>1. level[t.node[n].childs[i]] + 1 = level[n] /\ level[t.node[n].childs[i]] \in Nat
      BY <1>3
    <3>2. level[p] = level[n] + 1 /\ level[n] \in Nat
      BY <1>4, <2>1
    <3>3. level[t.node[n].childs[i]] # level[p]
      BY <3>1, <3>2
    <3> QED
      BY <3>3
  <2>2. CASE InRoot(t, u, n, c, p)
    BY <1>3, <2>2, SplitNodes
  <2> QED
    BY <2>1, <2>2 DEF Splits
<1>6. ASSUME InParent(t, u, n, c, p) PROVE t.node[p].parent # n
  <2>1. SUFFICES ASSUME t.node[p].parent = n PROVE FALSE
    OBVIOUS
  <2>2. p \in Nodes(t)
    BY <1>6 DEF InParent
  <2>3. t.node[p].parent # 0
    BY <2>1 DEF Nodes
  <2>4. PICK i \in 1 .. Len(t.node[n].childs) : t.node[n].childs[i] = p
    BY <2>1, <2>2, <2>3, ParentFacts
  <2> QED
    BY <1>5, <2>4
<1> QED
  BY <1>3, <1>5, <1>6

\* What became of the parents.
LEMMA SplitParents ==
    ASSUME NEW t, NEW n \in Nodes(t), Sound(t, n), NEW u, NEW c, NEW p, Splits(t, u, n, c, p)
    PROVE  /\ u.node[n].parent = p /\ u.node[c].parent = p
           /\ \A i \in 1 .. ChildHalf(t, n) :
                 /\ u.node[t.node[n].childs[i]].parent = n
                 /\ u.node[t.node[n].childs[t.N + i]].parent = c
           /\ \A i \in Nodes(t) : i # n /\ t.node[i].parent # n => u.node[i].parent = t.node[i].parent
           /\ \A i \in Nodes(t) : i # n /\ ~Moved(t, n, i) => u.node[i].parent = t.node[i].parent
<1>1. t \in Tree /\ Linked(t) /\ t.N \in Nat /\ t.N >= 2
  BY TreeFacts DEF Sound
<1>2. u.node[n].parent = p /\ u.node[c].parent = p
  BY DEF Splits, Shared
<1>3. \A i \in Nodes(t) \ {n, p} : u.node[i].parent = IF Moved(t, n, i) THEN c ELSE t.node[i].parent
  BY DEF Splits, Kept
<1>4. p \in Nodes(t) => u.node[p].parent = t.node[p].parent
  <2>1. CASE InParent(t, u, n, c, p)
    BY <2>1 DEF InParent
  <2>2. CASE InRoot(t, u, n, c, p)
    BY <2>2, SplitNodes
  <2> QED
    BY <2>1, <2>2 DEF Splits
<1>5. ASSUME NEW i \in Nodes(t), Moved(t, n, i) PROVE t.node[i].parent = n
  <2>1. PICK j \in t.N + 1 .. 2 * t.N : t.node[n].childs[j] = i
    BY <1>5 DEF Moved
  <2>2. Len(t.node[n].childs) = 2 * t.N
    BY <1>5, FullFacts DEF Moved
  <2>3. j \in 1 .. Len(t.node[n].childs)
    BY <1>1, <2>2
  <2> QED
    BY <1>1, <2>1, <2>3 DEF Linked
<1>6. ASSUME NEW i \in Nodes(t), i # n, ~Moved(t, n, i) PROVE u.node[i].parent = t.node[i].parent
  BY <1>3, <1>4, <1>6
<1>7. ASSUME NEW i \in 1 .. ChildHalf(t, n)
      PROVE  /\ u.node[t.node[n].childs[i]].parent = n
             /\ u.node[t.node[n].childs[t.N + i]].parent = c
  <2>1. ~t.node[n].is_leaf /\ i \in 1 .. t.N
    BY <1>7 DEF ChildHalf
  <2>2. Len(t.node[n].childs) = 2 * t.N
    BY <2>1, FullFacts
  <2>3. /\ i \in 1 .. Len(t.node[n].childs) /\ t.N + i \in 1 .. Len(t.node[n].childs)
        /\ t.N + i \in t.N + 1 .. 2 * t.N
    BY <1>1, <2>1, <2>2
  <2> DEFINE d == t.node[n].childs[i]
             e == t.node[n].childs[t.N + i]
  <2>4. d \in Nodes(t) /\ d # n /\ d # p /\ t.node[d].parent = n
    BY <2>3, Apart
  <2>5. e \in Nodes(t) /\ e # n /\ e # p
    BY <2>3, Apart
  <2>6. Moved(t, n, e)
    BY <2>1, <2>3 DEF Moved
  <2>7. ~Moved(t, n, d)
    <3>1. SUFFICES ASSUME NEW j \in t.N + 1 .. 2 * t.N, t.node[n].childs[j] = d PROVE FALSE
      BY DEF Moved
    <3>2. j \in 1 .. Len(t.node[n].childs) /\ j # i
      BY <1>1, <2>1, <2>2
    <3> QED
      BY <1>1, <2>3, <3>1, <3>2 DEF Linked
  <2>8. u.node[e].parent = c
    BY <1>3, <2>5, <2>6
  <2>9. u.node[d].parent = n
    BY <1>6, <2>4, <2>7
  <2> QED
    BY <2>8, <2>9
<1> QED
  BY <1>2, <1>5, <1>6, <1>7

\* What became of the childs: each node has those it had, shared with the new
\* one in the node that was split, and one more in the parent.
LEMMA SplitChilds ==
    ASSUME NEW t, NEW n \in Nodes(t), Sound(t, n), NEW u, NEW c, NEW p, Splits(t, u, n, c, p)
    PROVE  /\ InParent(t, u, n, c, p) =>
                 /\ \A i \in 1 .. Len(t.node[p].childs) :
                       \E j \in 1 .. Len(u.node[p].childs) : u.node[p].childs[j] = t.node[p].childs[i]
                 /\ \E j \in 1 .. Len(u.node[p].childs) : u.node[p].childs[j] = c
                 /\ \A j \in 1 .. Len(u.node[p].childs) :
                       \/ u.node[p].childs[j] = c
                       \/ \E i \in 1 .. Len(t.node[p].childs) : u.node[p].childs[j] = t.node[p].childs[i]
                 /\ \A i, j \in 1 .. Len(u.node[p].childs) :
                       u.node[p].childs[i] = u.node[p].childs[j] => i = j
           /\ InRoot(t, u, n, c, p) =>
                 /\ Len(u.node[p].childs) = 2 /\ u.node[p].childs[1] = n /\ u.node[p].childs[2] = c
           /\ \A m \in Nodes(t) \ {n, p} : u.node[m].childs = t.node[m].childs
<1>1. t \in Tree /\ Linked(t)
  BY DEF Sound
<1>2. ASSUME InParent(t, u, n, c, p)
      PROVE  /\ \A i \in 1 .. Len(t.node[p].childs) :
                   \E j \in 1 .. Len(u.node[p].childs) : u.node[p].childs[j] = t.node[p].childs[i]
             /\ \E j \in 1 .. Len(u.node[p].childs) : u.node[p].childs[j] = c
             /\ \A j \in 1 .. Len(u.node[p].childs) :
                   \/ u.node[p].childs[j] = c
                   \/ \E i \in 1 .. Len(t.node[p].childs) : u.node[p].childs[j] = t.node[p].childs[i]
             /\ \A i, j \in 1 .. Len(u.node[p].childs) :
                   u.node[p].childs[i] = u.node[p].childs[j] => i = j
  <2> DEFINE s == t.node[p].childs
             r == u.node[p].childs
  <2>1. p \in Nodes(t)
    BY <1>2 DEF InParent
  <2>2. PICK q \in 2 .. Len(s) + 1 : Inserted(Nat, s, q, c, r)
    BY <1>2 DEF InParent
  <2>3. s \in Seq(Nat)
    BY <1>1, <2>1, NodeFacts
  <2>4. \A i, j \in 1 .. Len(s) : s[i] = s[j] => i = j
    BY <1>1, <2>1 DEF Linked
  <2>5. \A i \in 1 .. Len(s) : s[i] # c
    <3>1. c \notin Nodes(t)
      BY SplitNodes
    <3> QED
      BY <1>1, <2>1, <3>1 DEF Linked
  <2> HIDE DEF s, r
  <2>6. q \in 1 .. Len(s) + 1
    BY <2>3
  <2>7. KeepsAndAdds(s, c, r)
    BY <2>2, <2>3, <2>6, InsertedElements
  <2>8. \A i, j \in 1 .. Len(r) : r[i] = r[j] => i = j
    BY <2>4, <2>5, <2>7 DEF KeepsAndAdds
  <2> QED
    BY <2>7, <2>8 DEF KeepsAndAdds, s, r
<1>3. ASSUME InRoot(t, u, n, c, p)
      PROVE  Len(u.node[p].childs) = 2 /\ u.node[p].childs[1] = n /\ u.node[p].childs[2] = c
  BY <1>3 DEF InRoot
<1>4. \A m \in Nodes(t) \ {n, p} : u.node[m].childs = t.node[m].childs
  BY DEF Splits, Kept
<1> QED
  BY <1>2, <1>3, <1>4

LEMMA SplitLinked ==
    ASSUME NEW t, NEW n \in Nodes(t), Sound(t, n), NEW u, NEW c, NEW p, Splits(t, u, n, c, p)
    PROVE  Linked(u)
<1>1. t \in Tree /\ Linked(t) /\ t.N \in Nat /\ t.N >= 2
  BY TreeFacts DEF Sound
<1>2. /\ Nodes(u) = Nodes(t) \cup {c, p}
      /\ c \notin Nodes(t) /\ c # n /\ c # p /\ n # p /\ 0 \notin Nodes(u)
      /\ InRoot(t, u, n, c, p) => p \notin Nodes(t)
  BY SplitNodes
<1>3. InParent(t, u, n, c, p) => p = t.node[n].parent /\ p \in Nodes(t) /\ u.root = t.root
  BY DEF InParent
<1>4. InRoot(t, u, n, c, p) => n = t.root /\ u.root = p /\ t.node[n].parent = 0 /\ u.node[p].parent = 0
  BY <1>1 DEF InRoot, Linked
<1>5. InParent(t, u, n, c, p) \/ InRoot(t, u, n, c, p)
  BY DEF Splits
<1>6. /\ u.node[n].parent = p /\ u.node[c].parent = p
      /\ \A i \in 1 .. ChildHalf(t, n) :
            /\ u.node[t.node[n].childs[i]].parent = n
            /\ u.node[t.node[n].childs[t.N + i]].parent = c
      /\ \A i \in Nodes(t) : i # n /\ t.node[i].parent # n => u.node[i].parent = t.node[i].parent
      /\ \A i \in Nodes(t) : i # n /\ ~Moved(t, n, i) => u.node[i].parent = t.node[i].parent
  BY SplitParents
<1>7. /\ InParent(t, u, n, c, p) =>
            /\ \A i \in 1 .. Len(t.node[p].childs) :
                  \E j \in 1 .. Len(u.node[p].childs) : u.node[p].childs[j] = t.node[p].childs[i]
            /\ \E j \in 1 .. Len(u.node[p].childs) : u.node[p].childs[j] = c
            /\ \A j \in 1 .. Len(u.node[p].childs) :
                  \/ u.node[p].childs[j] = c
                  \/ \E i \in 1 .. Len(t.node[p].childs) : u.node[p].childs[j] = t.node[p].childs[i]
            /\ \A i, j \in 1 .. Len(u.node[p].childs) :
                  u.node[p].childs[i] = u.node[p].childs[j] => i = j
      /\ InRoot(t, u, n, c, p) =>
            /\ Len(u.node[p].childs) = 2 /\ u.node[p].childs[1] = n /\ u.node[p].childs[2] = c
      /\ \A m \in Nodes(t) \ {n, p} : u.node[m].childs = t.node[m].childs
  BY SplitChilds
<1>8. /\ \A m \in Nodes(t) : \A i \in 1 .. Len(t.node[m].childs) :
            t.node[m].childs[i] # m /\ t.node[m].childs[i] \in Nodes(t)
            /\ t.node[t.node[m].childs[i]].parent = m
      /\ InParent(t, u, n, c, p) => t.node[p].parent # n
  BY Apart
<1>9. /\ Len(u.node[n].childs) = ChildHalf(t, n) /\ Len(u.node[c].childs) = ChildHalf(t, n)
      /\ \A i \in 1 .. ChildHalf(t, n) : /\ u.node[n].childs[i] = t.node[n].childs[i]
                                         /\ u.node[c].childs[i] = t.node[n].childs[t.N + i]
      /\ \A i \in 1 .. ChildHalf(t, n) : /\ i \in 1 .. Len(t.node[n].childs)
                                         /\ t.N + i \in 1 .. Len(t.node[n].childs)
  <2>1. ASSUME NEW i \in 1 .. ChildHalf(t, n)
        PROVE  i \in 1 .. Len(t.node[n].childs) /\ t.N + i \in 1 .. Len(t.node[n].childs)
    <3>1. ~t.node[n].is_leaf /\ i \in 1 .. t.N
      BY <2>1 DEF ChildHalf
    <3>2. Len(t.node[n].childs) = 2 * t.N
      BY <3>1, FullFacts
    <3> QED
      BY <1>1, <3>1, <3>2
  <2> QED
    BY <2>1 DEF Splits, Shared
<1>10. u.root \in Nodes(u)
  BY <1>1, <1>2, <1>3, <1>4, <1>5 DEF Linked
<1>11. ASSUME NEW m \in Nodes(u) PROVE u.node[m].parent = 0 <=> m = u.root
  <2>1. p # 0 /\ c # 0
    BY <1>2
  <2>2. CASE m = n \/ m = c
    <3>1. u.node[m].parent # 0
      BY <1>6, <2>1, <2>2
    <3>2. m # u.root
      <4>1. CASE InParent(t, u, n, c, p)
        <5>1. n # t.root /\ c # t.root
          BY <1>1, <1>2, <1>3, <2>1, <4>1 DEF Linked
        <5> QED
          BY <1>3, <2>2, <4>1, <5>1
      <4>2. CASE InRoot(t, u, n, c, p)
        BY <1>2, <1>4, <2>2, <4>2
      <4> QED
        BY <1>5, <4>1, <4>2
    <3> QED
      BY <3>1, <3>2
  <2>3. CASE m = p
    <3>1. CASE InParent(t, u, n, c, p)
      <4>1. u.node[p].parent = t.node[p].parent
        BY <1>2, <1>3, <1>6, <1>8, <3>1
      <4> QED
        BY <1>1, <1>3, <2>3, <3>1, <4>1 DEF Linked
    <3>2. CASE InRoot(t, u, n, c, p)
      BY <1>4, <2>3, <3>2
    <3> QED
      BY <1>5, <3>1, <3>2
  <2>4. CASE m # n /\ m # c /\ m # p
    <3>1. m \in Nodes(t)
      BY <1>2, <2>4
    <3>2. m = u.root <=> m = t.root
      BY <1>3, <1>4, <1>5, <2>4
    <3>3. t.node[m].parent = 0 <=> m = t.root
      BY <1>1, <3>1 DEF Linked
    <3>4. CASE Moved(t, n, m)
      <4>1. u.node[m].parent = c
        BY <2>4, <3>1, <3>4 DEF Splits, Kept
      <4>2. t.node[m].parent = n
        <5>1. PICK j \in t.N + 1 .. 2 * t.N : t.node[n].childs[j] = m
          BY <3>4 DEF Moved
        <5>2. Len(t.node[n].childs) = 2 * t.N
          BY <3>4, FullFacts DEF Moved
        <5>3. j \in 1 .. Len(t.node[n].childs)
          BY <1>1, <5>2
        <5> QED
          BY <1>8, <5>1, <5>3
      <4>3. n # 0
        BY <1>2
      <4> QED
        BY <2>1, <3>2, <3>3, <4>1, <4>2, <4>3
    <3>5. CASE ~Moved(t, n, m)
      BY <1>6, <2>4, <3>1, <3>2, <3>3, <3>5
    <3> QED
      BY <3>4, <3>5
  <2> QED
    BY <2>2, <2>3, <2>4
<1>12. ASSUME NEW m \in Nodes(u), NEW i \in 1 .. Len(u.node[m].childs)
       PROVE  u.node[m].childs[i] \in Nodes(u) /\ u.node[u.node[m].childs[i]].parent = m
  <2>1. CASE m = n
    <3>1. i \in 1 .. ChildHalf(t, n)
      BY <1>9, <2>1
    <3>2. u.node[n].childs[i] = t.node[n].childs[i] /\ i \in 1 .. Len(t.node[n].childs)
      BY <1>9, <3>1
    <3>3. t.node[n].childs[i] \in Nodes(t) /\ u.node[t.node[n].childs[i]].parent = n
      BY <1>6, <1>8, <3>1, <3>2
    <3> QED
      BY <1>2, <2>1, <3>2, <3>3
  <2>2. CASE m = c
    <3>1. i \in 1 .. ChildHalf(t, n)
      BY <1>9, <2>2
    <3>2. u.node[c].childs[i] = t.node[n].childs[t.N + i] /\ t.N + i \in 1 .. Len(t.node[n].childs)
      BY <1>9, <3>1
    <3>3. t.node[n].childs[t.N + i] \in Nodes(t) /\ u.node[t.node[n].childs[t.N + i]].parent = c
      BY <1>6, <1>8, <3>1, <3>2
    <3> QED
      BY <1>2, <2>2, <3>2, <3>3
  <2>3. CASE m = p /\ InParent(t, u, n, c, p)
    <3>1. CASE u.node[p].childs[i] = c
      BY <1>2, <1>6, <2>3, <3>1
    <3>2. CASE u.node[p].childs[i] # c
      <4>1. PICK j \in 1 .. Len(t.node[p].childs) : u.node[p].childs[i] = t.node[p].childs[j]
        BY <1>7, <2>3, <3>2
      <4> DEFINE d == t.node[p].childs[j]
      <4>2. d \in Nodes(t) /\ t.node[d].parent = p
        BY <1>3, <1>8, <2>3
      <4>3. u.node[d].parent = p
        BY <1>2, <1>6, <4>2
      <4> QED
        BY <1>2, <2>3, <4>1, <4>2, <4>3
    <3> QED
      BY <3>1, <3>2
  <2>4. CASE m = p /\ InRoot(t, u, n, c, p)
    <3>1. i = 1 \/ i = 2
      <4>1. Len(u.node[m].childs) = 2
        BY <1>7, <2>4
      <4> QED
        BY <4>1
    <3> QED
      BY <1>2, <1>6, <1>7, <2>4, <3>1
  <2>5. CASE m # n /\ m # c /\ m # p
    <3>1. m \in Nodes(t) \ {n, p} /\ u.node[m].childs = t.node[m].childs
      BY <1>2, <1>7, <2>5
    <3> DEFINE d == t.node[m].childs[i]
    <3>2. d \in Nodes(t) /\ t.node[d].parent = m
      BY <1>8, <3>1
    <3>3. d # n
      <4>1. m # 0
        BY <1>2
      <4> QED
        BY <1>3, <1>4, <1>5, <2>5, <3>2, <4>1
    <3>4. u.node[d].parent = m
      BY <1>6, <2>5, <3>2, <3>3
    <3> QED
      BY <1>2, <3>1, <3>2, <3>4
  <2> QED
    BY <1>5, <2>1, <2>2, <2>3, <2>4, <2>5
<1>13. ASSUME NEW m \in Nodes(u), NEW i \in 1 .. Len(u.node[m].childs),
              NEW j \in 1 .. Len(u.node[m].childs), u.node[m].childs[i] = u.node[m].childs[j]
       PROVE  i = j
  <2>1. CASE m = n
    <3>1. i \in 1 .. ChildHalf(t, n) /\ j \in 1 .. ChildHalf(t, n)
      BY <1>9, <2>1
    <3>2. t.node[n].childs[i] = t.node[n].childs[j]
      BY <1>9, <1>13, <2>1, <3>1
    <3> QED
      BY <1>1, <1>9, <3>1, <3>2 DEF Linked
  <2>2. CASE m = c
    <3>1. i \in 1 .. ChildHalf(t, n) /\ j \in 1 .. ChildHalf(t, n)
      BY <1>9, <2>2
    <3>2. t.node[n].childs[t.N + i] = t.node[n].childs[t.N + j]
      BY <1>9, <1>13, <2>2, <3>1
    <3>3. t.N + i = t.N + j
      BY <1>1, <1>9, <3>1, <3>2 DEF Linked
    <3>4. i \in Int /\ j \in Int
      OBVIOUS
    <3> QED
      BY <1>1, <3>3, <3>4
  <2>3. CASE m = p /\ InParent(t, u, n, c, p)
    BY <1>7, <1>13, <2>3
  <2>4. CASE m = p /\ InRoot(t, u, n, c, p)
    <3>1. (i = 1 \/ i = 2) /\ (j = 1 \/ j = 2)
      <4>1. Len(u.node[m].childs) = 2
        BY <1>7, <2>4
      <4> QED
        BY <4>1
    <3> QED
      BY <1>2, <1>7, <1>13, <2>4, <3>1
  <2>5. CASE m # n /\ m # c /\ m # p
    <3>1. m \in Nodes(t) \ {n, p} /\ u.node[m].childs = t.node[m].childs
      BY <1>2, <1>7, <2>5
    <3> QED
      BY <1>1, <1>13, <3>1 DEF Linked
  <2> QED
    BY <1>5, <2>1, <2>2, <2>3, <2>4, <2>5
<1>14. ASSUME NEW m \in Nodes(u), m # u.root
       PROVE  /\ u.node[m].parent \in Nodes(u)
              /\ \E i \in 1 .. Len(u.node[u.node[m].parent].childs) :
                    u.node[u.node[m].parent].childs[i] = m
  <2>p. InParent(t, u, n, c, p) => \E i \in 1 .. Len(t.node[p].childs) : t.node[p].childs[i] = n
    <3> SUFFICES ASSUME InParent(t, u, n, c, p)
                 PROVE  \E i \in 1 .. Len(t.node[p].childs) : t.node[p].childs[i] = n
      OBVIOUS
    <3>1. p = t.node[n].parent /\ t.node[n].parent # 0
      BY <1>2, <1>3
    <3> QED
      BY <3>1, ParentFacts
  <2>1. CASE m = n
    <3>1. \E i \in 1 .. Len(u.node[p].childs) : u.node[p].childs[i] = n
      <4>1. CASE InParent(t, u, n, c, p)
        <5>1. PICK i \in 1 .. Len(t.node[p].childs) : t.node[p].childs[i] = n
          BY <2>p, <4>1
        <5>2. \E j \in 1 .. Len(u.node[p].childs) : u.node[p].childs[j] = t.node[p].childs[i]
          BY <1>7, <4>1
        <5> QED
          BY <5>1, <5>2
      <4>2. CASE InRoot(t, u, n, c, p)
        BY <1>7, <4>2
      <4> QED
        BY <1>5, <4>1, <4>2
    <3> QED
      BY <1>2, <1>6, <2>1, <3>1
  <2>2. CASE m = c
    <3>1. \E i \in 1 .. Len(u.node[p].childs) : u.node[p].childs[i] = c
      <4>1. CASE InParent(t, u, n, c, p)
        BY <1>7, <4>1
      <4>2. CASE InRoot(t, u, n, c, p)
        BY <1>7, <4>2
      <4> QED
        BY <1>5, <4>1, <4>2
    <3> QED
      BY <1>2, <1>6, <2>2, <3>1
  <2>3. CASE m # c /\ m # n /\ m \in Nodes(t)
    <3>1. m # t.root
      BY <1>3, <1>4, <1>5, <1>14, <2>3
    <3>2. /\ t.node[m].parent \in Nodes(t)
          /\ \E i \in 1 .. Len(t.node[t.node[m].parent].childs) :
                t.node[t.node[m].parent].childs[i] = m
      BY <1>1, <2>3, <3>1 DEF Linked
    <3> DEFINE g == t.node[m].parent
    <3>3. PICK i \in 1 .. Len(t.node[g].childs) : t.node[g].childs[i] = m
      BY <3>2
    <3>4. CASE g = n
      <4>1. ~t.node[n].is_leaf /\ Len(t.node[n].childs) = 2 * t.N /\ ChildHalf(t, n) = t.N
        <5>1. i \in 1 .. Len(t.node[n].childs)
          BY <3>3, <3>4
        <5>2. ~t.node[n].is_leaf
          <6>1. SUFFICES ASSUME Len(t.node[n].childs) = 0 PROVE FALSE
            BY FullFacts
          <6> QED
            BY <5>1, <6>1
        <5> QED
          BY <5>2, FullFacts DEF ChildHalf
      <4>2. CASE i <= t.N
        <5>1. i \in 1 .. ChildHalf(t, n)
          BY <1>1, <3>3, <3>4, <4>1, <4>2
        <5>2. u.node[t.node[n].childs[i]].parent = n /\ u.node[n].childs[i] = t.node[n].childs[i]
          BY <1>6, <1>9, <5>1
        <5>3. t.node[n].childs[i] = m
          BY <3>3, <3>4
        <5> QED
          BY <1>2, <1>9, <5>1, <5>2, <5>3
      <4>3. CASE i > t.N
        <5>1. i - t.N \in 1 .. ChildHalf(t, n) /\ t.N + (i - t.N) = i
          BY <1>1, <3>3, <3>4, <4>1, <4>3
        <5>2. u.node[m].parent = c /\ u.node[c].childs[i - t.N] = m
          <6>1. t.node[n].childs[t.N + (i - t.N)] = m
            BY <3>3, <3>4, <5>1
          <6>2. /\ u.node[t.node[n].childs[t.N + (i - t.N)]].parent = c
                /\ u.node[c].childs[i - t.N] = t.node[n].childs[t.N + (i - t.N)]
            BY <1>6, <1>9, <5>1
          <6> QED
            BY <6>1, <6>2
        <5> QED
          BY <1>2, <1>9, <5>1, <5>2
      <4>4. i \in Int
        OBVIOUS
      <4> QED
        BY <1>1, <4>2, <4>3, <4>4
    <3>5. CASE g # n
      <4>1. u.node[m].parent = g
        BY <1>6, <2>3, <3>5
      <4>2. CASE g # p
        <5>1. u.node[g].childs = t.node[g].childs
          BY <1>7, <3>2, <3>5, <4>2
        <5> QED
          BY <1>2, <3>2, <3>3, <4>1, <5>1
      <4>3. CASE g = p
        <5>1. InParent(t, u, n, c, p)
          BY <1>2, <1>5, <3>2, <4>3
        <5>2. \E j \in 1 .. Len(u.node[p].childs) : u.node[p].childs[j] = m
          <6>1. i \in 1 .. Len(t.node[p].childs) /\ t.node[p].childs[i] = m
            BY <3>3, <4>3
          <6>2. \E j \in 1 .. Len(u.node[p].childs) : u.node[p].childs[j] = t.node[p].childs[i]
            BY <1>7, <5>1, <6>1
          <6> QED
            BY <6>1, <6>2
        <5> QED
          BY <1>2, <4>1, <4>3, <5>2
      <4> QED
        BY <4>2, <4>3
    <3> QED
      BY <3>4, <3>5
  <2>4. CASE m = p /\ p \notin Nodes(t)
    BY <1>3, <1>4, <1>5, <1>14, <2>4
  <2> QED
    BY <1>2, <2>1, <2>2, <2>3, <2>4
<1> QED
  BY <1>10, <1>11, <1>12, <1>13, <1>14 DEF Linked

LEMMA SplitLevels ==
    ASSUME NEW t, NEW n \in Nodes(t), Sound(t, n), NEW u, NEW c, NEW p, Splits(t, u, n, c, p)
    PROVE  \E lev : Levels(u, lev)
<1>1. t \in Tree /\ Linked(t) /\ t.N \in Nat
  BY TreeFacts DEF Sound
<1>2. PICK level : Levels(t, level)
  BY DEF Sound
<1>3. /\ Nodes(u) = Nodes(t) \cup {c, p}
      /\ c \notin Nodes(t) /\ c # n /\ c # p /\ n # p /\ 0 \notin Nodes(u)
      /\ InRoot(t, u, n, c, p) => p \notin Nodes(t)
  BY SplitNodes
<1>4. InParent(t, u, n, c, p) \/ InRoot(t, u, n, c, p)
  BY DEF Splits
<1>a. InParent(t, u, n, c, p) =>
         \A j \in 1 .. Len(u.node[p].childs) :
            \/ u.node[p].childs[j] = c
            \/ \E i \in 1 .. Len(t.node[p].childs) : u.node[p].childs[j] = t.node[p].childs[i]
  BY SplitChilds
<1>5. /\ level \in [Nodes(t) -> Nat]
      /\ \A m \in Nodes(t) : t.node[m].is_leaf <=> level[m] = 0
      /\ \A m \in Nodes(t) : \A i \in 1 .. Len(t.node[m].childs) :
            level[t.node[m].childs[i]] + 1 = level[m]
      /\ \A m \in Nodes(t) : level[m] <= level[t.root]
  BY <1>2 DEF Levels
<1> DEFINE lev == [m \in Nodes(u) |-> IF m \in Nodes(t) THEN level[m]
                                      ELSE IF m = c THEN level[n] ELSE level[n] + 1]
<1>6. lev \in [Nodes(u) -> Nat]
  BY <1>5
<1>7. /\ \A m \in Nodes(t) : lev[m] = level[m] /\ level[m] \in Nat
      /\ lev[c] = level[n]
      /\ InRoot(t, u, n, c, p) => lev[p] = level[n] + 1
  BY <1>3, <1>5
<1>8. InParent(t, u, n, c, p) => p \in Nodes(t) /\ level[p] = level[n] + 1
  <2> SUFFICES ASSUME InParent(t, u, n, c, p) PROVE p \in Nodes(t) /\ level[p] = level[n] + 1
    OBVIOUS
  <2>1. p = t.node[n].parent /\ p \in Nodes(t)
    BY DEF InParent
  <2>2. t.node[n].parent # 0
    BY <2>1 DEF Nodes
  <2>3. PICK i \in 1 .. Len(t.node[p].childs) : t.node[p].childs[i] = n
    BY <2>1, <2>2, ParentFacts
  <2> QED
    BY <1>5, <2>1, <2>3
<1>9. lev[p] = level[n] + 1
  BY <1>4, <1>7, <1>8
<1> HIDE DEF lev
<1>10. ASSUME NEW m \in Nodes(u) PROVE u.node[m].is_leaf <=> lev[m] = 0
  <2>1. CASE m = n \/ m = c
    <3>1. u.node[m].is_leaf = t.node[n].is_leaf /\ lev[m] = level[n]
      BY <1>7, <2>1 DEF Splits, Shared
    <3> QED
      BY <1>5, <3>1
  <2>2. CASE m = p
    <3>1. ~u.node[p].is_leaf
      BY <1>4 DEF InParent, InRoot
    <3>2. level[n] + 1 # 0
      BY <1>7
    <3> QED
      BY <1>9, <2>2, <3>1, <3>2
  <2>3. CASE m # n /\ m # c /\ m # p
    <3>1. m \in Nodes(t) \ {n, p}
      BY <1>3, <2>3
    <3>2. u.node[m].is_leaf = t.node[m].is_leaf
      BY <3>1 DEF Splits, Kept
    <3> QED
      BY <1>5, <1>7, <3>1, <3>2
  <2> QED
    BY <2>1, <2>2, <2>3
<1>c. ASSUME NEW m \in Nodes(t), NEW i \in 1 .. Len(t.node[m].childs)
      PROVE  t.node[m].childs[i] \in Nodes(t) /\ lev[t.node[m].childs[i]] + 1 = level[m]
  <2>1. t.node[m].childs[i] \in Nodes(t)
    BY <1>1 DEF Linked
  <2> QED
    BY <1>5, <1>7, <2>1
<1>11. ASSUME NEW m \in Nodes(u), NEW i \in 1 .. Len(u.node[m].childs)
       PROVE  lev[u.node[m].childs[i]] + 1 = lev[m]
  <2>1. CASE m = n \/ m = c
    <3>1. i \in 1 .. ChildHalf(t, n)
      BY <2>1 DEF Splits, Shared
    <3>2. ~t.node[n].is_leaf /\ i \in 1 .. t.N
      BY <3>1 DEF ChildHalf
    <3>3. Len(t.node[n].childs) = 2 * t.N
      BY <3>2, FullFacts
    <3>4. i \in 1 .. Len(t.node[n].childs) /\ t.N + i \in 1 .. Len(t.node[n].childs)
      BY <1>1, <3>2, <3>3
    <3>5. u.node[m].childs[i] = t.node[n].childs[i] \/ u.node[m].childs[i] = t.node[n].childs[t.N + i]
      BY <2>1, <3>1 DEF Splits, Shared
    <3>6. lev[m] = level[n]
      BY <1>7, <2>1
    <3> QED
      BY <1>c, <3>4, <3>5, <3>6
  <2>2. CASE m = p /\ InParent(t, u, n, c, p)
    <3>1. CASE u.node[p].childs[i] = c
      BY <1>7, <1>9, <2>2, <3>1
    <3>2. CASE u.node[p].childs[i] # c
      <4>0. i \in 1 .. Len(u.node[p].childs)
        BY <2>2
      <4>1. PICK j \in 1 .. Len(t.node[p].childs) : u.node[p].childs[i] = t.node[p].childs[j]
        BY <1>a, <2>2, <3>2, <4>0
      <4> QED
        BY <1>8, <1>c, <1>9, <2>2, <4>1
    <3> QED
      BY <3>1, <3>2
  <2>3. CASE m = p /\ InRoot(t, u, n, c, p)
    <3>1. Len(u.node[p].childs) = 2 /\ u.node[p].childs[1] = n /\ u.node[p].childs[2] = c
      BY <2>3, SplitChilds
    <3>2. i = 1 \/ i = 2
      BY <2>3, <3>1
    <3> QED
      BY <1>7, <1>9, <2>3, <3>1, <3>2
  <2>4. CASE m # n /\ m # c /\ m # p
    <3>1. m \in Nodes(t) \ {n, p}
      BY <1>3, <2>4
    <3>2. u.node[m].childs = t.node[m].childs
      BY <3>1 DEF Splits, Kept
    <3> QED
      BY <1>7, <1>c, <3>1, <3>2
  <2> QED
    BY <1>4, <2>1, <2>2, <2>3, <2>4
<1>12. ASSUME NEW m \in Nodes(u) PROVE lev[m] <= lev[u.root]
  <2>1. CASE InParent(t, u, n, c, p)
    <3>1. u.root = t.root /\ t.root \in Nodes(t)
      BY <1>1, <2>1 DEF InParent, Linked
    <3>2. lev[m] = IF m = c THEN level[n] ELSE level[m]
      BY <1>3, <1>7, <1>8, <2>1
    <3>3. m # c => m \in Nodes(t)
      BY <1>3, <1>8, <2>1
    <3> QED
      BY <1>5, <1>7, <3>1, <3>2, <3>3
  <2>2. CASE InRoot(t, u, n, c, p)
    <3>1. u.root = p /\ n = t.root
      BY <2>2 DEF InRoot
    <3>2. level[n] \in Nat /\ lev[u.root] = level[n] + 1
      BY <1>7, <1>9, <3>1
    <3>3. CASE m \in Nodes(t)
      <4>1. lev[m] = level[m] /\ level[m] \in Nat /\ level[m] <= level[n]
        BY <1>5, <1>7, <3>1, <3>3
      <4> QED
        BY <3>2, <4>1
    <3>4. CASE m = c \/ m = p
      BY <1>7, <1>9, <3>2, <3>4
    <3> QED
      BY <1>3, <3>3, <3>4
  <2> QED
    BY <1>4, <2>1, <2>2
<1>13. Levels(u, lev)
  BY <1>6, <1>10, <1>11, <1>12 DEF Levels
<1> QED
  BY <1>13

LEMMA SplitSound ==
    ASSUME NEW t, NEW n \in Nodes(t), Sound(t, n), NEW u, NEW c, NEW p, Splits(t, u, n, c, p)
    PROVE  Sound(u, Next2split(u, p)) /\ p \in Nodes(u)
<1>1. u \in Tree
  BY DEF Splits
<1>2. p \in Nodes(u)
  BY SplitNodes
<1> QED
  BY <1>1, <1>2, SplitSized, SplitLinked, SplitLevels DEF Sound

-----------------------------------------------------------------------------
(* Storing a value keeps the tree sound, and the first tree is *)

Stores(t, u, n, kv) ==
    /\ u \in Tree /\ u.N = t.N /\ u.root = t.root /\ Nodes(u) = Nodes(t)
    /\ \A i \in Nodes(t) :
          /\ u.node[i].is_leaf = t.node[i].is_leaf
          /\ u.node[i].childs = t.node[i].childs
          /\ u.node[i].parent = t.node[i].parent
          /\ u.node[i].next = t.node[i].next
          /\ i # n => u.node[i].vals = t.node[i].vals
    /\ u.node[n].vals = insertValue(t.node[n].vals, kv)
    /\ Inserted(Value, t.node[n].vals, lower_bound(t.node[n].vals, kv.key), kv, u.node[n].vals)

LEMMA StoreFacts ==
    ASSUME NEW t \in Tree, NEW n \in Nodes(t), NEW kv \in Value
    PROVE  Stores(t, store(t, n, kv), n, kv)
<1> DEFINE u == store(t, n, kv)
           nd == t.node[n]
           v == insertValue(nd.vals, kv)
           new == [nd EXCEPT !.vals = v]
<1>1. t.node \in Seq(Node) /\ nd \in Node /\ nd.vals \in Seq(Value) /\ n \in 1 .. Len(t.node)
  BY TreeFacts, NodeFacts DEF Nodes
<1>2. Inserted(Value, nd.vals, lower_bound(nd.vals, kv.key), kv, v)
  BY <1>1, InsertValueFacts
<1>3. v \in Seq(Value)
  BY <1>2 DEF Inserted
<1>4. u = [t EXCEPT !.node = [@ EXCEPT ![n] = new]]
  BY DEF store
<1> HIDE DEF u, nd, v
<1>5. /\ new \in Node /\ new.vals = v /\ new.is_leaf = nd.is_leaf /\ new.childs = nd.childs
      /\ new.parent = nd.parent /\ new.next = nd.next
  BY <1>1, <1>3 DEF Node
<1> HIDE DEF new
<1>6. /\ u.N = t.N /\ u.root = t.root /\ u.node = [t.node EXCEPT ![n] = new]
      /\ u = [N |-> u.N, node |-> u.node, root |-> u.root]
  BY <1>4 DEF Tree
<1>7. u.node \in Seq(Node) /\ Len(u.node) = Len(t.node)
  BY <1>1, <1>5, <1>6
<1>8. u \in Tree
  BY <1>6, <1>7 DEF Tree
<1>9. u.node[n] = new /\ \A i \in Nodes(t) \ {n} : u.node[i] = t.node[i]
  BY <1>1, <1>6 DEF Nodes
<1>10. Stores(t, u, n, kv)
  <2>1. Nodes(u) = Nodes(t)
    BY <1>7 DEF Nodes
  <2>2. ASSUME NEW i \in Nodes(t)
        PROVE  /\ u.node[i].is_leaf = t.node[i].is_leaf
               /\ u.node[i].childs = t.node[i].childs
               /\ u.node[i].parent = t.node[i].parent
               /\ u.node[i].next = t.node[i].next
               /\ i # n => u.node[i].vals = t.node[i].vals
    <3>1. CASE i = n
      BY <1>5, <1>9, <3>1 DEF nd
    <3>2. CASE i # n
      BY <1>9, <3>2
    <3> QED
      BY <3>1, <3>2
  <2>3. u.node[n].vals = v
    BY <1>5, <1>9
  <2> QED
    BY <1>2, <1>6, <1>8, <2>1, <2>2, <2>3 DEF Stores, v, nd
<1> QED
  BY <1>10 DEF u

\* The node that is full with the value, if it is.
Leaf2split(t, n) == IF isFull(t, t.node[n]) THEN n ELSE 0

LEMMA StoreSound ==
    ASSUME NEW t, Sound(t, 0), NEW n \in Nodes(t), t.node[n].is_leaf, NEW kv \in Value,
           NEW u, Stores(t, u, n, kv)
    PROVE  Sound(u, Leaf2split(t, n))
<1> DEFINE s == Leaf2split(t, n)
<1>1. t \in Tree /\ Sized(t, 0) /\ Linked(t) /\ u \in Tree /\ u.N = t.N /\ u.root = t.root /\ Nodes(u) = Nodes(t)
  BY DEF Sound, Stores
<1>2. t.N \in Nat /\ t.N >= 2 /\ 0 \notin Nodes(t)
  BY <1>1, TreeFacts DEF Nodes
<1>3. PICK level : Levels(t, level)
  BY DEF Sound
<1>4. \A i \in Nodes(t) :
          /\ u.node[i].is_leaf = t.node[i].is_leaf
          /\ u.node[i].childs = t.node[i].childs
          /\ u.node[i].parent = t.node[i].parent
          /\ i # n => u.node[i].vals = t.node[i].vals
  BY DEF Stores
<1>5. Levels(u, level)
  BY <1>1, <1>3, <1>4 DEF Levels
<1>6. Linked(u)
  <2>1. /\ u.root \in Nodes(u)
        /\ \A m \in Nodes(u) : u.node[m].parent = 0 <=> m = u.root
    BY <1>1, <1>4 DEF Linked
  <2>2. ASSUME NEW m \in Nodes(u), NEW i \in 1 .. Len(u.node[m].childs)
        PROVE  u.node[m].childs[i] \in Nodes(u) /\ u.node[u.node[m].childs[i]].parent = m
    <3>1. m \in Nodes(t) /\ u.node[m].childs = t.node[m].childs
      BY <1>1, <1>4
    <3>2. t.node[m].childs[i] \in Nodes(t) /\ t.node[t.node[m].childs[i]].parent = m
      BY <1>1, <3>1 DEF Linked
    <3> QED
      BY <1>1, <1>4, <3>1, <3>2
  <2>3. \A m \in Nodes(u) : \A i, j \in 1 .. Len(u.node[m].childs) :
           u.node[m].childs[i] = u.node[m].childs[j] => i = j
    <3> TAKE m \in Nodes(u)
    <3>1. m \in Nodes(t) /\ u.node[m].childs = t.node[m].childs
      BY <1>1, <1>4
    <3> QED
      BY <1>1, <3>1 DEF Linked
  <2>4. ASSUME NEW m \in Nodes(u), m # u.root
        PROVE  /\ u.node[m].parent \in Nodes(u)
               /\ \E i \in 1 .. Len(u.node[u.node[m].parent].childs) :
                     u.node[u.node[m].parent].childs[i] = m
    <3>1. m \in Nodes(t) /\ m # t.root /\ u.node[m].parent = t.node[m].parent
      BY <1>1, <1>4, <2>4
    <3>2. t.node[m].parent \in Nodes(t)
          /\ \E i \in 1 .. Len(t.node[t.node[m].parent].childs) :
                t.node[t.node[m].parent].childs[i] = m
      BY <1>1, <3>1 DEF Linked
    <3>3. u.node[t.node[m].parent].childs = t.node[t.node[m].parent].childs
      BY <1>4, <3>2
    <3> QED
      BY <1>1, <3>1, <3>2, <3>3
  <2> QED
    BY <2>1, <2>2, <2>3, <2>4 DEF Linked
<1>7. Len(u.node[n].vals) = Len(t.node[n].vals) + 1
  BY DEF Stores, Inserted
<1>8. Len(t.node[n].vals) <= 2 * t.N - 1 /\ t.node[n].childs = <<>>
      /\ (n # t.root => Len(t.node[n].vals) + 1 >= t.N) /\ Len(t.node[n].vals) \in Nat
  <2>1. Len(t.node[n].vals) \in Nat
    BY <1>1, NodeFacts
  <2> QED
    BY <1>1, <1>2, <2>1 DEF Sized
<1>9. s = IF Len(t.node[n].vals) + 1 >= 2 * t.N THEN n ELSE 0
  BY DEF Leaf2split, isFull
<1> HIDE DEF s
<1>10. Sized(u, s)
  <2> SUFFICES ASSUME NEW i \in Nodes(u)
               PROVE  /\ u.node[i].is_leaf =>
                            /\ u.node[i].childs = <<>>
                            /\ IF i = s THEN Len(u.node[i].vals) = 2 * u.N
                               ELSE Len(u.node[i].vals) <= 2 * u.N - 1
                      /\ ~u.node[i].is_leaf =>
                            /\ Len(u.node[i].childs) = Len(u.node[i].vals) + 1
                            /\ Len(u.node[i].vals) >= 1
                            /\ IF i = s THEN Len(u.node[i].vals) = 2 * u.N - 1
                               ELSE Len(u.node[i].vals) <= 2 * u.N - 2
                      /\ i # u.root => Len(u.node[i].vals) + 1 >= u.N
    BY DEF Sized
  <2>1. CASE i = n
    <3>1. u.node[n].is_leaf /\ u.node[n].childs = <<>>
      BY <1>4, <1>8
    <3>2. IF n = s THEN Len(u.node[n].vals) = 2 * u.N ELSE Len(u.node[n].vals) <= 2 * u.N - 1
      <4>1. CASE Len(t.node[n].vals) + 1 >= 2 * t.N
        <5>1. Len(t.node[n].vals) + 1 = 2 * t.N
          BY <1>2, <1>8, <4>1
        <5> QED
          BY <1>1, <1>7, <1>9, <4>1, <5>1
      <4>2. CASE ~(Len(t.node[n].vals) + 1 >= 2 * t.N)
        <5>1. s = 0 /\ n # 0
          BY <1>2, <1>9, <4>2
        <5>2. Len(t.node[n].vals) + 1 <= 2 * t.N - 1
          BY <1>2, <1>8, <4>2
        <5> QED
          BY <1>1, <1>7, <5>1, <5>2
      <4> QED
        BY <4>1, <4>2
    <3>3. n # u.root => Len(u.node[n].vals) + 1 >= u.N
      BY <1>1, <1>2, <1>7, <1>8
    <3> QED
      BY <2>1, <3>1, <3>2, <3>3
  <2>2. CASE i # n
    <3>1. i # s /\ i # 0 /\ i \in Nodes(t)
      BY <1>1, <1>2, <1>9, <2>2
    <3>2. /\ u.node[i].is_leaf = t.node[i].is_leaf /\ u.node[i].childs = t.node[i].childs
          /\ u.node[i].vals = t.node[i].vals
      BY <1>4, <2>2, <3>1
    <3> QED
      BY <1>1, <3>1, <3>2 DEF Sized
  <2> QED
    BY <2>1, <2>2
<1> QED
  BY <1>1, <1>5, <1>6, <1>10 DEF Sound, s

\* The tree of init_cache: one empty leaf.
LEMMA InitFacts ==
    ASSUME NEW k \in Nat \ {0, 1}
    PROVE  /\ init_cache(k) \in Tree /\ Nodes(init_cache(k)) = {1}
           /\ init_cache(k).N = k /\ init_cache(k).root = 1
           /\ init_cache(k).node[1].is_leaf
           /\ init_cache(k).node[1].vals = <<>> /\ init_cache(k).node[1].childs = <<>>
           /\ init_cache(k).node[1].parent = 0 /\ init_cache(k).node[1].next = 0
<1> DEFINE nd == [NewNode EXCEPT !.is_leaf = TRUE]
<1>1. init_cache(k) = [N |-> k, node |-> <<nd>>, root |-> 1]
  BY DEF init_cache
<1>0. NewNode \in Node /\ NewNode.vals = <<>> /\ NewNode.childs = <<>> /\ NewNode.parent = 0 /\ NewNode.next = 0
  BY DEF Node, NewNode
<1>2. nd \in Node
  BY <1>0 DEF Node
<1>5. nd.is_leaf /\ nd.vals = <<>> /\ nd.childs = <<>> /\ nd.parent = 0 /\ nd.next = 0
  BY <1>0 DEF Node
<1> HIDE DEF nd
<1>3. <<nd>> \in Seq(Node) /\ Len(<<nd>>) = 1 /\ <<nd>>[1] = nd
  BY <1>2
<1>4. init_cache(k) \in Tree /\ Nodes(init_cache(k)) = {1}
  BY <1>1, <1>3 DEF Tree, Nodes
<1>6. init_cache(k).N = k /\ init_cache(k).root = 1 /\ init_cache(k).node[1] = nd
  BY <1>1, <1>3
<1> QED
  BY <1>4, <1>5, <1>6

LEMMA InitSound ==
    ASSUME NEW k \in Nat \ {0, 1}
    PROVE  Sound(init_cache(k), 0)
<1> DEFINE t == init_cache(k)
<1>1. /\ t \in Tree /\ Nodes(t) = {1} /\ t.N = k /\ t.root = 1
      /\ t.node[1].is_leaf /\ t.node[1].vals = <<>> /\ t.node[1].childs = <<>>
      /\ t.node[1].parent = 0 /\ t.node[1].next = 0
  BY InitFacts
<1> HIDE DEF t
<1>2. Sized(t, 0)
  BY <1>1 DEF Sized
<1>3. Linked(t)
  BY <1>1 DEF Linked
<1>4. Levels(t, [n \in Nodes(t) |-> 0])
  BY <1>1 DEF Levels
<1> QED
  BY <1>1, <1>2, <1>3, <1>4 DEF Sound, t

-----------------------------------------------------------------------------
(* The split of the root that ends before there is a new one *)

\* t is u without its root, whose childs n and c have no parent then; n is the
\* root still.
Cut(t, u, n, c) ==
    /\ t \in Tree /\ t.N = u.N /\ t.root = n
    /\ n \in Nodes(t) /\ c \in Nodes(t) /\ n # c /\ c = Len(t.node)
    /\ Len(u.node) = c + 1 /\ u.root = c + 1 /\ ~u.node[c + 1].is_leaf
    /\ u.node[c + 1].childs = <<n, c>> /\ Len(u.node[c + 1].vals) = 1
    /\ \A i \in Nodes(t) :
          /\ t.node[i].is_leaf = u.node[i].is_leaf
          /\ t.node[i].vals = u.node[i].vals
          /\ t.node[i].childs = u.node[i].childs
          /\ t.node[i].next = u.node[i].next
          /\ t.node[i].parent = IF i \in {n, c} THEN 0 ELSE u.node[i].parent

LEMMA HalveCuts ==
    ASSUME NEW t, NEW n \in Nodes(t), Sound(t, n), t.node[n].parent = 0
    PROVE  LET u == split(t, n)
               c == Len(t.node) + 1
               p == node2insert(t, n)
           IN  Splits(t, u, n, c, p) /\ Cut(halve(t, n), u, n, c)
<1> DEFINE u == split(t, n)
           c == Len(t.node) + 1
           p == node2insert(t, n)
           h == halve(t, n)
           half == [i \in 1 .. c |-> IF i \in {n, c} THEN [u.node[i] EXCEPT !.parent = 0] ELSE u.node[i]]
<1>1. Splits(t, u, n, c, p)
  BY SplitFacts
<1>2. h.N = t.N /\ h.node = half /\ h.root = n
  <2>1. Linked(t)
    BY DEF Sound
  <2>2. n = t.root
    BY <2>1 DEF Linked
  <2> QED
    BY <2>2 DEF halve
<1> HIDE DEF u, p, h
<1>3. /\ t \in Tree /\ u \in Tree /\ u.N = t.N
      /\ Len(t.node) \in Nat /\ c \in Nat /\ n \in 1 .. c /\ n # c /\ c \in 1 .. c
  <2>1. t \in Tree /\ u \in Tree /\ u.N = t.N
    BY <1>1 DEF Sound, Splits
  <2>2. Len(t.node) \in Nat
    BY <2>1, TreeFacts
  <2> QED
    BY <2>1, <2>2 DEF Nodes
<1>4. InRoot(t, u, n, c, p)
  <2>1. ~InParent(t, u, n, c, p)
    BY DEF InParent, Nodes
  <2> QED
    BY <1>1, <2>1 DEF Splits
<1>5. /\ p = c + 1 /\ Len(u.node) = c + 1 /\ u.root = c + 1 /\ ~u.node[c + 1].is_leaf
      /\ u.node[c + 1].childs = <<n, c>> /\ Len(u.node[c + 1].vals) = 1
  BY <1>4 DEF InRoot
<1>6. \A i \in 1 .. c : u.node[i] \in Node
  <2> TAKE i \in 1 .. c
  <2>1. i \in Nodes(u)
    BY <1>3, <1>5 DEF Nodes
  <2> QED
    BY <1>3, <2>1, NodeFacts
<1>7. \A i \in 1 .. c :
         /\ half[i] \in Node
         /\ half[i].is_leaf = u.node[i].is_leaf
         /\ half[i].vals = u.node[i].vals
         /\ half[i].childs = u.node[i].childs
         /\ half[i].next = u.node[i].next
         /\ half[i].parent = IF i \in {n, c} THEN 0 ELSE u.node[i].parent
  <2> TAKE i \in 1 .. c
  <2>1. u.node[i] \in Node
    BY <1>6
  <2>2. CASE i \in {n, c}
    BY <2>1, <2>2 DEF Node
  <2>3. CASE i \notin {n, c}
    BY <2>1, <2>3
  <2> QED
    BY <2>2, <2>3
<1>8. half \in Seq(Node) /\ Len(half) = c
  <2>1. half \in [1 .. c -> Node]
    BY <1>7
  <2> QED
    BY <1>3, <2>1
<1>9. h \in Tree
  <2>1. h = [N |-> t.N, node |-> half, root |-> n]
    BY <1>2 DEF h, halve
  <2>2. t.N \in Nat \ {0, 1} /\ n \in Nat
    BY <1>3 DEF Tree
  <2> HIDE DEF half
  <2> QED
    BY <1>8, <2>1, <2>2 DEF Tree
<1>10. Nodes(h) = 1 .. c /\ Len(h.node) = c
  BY <1>2, <1>8 DEF Nodes
<1> HIDE DEF half, c
<1>11. Cut(h, u, n, c)
  BY <1>2, <1>3, <1>5, <1>7, <1>9, <1>10 DEF Cut
<1> QED
  BY <1>1, <1>11 DEF u, c, p, h

LEMMA CutNodes ==
    ASSUME NEW t, NEW u, NEW n, NEW c, Cut(t, u, n, c), u \in Tree
    PROVE  /\ Nodes(u) = Nodes(t) \cup {c + 1} /\ c + 1 \notin Nodes(t)
           /\ c \in Nat /\ Nodes(t) = 1 .. c
<1>1. Len(t.node) = c /\ Len(t.node) \in Nat
  BY TreeFacts DEF Cut
<1>2. Nodes(t) = 1 .. c /\ Nodes(u) = 1 .. c + 1
  BY <1>1 DEF Cut, Nodes
<1> QED
  BY <1>1, <1>2

\* Both halves keep their shape.
LEMMA CutShaped ==
    ASSUME NEW t, NEW u, NEW n, NEW c, Cut(t, u, n, c), NEW s, Sound(u, s)
    PROVE  /\ Shaped(t, s)
           /\ \A i \in Nodes(t) : t.node[i].parent = 0 <=> i \in {n, c}
           /\ t.root = n /\ c = Len(t.node)
<1>1. u \in Tree /\ Sized(u, s) /\ Linked(u) /\ t \in Tree
  BY DEF Sound, Cut
<1>2. PICK level : Levels(u, level)
  BY DEF Sound
<1>3. Nodes(u) = Nodes(t) \cup {c + 1} /\ c + 1 \notin Nodes(t) /\ n \in Nodes(t) /\ c \in Nodes(t)
  <2>1. n \in Nodes(t) /\ c \in Nodes(t)
    BY DEF Cut
  <2> QED
    BY <1>1, <2>1, CutNodes
<1>4. \A i \in Nodes(t) :
         /\ t.node[i].is_leaf = u.node[i].is_leaf
         /\ t.node[i].vals = u.node[i].vals
         /\ t.node[i].childs = u.node[i].childs
         /\ t.node[i].parent = IF i \in {n, c} THEN 0 ELSE u.node[i].parent
  BY DEF Cut
<1>5. t.N = u.N /\ u.root = c + 1 /\ t.root = n /\ u.node[c + 1].childs = <<n, c>>
  BY DEF Cut
<1>6. Sized(t, s)
  <2> SUFFICES ASSUME NEW i \in Nodes(t)
               PROVE  /\ t.node[i].is_leaf =>
                            /\ t.node[i].childs = <<>>
                            /\ IF i = s THEN Len(t.node[i].vals) = 2 * t.N
                               ELSE Len(t.node[i].vals) <= 2 * t.N - 1
                      /\ ~t.node[i].is_leaf =>
                            /\ Len(t.node[i].childs) = Len(t.node[i].vals) + 1
                            /\ Len(t.node[i].vals) >= 1
                            /\ IF i = s THEN Len(t.node[i].vals) = 2 * t.N - 1
                               ELSE Len(t.node[i].vals) <= 2 * t.N - 2
                      /\ i # t.root => Len(t.node[i].vals) + 1 >= t.N
    BY DEF Sized
  <2>1. i \in Nodes(u) /\ i # u.root
    BY <1>3, <1>5
  <2>2. t.node[i].is_leaf = u.node[i].is_leaf /\ t.node[i].vals = u.node[i].vals
        /\ t.node[i].childs = u.node[i].childs
    BY <1>4
  <2> QED
    BY <1>1, <1>5, <2>1, <2>2 DEF Sized
<1>7. ASSUME NEW i \in Nodes(t), NEW j \in 1 .. Len(t.node[i].childs)
      PROVE  /\ t.node[i].childs[j] \in Nodes(t) /\ t.node[t.node[i].childs[j]].parent = i
             /\ t.node[i].childs[j] \notin {n, c}
  <2> DEFINE d == u.node[i].childs[j]
  <2>1. i \in Nodes(u) /\ j \in 1 .. Len(u.node[i].childs) /\ t.node[i].childs[j] = d
    BY <1>3, <1>4
  <2>2. d \in Nodes(u) /\ u.node[d].parent = i
    BY <1>1, <2>1 DEF Linked
  <2>3. d \notin {n, c}
    <3>1. c + 1 \in Nodes(u) /\ 1 \in 1 .. Len(u.node[c + 1].childs) /\ 2 \in 1 .. Len(u.node[c + 1].childs)
          /\ u.node[c + 1].childs[1] = n /\ u.node[c + 1].childs[2] = c
      BY <1>3, <1>5
    <3>2. u.node[n].parent = c + 1 /\ u.node[c].parent = c + 1
      BY <1>1, <3>1 DEF Linked
    <3> QED
      BY <1>3, <2>2, <3>2
  <2>4. d # c + 1
    <3>1. 0 \notin Nodes(t) /\ (u.node[c + 1].parent = 0 <=> c + 1 = u.root)
      BY <1>1, <1>3 DEF Linked, Nodes
    <3> QED
      BY <1>5, <2>2, <3>1
  <2>5. d \in Nodes(t)
    BY <1>3, <2>2, <2>4
  <2> HIDE DEF d
  <2> QED
    BY <1>4, <2>1, <2>2, <2>3, <2>5
<1>8. Joined(t)
  BY <1>3, <1>5, <1>7 DEF Joined
<1>9. Levels(t, [i \in Nodes(t) |-> level[i]])
  <2>1. /\ level \in [Nodes(u) -> Nat]
        /\ \A i \in Nodes(u) : u.node[i].is_leaf <=> level[i] = 0
        /\ \A i \in Nodes(u) : \A j \in 1 .. Len(u.node[i].childs) :
              level[u.node[i].childs[j]] + 1 = level[i]
        /\ \A i \in Nodes(u) : level[i] <= level[c + 1]
    BY <1>2, <1>5 DEF Levels
  <2> DEFINE low == [i \in Nodes(t) |-> level[i]]
  <2>2. low \in [Nodes(t) -> Nat]
    BY <1>3, <2>1
  <2>3. \A i \in Nodes(t) : t.node[i].is_leaf <=> low[i] = 0
    BY <1>3, <1>4, <2>1
  <2>4. \A i \in Nodes(t) : \A j \in 1 .. Len(t.node[i].childs) : low[t.node[i].childs[j]] + 1 = low[i]
    <3> TAKE i \in Nodes(t)
    <3> TAKE j \in 1 .. Len(t.node[i].childs)
    <3>1. t.node[i].childs[j] \in Nodes(t)
      BY <1>7
    <3>2. level[t.node[i].childs[j]] + 1 = level[i]
      <4>1. i \in Nodes(u) /\ t.node[i].childs = u.node[i].childs
        BY <1>3, <1>4
      <4> QED
        BY <2>1, <4>1
    <3> QED
      BY <3>1, <3>2
  <2>5. \A i \in Nodes(t) : low[i] <= low[t.root]
    <3> TAKE i \in Nodes(t)
    <3>1. level[i] <= level[n]
      <4>1. i \in Nodes(u) /\ i # u.root
        BY <1>3, <1>5
      <4>2. /\ u.node[i].parent \in Nodes(u)
            /\ \E j \in 1 .. Len(u.node[u.node[i].parent].childs) :
                  u.node[u.node[i].parent].childs[j] = i
        BY <1>1, <4>1 DEF Linked
      <4>3. level[i] + 1 = level[u.node[i].parent] /\ level[u.node[i].parent] <= level[c + 1]
        BY <2>1, <4>2
      <4>4. 1 \in 1 .. Len(u.node[c + 1].childs) /\ u.node[c + 1].childs[1] = n /\ c + 1 \in Nodes(u)
        BY <1>3, <1>5
      <4>5. level[n] + 1 = level[c + 1]
        BY <2>1, <4>4
      <4>6. level[i] \in Nat /\ level[n] \in Nat
        BY <1>3, <2>1
      <4> QED
        BY <4>3, <4>5, <4>6
    <3> QED
      BY <1>3, <1>5, <3>1
  <2> HIDE DEF low
  <2>6. Levels(t, low)
    BY <2>2, <2>3, <2>4, <2>5 DEF Levels
  <2> QED
    BY <2>6 DEF low
<1>10. Shaped(t, s)
  BY <1>1, <1>6, <1>8, <1>9 DEF Shaped
<1>11. \A i \in Nodes(t) : t.node[i].parent = 0 <=> i \in {n, c}
  <2> TAKE i \in Nodes(t)
  <2>1. u.node[i].parent # 0
    BY <1>1, <1>3, <1>5 DEF Linked
  <2> QED
    BY <1>4, <2>1
<1> QED
  BY <1>5, <1>10, <1>11 DEF Cut

-----------------------------------------------------------------------------
(* The steps of the specification, in these terms *)

\* Before and after each call of split_node that comes to its end the tree is
\* sound, with the node split_node is called for one value over.
Steady ==
    /\ work \in Workloads
    /\ status \in {"ok", "split", "assert", "threw"}
    /\ status \in {"ok", "assert"} => splitting = 0
    /\ status \in {"split", "threw"} => splitting \in Nodes(tree)
    /\ Sound(tree, splitting)
    /\ given \in SUBSET Value /\ IsFiniteSet(given)

\* insert() stores the value kv in the leaf n.
Inserts(n, kv) ==
    /\ status = "ok" /\ splitting = 0
    /\ kv \in Value /\ kv.copy = Copies(kv.key) + 1
    /\ n = iner_find(tree, tree.root, kv.key).node
    /\ n \in Nodes(tree) /\ tree.node[n].is_leaf
    /\ Stores(tree, tree', n, kv)
    /\ given' = given \cup {kv}
    /\ splitting' = Leaf2split(tree, n)
    /\ status' = IF splitting' = 0 THEN "ok" ELSE "split"
    /\ work' = work

\* split_node moves the upper half to c and the middle value to p.
SplitsTo(c, p) ==
    /\ status = "split" /\ splitting \in Nodes(tree)
    /\ Splits(tree, tree', splitting, c, p)
    /\ splitting' = Next2split(tree', p)
    /\ status' = IF splitting' = 0 THEN "ok" ELSE "split"
    /\ given' = given /\ work' = work

\* make_node throws in the middle: the tree is cut off below the new root.
TearsTo(c, p) ==
    /\ status = "split" /\ splitting \in Nodes(tree)
    /\ status' = "torn"
    /\ \E u : Splits(tree, u, splitting, c, p) /\ Cut(tree', u, splitting, c)
    /\ given' = given /\ work' = work

\* The assertion fails or make_node throws before.
Stops ==
    /\ \/ status = "ok" /\ status' = "assert"
       \/ status = "split" /\ status' = "threw"
    /\ tree' = tree /\ given' = given /\ splitting' = splitting /\ work' = work

LEMMA CopiesFacts ==
    ASSUME Steady, NEW key \in Nat
    PROVE  Copies(key) \in Nat /\ [key |-> key, copy |-> Copies(key) + 1] \in Value
<1>1. IsFiniteSet({v \in given : v.key = key})
  BY FS_Subset DEF Steady
<1>2. Copies(key) \in Nat
  BY <1>1, FS_CardinalityType DEF Copies
<1> QED
  BY <1>2 DEF Value

LEMMA InsertSteps ==
    ASSUME Steady, NEW key \in work.keys, Insert(key)
    PROVE  Stops \/ \E n, kv : Inserts(n, kv)
<1> DEFINE kv == [key |-> key, copy |-> Copies(key) + 1]
           n == iner_find(tree, tree.root, key).node
<1>1. key \in Nat
  BY WorkloadsAssumption DEF Steady
<1>2. kv \in Value /\ kv.key = key /\ kv.copy = Copies(key) + 1
  BY <1>1, CopiesFacts
<1>3. status = "ok" /\ splitting = 0 /\ Sound(tree, 0)
  BY DEF Insert, Steady
<1>4. n = 0 \/ (n \in Nodes(tree) /\ tree.node[n].is_leaf)
  BY <1>1, <1>3, FindNodeFacts, SoundShaped
<1>5. /\ \/ n = 0 /\ status' = "assert" /\ UNCHANGED <<tree, given, splitting>>
         \/ /\ n # 0
            /\ tree' = store(tree, n, kv)
            /\ given' = given \cup {kv}
            /\ IF isFull(tree, tree.node[n])
               THEN status' = "split" /\ splitting' = n
               ELSE UNCHANGED <<status, splitting>>
      /\ work' = work
  BY DEF Insert
<1> HIDE DEF n, kv
<1>6. CASE n = 0
  BY <1>3, <1>5, <1>6 DEF Stops
<1>7. CASE n # 0
  <2>1. tree \in Tree /\ n \in Nodes(tree)
    BY <1>3, <1>4, <1>7 DEF Sound
  <2>2. Stores(tree, tree', n, kv)
    <3>1. Stores(tree, store(tree, n, kv), n, kv)
      BY <1>2, <2>1, StoreFacts
    <3> QED
      BY <1>5, <1>7, <3>1
  <2>3. splitting' = Leaf2split(tree, n) /\ status' = IF splitting' = 0 THEN "ok" ELSE "split"
    BY <1>3, <1>5, <1>7 DEF Leaf2split
  <2>4. n = iner_find(tree, tree.root, kv.key).node
    BY <1>2 DEF n
  <2>5. Inserts(n, kv)
    BY <1>2, <1>3, <1>4, <1>5, <1>7, <2>2, <2>3, <2>4 DEF Inserts
  <2> QED
    BY <2>5
<1> QED
  BY <1>6, <1>7

LEMMA SplitSteps ==
    ASSUME Steady, Split
    PROVE  Stops \/ (\E c, p : SplitsTo(c, p)) \/ \E c, p : TearsTo(c, p)
<1> DEFINE u == split(tree, splitting)
           c == Len(tree.node) + 1
           p == node2insert(tree, splitting)
<1>1. status = "split" /\ splitting \in Nodes(tree) /\ Sound(tree, splitting)
  BY DEF Split, Steady
<1>2. Splits(tree, u, splitting, c, p)
  BY <1>1, SplitFacts
<1>3. /\ \/ status' = "threw" /\ UNCHANGED <<tree, splitting>>
         \/ /\ tree.node[splitting].parent = 0
            /\ status' = "torn" /\ tree' = halve(tree, splitting)
         \/ /\ tree' = u
            /\ IF isFull(u, u.node[p])
               THEN splitting' = p /\ UNCHANGED status
               ELSE splitting' = 0 /\ status' = "ok"
      /\ UNCHANGED <<work, given>>
  BY DEF Split
<1>4. ASSUME tree.node[splitting].parent = 0, tree' = halve(tree, splitting)
      PROVE  Cut(tree', u, splitting, c)
  BY <1>1, <1>4, HalveCuts
<1> HIDE DEF u, c, p
<1>5. p # 0
  BY <1>1, <1>2, SplitNodes
<1>6. CASE status' = "threw" /\ UNCHANGED <<tree, splitting>>
  BY <1>1, <1>3, <1>6 DEF Stops
<1>7. CASE /\ tree.node[splitting].parent = 0
           /\ status' = "torn" /\ tree' = halve(tree, splitting)
  <2>1. TearsTo(c, p)
    BY <1>1, <1>2, <1>3, <1>4, <1>7 DEF TearsTo
  <2> QED
    BY <2>1
<1>8. CASE /\ tree' = u
           /\ IF isFull(u, u.node[p])
              THEN splitting' = p /\ UNCHANGED status
              ELSE splitting' = 0 /\ status' = "ok"
  <2>1. splitting' = Next2split(tree', p) /\ status' = IF splitting' = 0 THEN "ok" ELSE "split"
    BY <1>1, <1>5, <1>8 DEF Next2split
  <2>2. SplitsTo(c, p)
    BY <1>1, <1>2, <1>3, <1>8, <2>1 DEF SplitsTo
  <2> QED
    BY <2>2
<1> QED
  BY <1>3, <1>6, <1>7, <1>8

LEMMA Steps ==
    ASSUME Steady, Next
    PROVE  \/ Stops
           \/ \E n, kv : Inserts(n, kv)
           \/ \E c, p : SplitsTo(c, p)
           \/ \E c, p : TearsTo(c, p)
  BY InsertSteps, SplitSteps DEF Next

LEMMA SteadyInit == Init => Steady
<1> SUFFICES ASSUME Init PROVE Steady
  OBVIOUS
<1>1. work.N \in Nat \ {0, 1}
  BY WorkloadsAssumption DEF Init
<1>2. Sound(tree, splitting)
  BY <1>1, InitSound DEF Init
<1> QED
  BY <1>2, FS_EmptySet DEF Init, Steady

LEMMA SteadyNext == Steady /\ [Next]_vars => Steady' \/ \E c, p : TearsTo(c, p)
<1> SUFFICES ASSUME Steady, [Next]_vars, ~(\E c, p : TearsTo(c, p)) PROVE Steady'
  OBVIOUS
<1>1. CASE UNCHANGED vars
  BY <1>1 DEF vars, Steady
<1>2. CASE Stops
  BY <1>2 DEF Stops, Steady
<1>3. ASSUME NEW n, NEW kv, Inserts(n, kv) PROVE Steady'
  <2>1. Sound(tree, 0) /\ n \in Nodes(tree) /\ tree.node[n].is_leaf /\ kv \in Value
        /\ Stores(tree, tree', n, kv)
    BY <1>3 DEF Inserts, Steady
  <2>2. Sound(tree', splitting')
    <3>1. Sound(tree', Leaf2split(tree, n))
      BY <2>1, StoreSound
    <3> QED
      BY <1>3, <3>1 DEF Inserts
  <2>3. splitting' = 0 \/ splitting' \in Nodes(tree')
    BY <1>3, <2>1 DEF Inserts, Leaf2split, Stores
  <2>4. IsFiniteSet(given') /\ given' \in SUBSET Value
    BY <1>3, FS_AddElement DEF Inserts, Steady
  <2> QED
    BY <1>3, <2>2, <2>3, <2>4 DEF Inserts, Steady
<1>4. ASSUME NEW c, NEW p, SplitsTo(c, p) PROVE Steady'
  <2>1. splitting \in Nodes(tree) /\ Sound(tree, splitting) /\ Splits(tree, tree', splitting, c, p)
    BY <1>4 DEF SplitsTo, Steady
  <2>2. Sound(tree', Next2split(tree', p)) /\ p \in Nodes(tree')
    BY <2>1, SplitSound
  <2>3. Sound(tree', splitting') /\ (splitting' = 0 \/ splitting' \in Nodes(tree'))
    BY <1>4, <2>2 DEF SplitsTo, Next2split
  <2> QED
    BY <1>4, <2>3 DEF SplitsTo, Steady
<1> QED
  BY <1>1, <1>2, <1>3, <1>4, Steps

-----------------------------------------------------------------------------
(* Heights and sizes *)

\* Height is the level of a node.
LEMMA HeightIs ==
    ASSUME NEW s, Shaped(tree, s), NEW level, Levels(tree, level)
    PROVE  \A n \in Nodes(tree) : Height[n] = level[n]
<1>1. tree \in Tree /\ Sized(tree, s) /\ Joined(tree) /\ DOMAIN tree.node = Nodes(tree)
  BY TreeFacts DEF Shaped
<1>2. /\ level \in [Nodes(tree) -> Nat]
      /\ \A n \in Nodes(tree) : tree.node[n].is_leaf <=> level[n] = 0
      /\ \A n \in Nodes(tree) : \A i \in 1 .. Len(tree.node[n].childs) :
            level[tree.node[n].childs[i]] + 1 = level[n]
  BY DEF Levels
<1>3. ASSUME NEW n \in Nodes(tree), ~tree.node[n].is_leaf
      PROVE  /\ tree.node[n].childs[1] \in Nodes(tree)
             /\ level[tree.node[n].childs[1]] \in Nat
             /\ level[n] = 1 + level[tree.node[n].childs[1]]
  <2>1. Len(tree.node[n].childs) = Len(tree.node[n].vals) + 1 /\ Len(tree.node[n].vals) >= 1
    BY <1>1, <1>3 DEF Sized
  <2>2. Len(tree.node[n].vals) \in Nat
    BY <1>1, NodeFacts
  <2>3. 1 \in 1 .. Len(tree.node[n].childs)
    BY <2>1, <2>2
  <2>4. tree.node[n].childs[1] \in Nodes(tree)
    BY <1>1, <2>3 DEF Joined
  <2> QED
    BY <1>2, <2>3, <2>4
<1> DEFINE Rhs(f) == [n \in Nodes(tree) |->
                         IF tree.node[n].is_leaf THEN 0 ELSE 1 + f[tree.node[n].childs[1]]]
<1>4. level = Rhs(level)
  BY <1>2, <1>3
<1>5. Height = CHOOSE f : f = Rhs(f)
  BY <1>1 DEF Height
<1>6. Height = Rhs(Height)
  <2> HIDE DEF Rhs
  <2> QED
    BY <1>4, <1>5
<1>7. \A n \in Nodes(tree) :
         Height[n] = IF tree.node[n].is_leaf THEN 0 ELSE 1 + Height[tree.node[n].childs[1]]
  BY <1>6
<1> DEFINE T == {level[n] : n \in {m \in Nodes(tree) : Height[m] # level[m]}}
<1>8. SUFFICES ASSUME NEW m \in Nodes(tree), Height[m] # level[m] PROVE FALSE
  OBVIOUS
<1>9. T \in SUBSET Nat /\ T # {}
  BY <1>2, <1>8
<1>10. PICK x \in T : \A y \in T : x <= y
  BY <1>9, LeastExists
<1>11. PICK n \in Nodes(tree) : Height[n] # level[n] /\ x = level[n]
  BY <1>10
<1>12. CASE tree.node[n].is_leaf
  BY <1>2, <1>7, <1>11, <1>12
<1>13. CASE ~tree.node[n].is_leaf
  <2> DEFINE d == tree.node[n].childs[1]
  <2>1. d \in Nodes(tree) /\ level[d] \in Nat /\ level[n] = 1 + level[d] /\ Height[n] = 1 + Height[d]
    BY <1>3, <1>7, <1>13
  <2> HIDE DEF d
  <2>2. Height[d] # level[d]
    BY <1>11, <2>1
  <2>3. level[d] \in T
    BY <2>1, <2>2
  <2>4. level[n] <= level[d]
    BY <1>10, <1>11, <2>3
  <2> QED
    BY <2>1, <2>4
<1> QED
  BY <1>12, <1>13

\* The part of Balanced that does not ask who has no parent.
LEMMA ShapedBalanced ==
    ASSUME NEW s, Shaped(tree, s), status = "ok" => s = 0, NEW n \in Nodes(tree)
    PROVE  /\ Len(tree.node[n].vals) <= 2 * tree.N /\ Len(tree.node[n].childs) <= 2 * tree.N
           /\ status = "ok" => Len(tree.node[n].vals) < 2 * tree.N
           /\ n # tree.root => Len(tree.node[n].vals) + 1 >= tree.N
           /\ ~tree.node[n].is_leaf => Len(tree.node[n].childs) = Len(tree.node[n].vals) + 1
           /\ \A i \in DOMAIN tree.node[n].childs :
                 /\ tree.node[tree.node[n].childs[i]].parent = n
                 /\ Height[tree.node[n].childs[i]] + 1 = Height[n]
<1>1. tree \in Tree /\ Sized(tree, s) /\ Joined(tree)
  BY DEF Shaped
<1>2. PICK level : Levels(tree, level)
  BY DEF Shaped
<1>3. /\ tree.N \in Nat /\ tree.N >= 2 /\ 0 \notin Nodes(tree)
      /\ Len(tree.node[n].vals) \in Nat /\ tree.node[n].childs \in Seq(Nat)
      /\ DOMAIN tree.node[n].childs = 1 .. Len(tree.node[n].childs)
  <2>1. tree.N \in Nat /\ tree.N >= 2 /\ tree.node[n].vals \in Seq(Value) /\ tree.node[n].childs \in Seq(Nat)
    BY <1>1, TreeFacts, NodeFacts
  <2> QED
    BY <2>1 DEF Nodes
<1>4. status = "ok" => n # s
  BY <1>3
<1>5. CASE tree.node[n].is_leaf
  <2>1. /\ tree.node[n].childs = <<>>
        /\ IF n = s THEN Len(tree.node[n].vals) = 2 * tree.N
           ELSE Len(tree.node[n].vals) <= 2 * tree.N - 1
        /\ n # tree.root => Len(tree.node[n].vals) + 1 >= tree.N
    BY <1>1, <1>5 DEF Sized
  <2>2. Len(tree.node[n].childs) = 0
    BY <2>1
  <2>3. Len(tree.node[n].vals) <= 2 * tree.N /\ (status = "ok" => Len(tree.node[n].vals) < 2 * tree.N)
    BY <1>3, <1>4, <2>1
  <2> QED
    BY <1>3, <1>5, <2>1, <2>2, <2>3
<1>6. CASE ~tree.node[n].is_leaf
  <2>1. /\ Len(tree.node[n].childs) = Len(tree.node[n].vals) + 1
        /\ IF n = s THEN Len(tree.node[n].vals) = 2 * tree.N - 1
           ELSE Len(tree.node[n].vals) <= 2 * tree.N - 2
        /\ n # tree.root => Len(tree.node[n].vals) + 1 >= tree.N
    BY <1>1, <1>6 DEF Sized
  <2>2. /\ Len(tree.node[n].vals) <= 2 * tree.N /\ Len(tree.node[n].childs) <= 2 * tree.N
        /\ Len(tree.node[n].vals) < 2 * tree.N
    <3>1. Len(tree.node[n].vals) = 2 * tree.N - 1 \/ Len(tree.node[n].vals) <= 2 * tree.N - 2
      BY <2>1
    <3>2. Len(tree.node[n].childs) = Len(tree.node[n].vals) + 1
      BY <2>1
    <3> QED
      BY <1>3, <3>1, <3>2, FullInterior
  <2>3. ASSUME NEW i \in 1 .. Len(tree.node[n].childs)
        PROVE  /\ tree.node[tree.node[n].childs[i]].parent = n
               /\ Height[tree.node[n].childs[i]] + 1 = Height[n]
    <3>1. tree.node[n].childs[i] \in Nodes(tree) /\ tree.node[tree.node[n].childs[i]].parent = n
      BY <1>1 DEF Joined
    <3>2. level[tree.node[n].childs[i]] + 1 = level[n]
      BY <1>2 DEF Levels
    <3>3. Height[tree.node[n].childs[i]] = level[tree.node[n].childs[i]] /\ Height[n] = level[n]
      BY <1>1, <1>2, <3>1, HeightIs
    <3> QED
      BY <3>1, <3>2, <3>3
  <2> QED
    BY <1>3, <1>6, <2>1, <2>2, <2>3
<1> QED
  BY <1>5, <1>6

-----------------------------------------------------------------------------
(* Every value inserted is in one place of one leaf *)

\* The value v is the i-th of the leaf n.
Holds(t, n, i, v) ==
    /\ n \in Nodes(t) /\ t.node[n].is_leaf
    /\ i \in 1 .. Len(t.node[n].vals) /\ t.node[n].vals[i] = v

Stored(t, g) ==
    /\ \A v : v \in g <=> \E n, i : Holds(t, n, i, v)
    /\ \A v, n, i, m, j : Holds(t, n, i, v) /\ Holds(t, m, j, v) => n = m /\ i = j

SortedNodes(t) == \A n \in Nodes(t) : Ascending(t.node[n].vals)

\* The copies of a key are numbered.
CopiesOf(g, key) == Cardinality({v \in g : v.key = key})
Numbered(g) == \A v \in g : v.copy \in 1 .. CopiesOf(g, v.key)

\* So the next one is new.
LEMMA NumberedNext ==
    ASSUME NEW g \in SUBSET Value, IsFiniteSet(g), Numbered(g),
           NEW kv \in Value, kv.copy = CopiesOf(g, kv.key) + 1
    PROVE  kv \notin g /\ Numbered(g \cup {kv})
<1> DEFINE h == g \cup {kv}
           Under(f, k) == {v \in f : v.key = k}
<1>1. \A k : IsFiniteSet(Under(g, k)) /\ CopiesOf(g, k) \in Nat
  <2> TAKE k
  <2>1. IsFiniteSet(Under(g, k))
    BY FS_Subset
  <2> QED
    BY <2>1, FS_CardinalityType DEF CopiesOf
<1>2. kv \notin g
  <2> SUFFICES ASSUME kv \in g PROVE FALSE
    OBVIOUS
  <2>1. kv.copy \in 1 .. CopiesOf(g, kv.key)
    BY DEF Numbered
  <2>2. CopiesOf(g, kv.key) \in Nat
    BY <1>1
  <2> QED
    BY <2>1, <2>2
<1>3. CopiesOf(h, kv.key) = CopiesOf(g, kv.key) + 1
  <2>1. Under(h, kv.key) = Under(g, kv.key) \cup {kv} /\ kv \notin Under(g, kv.key)
    BY <1>2
  <2>2. IsFiniteSet(Under(g, kv.key))
    BY <1>1
  <2>3. Cardinality(Under(g, kv.key) \cup {kv}) = Cardinality(Under(g, kv.key)) + 1
    <3> HIDE DEF Under
    <3> QED
      BY <2>1, <2>2, FS_AddElement
  <2>4. Cardinality(Under(h, kv.key)) = Cardinality(Under(g, kv.key)) + 1
    <3> HIDE DEF Under, h
    <3> QED
      BY <2>1, <2>3
  <2> QED
    BY <2>4 DEF CopiesOf
<1>4. \A k : k # kv.key => CopiesOf(h, k) = CopiesOf(g, k)
  <2> SUFFICES ASSUME NEW k, k # kv.key PROVE CopiesOf(h, k) = CopiesOf(g, k)
    OBVIOUS
  <2>1. Under(h, k) = Under(g, k)
    OBVIOUS
  <2> QED
    BY <2>1 DEF CopiesOf
<1> HIDE DEF h
<1>5. ASSUME NEW v \in h PROVE v.copy \in 1 .. CopiesOf(h, v.key)
  <2>1. CASE v = kv
    <3>1. CopiesOf(g, kv.key) \in Nat
      BY <1>1
    <3> QED
      BY <1>3, <2>1, <3>1
  <2>2. CASE v # kv
    <3>1. v \in g
      BY <2>2 DEF h
    <3>2. v.copy \in 1 .. CopiesOf(g, v.key) /\ CopiesOf(g, v.key) \in Nat
      BY <1>1, <3>1 DEF Numbered
    <3>3. CASE v.key = kv.key
      BY <1>3, <3>2, <3>3
    <3>4. CASE v.key # kv.key
      BY <1>4, <3>2, <3>4
    <3> QED
      BY <3>3, <3>4
  <2> QED
    BY <2>1, <2>2
<1> QED
  BY <1>2, <1>5 DEF Numbered, h

\* Where a value is when kv has been stored in the leaf n.
LEMMA StoreHolds ==
    ASSUME NEW t \in Tree, NEW n \in Nodes(t), t.node[n].is_leaf, NEW kv \in Value,
           NEW u, Stores(t, u, n, kv)
    PROVE  \E b \in 1 .. Len(t.node[n].vals) + 1 :
              /\ Holds(u, n, b, kv)
              /\ \A m, i, v : m # n => (Holds(u, m, i, v) <=> Holds(t, m, i, v))
              /\ \A i, v : Holds(t, n, i, v) => Holds(u, n, IF i < b THEN i ELSE i + 1, v)
              /\ \A i, v : Holds(u, n, i, v) /\ i # b => Holds(t, n, IF i < b THEN i ELSE i - 1, v)
              /\ \A v : Holds(u, n, b, v) => v = kv
<1> DEFINE s == t.node[n].vals
           r == u.node[n].vals
           b == lower_bound(s, kv.key)
<1>1. s \in Seq(Value) /\ Len(s) \in Nat
  BY NodeFacts
<1>2. b \in 1 .. Len(s) + 1
  <2>1. kv.key \in Nat
    BY DEF Value
  <2> QED
    BY <1>1, <2>1, LowerBoundFacts
<1>3. /\ Len(r) = Len(s) + 1
      /\ \A i \in 1 .. b - 1 : r[i] = s[i]
      /\ r[b] = kv
      /\ \A i \in b + 1 .. Len(s) + 1 : r[i] = s[i - 1]
  BY DEF Stores, Inserted
<1>4. /\ Nodes(u) = Nodes(t)
      /\ \A i \in Nodes(t) : /\ u.node[i].is_leaf = t.node[i].is_leaf
                             /\ i # n => u.node[i].vals = t.node[i].vals
  BY DEF Stores
<1>5. /\ \A i, v : Holds(t, n, i, v) <=> i \in 1 .. Len(s) /\ s[i] = v
      /\ \A i, v : Holds(u, n, i, v) <=> i \in 1 .. Len(r) /\ r[i] = v
  BY <1>4 DEF Holds
<1>6. \A m, i, v : m # n => (Holds(u, m, i, v) <=> Holds(t, m, i, v))
  BY <1>4 DEF Holds
<1> HIDE DEF s, r, b
<1>7. Holds(u, n, b, kv) /\ \A v : Holds(u, n, b, v) => v = kv
  BY <1>1, <1>2, <1>3, <1>5
<1>8. ASSUME NEW i, NEW v, Holds(t, n, i, v)
      PROVE  Holds(u, n, IF i < b THEN i ELSE i + 1, v)
  <2>1. i \in 1 .. Len(s) /\ s[i] = v
    BY <1>5, <1>8
  <2>2. CASE i < b
    <3>1. i \in 1 .. b - 1 /\ i \in 1 .. Len(r)
      BY <1>1, <1>2, <1>3, <2>1, <2>2
    <3>2. r[i] = v
      BY <1>3, <2>1, <3>1
    <3> QED
      BY <1>5, <2>2, <3>1, <3>2
  <2>3. CASE ~(i < b)
    <3>1. i + 1 \in b + 1 .. Len(s) + 1 /\ i + 1 \in 1 .. Len(r) /\ (i + 1) - 1 = i
      BY <1>1, <1>2, <1>3, <2>1, <2>3
    <3>2. r[i + 1] = v
      BY <1>3, <2>1, <3>1
    <3> QED
      BY <1>5, <2>3, <3>1, <3>2
  <2> QED
    BY <2>2, <2>3
<1>9. ASSUME NEW i, NEW v, Holds(u, n, i, v), i # b
      PROVE  Holds(t, n, IF i < b THEN i ELSE i - 1, v)
  <2>1. i \in 1 .. Len(r) /\ r[i] = v
    BY <1>5, <1>9
  <2>2. CASE i < b
    <3>1. i \in 1 .. b - 1 /\ i \in 1 .. Len(s)
      BY <1>1, <1>2, <1>3, <2>1, <2>2
    <3>2. s[i] = v
      BY <1>3, <2>1, <3>1
    <3> QED
      BY <1>5, <2>2, <3>1, <3>2
  <2>3. CASE ~(i < b)
    <3>1. i \in b + 1 .. Len(s) + 1 /\ i - 1 \in 1 .. Len(s)
      BY <1>1, <1>2, <1>3, <1>9, <2>1, <2>3
    <3>2. s[i - 1] = v
      BY <1>3, <2>1, <3>1
    <3> QED
      BY <1>5, <2>3, <3>1, <3>2
  <2> QED
    BY <2>2, <2>3
<1>10. b \in 1 .. Len(t.node[n].vals) + 1
  BY <1>2 DEF s
<1> QED
  BY <1>6, <1>7, <1>8, <1>9, <1>10

LEMMA StoreStored ==
    ASSUME NEW t \in Tree, NEW n \in Nodes(t), t.node[n].is_leaf, NEW kv \in Value,
           NEW u, Stores(t, u, n, kv), NEW g, Stored(t, g), kv \notin g
    PROVE  Stored(u, g \cup {kv})
<1>1. PICK b \in 1 .. Len(t.node[n].vals) + 1 :
              /\ Holds(u, n, b, kv)
              /\ \A m, i, v : m # n => (Holds(u, m, i, v) <=> Holds(t, m, i, v))
              /\ \A i, v : Holds(t, n, i, v) => Holds(u, n, IF i < b THEN i ELSE i + 1, v)
              /\ \A i, v : Holds(u, n, i, v) /\ i # b => Holds(t, n, IF i < b THEN i ELSE i - 1, v)
              /\ \A v : Holds(u, n, b, v) => v = kv
  BY StoreHolds
<1>2. /\ \A v : v \in g <=> \E m, i : Holds(t, m, i, v)
      /\ \A v, m, i, k, j : Holds(t, m, i, v) /\ Holds(t, k, j, v) => m = k /\ i = j
  BY DEF Stored
<1>3. \A m, i : ~Holds(t, m, i, kv)
  BY <1>2
<1>4. ASSUME NEW v PROVE v \in g \cup {kv} <=> \E m, i : Holds(u, m, i, v)
  <2>1. ASSUME v \in g PROVE \E m, i : Holds(u, m, i, v)
    <3>1. PICK m, i : Holds(t, m, i, v)
      BY <1>2, <2>1
    <3>2. CASE m = n
      BY <1>1, <3>1, <3>2
    <3>3. CASE m # n
      BY <1>1, <3>1, <3>3
    <3> QED
      BY <3>2, <3>3
  <2>2. ASSUME NEW m, NEW i, Holds(u, m, i, v) PROVE v \in g \cup {kv}
    <3>1. CASE m = n /\ i = b
      BY <1>1, <2>2, <3>1
    <3>2. CASE m = n /\ i # b
      <4>1. Holds(t, n, IF i < b THEN i ELSE i - 1, v)
        BY <1>1, <2>2, <3>2
      <4> QED
        BY <1>2, <4>1
    <3>3. CASE m # n
      BY <1>1, <1>2, <2>2, <3>3
    <3> QED
      BY <3>1, <3>2, <3>3
  <2> QED
    BY <1>1, <2>1, <2>2
<1>5. ASSUME NEW v, NEW m, NEW i, NEW k, NEW j, Holds(u, m, i, v), Holds(u, k, j, v)
      PROVE  m = k /\ i = j
  <2>0. (m = n => i \in Int) /\ (k = n => j \in Int) /\ b \in Int
    BY <1>5 DEF Holds
  <2>1. CASE v = kv
    <3>1. ASSUME NEW x, NEW y, Holds(u, x, y, kv) PROVE x = n /\ y = b
      <4>1. x = n
        BY <1>1, <1>3, <3>1
      <4> QED
        BY <1>1, <1>3, <3>1, <4>1
    <3> QED
      BY <1>5, <2>1, <3>1
  <2>2. CASE v # kv
    <3>1. (m = n => i # b) /\ (k = n => j # b)
      BY <1>1, <1>5, <2>2
    <3>2. m = n => Holds(t, n, IF i < b THEN i ELSE i - 1, v)
      BY <1>1, <1>5, <3>1
    <3>3. k = n => Holds(t, n, IF j < b THEN j ELSE j - 1, v)
      BY <1>1, <1>5, <3>1
    <3>4. m # n => Holds(t, m, i, v)
      BY <1>1, <1>5
    <3>5. k # n => Holds(t, k, j, v)
      BY <1>1, <1>5
    <3>6. CASE m = n /\ k = n
      <4>1. (IF i < b THEN i ELSE i - 1) = (IF j < b THEN j ELSE j - 1)
        BY <1>2, <3>2, <3>3, <3>6
      <4> QED
        BY <2>0, <3>1, <3>6, <4>1
    <3>7. CASE m = n /\ k # n
      BY <1>2, <3>2, <3>5, <3>7
    <3>8. CASE m # n /\ k = n
      BY <1>2, <3>3, <3>4, <3>8
    <3>9. CASE m # n /\ k # n
      BY <1>2, <3>4, <3>5, <3>9
    <3> QED
      BY <3>6, <3>7, <3>8, <3>9
  <2> QED
    BY <2>1, <2>2
<1> QED
  BY <1>4, <1>5 DEF Stored

LEMMA StoreSorted ==
    ASSUME NEW t \in Tree, NEW n \in Nodes(t), NEW kv \in Value, NEW u, Stores(t, u, n, kv), SortedNodes(t)
    PROVE  SortedNodes(u)
<1>1. t.node[n].vals \in Seq(Value) /\ Ascending(t.node[n].vals)
  BY NodeFacts DEF SortedNodes
<1>2. Ascending(insertValue(t.node[n].vals, kv))
  BY <1>1, InsertValueSorts
<1>3. u.node[n].vals = insertValue(t.node[n].vals, kv) /\ Nodes(u) = Nodes(t)
      /\ \A i \in Nodes(t) : i # n => u.node[i].vals = t.node[i].vals
  BY DEF Stores
<1> QED
  BY <1>2, <1>3 DEF SortedNodes

\* Where a value is when the node n has been split.
LEMMA SplitHolds ==
    ASSUME NEW t, NEW n \in Nodes(t), Sound(t, n), NEW u, NEW c, NEW p, Splits(t, u, n, c, p)
    PROVE  /\ c # n /\ t.N \in Nat
           /\ \A m, i, v : m # n /\ m # c => (Holds(u, m, i, v) <=> Holds(t, m, i, v))
           /\ \A i, v : ~Holds(t, c, i, v)
           /\ ~t.node[n].is_leaf => \A i, v : ~Holds(u, n, i, v) /\ ~Holds(t, n, i, v) /\ ~Holds(u, c, i, v)
           /\ t.node[n].is_leaf => \A i, v : Holds(t, n, i, v) => i \in Int /\ i >= 1
           /\ t.node[n].is_leaf => \A i, v :
                 /\ Holds(u, n, i, v) <=> Holds(t, n, i, v) /\ i <= t.N
                 /\ Holds(u, c, i, v) => i \in Int /\ i >= 1 /\ Holds(t, n, t.N + i, v)
                 /\ Holds(t, n, i, v) /\ i > t.N => Holds(u, c, i - t.N, v)
<1>1. t \in Tree /\ t.N \in Nat /\ t.N >= 2
  BY TreeFacts DEF Sound
<1>2. /\ Nodes(u) = Nodes(t) \cup {c, p}
      /\ c \notin Nodes(t) /\ c # n /\ c # p /\ n # p
      /\ InRoot(t, u, n, c, p) => p \notin Nodes(t)
  BY SplitNodes
<1>3. ~u.node[p].is_leaf /\ (p \in Nodes(t) => ~t.node[p].is_leaf)
  BY <1>2 DEF Splits, InParent, InRoot
<1>4. ASSUME NEW m, NEW i, NEW v, m # n, m # c PROVE Holds(u, m, i, v) <=> Holds(t, m, i, v)
  <2>1. CASE m = p
    BY <1>3, <2>1 DEF Holds
  <2>2. CASE m # p /\ m \in Nodes(t)
    <3>1. u.node[m].is_leaf = t.node[m].is_leaf /\ u.node[m].vals = t.node[m].vals /\ m \in Nodes(u)
      BY <1>2, <1>4, <2>2 DEF Splits, Kept
    <3> QED
      BY <2>2, <3>1 DEF Holds
  <2>3. CASE m # p /\ m \notin Nodes(t)
    BY <1>2, <1>4, <2>3 DEF Holds
  <2> QED
    BY <2>1, <2>2, <2>3
<1>5. \A i, v : ~Holds(t, c, i, v)
  BY <1>2 DEF Holds
<1>6. u.node[n].is_leaf = t.node[n].is_leaf /\ u.node[c].is_leaf = t.node[n].is_leaf
      /\ n \in Nodes(u) /\ c \in Nodes(u)
  BY <1>2 DEF Splits, Shared
<1>7. ~t.node[n].is_leaf => \A i, v : ~Holds(u, n, i, v) /\ ~Holds(t, n, i, v) /\ ~Holds(u, c, i, v)
  BY <1>6 DEF Holds
<1>8. ASSUME t.node[n].is_leaf, NEW i, NEW v
      PROVE  /\ Holds(t, n, i, v) => i \in Int /\ i >= 1
             /\ Holds(u, n, i, v) <=> Holds(t, n, i, v) /\ i <= t.N
             /\ Holds(u, c, i, v) => i \in Int /\ i >= 1 /\ Holds(t, n, t.N + i, v)
             /\ Holds(t, n, i, v) /\ i > t.N => Holds(u, c, i - t.N, v)
  <2>1. HalfOf(t, n) = t.N /\ Len(t.node[n].vals) = 2 * t.N
    BY <1>8, FullFacts DEF HalfOf
  <2>2. /\ Len(u.node[n].vals) = t.N /\ Len(u.node[c].vals) = t.N
        /\ \A j \in 1 .. t.N : /\ u.node[n].vals[j] = t.node[n].vals[j]
                               /\ u.node[c].vals[j] = t.node[n].vals[t.N + j]
    BY <2>1 DEF Splits, Shared
  <2>3. /\ \A j, w : Holds(t, n, j, w) <=> j \in 1 .. 2 * t.N /\ t.node[n].vals[j] = w
        /\ \A j, w : Holds(u, n, j, w) <=> j \in 1 .. t.N /\ u.node[n].vals[j] = w
        /\ \A j, w : Holds(u, c, j, w) <=> j \in 1 .. t.N /\ u.node[c].vals[j] = w
    BY <1>6, <1>8, <2>1, <2>2 DEF Holds
  <2>4. Holds(t, n, i, v) => i \in Int /\ i >= 1
    BY <2>3
  <2>5. Holds(u, n, i, v) <=> Holds(t, n, i, v) /\ i <= t.N
    <3>1. i \in 1 .. t.N <=> (i \in 1 .. 2 * t.N /\ i <= t.N)
      BY <1>1
    <3>2. i \in 1 .. t.N => u.node[n].vals[i] = t.node[n].vals[i]
      BY <2>2
    <3>3. /\ Holds(t, n, i, v) <=> i \in 1 .. 2 * t.N /\ t.node[n].vals[i] = v
          /\ Holds(u, n, i, v) <=> i \in 1 .. t.N /\ u.node[n].vals[i] = v
      BY <2>3
    <3> QED
      BY <3>1, <3>2, <3>3
  <2>6. ASSUME Holds(u, c, i, v) PROVE i \in Int /\ i >= 1 /\ Holds(t, n, t.N + i, v)
    <3>1. i \in 1 .. t.N /\ u.node[c].vals[i] = v
      BY <2>3, <2>6
    <3>2. t.N + i \in 1 .. 2 * t.N
      BY <1>1, <3>1
    <3>3. u.node[c].vals[i] = t.node[n].vals[t.N + i]
      BY <2>2, <3>1
    <3>4. Holds(t, n, t.N + i, v) <=> t.N + i \in 1 .. 2 * t.N /\ t.node[n].vals[t.N + i] = v
      BY <2>3
    <3>5. i \in Int /\ i >= 1
      BY <1>1, <3>1
    <3> QED
      BY <3>1, <3>2, <3>3, <3>4, <3>5
  <2>7. ASSUME Holds(t, n, i, v), i > t.N PROVE Holds(u, c, i - t.N, v)
    <3>1. i \in 1 .. 2 * t.N /\ t.node[n].vals[i] = v
      BY <2>3, <2>7
    <3>2. i - t.N \in 1 .. t.N /\ t.N + (i - t.N) = i
      BY <1>1, <2>7, <3>1
    <3>3. u.node[c].vals[i - t.N] = v
      BY <2>2, <3>1, <3>2
    <3> QED
      BY <2>3, <3>2, <3>3
  <2> QED
    BY <2>4, <2>5, <2>6, <2>7
<1> QED
  BY <1>1, <1>2, <1>4, <1>5, <1>7, <1>8

LEMMA SplitStored ==
    ASSUME NEW t, NEW n \in Nodes(t), Sound(t, n), NEW u, NEW c, NEW p, Splits(t, u, n, c, p),
           NEW g, Stored(t, g)
    PROVE  Stored(u, g)
<1>1. /\ c # n /\ t.N \in Nat
      /\ \A m, i, v : m # n /\ m # c => (Holds(u, m, i, v) <=> Holds(t, m, i, v))
      /\ \A i, v : ~Holds(t, c, i, v)
      /\ ~t.node[n].is_leaf => \A i, v : ~Holds(u, n, i, v) /\ ~Holds(t, n, i, v) /\ ~Holds(u, c, i, v)
      /\ t.node[n].is_leaf => \A i, v : Holds(t, n, i, v) => i \in Int /\ i >= 1
      /\ t.node[n].is_leaf => \A i, v :
            /\ Holds(u, n, i, v) <=> Holds(t, n, i, v) /\ i <= t.N
            /\ Holds(u, c, i, v) => i \in Int /\ i >= 1 /\ Holds(t, n, t.N + i, v)
            /\ Holds(t, n, i, v) /\ i > t.N => Holds(u, c, i - t.N, v)
  BY SplitHolds
<1>2. /\ \A v : v \in g <=> \E m, i : Holds(t, m, i, v)
      /\ \A v, m, i, k, j : Holds(t, m, i, v) /\ Holds(t, k, j, v) => m = k /\ i = j
  BY DEF Stored
<1>3. CASE ~t.node[n].is_leaf
  <2>1. \A m, i, v : Holds(u, m, i, v) <=> Holds(t, m, i, v)
    BY <1>1, <1>3
  <2> QED
    BY <1>2, <2>1 DEF Stored
<1>4. CASE t.node[n].is_leaf
  \* Where the value of a place in u was in t.
  <2> DEFINE Was(m) == IF m = c THEN n ELSE m
             At(m, i) == IF m = c THEN t.N + i ELSE i
  <2>1. ASSUME NEW m, NEW i, NEW v, Holds(u, m, i, v)
        PROVE  /\ Holds(t, Was(m), At(m, i), v)
               /\ m = n => i <= t.N
               /\ m = c => i \in Int /\ i >= 1
               /\ m = n => i \in Int
    <3>1. CASE m = n
      BY <1>1, <1>4, <2>1, <3>1
    <3>2. CASE m = c
      BY <1>1, <1>4, <2>1, <3>2
    <3>3. CASE m # n /\ m # c
      BY <1>1, <2>1, <3>3
    <3> QED
      BY <3>1, <3>2, <3>3
  <2>2. ASSUME NEW m, NEW i, NEW v, Holds(t, m, i, v)
        PROVE  \E k, j : Holds(u, k, j, v)
    <3>1. CASE m = n
      <4>1. i \in Int
        BY <1>1, <1>4, <2>2, <3>1
      <4>2. i <= t.N \/ i > t.N
        BY <1>1, <4>1
      <4> QED
        BY <1>1, <1>4, <2>2, <3>1, <4>2
    <3>2. CASE m # n
      <4>1. m # c
        BY <1>1, <2>2
      <4> QED
        BY <1>1, <2>2, <3>2, <4>1
    <3> QED
      BY <3>1, <3>2
  <2>3. \A v : v \in g <=> \E m, i : Holds(u, m, i, v)
    <3> HIDE DEF Was, At
    <3> QED
      BY <1>2, <2>1, <2>2
  <2>4. ASSUME NEW v, NEW m, NEW i, NEW k, NEW j, Holds(u, m, i, v), Holds(u, k, j, v)
        PROVE  m = k /\ i = j
    <3>1. /\ Holds(t, Was(m), At(m, i), v) /\ Holds(t, Was(k), At(k, j), v)
          /\ (m = n => i <= t.N /\ i \in Int) /\ (m = c => i \in Int /\ i >= 1)
          /\ (k = n => j <= t.N /\ j \in Int) /\ (k = c => j \in Int /\ j >= 1)
      <4> HIDE DEF Was, At
      <4> QED
        BY <2>1, <2>4
    <3>2. Was(m) = Was(k) /\ At(m, i) = At(k, j)
      <4> HIDE DEF Was, At
      <4> QED
        BY <1>2, <3>1
    <3>3. CASE m = c /\ k = c
      BY <1>1, <3>1, <3>2, <3>3
    <3>4. CASE m = c /\ k # c
      <4>1. k = n /\ t.N + i = j
        BY <3>2, <3>4
      <4> QED
        BY <1>1, <3>1, <3>4, <4>1
    <3>5. CASE m # c /\ k = c
      <4>1. m = n /\ i = t.N + j
        BY <3>2, <3>5
      <4> QED
        BY <1>1, <3>1, <3>5, <4>1
    <3>6. CASE m # c /\ k # c
      BY <3>2, <3>6
    <3> QED
      BY <3>3, <3>4, <3>5, <3>6
  <2> QED
    BY <2>3, <2>4 DEF Stored
<1> QED
  BY <1>3, <1>4

LEMMA SplitSorted ==
    ASSUME NEW t, NEW n \in Nodes(t), Sound(t, n), NEW u, NEW c, NEW p, Splits(t, u, n, c, p),
           SortedNodes(t)
    PROVE  SortedNodes(u)
<1>1. t \in Tree /\ t.N \in Nat /\ t.N >= 2
  BY TreeFacts DEF Sound
<1>2. Nodes(u) = Nodes(t) \cup {c, p}
  BY SplitNodes
<1> DEFINE s == t.node[n].vals
           h == HalfOf(t, n)
<1>3. h \in Nat /\ Ascending(s) /\ ((Len(s) = 2 * t.N /\ h = t.N) \/ (Len(s) = 2 * t.N - 1 /\ h = t.N - 1))
  BY FullFacts DEF SortedNodes, HalfOf
<1>4. /\ Len(u.node[n].vals) = h /\ Len(u.node[c].vals) = h
      /\ \A i \in 1 .. h : u.node[n].vals[i] = s[i] /\ u.node[c].vals[i] = s[t.N + i]
  BY DEF Splits, Shared
<1> HIDE DEF s, h
<1>5. \A i \in 1 .. h : i \in 1 .. Len(s) /\ t.N + i \in 1 .. Len(s)
  BY <1>1, <1>3
<1>6. Ascending(u.node[n].vals)
  BY <1>3, <1>4, <1>5 DEF Ascending
<1>7. Ascending(u.node[c].vals)
  <2> SUFFICES ASSUME NEW i \in 1 .. h, NEW j \in 1 .. h, i < j
               PROVE  u.node[c].vals[i].key <= u.node[c].vals[j].key
    BY <1>4 DEF Ascending
  <2>1. t.N + i \in 1 .. Len(s) /\ t.N + j \in 1 .. Len(s) /\ t.N + i < t.N + j
    BY <1>1, <1>3, <1>5
  <2>2. s[t.N + i].key <= s[t.N + j].key
    BY <1>3, <2>1 DEF Ascending
  <2> QED
    BY <1>4, <2>2
<1>8. Ascending(u.node[p].vals)
  <2>1. CASE InParent(t, u, n, c, p)
    <3>1. p \in Nodes(t) /\ u.node[p].vals = insertValue(t.node[p].vals, midle(t.node[n]))
      BY <2>1 DEF InParent
    <3>2. t.node[p].vals \in Seq(Value) /\ Ascending(t.node[p].vals) /\ midle(t.node[n]) \in Value
      BY <1>1, <3>1, NodeFacts, FullFacts DEF SortedNodes
    <3>3. Ascending(insertValue(t.node[p].vals, midle(t.node[n])))
      BY <3>2, InsertValueSorts
    <3> QED
      BY <3>1, <3>3
  <2>2. CASE InRoot(t, u, n, c, p)
    <3>1. Len(u.node[p].vals) = 1
      BY <2>2 DEF InRoot
    <3> QED
      BY <3>1 DEF Ascending
  <2> QED
    BY <2>1, <2>2 DEF Splits
<1>9. \A m \in Nodes(t) \ {n, p} : Ascending(u.node[m].vals)
  BY DEF Splits, Kept, SortedNodes
<1> QED
  BY <1>2, <1>6, <1>7, <1>8, <1>9 DEF SortedNodes

-----------------------------------------------------------------------------
(* The chain of the leaves *)

\* ch are the leaves in the order of next.
Chain(t, ch) ==
    /\ ch \in Seq(Nat) /\ Len(ch) >= 1 /\ ch[1] = 1
    /\ \A k \in 1 .. Len(ch) : ch[k] \in Nodes(t) /\ t.node[ch[k]].is_leaf
    /\ \A n \in Nodes(t) : t.node[n].is_leaf => \E k \in 1 .. Len(ch) : ch[k] = n
    /\ \A k, l \in 1 .. Len(ch) : ch[k] = ch[l] => k = l
    /\ \A k \in 1 .. Len(ch) : t.node[ch[k]].next = IF k = Len(ch) THEN 0 ELSE ch[k + 1]

LEMMA StoreChain ==
    ASSUME NEW t, NEW u, NEW n, NEW kv, Stores(t, u, n, kv), NEW ch, Chain(t, ch)
    PROVE  Chain(u, ch)
<1>1. Nodes(u) = Nodes(t)
  BY DEF Stores
<1>2. \A i \in Nodes(t) : u.node[i].is_leaf = t.node[i].is_leaf /\ u.node[i].next = t.node[i].next
  BY DEF Stores
<1>3. \A k \in 1 .. Len(ch) : ch[k] \in Nodes(t)
  BY DEF Chain
<1> QED
  BY <1>1, <1>2, <1>3 DEF Chain

\* An interior node is not in it.
LEMMA InteriorSplitChain ==
    ASSUME NEW t, NEW n \in Nodes(t), Sound(t, n), NEW u, NEW c, NEW p, Splits(t, u, n, c, p),
           NEW ch, Chain(t, ch), ~t.node[n].is_leaf
    PROVE  Chain(u, ch)
<1>2. /\ Nodes(u) = Nodes(t) \cup {c, p} /\ c \notin Nodes(t)
      /\ InRoot(t, u, n, c, p) => p \notin Nodes(t)
  BY SplitNodes
<1>3. ~u.node[n].is_leaf /\ ~u.node[c].is_leaf /\ ~u.node[p].is_leaf /\ (p \in Nodes(t) => ~t.node[p].is_leaf)
  BY <1>2 DEF Splits, Shared, InParent, InRoot
<1>4. ASSUME NEW m \in Nodes(t), t.node[m].is_leaf
      PROVE  m \in Nodes(u) /\ u.node[m].is_leaf /\ u.node[m].next = t.node[m].next
  <2>1. m \in Nodes(t) \ {n, p}
    BY <1>3, <1>4
  <2> QED
    BY <1>2, <1>4, <2>1 DEF Splits, Kept
<1>5. ASSUME NEW m \in Nodes(u), u.node[m].is_leaf PROVE m \in Nodes(t) /\ t.node[m].is_leaf
  <2>1. m \in Nodes(t) \ {n, p}
    BY <1>2, <1>3, <1>5
  <2> QED
    BY <1>5, <2>1 DEF Splits, Kept
<1>6. \A k \in 1 .. Len(ch) : ch[k] \in Nodes(t) /\ t.node[ch[k]].is_leaf
  BY DEF Chain
<1> QED
  BY <1>4, <1>5, <1>6 DEF Chain

\* The new leaf follows the one that was split.
LEMMA LeafSplitChain ==
    ASSUME NEW t, NEW n \in Nodes(t), Sound(t, n), NEW u, NEW c, NEW p, Splits(t, u, n, c, p),
           NEW ch, Chain(t, ch), t.node[n].is_leaf
    PROVE  \E d : \E k \in 1 .. Len(ch) :
              ch[k] = n /\ Inserted(Nat, ch, k + 1, c, d) /\ Chain(u, d)
<1>0. ch \in Seq(Nat) /\ Len(ch) \in Nat
  BY DEF Chain
<1>1. /\ ch \in Seq(Nat) /\ Len(ch) \in Nat /\ Len(ch) >= 1 /\ ch[1] = 1
      /\ \A i \in 1 .. Len(ch) : ch[i] \in Nodes(t) /\ t.node[ch[i]].is_leaf
      /\ \A m \in Nodes(t) : t.node[m].is_leaf => \E i \in 1 .. Len(ch) : ch[i] = m
      /\ \A i, j \in 1 .. Len(ch) : ch[i] = ch[j] => i = j
      /\ \A i \in 1 .. Len(ch) : t.node[ch[i]].next = IF i = Len(ch) THEN 0 ELSE ch[i + 1]
  BY <1>0 DEF Chain
<1>2. PICK k \in 1 .. Len(ch) : ch[k] = n
  BY <1>1
<1>3. /\ Nodes(u) = Nodes(t) \cup {c, p} /\ c \notin Nodes(t) /\ c # n
      /\ InRoot(t, u, n, c, p) => p \notin Nodes(t)
  BY SplitNodes
<1>4. c \in Nat
  <2>1. t \in Tree /\ c = Len(t.node) + 1
    BY DEF Sound, Splits
  <2> QED
    BY <2>1, TreeFacts
<1> DEFINE d == insert_to_array(ch, k + 1, c)
<1>5. Inserted(Nat, ch, k + 1, c, d)
  <2>1. k + 1 \in 1 .. Len(ch) + 1
    BY <1>1
  <2> QED
    BY <1>1, <1>4, <2>1, InsertFacts
<1> HIDE DEF d
<1>6. /\ d \in Seq(Nat) /\ Len(d) = Len(ch) + 1
      /\ \A i \in 1 .. k : d[i] = ch[i]
      /\ d[k + 1] = c
      /\ \A i \in k + 2 .. Len(ch) + 1 : d[i] = ch[i - 1]
  <2>1. /\ d \in Seq(Nat) /\ Len(d) = Len(ch) + 1
        /\ \A i \in 1 .. (k + 1) - 1 : d[i] = ch[i]
        /\ d[k + 1] = c
        /\ \A i \in (k + 1) + 1 .. Len(ch) + 1 : d[i] = ch[i - 1]
    BY <1>5 DEF Inserted
  <2>2. (k + 1) - 1 = k /\ (k + 1) + 1 = k + 2
    OBVIOUS
  <2> QED
    BY <2>1, <2>2
<1>a. Len(ch) \in Nat /\ k \in 1 .. Len(ch) /\ Len(d) = Len(ch) + 1
  BY <1>1, <1>2, <1>6
<1>7. KeepsAndAdds(ch, c, d)
  <2>1. k + 1 \in 1 .. Len(ch) + 1
    BY <1>1
  <2> QED
    BY <1>1, <1>5, <2>1, InsertedElements
<1>8. /\ u.node[n].is_leaf /\ u.node[c].is_leaf
      /\ u.node[n].next = c /\ u.node[c].next = t.node[n].next
  BY DEF Splits, Shared
<1>9. ~u.node[p].is_leaf /\ (p \in Nodes(t) => ~t.node[p].is_leaf)
  BY <1>3 DEF Splits, InParent, InRoot
<1>10. ASSUME NEW m \in Nodes(t), t.node[m].is_leaf
       PROVE  m \in Nodes(u) /\ u.node[m].is_leaf /\ (m # n => u.node[m].next = t.node[m].next)
  <2>1. CASE m = n
    BY <1>3, <1>8, <2>1
  <2>2. CASE m # n
    <3>1. m \in Nodes(t) \ {n, p}
      BY <1>9, <1>10, <2>2
    <3> QED
      BY <1>3, <1>10, <3>1 DEF Splits, Kept
  <2> QED
    BY <2>1, <2>2
<1>11. ASSUME NEW m \in Nodes(u), u.node[m].is_leaf, m # c PROVE m \in Nodes(t) /\ t.node[m].is_leaf
  <2>1. CASE m = n
    BY <2>1
  <2>2. CASE m # n
    <3>1. m \in Nodes(t) \ {n, p}
      BY <1>3, <1>9, <1>11, <2>2
    <3> QED
      BY <1>11, <3>1 DEF Splits, Kept
  <2> QED
    BY <2>1, <2>2
<1>12. Len(d) >= 1 /\ d[1] = 1
  BY <1>1, <1>6
<1>13. \A j \in 1 .. Len(d) : d[j] \in Nodes(u) /\ u.node[d[j]].is_leaf
  <2> TAKE j \in 1 .. Len(d)
  <2>1. d[j] = c \/ \E i \in 1 .. Len(ch) : d[j] = ch[i]
    BY <1>7 DEF KeepsAndAdds
  <2> QED
    BY <1>1, <1>3, <1>8, <1>10, <2>1
<1>14. \A m \in Nodes(u) : u.node[m].is_leaf => \E j \in 1 .. Len(d) : d[j] = m
  <2> SUFFICES ASSUME NEW m \in Nodes(u), u.node[m].is_leaf PROVE \E j \in 1 .. Len(d) : d[j] = m
    OBVIOUS
  <2>1. CASE m = c
    BY <1>7, <2>1 DEF KeepsAndAdds
  <2>2. CASE m # c
    <3>1. PICK i \in 1 .. Len(ch) : ch[i] = m
      BY <1>1, <1>11, <2>2
    <3> QED
      BY <1>7, <3>1 DEF KeepsAndAdds
  <2> QED
    BY <2>1, <2>2
<1>15. \A i, j \in 1 .. Len(d) : d[i] = d[j] => i = j
  <2>1. \A i \in 1 .. Len(ch) : ch[i] # c
    BY <1>1, <1>3
  <2> QED
    BY <1>1, <1>7, <2>1 DEF KeepsAndAdds
<1>16. ASSUME NEW i \in 1 .. Len(d) PROVE u.node[d[i]].next = IF i = Len(d) THEN 0 ELSE d[i + 1]
  <2>1. CASE i < k
    <3>1. i \in 1 .. k /\ i + 1 \in 1 .. k /\ i \in 1 .. Len(ch) /\ i # k /\ i # Len(ch) /\ i # Len(d)
      BY <1>a, <2>1
    <3>2. d[i] = ch[i] /\ d[i + 1] = ch[i + 1] /\ ch[i] # n
      BY <1>1, <1>2, <1>6, <3>1
    <3>3. t.node[ch[i]].next = ch[i + 1] /\ u.node[ch[i]].next = t.node[ch[i]].next
      BY <1>1, <1>10, <3>1, <3>2
    <3> QED
      BY <3>1, <3>2, <3>3
  <2>2. CASE i = k
    <3>1. i \in 1 .. k /\ i # Len(d)
      BY <1>1, <1>6, <2>2
    <3>2. d[i] = n /\ d[i + 1] = c
      BY <1>2, <1>6, <2>2, <3>1
    <3> QED
      BY <1>8, <3>1, <3>2
  <2>3. CASE i = k + 1
    <3>1. u.node[d[i]].next = t.node[n].next
      BY <1>6, <1>8, <2>3
    <3>2. t.node[n].next = IF k = Len(ch) THEN 0 ELSE ch[k + 1]
      BY <1>1, <1>2
    <3>3. CASE k = Len(ch)
      BY <1>6, <2>3, <3>1, <3>2, <3>3
    <3>4. CASE k # Len(ch)
      <4>1. k + 2 \in k + 2 .. Len(ch) + 1 /\ i # Len(d) /\ i + 1 = k + 2 /\ (k + 2) - 1 = k + 1
        BY <1>a, <2>3, <3>4
      <4>2. d[i + 1] = ch[k + 1]
        BY <1>6, <4>1
      <4> QED
        BY <3>1, <3>2, <3>4, <4>1, <4>2
    <3> QED
      BY <3>3, <3>4
  <2>4. CASE i > k + 1
    <3>1. i \in k + 2 .. Len(ch) + 1 /\ i - 1 \in 1 .. Len(ch) /\ i - 1 # k
      BY <1>a, <2>4
    <3>2. d[i] = ch[i - 1] /\ ch[i - 1] # n
      BY <1>1, <1>2, <1>6, <3>1
    <3>3. t.node[ch[i - 1]].next = (IF i - 1 = Len(ch) THEN 0 ELSE ch[(i - 1) + 1])
          /\ u.node[ch[i - 1]].next = t.node[ch[i - 1]].next
      BY <1>1, <1>10, <3>1, <3>2
    <3>4. CASE i = Len(d)
      <4>1. i - 1 = Len(ch)
        BY <1>1, <1>6, <3>4
      <4> QED
        BY <3>2, <3>3, <3>4, <4>1
    <3>5. CASE i # Len(d)
      <4>1. i - 1 # Len(ch) /\ (i - 1) + 1 = i /\ i + 1 \in k + 2 .. Len(ch) + 1 /\ (i + 1) - 1 = i
        BY <1>a, <3>1, <3>5
      <4>2. d[i + 1] = ch[i]
        BY <1>6, <4>1
      <4> QED
        BY <3>2, <3>3, <3>5, <4>1, <4>2
    <3> QED
      BY <3>4, <3>5
  <2>5. i < k \/ i = k \/ i = k + 1 \/ i > k + 1
    BY <1>6
  <2> QED
    BY <2>1, <2>2, <2>3, <2>4, <2>5
<1>17. Chain(u, d)
  BY <1>6, <1>12, <1>13, <1>14, <1>15, <1>16 DEF Chain
<1> QED
  BY <1>2, <1>5, <1>17

\* The first leaf is alone.
LEMMA InitChain ==
    ASSUME NEW k \in Nat \ {0, 1}
    PROVE  Chain(init_cache(k), <<1>>)
<1> DEFINE t == init_cache(k)
<1>1. /\ Nodes(t) = {1} /\ t.node[1].is_leaf /\ t.node[1].next = 0
  BY InitFacts
<1> HIDE DEF t
<1>2. <<1>> \in Seq(Nat) /\ Len(<<1>>) = 1 /\ <<1>>[1] = 1
  OBVIOUS
<1>3. 1 .. Len(<<1>>) = {1}
  BY <1>2
<1> DEFINE ch == <<1>>
<1>4. ch \in Seq(Nat) /\ Len(ch) = 1 /\ ch[1] = 1 /\ 1 .. Len(ch) = {1}
  BY <1>2, <1>3
<1> HIDE DEF ch
<1>5. Chain(t, ch)
  BY <1>1, <1>4 DEF Chain
<1> QED
  BY <1>5 DEF t, ch

\* LeafAt follows the chain.
LEMMA LeafAtIs ==
    ASSUME NEW ch, Chain(tree, ch), tree \in Tree
    PROVE  /\ Cardinality(Leaves) = Len(ch)
           /\ \A k \in 1 .. Len(ch) : LeafAt[k] = ch[k]
<1> DEFINE K == Len(ch)
<1>1. /\ ch \in Seq(Nat) /\ K \in Nat /\ K >= 1 /\ ch[1] = 1
      /\ \A i \in 1 .. K : ch[i] \in Nodes(tree) /\ tree.node[ch[i]].is_leaf
      /\ \A m \in Nodes(tree) : tree.node[m].is_leaf => \E i \in 1 .. K : ch[i] = m
      /\ \A i, j \in 1 .. K : ch[i] = ch[j] => i = j
      /\ \A i \in 1 .. K : tree.node[ch[i]].next = IF i = K THEN 0 ELSE ch[i + 1]
  BY DEF Chain
<1>2. DOMAIN tree.node = Nodes(tree) /\ 0 \notin Nodes(tree)
  BY TreeFacts DEF Nodes
<1>3. Leaves = {m \in Nodes(tree) : tree.node[m].is_leaf}
  BY <1>2 DEF Leaves
<1>4. ch = [i \in 1 .. K |-> ch[i]] /\ DOMAIN ch = 1 .. K
  BY <1>1
<1> HIDE DEF K
<1>5. Cardinality(Leaves) = K
  <2>1. ch \in [1 .. K -> Leaves]
    BY <1>1, <1>3, <1>4
  <2>2. ch \in Bijection(1 .. K, Leaves)
    <3>1. \A i, j \in 1 .. K : ch[i] = ch[j] => i = j
      BY <1>1
    <3>2. \A m \in Leaves : \E i \in 1 .. K : ch[i] = m
      BY <1>1, <1>3
    <3> QED
      BY <2>1, <3>1, <3>2 DEF Bijection, Injection, Surjection, IsInjective
  <2>3. ExistsBijection(1 .. K, Leaves)
    BY <2>2 DEF ExistsBijection
  <2> QED
    BY <1>1, <2>3, FS_CountingElements
<1> DEFINE Rhs(f) == [k \in 1 .. K |-> IF k = 1 THEN 1
                                       ELSE IF f[k - 1] = 0 THEN 0
                                       ELSE tree.node[f[k - 1]].next]
<1>6. ASSUME NEW k \in 1 .. K, k # 1
      PROVE  k - 1 \in 1 .. K /\ ch[k - 1] # 0 /\ tree.node[ch[k - 1]].next = ch[k]
  <2>1. k - 1 \in 1 .. K /\ k - 1 # K /\ (k - 1) + 1 = k
    BY <1>1, <1>6
  <2> QED
    BY <1>1, <1>2, <2>1
<1>7. ch = Rhs(ch)
  <2>1. \A k \in 1 .. K : ch[k] = Rhs(ch)[k]
    BY <1>1, <1>6
  <2> QED
    BY <1>4, <2>1
<1>8. LeafAt = CHOOSE f : f = Rhs(f)
  BY <1>5 DEF LeafAt
<1>9. LeafAt = Rhs(LeafAt)
  <2> HIDE DEF Rhs
  <2> QED
    BY <1>7, <1>8
<1>10. \A k \in 1 .. K : LeafAt[k] = IF k = 1 THEN 1
                                     ELSE IF LeafAt[k - 1] = 0 THEN 0
                                     ELSE tree.node[LeafAt[k - 1]].next
  BY <1>9
<1> DEFINE T == {k \in 1 .. K : LeafAt[k] # ch[k]}
<1>11. T = {}
  <2> SUFFICES ASSUME T # {} PROVE FALSE
    OBVIOUS
  <2>1. T \in SUBSET Nat
    OBVIOUS
  <2>2. PICK x \in T : \A y \in T : x <= y
    BY <2>1, LeastExists
  <2>3. x # 1
    BY <1>1, <1>10, <2>2
  <2>4. x - 1 \in 1 .. K /\ x \in 1 .. K /\ ch[x - 1] # 0 /\ tree.node[ch[x - 1]].next = ch[x]
    BY <1>6, <2>2, <2>3
  <2>5. x - 1 \notin T
    BY <2>1, <2>2
  <2>6. LeafAt[x - 1] = ch[x - 1]
    BY <2>4, <2>5
  <2>7. LeafAt[x] = ch[x]
    BY <1>10, <2>3, <2>4, <2>6
  <2> QED
    BY <2>2, <2>7
<1> QED
  BY <1>5, <1>11 DEF K

-----------------------------------------------------------------------------
(* The order of the keys, when none is inserted twice *)

\* span gives each node the keys that are looked for below it.
Spans(t, span) ==
    /\ span \in [Nodes(t) -> SUBSET Nat]
    /\ span[t.root] = Nat
    /\ \A n \in Nodes(t) : \A i \in 1 .. Len(t.node[n].childs) : \A k \in Nat :
          k \in span[t.node[n].childs[i]] <=> k \in span[n] /\ Covers(t.node[n], i, k)
    /\ \A n \in Nodes(t) : Strict(t.node[n].vals)
    /\ \A n \in Nodes(t) : \A i \in 1 .. Len(t.node[n].vals) : t.node[n].vals[i].key \in span[n]

\* The same without the root, for a tree that is a part of another.
Below(t, span) ==
    /\ \A n \in Nodes(t) : span[n] \in SUBSET Nat
    /\ \A n \in Nodes(t) : \A i \in 1 .. Len(t.node[n].childs) : \A k \in Nat :
          k \in span[t.node[n].childs[i]] <=> k \in span[n] /\ Covers(t.node[n], i, k)
    /\ \A n \in Nodes(t) : Strict(t.node[n].vals)
    /\ \A n \in Nodes(t) : \A i \in 1 .. Len(t.node[n].vals) : t.node[n].vals[i].key \in span[n]

LEMMA SpansBelow ==
    ASSUME NEW t, NEW span, Spans(t, span)
    PROVE  Below(t, span) /\ span[t.root] = Nat
  BY DEF Spans, Below

\* The keys of a leaf of the chain are less than those of a later one.
InOrder(span, ch) ==
    \A k, l \in 1 .. Len(ch) : k < l => \A x \in span[ch[k]], y \in span[ch[l]] : x < y

\* A new key keeps the keys of a node different.
LEMMA InsertValueStrict ==
    ASSUME NEW vals \in Seq(Value), NEW kv \in Value, Strict(vals),
           \A i \in 1 .. Len(vals) : vals[i].key # kv.key
    PROVE  Strict(insertValue(vals, kv))
<1> DEFINE b == lower_bound(vals, kv.key)
           w == insertValue(vals, kv)
<1>1. kv.key \in Nat /\ \A i \in 1 .. Len(vals) : vals[i].key \in Nat
  BY ValueFacts DEF Value
<1>2. /\ b \in 1 .. Len(vals) + 1 /\ \A i \in 1 .. b - 1 : vals[i].key < kv.key
      /\ b <= Len(vals) => vals[b].key >= kv.key
  BY <1>1, LowerBoundFacts
<1>3. /\ w \in Seq(Value) /\ Len(w) = Len(vals) + 1 /\ w[b] = kv
      /\ \A i \in 1 .. b - 1 : w[i] = vals[i]
      /\ \A i \in b + 1 .. Len(vals) + 1 : w[i] = vals[i - 1]
  BY InsertValueFacts DEF Inserted
<1> HIDE DEF b, w
<1>4. \A j \in b .. Len(vals) : vals[j].key > kv.key
  <2> TAKE j \in b .. Len(vals)
  <2>1. b \in 1 .. Len(vals) /\ j \in 1 .. Len(vals)
    BY <1>2
  <2>2. b < j => vals[b].key < vals[j].key
    BY <2>1 DEF Strict
  <2>3. vals[b].key > kv.key
    BY <1>1, <1>2, <2>1
  <2> QED
    BY <1>1, <2>1, <2>2, <2>3
<1>5. ASSUME NEW i \in 1 .. Len(w), NEW j \in 1 .. Len(w), i < j
      PROVE  w[i].key < w[j].key
  <2>1. CASE j < b
    <3>1. i \in 1 .. b - 1 /\ j \in 1 .. b - 1 /\ i \in 1 .. Len(vals) /\ j \in 1 .. Len(vals)
      BY <1>2, <1>3, <1>5, <2>1
    <3> QED
      BY <1>3, <1>5, <3>1 DEF Strict
  <2>2. CASE j = b
    <3>1. i \in 1 .. b - 1
      BY <1>2, <1>3, <1>5, <2>2
    <3> QED
      BY <1>1, <1>2, <1>3, <2>2, <3>1
  <2>3. CASE j > b
    <3>1. w[j] = vals[j - 1] /\ j - 1 \in b .. Len(vals) /\ j - 1 \in 1 .. Len(vals)
      BY <1>2, <1>3, <2>3
    <3>2. CASE i < b
      <4>1. w[i] = vals[i] /\ i \in 1 .. Len(vals) /\ i < j - 1
        BY <1>2, <1>3, <1>5, <2>3, <3>2
      <4> QED
        BY <3>1, <4>1 DEF Strict
    <3>3. CASE i = b
      <4>1. vals[j - 1].key > kv.key /\ vals[j - 1].key \in Nat
        BY <1>1, <1>4, <3>1
      <4> QED
        BY <1>1, <1>3, <3>1, <3>3, <4>1
    <3>4. CASE i > b
      <4>1. w[i] = vals[i - 1] /\ i - 1 \in 1 .. Len(vals) /\ i - 1 < j - 1
        BY <1>2, <1>3, <1>5, <2>3, <3>4
      <4> QED
        BY <3>1, <4>1 DEF Strict
    <3> QED
      BY <1>2, <3>2, <3>3, <3>4
  <2> QED
    BY <1>2, <2>1, <2>2, <2>3
<1> QED
  BY <1>5 DEF Strict, w

\* iner_find gets to a leaf and does not leave a set of nodes that has, with a
\* node, its child for the key.
LEMMA DescentStays ==
    ASSUME NEW t, NEW s, Shaped(t, s), NEW span, Below(t, span), NEW key \in Nat,
           NEW W \in SUBSET Nodes(t), t.root \in W,
           \A n \in W : \A i \in 1 .. Len(t.node[n].childs) :
               Covers(t.node[n], i, key) => t.node[n].childs[i] \in W
    PROVE  LET n == iner_find(t, t.root, key).node
           IN  n \in W /\ n \in Nodes(t) /\ t.node[n].is_leaf
<1>1. t \in Tree
  BY DEF Shaped
<1>2. Len(t.node) \in Nat /\ Nodes(t) = 1 .. Len(t.node) /\ 0 \notin Nodes(t)
  BY <1>1, TreeFacts DEF Nodes
<1>3. ASSUME NEW n \in W, ~t.node[n].is_leaf PROVE child_for(t.node[n], key) \in W
  <2>1. Strict(t.node[n].vals)
    BY DEF Below
  <2>2. child_for(t.node[n], key) # 0
    BY <1>3, <2>1, ChildOf
  <2>3. PICK i : Covers(t.node[n], i, key) /\ child_for(t.node[n], key) = t.node[n].childs[i]
    BY <1>3, <2>2, ChildOf
  <2>4. i \in 1 .. Len(t.node[n].childs)
    BY <2>3 DEF Covers
  <2> QED
    BY <2>3, <2>4
<1>4. /\ leaf_for(t, key)[t.root] \in W
      /\ \/ leaf_for(t, key)[t.root] = 0
         \/ leaf_for(t, key)[t.root] \in Nodes(t) /\ t.node[leaf_for(t, key)[t.root]].is_leaf
  <2>1. W \in SUBSET (0 .. Len(t.node))
    BY <1>2
  <2>2. \A n \in W : n # 0 /\ ~t.node[n].is_leaf => child_for(t.node[n], key) \in W
    BY <1>3
  <2> QED
    BY <2>1, <2>2, LeafForFacts
<1>5. iner_find(t, t.root, key).node = leaf_for(t, key)[t.root]
  BY DEF iner_find
<1> QED
  BY <1>2, <1>4, <1>5

\* The leaf is the one whose span has the key: the assertion in insert holds.
LEMMA SpanLeaf ==
    ASSUME NEW t, NEW s, Shaped(t, s), NEW span, Below(t, span),
           NEW key \in Nat, key \in span[t.root]
    PROVE  LET n == iner_find(t, t.root, key).node
           IN  n \in Nodes(t) /\ t.node[n].is_leaf /\ key \in span[n]
<1> DEFINE W == {m \in Nodes(t) : key \in span[m]}
<1>1. Joined(t)
  BY DEF Shaped
<1>2. t.root \in W
  BY <1>1 DEF Joined
<1>3. ASSUME NEW n \in W, NEW i \in 1 .. Len(t.node[n].childs), Covers(t.node[n], i, key)
      PROVE  t.node[n].childs[i] \in W
  <2>1. t.node[n].childs[i] \in Nodes(t)
    BY <1>1 DEF Joined
  <2> QED
    BY <1>3, <2>1 DEF Below
<1>4. W \in SUBSET Nodes(t) /\ \A n \in W : key \in span[n]
  OBVIOUS
<1> HIDE DEF W
<1> QED
  BY <1>2, <1>3, <1>4, DescentStays

LEMMA StoreSpans ==
    ASSUME NEW t, NEW s, Sound(t, s), NEW n \in Nodes(t), t.node[n].is_leaf, NEW kv \in Value,
           NEW u, Stores(t, u, n, kv), NEW span, Spans(t, span), kv.key \in span[n],
           \A i \in 1 .. Len(t.node[n].vals) : t.node[n].vals[i].key # kv.key
    PROVE  Spans(u, span)
<1>1. t \in Tree /\ Sized(t, s) /\ Linked(t)
  BY DEF Sound
<1>2. u.root = t.root /\ Nodes(u) = Nodes(t)
  BY DEF Stores
<1>3. \A m \in Nodes(t) : u.node[m].childs = t.node[m].childs /\ (m # n => u.node[m].vals = t.node[m].vals)
  BY DEF Stores
<1>4. t.node[n].vals \in Seq(Value) /\ t.node[n].childs = <<>>
  BY <1>1, NodeFacts DEF Sized
<1>5. /\ \A m \in Nodes(t) : \A i \in 1 .. Len(t.node[m].childs) : \A k \in Nat :
            k \in span[t.node[m].childs[i]] <=> k \in span[m] /\ Covers(t.node[m], i, k)
      /\ \A m \in Nodes(t) : Strict(t.node[m].vals)
      /\ \A m \in Nodes(t) : \A i \in 1 .. Len(t.node[m].vals) : t.node[m].vals[i].key \in span[m]
  BY DEF Spans
<1>6. ASSUME NEW m \in Nodes(u), NEW i \in 1 .. Len(u.node[m].childs), NEW k \in Nat
      PROVE  k \in span[u.node[m].childs[i]] <=> k \in span[m] /\ Covers(u.node[m], i, k)
  <2>1. u.node[m].childs = t.node[m].childs /\ m \in Nodes(t)
    BY <1>2, <1>3
  <2>2. m # n
    <3> SUFFICES ASSUME m = n PROVE FALSE
      OBVIOUS
    <3>1. Len(u.node[m].childs) = 0
      BY <1>4, <2>1
    <3> QED
      BY <3>1
  <2>3. u.node[m].vals = t.node[m].vals
    BY <1>3, <2>1, <2>2
  <2>4. Covers(u.node[m], i, k) <=> Covers(t.node[m], i, k)
    BY <2>1, <2>3 DEF Covers
  <2> QED
    BY <1>5, <2>1, <2>4
<1>7. Strict(u.node[n].vals)
  <2>1. Strict(insertValue(t.node[n].vals, kv))
    BY <1>4, <1>5, InsertValueStrict
  <2> QED
    BY <2>1 DEF Stores
<1>8. ASSUME NEW m \in Nodes(u), NEW i \in 1 .. Len(u.node[m].vals) PROVE u.node[m].vals[i].key \in span[m]
  <2>1. CASE m # n
    BY <1>2, <1>3, <1>5, <2>1
  <2>2. CASE m = n
    <3>1. KeepsAndAdds(t.node[n].vals, kv, u.node[n].vals)
      <4>0. kv.key \in Nat
        BY DEF Value
      <4>1. lower_bound(t.node[n].vals, kv.key) \in 1 .. Len(t.node[n].vals) + 1
        BY <1>4, <4>0, LowerBoundFacts
      <4>2. Inserted(Value, t.node[n].vals, lower_bound(t.node[n].vals, kv.key), kv, u.node[n].vals)
        BY DEF Stores
      <4> QED
        BY <1>4, <4>1, <4>2, InsertedElements
    <3>2. u.node[n].vals[i] = kv \/ \E j \in 1 .. Len(t.node[n].vals) : u.node[n].vals[i] = t.node[n].vals[j]
      BY <2>2, <3>1 DEF KeepsAndAdds
    <3> QED
      BY <1>5, <2>2, <3>2
  <2> QED
    BY <2>1, <2>2
<1>9. \A m \in Nodes(u) : Strict(u.node[m].vals)
  BY <1>2, <1>3, <1>5, <1>7
<1>10. span \in [Nodes(u) -> SUBSET Nat] /\ span[u.root] = Nat
  BY <1>2 DEF Spans
<1> QED
  BY <1>6, <1>8, <1>9, <1>10 DEF Spans

\* The middle value of a node that is split is between the halves.
LEMMA MidFacts ==
    ASSUME NEW t, NEW n \in Nodes(t), Sound(t, n), NEW span, Spans(t, span)
    PROVE  /\ midle(t.node[n]).key \in Nat /\ midle(t.node[n]).key \in span[n]
           /\ \A i \in 1 .. HalfOf(t, n) : /\ i \in 1 .. Len(t.node[n].vals)
                                           /\ t.node[n].vals[i].key < midle(t.node[n]).key
           /\ \A i \in HalfOf(t, n) + 1 .. Len(t.node[n].vals) :
                 t.node[n].vals[i].key >= midle(t.node[n]).key
           /\ \A i \in 1 .. Len(t.node[n].vals) : t.node[n].vals[i].key \in Nat
           /\ \E x \in span[n] : x \in Nat /\ x < midle(t.node[n]).key
<1> DEFINE s == t.node[n].vals
           h == HalfOf(t, n)
           mid == midle(t.node[n])
<1>1. h \in Nat /\ h >= 1 /\ h + 1 \in 1 .. Len(s) /\ mid = s[h + 1] /\ mid \in Value
  BY FullFacts
<1>2. t \in Tree
  BY DEF Sound
<1>3. s \in Seq(Value) /\ Len(s) \in Nat
  BY <1>2, NodeFacts
<1>4. Strict(s) /\ \A i \in 1 .. Len(s) : s[i].key \in span[n]
  BY DEF Spans
<1> HIDE DEF s, h, mid
<1>5. \A i \in 1 .. Len(s) : s[i].key \in Nat
  BY <1>3, ValueFacts
<1>6. \A i \in 1 .. h : i \in 1 .. Len(s) /\ s[i].key < mid.key
  <2> TAKE i \in 1 .. h
  <2>1. i \in 1 .. Len(s) /\ i < h + 1
    BY <1>1, <1>3
  <2> QED
    BY <1>1, <1>4, <2>1 DEF Strict
<1>7. \A i \in h + 1 .. Len(s) : s[i].key >= mid.key
  <2> TAKE i \in h + 1 .. Len(s)
  <2>1. i \in 1 .. Len(s) /\ (i = h + 1 \/ h + 1 < i)
    BY <1>1, <1>3
  <2>2. CASE i = h + 1
    BY <1>1, <1>5, <2>2
  <2>3. CASE h + 1 < i
    <3>1. s[h + 1].key < s[i].key
      BY <1>1, <1>4, <2>1, <2>3 DEF Strict
    <3> QED
      BY <1>1, <1>5, <2>1, <3>1
  <2> QED
    BY <2>1, <2>2, <2>3
<1>8. \E x \in span[n] : x \in Nat /\ x < mid.key
  <2>1. 1 \in 1 .. h /\ 1 \in 1 .. Len(s)
    BY <1>1, <1>3
  <2>2. s[1].key < mid.key /\ s[1].key \in span[n] /\ s[1].key \in Nat
    BY <1>4, <1>5, <1>6, <2>1
  <2> QED
    BY <2>2
<1>9. mid.key \in Nat /\ mid.key \in span[n]
  BY <1>1, <1>4, <1>5
<1> QED
  BY <1>5, <1>6, <1>7, <1>8, <1>9 DEF s, h, mid

\* The node and the new one share the keys too.
SplitSpan(t, u, n, c, span) ==
    [m \in Nodes(u) |->
        IF m = n THEN {k \in span[n] : k < midle(t.node[n]).key}
        ELSE IF m = c THEN {k \in span[n] : k >= midle(t.node[n]).key}
        ELSE IF m \in Nodes(t) THEN span[m]
        ELSE Nat]

LEMMA SplitSpanFacts ==
    ASSUME NEW t, NEW n \in Nodes(t), Sound(t, n), NEW u, NEW c, NEW p, Splits(t, u, n, c, p),
           NEW span, Spans(t, span)
    PROVE  /\ SplitSpan(t, u, n, c, span) \in [Nodes(u) -> SUBSET Nat]
           /\ SplitSpan(t, u, n, c, span)[u.root] = Nat
           /\ \A k : k \in SplitSpan(t, u, n, c, span)[n] <=> k \in span[n] /\ k < midle(t.node[n]).key
           /\ \A k : k \in SplitSpan(t, u, n, c, span)[c] <=> k \in span[n] /\ k >= midle(t.node[n]).key
           /\ \A m \in Nodes(t) : m # n => SplitSpan(t, u, n, c, span)[m] = span[m]
           /\ \A m \in Nodes(u) \ (Nodes(t) \cup {c}) : SplitSpan(t, u, n, c, span)[m] = Nat
<1> DEFINE f == SplitSpan(t, u, n, c, span)
<1>1. Nodes(u) = Nodes(t) \cup {c, p} /\ c \notin Nodes(t) /\ c # n /\ c # p /\ n # p
      /\ (InRoot(t, u, n, c, p) => p \notin Nodes(t))
  BY SplitNodes
<1>2. span \in [Nodes(t) -> SUBSET Nat] /\ span[t.root] = Nat
  BY DEF Spans
<1>3. f \in [Nodes(u) -> SUBSET Nat]
  BY <1>1, <1>2 DEF SplitSpan
<1>4. /\ \A k : k \in f[n] <=> k \in span[n] /\ k < midle(t.node[n]).key
      /\ \A k : k \in f[c] <=> k \in span[n] /\ k >= midle(t.node[n]).key
      /\ \A m \in Nodes(t) : m # n => f[m] = span[m]
      /\ \A m \in Nodes(u) \ (Nodes(t) \cup {c}) : f[m] = Nat
  BY <1>1 DEF SplitSpan
<1> HIDE DEF f
<1>5. f[u.root] = Nat
  <2>1. CASE InParent(t, u, n, c, p)
    <3>0. 0 \notin Nodes(t)
      BY DEF Nodes
    <3>1. u.root = t.root /\ t.node[n].parent \in Nodes(t) /\ 0 \notin Nodes(t)
      BY <2>1, <3>0 DEF InParent
    <3>2. Linked(t)
      BY DEF Sound
    <3>3. n # t.root /\ t.root \in Nodes(t)
      BY <3>1, <3>2 DEF Linked
    <3> QED
      BY <1>2, <1>4, <3>1, <3>3
  <2>2. CASE InRoot(t, u, n, c, p)
    <3>1. u.root = p
      BY <2>2 DEF InRoot
    <3>2. p \in Nodes(u) \ (Nodes(t) \cup {c})
      BY <1>1, <2>2
    <3> QED
      BY <1>4, <3>1, <3>2
  <2> QED
    BY <2>1, <2>2 DEF Splits
<1> QED
  BY <1>3, <1>4, <1>5 DEF f

\* The middle value goes in front of the child behind the one that was split.
LEMMA PlaceFacts ==
    ASSUME NEW t, NEW n \in Nodes(t), Sound(t, n), NEW u, NEW c, NEW p, Splits(t, u, n, c, p),
           InParent(t, u, n, c, p), NEW span, Spans(t, span)
    PROVE  \E j \in 1 .. Len(t.node[p].vals) + 1 :
              /\ j \in 1 .. Len(t.node[p].childs) /\ t.node[p].childs[j] = n
              /\ j > 1 => t.node[p].vals[j - 1].key < midle(t.node[n]).key
              /\ j <= Len(t.node[p].vals) => midle(t.node[n]).key < t.node[p].vals[j].key
              /\ \A i \in 1 .. Len(t.node[p].vals) : t.node[p].vals[i].key # midle(t.node[n]).key
              /\ Inserted(Value, t.node[p].vals, j, midle(t.node[n]), u.node[p].vals)
              /\ Inserted(Nat, t.node[p].childs, j + 1, c, u.node[p].childs)
              /\ midle(t.node[n]).key \in span[p]
<1> DEFINE s == t.node[p].vals
           mid == midle(t.node[n]).key
<1>0. 0 \notin Nodes(t)
  BY DEF Nodes
<1>1. p = t.node[n].parent /\ p \in Nodes(t) /\ t.node[n].parent # 0
  BY <1>0 DEF InParent
<1>2. Len(t.node[p].childs) = Len(s) + 1 /\ \E j \in 1 .. Len(t.node[p].childs) : t.node[p].childs[j] = n
  BY <1>1, ParentFacts
<1>3. PICK j \in 1 .. Len(t.node[p].childs) : t.node[p].childs[j] = n
  BY <1>2
<1>4. t \in Tree
  BY DEF Sound
<1>5. s \in Seq(Value) /\ Len(s) \in Nat
  BY <1>1, <1>4, NodeFacts
<1>6. j \in 1 .. Len(s) + 1
  BY <1>2, <1>3
<1>7. mid \in Nat /\ mid \in span[n] /\ \E x \in span[n] : x \in Nat /\ x < mid
  BY MidFacts
<1>8. \A k \in Nat : k \in span[n] => k \in span[p] /\ Covers(t.node[p], j, k)
  BY <1>1, <1>3 DEF Spans
<1>9. mid \in span[p] /\ (j <= Len(s) => mid < s[j].key)
  BY <1>7, <1>8 DEF Covers
<1>10. \A i \in 1 .. Len(s) : s[i].key \in Nat
  BY <1>5, ValueFacts
<1>11. j > 1 => s[j - 1].key < mid
  <2>1. PICK x \in span[n] : x \in Nat /\ x < mid
    BY <1>7
  <2>2. j > 1 => s[j - 1].key <= x
    BY <1>8, <2>1 DEF Covers
  <2>3. j > 1 => j - 1 \in 1 .. Len(s)
    BY <1>5, <1>6
  <2> QED
    BY <1>7, <1>10, <2>1, <2>2, <2>3
<1>12. Strict(s)
  BY <1>1 DEF Spans
<1> HIDE DEF s, mid
<1>13. ASSUME NEW i \in 1 .. j - 1 PROVE s[i].key < mid /\ i \in 1 .. Len(s)
  <2>1. i \in 1 .. Len(s) /\ j - 1 \in 1 .. Len(s) /\ j > 1 /\ (i < j - 1 \/ i = j - 1)
    BY <1>5, <1>6
  <2>2. i < j - 1 => s[i].key < s[j - 1].key
    BY <1>12, <2>1 DEF Strict
  <2> QED
    BY <1>7, <1>10, <1>11, <2>1, <2>2
<1>14. ASSUME NEW i \in j .. Len(s) PROVE mid < s[i].key /\ i \in 1 .. Len(s)
  <2>1. i \in 1 .. Len(s) /\ j \in 1 .. Len(s) /\ j <= Len(s) /\ (j < i \/ i = j)
    BY <1>5, <1>6
  <2>2. j < i => s[j].key < s[i].key
    BY <1>12, <2>1 DEF Strict
  <2> QED
    BY <1>7, <1>9, <1>10, <2>1, <2>2
<1>15. \A i \in 1 .. Len(s) : s[i].key # mid
  <2> TAKE i \in 1 .. Len(s)
  <2>1. i \in 1 .. j - 1 \/ i \in j .. Len(s)
    BY <1>6
  <2>2. s[i].key < mid \/ mid < s[i].key
    BY <1>13, <1>14, <2>1
  <2> QED
    BY <1>7, <1>10, <2>2
<1>16. lower_bound(s, mid) = j
  <2>1. \A i \in 1 .. j - 1 : s[i].key < mid
    BY <1>13
  <2>2. j <= Len(s) => s[j].key >= mid
    <3>1. j <= Len(s) => j \in 1 .. Len(s)
      BY <1>6
    <3> QED
      BY <1>7, <1>9, <1>10, <3>1
  <2> QED
    BY <1>5, <1>6, <1>7, <2>1, <2>2, LowerBoundIs
<1>17. Inserted(Value, s, j, midle(t.node[n]), u.node[p].vals)
  <2>1. Inserted(Value, s, lower_bound(s, mid), midle(t.node[n]), u.node[p].vals)
    BY DEF InParent, s, mid
  <2> QED
    BY <1>16, <2>1
<1>18. Inserted(Nat, t.node[p].childs, j + 1, c, u.node[p].childs)
  <2>1. PICK q \in 2 .. Len(t.node[p].childs) + 1 :
          /\ Inserted(Nat, t.node[p].childs, q, c, u.node[p].childs)
          /\ (\A i \in 1 .. Len(s) : s[i].key # mid) => q = lower_bound(s, mid) + 1
    BY DEF InParent, s, mid
  <2> QED
    BY <1>15, <1>16, <2>1
<1> QED
  BY <1>3, <1>6, <1>9, <1>11, <1>15, <1>17, <1>18 DEF s, mid

\* So the childs of the parent share its keys as before.
LEMMA ParentSpans ==
    ASSUME NEW t, NEW n \in Nodes(t), Sound(t, n), NEW u, NEW c, NEW p, Splits(t, u, n, c, p),
           InParent(t, u, n, c, p), NEW span, Spans(t, span)
    PROVE  \A i \in 1 .. Len(u.node[p].childs) : \A k \in Nat :
              k \in SplitSpan(t, u, n, c, span)[u.node[p].childs[i]]
                <=> k \in span[p] /\ Covers(u.node[p], i, k)
<1> DEFINE s == t.node[p].vals
           r == u.node[p].vals
           e == t.node[p].childs
           d == u.node[p].childs
           mid == midle(t.node[n]).key
           f == SplitSpan(t, u, n, c, span)
<1>1. PICK j \in 1 .. Len(s) + 1 :
              /\ j \in 1 .. Len(e) /\ e[j] = n
              /\ j > 1 => s[j - 1].key < mid
              /\ j <= Len(s) => mid < s[j].key
              /\ \A i \in 1 .. Len(s) : s[i].key # mid
              /\ Inserted(Value, s, j, midle(t.node[n]), r)
              /\ Inserted(Nat, e, j + 1, c, d)
              /\ mid \in span[p]
  BY PlaceFacts
<1>2. p \in Nodes(t) /\ t \in Tree /\ Linked(t) /\ Sized(t, n) /\ ~t.node[p].is_leaf
  BY DEF InParent, Sound
<1>3. s \in Seq(Value) /\ e \in Seq(Nat) /\ Len(s) \in Nat /\ Len(e) = Len(s) + 1
  BY <1>2, NodeFacts DEF Sized
<1>4. mid \in Nat /\ \A i \in 1 .. Len(s) : s[i].key \in Nat
  BY <1>3, MidFacts, ValueFacts
<1>5. /\ \A k : k \in f[n] <=> k \in span[n] /\ k < mid
      /\ \A k : k \in f[c] <=> k \in span[n] /\ k >= mid
      /\ \A m \in Nodes(t) : m # n => f[m] = span[m]
  BY SplitSpanFacts
<1>6. \A i \in 1 .. Len(e) : e[i] \in Nodes(t) /\ (i # j => e[i] # n)
  BY <1>1, <1>2 DEF Linked
<1>7. \A i \in 1 .. Len(e) : \A k \in Nat :
        k \in span[e[i]] <=> k \in span[p] /\ Covers(t.node[p], i, k)
  BY <1>2 DEF Spans
<1>8. /\ \A i, k : Covers(t.node[p], i, k) <=> /\ i \in 1 .. Len(e)
                                               /\ i > 1 => s[i - 1].key <= k
                                               /\ i <= Len(s) => k < s[i].key
      /\ \A i, k : Covers(u.node[p], i, k) <=> /\ i \in 1 .. Len(d)
                                               /\ i > 1 => r[i - 1].key <= k
                                               /\ i <= Len(r) => k < r[i].key
  BY DEF Covers
<1>9. /\ Len(r) = Len(s) + 1
      /\ \A i \in 1 .. j - 1 : r[i] = s[i]
      /\ r[j].key = mid
      /\ \A i \in j + 1 .. Len(s) + 1 : r[i] = s[i - 1]
  BY <1>1 DEF Inserted
<1>10. /\ Len(d) = Len(s) + 2
       /\ \A i \in 1 .. j : d[i] = e[i]
       /\ d[j + 1] = c
       /\ \A i \in j + 2 .. Len(s) + 2 : d[i] = e[i - 1]
  <2>1. /\ Len(d) = Len(e) + 1
        /\ \A i \in 1 .. (j + 1) - 1 : d[i] = e[i]
        /\ d[j + 1] = c
        /\ \A i \in (j + 1) + 1 .. Len(e) + 1 : d[i] = e[i - 1]
    BY <1>1 DEF Inserted
  <2>2. (j + 1) - 1 = j /\ (j + 1) + 1 = j + 2 /\ (Len(s) + 1) + 1 = Len(s) + 2
    BY <1>3
  <2> QED
    BY <1>3, <2>1, <2>2
<1>11. j \in 1 .. Len(s) + 1 /\ (j > 1 => s[j - 1].key < mid) /\ (j <= Len(s) => mid < s[j].key)
  BY <1>1
<1> HIDE DEF s, r, e, d, mid, f
<1>12. ASSUME NEW i \in 1 .. Len(d), NEW k \in Nat
       PROVE  k \in f[d[i]] <=> k \in span[p] /\ Covers(u.node[p], i, k)
  <2>1. CASE i < j
    <3>1. i \in 1 .. j /\ i \in 1 .. Len(e) /\ i # j /\ i \in 1 .. j - 1 /\ i <= Len(s) /\ i <= Len(r)
          /\ (i > 1 => i - 1 \in 1 .. j - 1)
      BY <1>3, <1>9, <1>11, <2>1
    <3>2. d[i] = e[i] /\ f[d[i]] = span[e[i]]
      BY <1>5, <1>6, <1>10, <3>1
    <3>3. r[i] = s[i] /\ (i > 1 => r[i - 1] = s[i - 1])
      BY <1>9, <3>1
    <3>4. Covers(t.node[p], i, k) <=> Covers(u.node[p], i, k)
      BY <1>8, <3>1, <3>3
    <3> QED
      BY <1>7, <3>1, <3>2, <3>4
  <2>2. CASE i = j
    <3>1. j \in 1 .. j /\ j \in 1 .. Len(e) /\ j <= Len(r) /\ (j > 1 => j - 1 \in 1 .. j - 1)
      BY <1>3, <1>9, <1>11
    <3>2. d[i] = n /\ (k \in f[d[i]] <=> k \in span[n] /\ k < mid)
      BY <1>1, <1>5, <1>10, <2>2, <3>1
    <3>3. k \in span[n] <=> k \in span[p] /\ Covers(t.node[p], j, k)
      BY <1>1, <1>7, <3>1
    <3>4. Covers(u.node[p], j, k) <=> (j > 1 => s[j - 1].key <= k) /\ k < mid
      BY <1>8, <1>9, <2>2, <3>1
    <3>5. k < mid => (Covers(t.node[p], j, k) <=> (j > 1 => s[j - 1].key <= k))
      <4>1. j <= Len(s) => s[j].key \in Nat /\ mid < s[j].key
        BY <1>4, <1>11
      <4>2. k < mid /\ j <= Len(s) => k < s[j].key
        BY <1>4, <4>1
      <4> QED
        BY <1>8, <3>1, <4>2
    <3> QED
      BY <2>2, <3>2, <3>3, <3>4, <3>5
  <2>3. CASE i = j + 1
    <3>1. j \in 1 .. Len(e) /\ i > 1 /\ i - 1 = j /\ (i <= Len(r) <=> j <= Len(s))
          /\ (j <= Len(s) => j + 1 \in j + 1 .. Len(s) + 1 /\ (j + 1) - 1 = j)
      BY <1>3, <1>9, <1>11, <2>3
    <3>2. d[i] = c /\ (k \in f[d[i]] <=> k \in span[n] /\ k >= mid)
      BY <1>5, <1>10, <2>3
    <3>3. k \in span[n] <=> k \in span[p] /\ Covers(t.node[p], j, k)
      BY <1>1, <1>7, <3>1
    <3>4. j <= Len(s) => r[i] = s[j]
      BY <1>9, <2>3, <3>1
    <3>5. Covers(u.node[p], i, k) <=> mid <= k /\ (j <= Len(s) => k < s[j].key)
      BY <1>8, <1>9, <3>1, <3>4
    <3>6. k >= mid => (Covers(t.node[p], j, k) <=> (j <= Len(s) => k < s[j].key))
      <4>1. j > 1 => s[j - 1].key \in Nat /\ s[j - 1].key < mid
        <5>1. j > 1 => j - 1 \in 1 .. Len(s)
          BY <1>3, <1>11
        <5> QED
          BY <1>4, <1>11, <5>1
      <4>2. k >= mid /\ j > 1 => s[j - 1].key <= k
        BY <1>4, <4>1
      <4> QED
        BY <1>8, <3>1, <4>2
    <3>7. mid <= k <=> k >= mid
      BY <1>4
    <3> QED
      BY <3>2, <3>3, <3>5, <3>6, <3>7
  <2>4. CASE i > j + 1
    <3>1. /\ i \in j + 2 .. Len(s) + 2 /\ i - 1 \in 1 .. Len(e) /\ i - 1 # j /\ i > 1 /\ i - 1 > 1
          /\ i - 1 \in j + 1 .. Len(s) + 1 /\ (i <= Len(r) <=> i - 1 <= Len(s))
          /\ i <= Len(r) => i \in j + 1 .. Len(s) + 1
      BY <1>3, <1>9, <1>10, <1>11, <2>4
    <3>2. d[i] = e[i - 1] /\ f[d[i]] = span[e[i - 1]]
      BY <1>5, <1>6, <1>10, <3>1
    <3>3. r[i - 1] = s[(i - 1) - 1] /\ (i <= Len(r) => r[i] = s[i - 1])
      BY <1>9, <3>1
    <3>4. Covers(t.node[p], i - 1, k) <=> Covers(u.node[p], i, k)
      BY <1>8, <3>1, <3>3
    <3> QED
      BY <1>7, <3>1, <3>2, <3>4
  <2>5. i < j \/ i = j \/ i = j + 1 \/ i > j + 1
    BY <1>11
  <2> QED
    BY <2>1, <2>2, <2>3, <2>4, <2>5
<1> QED
  BY <1>12 DEF d, f

\* The childs of the two halves.
LEMMA HalfSpans ==
    ASSUME NEW t, NEW n \in Nodes(t), Sound(t, n), NEW u, NEW c, NEW p, Splits(t, u, n, c, p),
           NEW span, Spans(t, span), NEW i \in 1 .. ChildHalf(t, n), NEW k \in Nat
    PROVE  /\ k \in SplitSpan(t, u, n, c, span)[u.node[n].childs[i]]
                <=> (k \in SplitSpan(t, u, n, c, span)[n] /\ Covers(u.node[n], i, k))
           /\ k \in SplitSpan(t, u, n, c, span)[u.node[c].childs[i]]
                <=> (k \in SplitSpan(t, u, n, c, span)[c] /\ Covers(u.node[c], i, k))
<1> DEFINE s == t.node[n].vals
           e == t.node[n].childs
           mid == midle(t.node[n]).key
           f == SplitSpan(t, u, n, c, span)
           N == t.N
<1>1. N \in Nat /\ N >= 2
  BY TreeFacts DEF Sound
<1>2. ~t.node[n].is_leaf /\ i \in 1 .. N /\ ChildHalf(t, n) = N /\ HalfOf(t, n) = N - 1
  BY DEF ChildHalf, HalfOf
<1>3. Len(s) = 2 * N - 1 /\ Len(e) = 2 * N /\ midle(t.node[n]) = s[HalfOf(t, n) + 1]
  BY <1>2, FullFacts
<1>4. /\ mid \in Nat
      /\ \A j \in 1 .. HalfOf(t, n) : j \in 1 .. Len(s) /\ s[j].key < mid
      /\ \A j \in HalfOf(t, n) + 1 .. Len(s) : s[j].key >= mid
      /\ \A j \in 1 .. Len(s) : s[j].key \in Nat
  BY MidFacts
<1>5. /\ \A x : x \in f[n] <=> x \in span[n] /\ x < mid
      /\ \A x : x \in f[c] <=> x \in span[n] /\ x >= mid
      /\ \A m \in Nodes(t) : m # n => f[m] = span[m]
  BY SplitSpanFacts
<1>6. \A j \in 1 .. Len(e) : e[j] \in Nodes(t) /\ e[j] # n
  BY Apart
<1>7. \A j \in 1 .. Len(e) : \A x \in Nat : x \in span[e[j]] <=> x \in span[n] /\ Covers(t.node[n], j, x)
  BY DEF Spans
<1>8. /\ Len(u.node[n].vals) = N - 1 /\ Len(u.node[c].vals) = N - 1
      /\ \A j \in 1 .. N - 1 : u.node[n].vals[j] = s[j] /\ u.node[c].vals[j] = s[N + j]
      /\ Len(u.node[n].childs) = N /\ Len(u.node[c].childs) = N
      /\ u.node[n].childs[i] = e[i] /\ u.node[c].childs[i] = e[N + i]
  BY <1>2 DEF Splits, Shared
<1>9. \A j, x : Covers(t.node[n], j, x) <=> /\ j \in 1 .. Len(e)
                                            /\ j > 1 => s[j - 1].key <= x
                                            /\ j <= Len(s) => x < s[j].key
  BY DEF Covers
<1>10. s[N].key = mid
  <2>1. (N - 1) + 1 = N
    BY <1>1
  <2> QED
    BY <1>2, <1>3, <2>1
<1> HIDE DEF s, e, mid, f, N
<1>11. /\ i \in 1 .. Len(e) /\ N + i \in 1 .. Len(e)
       /\ i <= Len(s) /\ N + i > 1 /\ (N + i <= Len(s) <=> i <= N - 1)
       /\ i <= N - 1 => i \in 1 .. N - 1 /\ N + i \in 1 .. Len(s)
       /\ i > 1 => i - 1 \in 1 .. N - 1 /\ N + (i - 1) = (N + i) - 1 /\ (N + i) - 1 \in N .. Len(s)
       /\ i = 1 => (N + i) - 1 = N
       /\ i = N \/ i <= N - 1
       /\ i \in 1 .. Len(s) /\ (N - 1) + 1 = N
  BY <1>1, <1>2, <1>3
<1>12. k \in f[u.node[n].childs[i]] <=> (k \in f[n] /\ Covers(u.node[n], i, k))
  <2>1. k \in f[u.node[n].childs[i]] <=> k \in span[n] /\ Covers(t.node[n], i, k)
    <3>1. i \in 1 .. Len(e) /\ u.node[n].childs[i] = e[i]
      BY <1>8, <1>11
    <3>2. e[i] \in Nodes(t) /\ e[i] # n
      BY <1>6, <3>1
    <3>3. f[e[i]] = span[e[i]]
      BY <1>5, <3>2
    <3>4. k \in span[e[i]] <=> k \in span[n] /\ Covers(t.node[n], i, k)
      BY <1>7, <3>1
    <3> QED
      BY <3>1, <3>3, <3>4
  <2>2. Covers(u.node[n], i, k) <=> /\ i > 1 => s[i - 1].key <= k
                                    /\ i <= N - 1 => k < s[i].key
    <3>1. Covers(u.node[n], i, k) <=> /\ i \in 1 .. N
                                      /\ i > 1 => u.node[n].vals[i - 1].key <= k
                                      /\ i <= N - 1 => k < u.node[n].vals[i].key
      BY <1>8 DEF Covers
    <3> QED
      BY <1>2, <1>8, <1>11, <3>1
  <2>3. Covers(t.node[n], i, k) <=> (i > 1 => s[i - 1].key <= k) /\ k < s[i].key
    BY <1>9, <1>11
  <2>4. k < s[i].key <=> k < mid /\ (i <= N - 1 => k < s[i].key)
    <3>1. CASE i = N
      BY <1>1, <1>10, <3>1
    <3>2. CASE i <= N - 1
      <4>1. s[i].key < mid /\ s[i].key \in Nat
        BY <1>2, <1>4, <1>11, <3>2
      <4> QED
        BY <1>4, <3>2, <4>1
    <3> QED
      BY <1>11, <3>1, <3>2
  <2> QED
    BY <1>5, <2>1, <2>2, <2>3, <2>4
<1>13. k \in f[u.node[c].childs[i]] <=> (k \in f[c] /\ Covers(u.node[c], i, k))
  <2>1. k \in f[u.node[c].childs[i]] <=> k \in span[n] /\ Covers(t.node[n], N + i, k)
    <3>1. N + i \in 1 .. Len(e) /\ u.node[c].childs[i] = e[N + i]
      BY <1>8, <1>11
    <3>2. e[N + i] \in Nodes(t) /\ e[N + i] # n
      BY <1>6, <3>1
    <3>3. f[e[N + i]] = span[e[N + i]]
      BY <1>5, <3>2
    <3>4. k \in span[e[N + i]] <=> k \in span[n] /\ Covers(t.node[n], N + i, k)
      BY <1>7, <3>1
    <3> QED
      BY <3>1, <3>3, <3>4
  <2>2. Covers(u.node[c], i, k) <=> /\ i > 1 => s[(N + i) - 1].key <= k
                                    /\ i <= N - 1 => k < s[N + i].key
    <3>1. Covers(u.node[c], i, k) <=> /\ i \in 1 .. N
                                      /\ i > 1 => u.node[c].vals[i - 1].key <= k
                                      /\ i <= N - 1 => k < u.node[c].vals[i].key
      BY <1>8 DEF Covers
    <3> QED
      BY <1>2, <1>8, <1>11, <3>1
  <2>3. Covers(t.node[n], N + i, k) <=> s[(N + i) - 1].key <= k /\ (i <= N - 1 => k < s[N + i].key)
    BY <1>9, <1>11
  <2>4. s[(N + i) - 1].key <= k <=> k >= mid /\ (i > 1 => s[(N + i) - 1].key <= k)
    <3>1. CASE i = 1
      BY <1>4, <1>10, <1>11, <3>1
    <3>2. CASE i > 1
      <4>1. (N + i) - 1 \in N .. Len(s) /\ (N + i) - 1 \in 1 .. Len(s)
        BY <1>1, <1>11, <3>2
      <4>2. s[(N + i) - 1].key >= mid /\ s[(N + i) - 1].key \in Nat
        BY <1>2, <1>4, <1>11, <4>1
      <4> QED
        BY <1>4, <3>2, <4>2
    <3> QED
      BY <1>2, <3>1, <3>2
  <2> QED
    BY <1>5, <2>1, <2>2, <2>3, <2>4
<1> QED
  BY <1>12, <1>13 DEF f

LEMMA SplitStrict ==
    ASSUME NEW t, NEW n \in Nodes(t), Sound(t, n), NEW u, NEW c, NEW p, Splits(t, u, n, c, p),
           NEW span, Spans(t, span)
    PROVE  \A m \in Nodes(u) :
              /\ Strict(u.node[m].vals)
              /\ \A i \in 1 .. Len(u.node[m].vals) :
                    u.node[m].vals[i].key \in SplitSpan(t, u, n, c, span)[m]
<1> DEFINE s == t.node[n].vals
           h == HalfOf(t, n)
           mid == midle(t.node[n]).key
           f == SplitSpan(t, u, n, c, span)
<1>1. t \in Tree /\ t.N \in Nat /\ t.N >= 2
  BY TreeFacts DEF Sound
<1>2. /\ Nodes(u) = Nodes(t) \cup {c, p} /\ c \notin Nodes(t) /\ c # n /\ c # p /\ n # p
      /\ InRoot(t, u, n, c, p) => p \notin Nodes(t)
  BY SplitNodes
<1>3. h \in Nat /\ ((Len(s) = 2 * t.N /\ h = t.N) \/ (Len(s) = 2 * t.N - 1 /\ h = t.N - 1))
  BY FullFacts DEF HalfOf
<1>4. /\ mid \in Nat /\ mid \in span[n]
      /\ \A i \in 1 .. h : i \in 1 .. Len(s) /\ s[i].key < mid
      /\ \A i \in h + 1 .. Len(s) : s[i].key >= mid
  BY MidFacts
<1>5. /\ \A k : k \in f[n] <=> k \in span[n] /\ k < mid
      /\ \A k : k \in f[c] <=> k \in span[n] /\ k >= mid
      /\ \A m \in Nodes(t) : m # n => f[m] = span[m]
      /\ \A m \in Nodes(u) \ (Nodes(t) \cup {c}) : f[m] = Nat
  BY SplitSpanFacts
<1>6. /\ \A m \in Nodes(t) : Strict(t.node[m].vals)
      /\ \A m \in Nodes(t) : \A i \in 1 .. Len(t.node[m].vals) : t.node[m].vals[i].key \in span[m]
  BY DEF Spans
<1>7. /\ Len(u.node[n].vals) = h /\ Len(u.node[c].vals) = h
      /\ \A i \in 1 .. h : u.node[n].vals[i] = s[i] /\ u.node[c].vals[i] = s[t.N + i]
  BY DEF Splits, Shared
<1>8. Strict(s) /\ \A i \in 1 .. Len(s) : s[i].key \in span[n]
  BY <1>6
<1> HIDE DEF s, h, f
<1>9. \A i \in 1 .. h : i \in 1 .. Len(s) /\ t.N + i \in 1 .. Len(s) /\ t.N + i \in h + 1 .. Len(s)
  BY <1>1, <1>3
<1>10. /\ Strict(u.node[n].vals)
       /\ \A i \in 1 .. Len(u.node[n].vals) : u.node[n].vals[i].key \in f[n]
  <2>1. Strict(u.node[n].vals)
    BY <1>7, <1>8, <1>9 DEF Strict
  <2> QED
    BY <1>4, <1>5, <1>7, <1>8, <1>9, <2>1
<1>11. /\ Strict(u.node[c].vals)
       /\ \A i \in 1 .. Len(u.node[c].vals) : u.node[c].vals[i].key \in f[c]
  <2>1. ASSUME NEW i \in 1 .. h, NEW j \in 1 .. h, i < j
        PROVE  u.node[c].vals[i].key < u.node[c].vals[j].key
    <3>1. t.N + i \in 1 .. Len(s) /\ t.N + j \in 1 .. Len(s) /\ t.N + i < t.N + j
      BY <1>1, <1>3, <1>9, <2>1
    <3>2. s[t.N + i].key < s[t.N + j].key
      BY <1>8, <3>1 DEF Strict
    <3> QED
      BY <1>7, <3>2
  <2>2. Strict(u.node[c].vals)
    BY <1>7, <2>1 DEF Strict
  <2> QED
    BY <1>4, <1>5, <1>7, <1>8, <1>9, <2>2
<1>12. /\ Strict(u.node[p].vals)
       /\ \A i \in 1 .. Len(u.node[p].vals) : u.node[p].vals[i].key \in f[p]
  <2>1. CASE InParent(t, u, n, c, p)
    <3>1. p \in Nodes(t) /\ u.node[p].vals = insertValue(t.node[p].vals, midle(t.node[n]))
      BY <2>1 DEF InParent
    <3>2. t.node[p].vals \in Seq(Value) /\ midle(t.node[n]) \in Value
      BY <1>1, <3>1, NodeFacts, FullFacts
    <3>3. PICK j \in 1 .. Len(t.node[p].vals) + 1 :
             /\ \A i \in 1 .. Len(t.node[p].vals) : t.node[p].vals[i].key # mid
             /\ Inserted(Value, t.node[p].vals, j, midle(t.node[n]), u.node[p].vals)
             /\ mid \in span[p]
      BY <2>1, PlaceFacts
    <3>4. Strict(insertValue(t.node[p].vals, midle(t.node[n])))
      BY <1>6, <3>1, <3>2, <3>3, InsertValueStrict
    <3>5. KeepsAndAdds(t.node[p].vals, midle(t.node[n]), u.node[p].vals)
      BY <3>2, <3>3, InsertedElements
    <3>6. f[p] = span[p]
      BY <1>2, <1>5, <3>1
    <3>7. ASSUME NEW i \in 1 .. Len(u.node[p].vals) PROVE u.node[p].vals[i].key \in f[p]
      <4>1. \/ u.node[p].vals[i] = midle(t.node[n])
            \/ \E j2 \in 1 .. Len(t.node[p].vals) : u.node[p].vals[i] = t.node[p].vals[j2]
        BY <3>5 DEF KeepsAndAdds
      <4> QED
        BY <1>6, <3>1, <3>3, <3>6, <4>1
    <3> QED
      BY <3>1, <3>4, <3>7
  <2>2. CASE InRoot(t, u, n, c, p)
    <3>1. u.node[p].vals = <<midle(t.node[n])>>
      BY <2>2 DEF InRoot
    <3>2. Len(u.node[p].vals) = 1 /\ u.node[p].vals[1] = midle(t.node[n])
      BY <3>1
    <3>3. f[p] = Nat
      BY <1>2, <1>5, <2>2
    <3>4. Strict(u.node[p].vals)
      BY <3>2 DEF Strict
    <3> QED
      BY <1>4, <3>2, <3>3, <3>4
  <2> QED
    BY <2>1, <2>2 DEF Splits
<1>13. ASSUME NEW m \in Nodes(t) \ {n, p}
       PROVE  /\ Strict(u.node[m].vals)
              /\ \A i \in 1 .. Len(u.node[m].vals) : u.node[m].vals[i].key \in f[m]
  <2>1. u.node[m].vals = t.node[m].vals
    BY DEF Splits, Kept
  <2> QED
    BY <1>5, <1>6, <2>1
<1> QED
  BY <1>2, <1>10, <1>11, <1>12, <1>13 DEF f

LEMMA SplitSpans ==
    ASSUME NEW t, NEW n \in Nodes(t), Sound(t, n), NEW u, NEW c, NEW p, Splits(t, u, n, c, p),
           NEW span, Spans(t, span)
    PROVE  Spans(u, SplitSpan(t, u, n, c, span))
<1> DEFINE f == SplitSpan(t, u, n, c, span)
           mid == midle(t.node[n]).key
<1>1. /\ Nodes(u) = Nodes(t) \cup {c, p} /\ c \notin Nodes(t) /\ c # n /\ c # p /\ n # p /\ 0 \notin Nodes(u)
      /\ InRoot(t, u, n, c, p) => p \notin Nodes(t)
  BY SplitNodes
<1>2. /\ f \in [Nodes(u) -> SUBSET Nat] /\ f[u.root] = Nat
      /\ \A k : k \in f[n] <=> k \in span[n] /\ k < mid
      /\ \A k : k \in f[c] <=> k \in span[n] /\ k >= mid
      /\ \A m \in Nodes(t) : m # n => f[m] = span[m]
      /\ \A m \in Nodes(u) \ (Nodes(t) \cup {c}) : f[m] = Nat
  BY SplitSpanFacts
<1>3. \A m \in Nodes(u) : /\ Strict(u.node[m].vals)
                          /\ \A i \in 1 .. Len(u.node[m].vals) : u.node[m].vals[i].key \in f[m]
  BY SplitStrict
<1>4. Linked(t) /\ mid \in Nat /\ span[t.root] = Nat
  BY MidFacts DEF Sound, Spans
<1>5. ASSUME NEW m \in Nodes(u), NEW i \in 1 .. Len(u.node[m].childs), NEW k \in Nat
      PROVE  k \in f[u.node[m].childs[i]] <=> k \in f[m] /\ Covers(u.node[m], i, k)
  <2>1. CASE m = n \/ m = c
    <3>1. i \in 1 .. ChildHalf(t, n)
      BY <2>1 DEF Splits, Shared
    <3> QED
      BY <2>1, <3>1, HalfSpans
  <2>2. CASE m = p /\ InParent(t, u, n, c, p)
    <3>1. f[p] = span[p]
      <4>1. p \in Nodes(t)
        BY <2>2 DEF InParent
      <4> QED
        BY <1>1, <1>2, <4>1
    <3>2. k \in f[u.node[p].childs[i]] <=> k \in span[p] /\ Covers(u.node[p], i, k)
      BY <2>2, ParentSpans
    <3> QED
      BY <2>2, <3>1, <3>2
  <2>3. CASE m = p /\ InRoot(t, u, n, c, p)
    <3>1. f[p] = Nat /\ span[n] = Nat
      BY <1>1, <1>2, <1>4, <2>3 DEF InRoot
    <3>2. u.node[p].vals = <<midle(t.node[n])>> /\ u.node[p].childs = <<n, c>>
      BY <2>3 DEF InRoot
    <3>3. /\ Len(u.node[p].vals) = 1 /\ u.node[p].vals[1] = midle(t.node[n])
          /\ Len(u.node[p].childs) = 2 /\ u.node[p].childs[1] = n /\ u.node[p].childs[2] = c
      BY <3>2
    <3>4. CASE i = 1
      <4>1. Covers(u.node[p], 1, k) <=> k < mid
        BY <3>3 DEF Covers
      <4> QED
        BY <1>2, <2>3, <3>1, <3>3, <3>4, <4>1
    <3>5. CASE i = 2
      <4>1. Covers(u.node[p], 2, k) <=> mid <= k
        BY <3>3 DEF Covers
      <4>2. mid <= k <=> k >= mid
        BY <1>4
      <4> QED
        BY <1>2, <2>3, <3>1, <3>3, <3>5, <4>1, <4>2
    <3>6. i = 1 \/ i = 2
      BY <2>3, <3>3
    <3> QED
      BY <3>4, <3>5, <3>6
  <2>4. CASE m # n /\ m # c /\ m # p
    <3>1. m \in Nodes(t) \ {n, p}
      BY <1>1, <2>4
    <3>2. u.node[m].childs = t.node[m].childs /\ u.node[m].vals = t.node[m].vals
      BY <3>1 DEF Splits, Kept
    <3>3. t.node[m].childs[i] \in Nodes(t) /\ t.node[t.node[m].childs[i]].parent = m
      BY <1>4, <3>1, <3>2 DEF Linked
    <3>4. t.node[m].childs[i] # n
      <4> SUFFICES ASSUME t.node[n].parent = m PROVE FALSE
        BY <3>3
      <4>1. CASE InParent(t, u, n, c, p)
        BY <3>1, <4>1 DEF InParent
      <4>2. CASE InRoot(t, u, n, c, p)
        <5>1. t.node[n].parent = 0
          BY <1>4, <4>2 DEF InRoot, Linked
        <5> QED
          BY <1>1, <5>1
      <4> QED
        BY <4>1, <4>2 DEF Splits
    <3>5. f[u.node[m].childs[i]] = span[t.node[m].childs[i]] /\ f[m] = span[m]
      BY <1>2, <3>1, <3>2, <3>3, <3>4
    <3>6. Covers(u.node[m], i, k) <=> Covers(t.node[m], i, k)
      BY <3>2 DEF Covers
    <3>7. k \in span[t.node[m].childs[i]] <=> k \in span[m] /\ Covers(t.node[m], i, k)
      BY <3>1, <3>2 DEF Spans
    <3> QED
      BY <3>5, <3>6, <3>7
  <2> QED
    BY <2>1, <2>2, <2>3, <2>4 DEF Splits
<1> HIDE DEF f, mid
<1>6. Spans(u, f)
  BY <1>2, <1>3, <1>5 DEF Spans
<1> QED
  BY <1>6 DEF f

\* The new leaf has the keys between the one that was split and the next.
LEMMA LeafSplitInOrder ==
    ASSUME NEW t, NEW n \in Nodes(t), Sound(t, n), NEW u, NEW c, NEW p, Splits(t, u, n, c, p),
           NEW span, Spans(t, span), NEW ch, Chain(t, ch), InOrder(span, ch),
           NEW k \in 1 .. Len(ch), ch[k] = n, NEW d, Inserted(Nat, ch, k + 1, c, d)
    PROVE  InOrder(SplitSpan(t, u, n, c, span), d)
<1> DEFINE f == SplitSpan(t, u, n, c, span)
           mid == midle(t.node[n]).key
           Old(i) == IF i <= k THEN i ELSE i - 1
<1>1. /\ \A x : x \in f[n] <=> x \in span[n] /\ x < mid
      /\ \A x : x \in f[c] <=> x \in span[n] /\ x >= mid
      /\ \A m \in Nodes(t) : m # n => f[m] = span[m]
  BY SplitSpanFacts
<1>2. span \in [Nodes(t) -> SUBSET Nat] /\ mid \in Nat
  BY MidFacts DEF Spans
<1>3. Len(ch) \in Nat /\ \A i \in 1 .. Len(ch) : ch[i] \in Nodes(t)
  BY DEF Chain
<1>4. /\ Len(d) = Len(ch) + 1
      /\ \A i \in 1 .. k : d[i] = ch[i]
      /\ d[k + 1] = c
      /\ \A i \in k + 2 .. Len(ch) + 1 : d[i] = ch[i - 1]
  <2>1. /\ Len(d) = Len(ch) + 1
        /\ \A i \in 1 .. (k + 1) - 1 : d[i] = ch[i]
        /\ d[k + 1] = c
        /\ \A i \in (k + 1) + 1 .. Len(ch) + 1 : d[i] = ch[i - 1]
    BY DEF Inserted
  <2>2. (k + 1) - 1 = k /\ (k + 1) + 1 = k + 2
    OBVIOUS
  <2> QED
    BY <2>1, <2>2
<1>5. \A i, j \in 1 .. Len(ch) : i < j => \A x \in span[ch[i]], y \in span[ch[j]] : x < y
  BY DEF InOrder
<1> HIDE DEF f, mid
<1>6. ASSUME NEW m \in Nodes(t), NEW x \in f[m] PROVE x \in span[m]
  BY <1>1, <1>6
<1>7. ASSUME NEW i \in 1 .. Len(d), NEW x \in f[d[i]]
      PROVE  Old(i) \in 1 .. Len(ch) /\ x \in span[ch[Old(i)]]
  <2>1. CASE i <= k
    <3>1. i \in 1 .. k /\ i \in 1 .. Len(ch) /\ Old(i) = i
      BY <1>3, <2>1
    <3> QED
      BY <1>3, <1>4, <1>6, <1>7, <3>1
  <2>2. CASE i = k + 1
    <3>1. Old(i) = k
      BY <2>2
    <3> QED
      BY <1>1, <1>4, <1>7, <2>2, <3>1
  <2>3. CASE i > k + 1
    <3>1. i \in k + 2 .. Len(ch) + 1 /\ i - 1 \in 1 .. Len(ch) /\ Old(i) = i - 1
      BY <1>3, <1>4, <2>3
    <3>2. d[i] = ch[i - 1] /\ ch[i - 1] \in Nodes(t)
      BY <1>3, <1>4, <3>1
    <3> QED
      BY <1>6, <1>7, <3>1, <3>2
  <2>4. i <= k \/ i = k + 1 \/ i > k + 1
    BY <1>3
  <2> QED
    BY <2>1, <2>2, <2>3, <2>4
<1>8. ASSUME NEW i \in 1 .. Len(d), NEW j \in 1 .. Len(d), i < j, NEW x \in f[d[i]], NEW y \in f[d[j]]
      PROVE  x < y
  <2>1. Old(i) \in 1 .. Len(ch) /\ x \in span[ch[Old(i)]] /\ Old(j) \in 1 .. Len(ch) /\ y \in span[ch[Old(j)]]
    <3> HIDE DEF Old
    <3> QED
      BY <1>7
  <2>2. (i = k /\ j = k + 1) \/ Old(i) < Old(j)
    BY <1>8
  <2>3. CASE Old(i) < Old(j)
    <3> HIDE DEF Old
    <3> QED
      BY <1>5, <2>1, <2>3
  <2>4. CASE i = k /\ j = k + 1
    <3>0. k \in 1 .. k
      OBVIOUS
    <3>1. d[i] = n /\ d[j] = c
      BY <1>4, <2>4, <3>0
    <3>2. x \in span[n] /\ x < mid /\ y \in span[n] /\ y >= mid
      BY <1>1, <1>8, <3>1
    <3>3. x \in Nat /\ y \in Nat
      BY <1>2, <3>2
    <3> QED
      BY <1>2, <3>2, <3>3
  <2> QED
    BY <2>2, <2>3, <2>4
<1>9. InOrder(f, d)
  <2> HIDE DEF Old
  <2> QED
    BY <1>8 DEF InOrder
<1> QED
  BY <1>9 DEF f

LEMMA InteriorSplitInOrder ==
    ASSUME NEW t, NEW n \in Nodes(t), Sound(t, n), NEW u, NEW c, NEW p, Splits(t, u, n, c, p),
           NEW span, Spans(t, span), NEW ch, Chain(t, ch), InOrder(span, ch), ~t.node[n].is_leaf
    PROVE  InOrder(SplitSpan(t, u, n, c, span), ch)
<1>1. \A m \in Nodes(t) : m # n => SplitSpan(t, u, n, c, span)[m] = span[m]
  BY SplitSpanFacts
<1>2. \A i \in 1 .. Len(ch) : ch[i] \in Nodes(t) /\ ch[i] # n
  BY DEF Chain
<1>3. \A i \in 1 .. Len(ch) : SplitSpan(t, u, n, c, span)[ch[i]] = span[ch[i]]
  BY <1>1, <1>2
<1> QED
  BY <1>3 DEF InOrder

-----------------------------------------------------------------------------
(* What the steps keep *)

\* No key has a second copy.
Single(g) == \A v \in g : v.copy <= 1

Ordered(t, g) ==
    \E ch : Chain(t, ch) /\ (Single(g) => \E span : Spans(t, span) /\ InOrder(span, ch))

Filled(t, g) == Numbered(g) /\ Stored(t, g) /\ SortedNodes(t) /\ Ordered(t, g)

LEMMA SplitOrdered ==
    ASSUME NEW t, NEW n \in Nodes(t), Sound(t, n), NEW u, NEW c, NEW p, Splits(t, u, n, c, p),
           NEW g, Ordered(t, g)
    PROVE  Ordered(u, g)
<1>1. PICK ch : Chain(t, ch) /\ (Single(g) => \E span : Spans(t, span) /\ InOrder(span, ch))
  BY DEF Ordered
<1>2. CASE t.node[n].is_leaf
  <2>1. PICK d : \E k \in 1 .. Len(ch) : ch[k] = n /\ Inserted(Nat, ch, k + 1, c, d) /\ Chain(u, d)
    BY <1>1, <1>2, LeafSplitChain
  <2>2. PICK k \in 1 .. Len(ch) : ch[k] = n /\ Inserted(Nat, ch, k + 1, c, d) /\ Chain(u, d)
    BY <2>1
  <2>3. ASSUME Single(g) PROVE \E span : Spans(u, span) /\ InOrder(span, d)
    <3>1. PICK span : Spans(t, span) /\ InOrder(span, ch)
      BY <1>1, <2>3
    <3>2. Spans(u, SplitSpan(t, u, n, c, span))
      BY <3>1, SplitSpans
    <3>3. InOrder(SplitSpan(t, u, n, c, span), d)
      BY <1>1, <2>2, <3>1, LeafSplitInOrder
    <3> QED
      BY <3>2, <3>3
  <2> QED
    BY <2>2, <2>3 DEF Ordered
<1>3. CASE ~t.node[n].is_leaf
  <2>1. Chain(u, ch)
    BY <1>1, <1>3, InteriorSplitChain
  <2>2. ASSUME Single(g) PROVE \E span : Spans(u, span) /\ InOrder(span, ch)
    <3>1. PICK span : Spans(t, span) /\ InOrder(span, ch)
      BY <1>1, <2>2
    <3>2. Spans(u, SplitSpan(t, u, n, c, span))
      BY <3>1, SplitSpans
    <3>3. InOrder(SplitSpan(t, u, n, c, span), ch)
      BY <1>1, <1>3, <3>1, InteriorSplitInOrder
    <3> QED
      BY <3>2, <3>3
  <2> QED
    BY <2>1, <2>2 DEF Ordered
<1> QED
  BY <1>2, <1>3

LEMMA StoreOrdered ==
    ASSUME NEW t, Sound(t, 0), NEW kv \in Value, NEW n, n = iner_find(t, t.root, kv.key).node,
           n \in Nodes(t), t.node[n].is_leaf, NEW u, Stores(t, u, n, kv),
           NEW g \in SUBSET Value, IsFiniteSet(g), kv.copy = CopiesOf(g, kv.key) + 1,
           Stored(t, g), Ordered(t, g)
    PROVE  Ordered(u, g \cup {kv})
<1>1. PICK ch : Chain(t, ch) /\ (Single(g) => \E span : Spans(t, span) /\ InOrder(span, ch))
  BY DEF Ordered
<1>2. Chain(u, ch)
  BY <1>1, StoreChain
<1>3. ASSUME Single(g \cup {kv}) PROVE \E span : Spans(u, span) /\ InOrder(span, ch)
  <2>1. Single(g)
    BY <1>3 DEF Single
  <2>2. PICK span : Spans(t, span) /\ InOrder(span, ch)
    BY <1>1, <2>1
  <2>3. kv.key \in Nat
    BY DEF Value
  <2>4. kv.key \in span[n]
    BY <2>2, <2>3, SpanLeaf, SpansBelow, SoundShaped
  <2>5. \A v \in g : v.key # kv.key
    <3> DEFINE same == {v \in g : v.key = kv.key}
    <3>1. kv.copy <= 1
      BY <1>3 DEF Single
    <3>2. IsFiniteSet(same)
      BY FS_Subset
    <3>3. Cardinality(same) \in Nat /\ kv.copy = Cardinality(same) + 1
      BY <3>2, FS_CardinalityType DEF CopiesOf
    <3>4. Cardinality(same) = 0
      BY <3>1, <3>3
    <3>5. same = {}
      BY <3>2, <3>4, FS_EmptySet
    <3> QED
      BY <3>5
  <2>6. \A i \in 1 .. Len(t.node[n].vals) : t.node[n].vals[i].key # kv.key
    <3> TAKE i \in 1 .. Len(t.node[n].vals)
    <3>1. Holds(t, n, i, t.node[n].vals[i])
      BY DEF Holds
    <3>2. t.node[n].vals[i] \in g
      BY <3>1 DEF Stored
    <3> QED
      BY <2>5, <3>2
  <2>7. Spans(u, span)
    BY <2>2, <2>4, <2>6, StoreSpans
  <2> QED
    BY <2>2, <2>7
<1> QED
  BY <1>2, <1>3 DEF Ordered

LEMMA FilledInit ==
    ASSUME NEW k \in Nat \ {0, 1}
    PROVE  Filled(init_cache(k), {})
<1> DEFINE t == init_cache(k)
           ch == <<1>>
           span == [m \in {1} |-> Nat]
<1>1. /\ Nodes(t) = {1} /\ t.root = 1 /\ t.node[1].vals = <<>> /\ t.node[1].childs = <<>>
  BY InitFacts
<1>2. Chain(t, ch)
  BY InitChain
<1>3. Len(ch) = 1
  OBVIOUS
<1> HIDE DEF t, ch
<1>4. Len(t.node[1].vals) = 0 /\ Len(t.node[1].childs) = 0
  BY <1>1
<1>5. \A n, i, v : ~Holds(t, n, i, v)
  BY <1>1, <1>4 DEF Holds
<1>6. Stored(t, {}) /\ Numbered({})
  BY <1>5 DEF Stored, Numbered
<1>7. SortedNodes(t)
  BY <1>1, <1>4 DEF SortedNodes, Ascending
<1>8. Spans(t, span)
  <2>1. span \in [{1} -> SUBSET Nat] /\ span[1] = Nat
    OBVIOUS
  <2> HIDE DEF span
  <2>2. Strict(t.node[1].vals)
    BY <1>4 DEF Strict
  <2> QED
    BY <1>1, <1>4, <2>1, <2>2 DEF Spans
<1>9. InOrder(span, ch)
  BY <1>3 DEF InOrder
<1> HIDE DEF span
<1>10. Ordered(t, {})
  BY <1>2, <1>8, <1>9 DEF Ordered
<1> QED
  BY <1>6, <1>7, <1>10 DEF Filled, t

\* insert() has ended in the middle of the split of a root: the tree is the one
\* this split was to make, without its root.
Torn ==
    /\ status = "torn"
    /\ given \in SUBSET Value /\ IsFiniteSet(given)
    /\ \E u, n, c, s : Sound(u, s) /\ Filled(u, given) /\ Cut(tree, u, n, c)

\* The inductive invariant.
TreeInv == (Steady /\ Filled(tree, given)) \/ Torn

\* Splitting a node of a tree that is filled.
LEMMA SplitFilled ==
    ASSUME NEW t, NEW n \in Nodes(t), Sound(t, n), NEW u, NEW c, NEW p, Splits(t, u, n, c, p),
           NEW g, g \in SUBSET Value, Filled(t, g)
    PROVE  Filled(u, g)
<1>1. Numbered(g) /\ Stored(t, g) /\ SortedNodes(t) /\ Ordered(t, g)
  BY DEF Filled
<1>2. Stored(u, g)
  BY <1>1, SplitStored
<1>3. SortedNodes(u)
  BY <1>1, SplitSorted
<1>4. Ordered(u, g)
  BY <1>1, SplitOrdered
<1> QED
  BY <1>1, <1>2, <1>3, <1>4 DEF Filled

LEMMA FilledAlways == Spec => []TreeInv
<1>1. Init => TreeInv
  <2> SUFFICES ASSUME Init PROVE TreeInv
    OBVIOUS
  <2>1. work.N \in Nat \ {0, 1}
    BY WorkloadsAssumption DEF Init
  <2>2. Filled(tree, given)
    BY <2>1, FilledInit DEF Init
  <2> QED
    BY <2>2, SteadyInit DEF TreeInv
<1>2. TreeInv /\ [Next]_vars => TreeInv'
  <2> SUFFICES ASSUME TreeInv, [Next]_vars PROVE TreeInv'
    OBVIOUS
  <2>1. CASE UNCHANGED vars
    BY <2>1 DEF vars, TreeInv, Steady, Torn
  <2>2. CASE Torn /\ Next
    BY <2>2 DEF Torn, Next, Insert, Split
  <2>3. CASE Steady /\ Filled(tree, given) /\ Next
    <3>1. /\ Numbered(given) /\ Stored(tree, given) /\ SortedNodes(tree) /\ Ordered(tree, given)
          /\ tree \in Tree /\ Sound(tree, splitting) /\ given \in SUBSET Value /\ IsFiniteSet(given)
      BY <2>3 DEF Filled, Steady, Sound
    <3>2. ASSUME NEW n, NEW kv, Inserts(n, kv) PROVE Filled(tree', given')
      <4>1. /\ Sound(tree, 0) /\ kv \in Value /\ n = iner_find(tree, tree.root, kv.key).node
            /\ n \in Nodes(tree) /\ tree.node[n].is_leaf /\ Stores(tree, tree', n, kv)
            /\ given' = given \cup {kv}
        BY <3>1, <3>2 DEF Inserts
      <4>2. kv.copy = CopiesOf(given, kv.key) + 1
        BY <3>2 DEF Inserts, Copies, CopiesOf
      <4>3. kv \notin given /\ Numbered(given \cup {kv})
        BY <3>1, <4>1, <4>2, NumberedNext
      <4>4. Stored(tree', given \cup {kv})
        BY <3>1, <4>1, <4>3, StoreStored
      <4>5. SortedNodes(tree')
        BY <3>1, <4>1, StoreSorted
      <4>6. Ordered(tree', given \cup {kv})
        BY <3>1, <4>1, <4>2, StoreOrdered
      <4> QED
        BY <4>1, <4>3, <4>4, <4>5, <4>6 DEF Filled
    <3>3. ASSUME NEW c, NEW p, SplitsTo(c, p) PROVE Filled(tree', given')
      <4>1. splitting \in Nodes(tree) /\ Splits(tree, tree', splitting, c, p) /\ given' = given
        BY <3>3 DEF SplitsTo
      <4> QED
        BY <2>3, <3>1, <4>1, SplitFilled
    <3>4. ASSUME NEW c, NEW p, TearsTo(c, p) PROVE Torn'
      <4>1. PICK u : Splits(tree, u, splitting, c, p) /\ Cut(tree', u, splitting, c)
        BY <3>4 DEF TearsTo
      <4>2. splitting \in Nodes(tree) /\ status' = "torn" /\ given' = given
        BY <3>4 DEF TearsTo
      <4>3. Sound(u, Next2split(u, p)) /\ Filled(u, given)
        BY <2>3, <3>1, <4>1, <4>2, SplitSound, SplitFilled
      <4> QED
        BY <3>1, <4>1, <4>2, <4>3 DEF Torn
    <3>5. CASE \E c, p : TearsTo(c, p)
      BY <3>4, <3>5 DEF TreeInv
    <3>6. CASE ~ \E c, p : TearsTo(c, p)
      <4>1. Steady'
        BY <2>3, <3>6, SteadyNext
      <4>2. Stops \/ (\E n, kv : Inserts(n, kv)) \/ (\E c, p : SplitsTo(c, p))
        BY <2>3, <3>6, Steps
      <4>3. Filled(tree', given')
        BY <2>3, <3>2, <3>3, <4>2 DEF Stops
      <4> QED
        BY <4>1, <4>3 DEF TreeInv
    <3> QED
      BY <3>5, <3>6
  <2> QED
    BY <2>1, <2>2, <2>3 DEF TreeInv
<1> QED
  BY <1>1, <1>2, PTL DEF Spec

LEMMA SingleIs ==
    ASSUME given \in SUBSET Value, IsFiniteSet(given), Distinct
    PROVE  Single(given)
<1> DEFINE more == {v \in given : v.copy > 1}
<1>1. IsFiniteSet(more)
  BY FS_Subset
<1>2. Cardinality(more) = 0
  BY DEF Distinct, Repeats
<1>3. more = {}
  BY <1>1, <1>2, FS_EmptySet
<1>4. \A v \in given : v.copy \in Nat
  BY DEF Value
<1> QED
  BY <1>3, <1>4 DEF Single

-----------------------------------------------------------------------------
(* Balanced *)

LEMMA BalancedHolds == TreeInv => Balanced
<1> DEFINE Parents == \A n \in Nodes(tree) : tree.node[n].parent = 0 <=> n = tree.root \/ Orphan(n)
<1>1. ASSUME NEW s, Shaped(tree, s), status = "ok" => s = 0, Parents PROVE Balanced
  <2>1. DOMAIN tree.node = Nodes(tree)
    BY <1>1, TreeFacts DEF Shaped
  <2> QED
    BY <1>1, <2>1, ShapedBalanced DEF Balanced
<1>2. CASE Steady
  <2>1. Sound(tree, splitting) /\ Shaped(tree, splitting) /\ (status = "ok" => splitting = 0)
    BY <1>2, SoundShaped DEF Steady
  <2>2. Parents
    BY <1>2, <2>1 DEF Sound, Linked, Orphan, Steady
  <2> HIDE DEF Parents
  <2> QED
    BY <1>1, <2>1, <2>2
<1>3. CASE Torn
  <2>1. PICK u, n, c, s : Sound(u, s) /\ Cut(tree, u, n, c)
    BY <1>3 DEF Torn
  <2>2. /\ Shaped(tree, s)
        /\ \A i \in Nodes(tree) : tree.node[i].parent = 0 <=> i \in {n, c}
        /\ tree.root = n /\ c = Len(tree.node)
    BY <2>1, CutShaped
  <2>3. Parents
    BY <1>3, <2>2 DEF Orphan, Torn
  <2> HIDE DEF Parents
  <2> QED
    BY <1>1, <1>3, <2>2, <2>3 DEF Torn
<1> QED
  BY <1>2, <1>3 DEF TreeInv

\* Whatever is inserted, with keys repeated or not, and wherever make_node()
\* throws: no array of a node is overrun, between the inserts no node is full,
\* all but the root are half full, all leaves are at one depth, and every node
\* but the root has a parent, except that an exception in place of a new root
\* leaves the upper half of the old one without.
THEOREM BalancedAlways == Spec => []Balanced
  BY FilledAlways, BalancedHolds, PTL

-----------------------------------------------------------------------------
(* ChainComplete, FindsInserted, and the assertion in insert() *)

\* The leaves and the values in them, without the way to them.
LeavesOrdered(t, g) ==
    \E ch : /\ Chain(t, ch)
            /\ Single(g) => \E span :
                  /\ \A n \in Nodes(t) : \A v \in Range(t.node[n].vals) : v.key \in span[n]
                  /\ InOrder(span, ch)

LeavesHold(t, g) ==
    t \in Tree /\ Stored(t, g) /\ SortedNodes(t) /\ LeavesOrdered(t, g)

LEMMA KeysInSpan ==
    ASSUME NEW t, NEW span, Spans(t, span), NEW n \in Nodes(t), NEW v \in Range(t.node[n].vals),
           t.node[n].vals \in Seq(Value)
    PROVE  v.key \in span[n]
<1>1. PICK i \in 1 .. Len(t.node[n].vals) : v = t.node[n].vals[i]
  BY DEF Range
<1> QED
  BY <1>1 DEF Spans

LEMMA FilledLeaves ==
    ASSUME NEW t \in Tree, NEW g, Filled(t, g)
    PROVE  LeavesHold(t, g)
<1>1. PICK ch : Chain(t, ch) /\ (Single(g) => \E span : Spans(t, span) /\ InOrder(span, ch))
  BY DEF Filled, Ordered
<1>2. ASSUME Single(g)
      PROVE  \E span : /\ \A n \in Nodes(t) : \A v \in Range(t.node[n].vals) : v.key \in span[n]
                       /\ InOrder(span, ch)
  <2>1. PICK span : Spans(t, span) /\ InOrder(span, ch)
    BY <1>1, <1>2
  <2>2. \A n \in Nodes(t) : t.node[n].vals \in Seq(Value)
    BY NodeFacts
  <2> QED
    BY <2>1, <2>2, KeysInSpan
<1> QED
  BY <1>1, <1>2 DEF LeavesHold, LeavesOrdered, Filled

\* The cut is above the leaves.
LEMMA CutChain ==
    ASSUME NEW t, NEW u, NEW n, NEW c, Cut(t, u, n, c), u \in Tree, NEW ch, Chain(u, ch)
    PROVE  Chain(t, ch)
<1>1. Nodes(u) = Nodes(t) \cup {c + 1} /\ c + 1 \notin Nodes(t) /\ ~u.node[c + 1].is_leaf
  <2>1. ~u.node[c + 1].is_leaf
    BY DEF Cut
  <2> QED
    BY <2>1, CutNodes
<1>2. \A i \in Nodes(t) : /\ t.node[i].is_leaf = u.node[i].is_leaf
                           /\ t.node[i].next = u.node[i].next
  BY DEF Cut
<1>3. \A k \in 1 .. Len(ch) : ch[k] \in Nodes(t)
  BY <1>1 DEF Chain
<1> QED
  BY <1>1, <1>2, <1>3 DEF Chain

LEMMA CutLeaves ==
    ASSUME NEW t, NEW u, NEW n, NEW c, Cut(t, u, n, c), u \in Tree, NEW g, LeavesHold(u, g)
    PROVE  LeavesHold(t, g)
<1>1. Nodes(u) = Nodes(t) \cup {c + 1} /\ c + 1 \notin Nodes(t) /\ ~u.node[c + 1].is_leaf
  <2>1. ~u.node[c + 1].is_leaf
    BY DEF Cut
  <2> QED
    BY <2>1, CutNodes
<1>2. \A i \in Nodes(t) : /\ t.node[i].is_leaf = u.node[i].is_leaf
                           /\ t.node[i].vals = u.node[i].vals
                           /\ t.node[i].next = u.node[i].next
  BY DEF Cut
<1>3. \A m, i, v : Holds(t, m, i, v) <=> Holds(u, m, i, v)
  BY <1>1, <1>2 DEF Holds
<1>4. Stored(u, g) /\ SortedNodes(u)
  BY DEF LeavesHold
<1>5. Stored(t, g)
  <2>1. /\ \A v : v \in g <=> \E m, i : Holds(u, m, i, v)
        /\ \A v, m, i, l, j : Holds(u, m, i, v) /\ Holds(u, l, j, v) => m = l /\ i = j
    BY <1>4 DEF Stored
  <2>2. \A v : v \in g <=> \E m, i : Holds(t, m, i, v)
    BY <1>3, <2>1
  <2>3. \A v, m, i, l, j : Holds(t, m, i, v) /\ Holds(t, l, j, v) => m = l /\ i = j
    BY <1>3, <2>1
  <2> QED
    BY <2>2, <2>3 DEF Stored
<1>6. SortedNodes(t)
  BY <1>1, <1>2, <1>4 DEF SortedNodes
<1>7. PICK ch : /\ Chain(u, ch)
                /\ Single(g) => \E span :
                      /\ \A m \in Nodes(u) : \A v \in Range(u.node[m].vals) : v.key \in span[m]
                      /\ InOrder(span, ch)
  BY DEF LeavesHold, LeavesOrdered
<1>8. Chain(t, ch)
  BY <1>7, CutChain
<1>9. LeavesOrdered(t, g)
  BY <1>1, <1>2, <1>7, <1>8 DEF LeavesOrdered
<1> QED
  BY <1>5, <1>6, <1>9 DEF LeavesHold, Cut

LEMMA TreeInvLeaves ==
    ASSUME TreeInv
    PROVE  LeavesHold(tree, given) /\ given \in SUBSET Value /\ IsFiniteSet(given)
<1>1. CASE Steady /\ Filled(tree, given)
  BY <1>1, FilledLeaves DEF Steady, Sound
<1>2. CASE Torn
  <2>1. PICK u, n, c, s : Sound(u, s) /\ Filled(u, given) /\ Cut(tree, u, n, c)
    BY <1>2 DEF Torn
  <2>2. u \in Tree
    BY <2>1 DEF Sound
  <2> QED
    BY <1>2, <2>1, <2>2, FilledLeaves, CutLeaves DEF Torn
<1> QED
  BY <1>1, <1>2 DEF TreeInv

LEMMA ChainCompleteHolds == TreeInv => ChainComplete
<1> SUFFICES ASSUME TreeInv PROVE ChainComplete
  OBVIOUS
<1>1. /\ tree \in Tree /\ Stored(tree, given) /\ SortedNodes(tree) /\ LeavesOrdered(tree, given)
      /\ given \in SUBSET Value /\ IsFiniteSet(given)
  BY TreeInvLeaves DEF LeavesHold
<1>2. PICK ch : /\ Chain(tree, ch)
                /\ Single(given) => \E span :
                      /\ \A n \in Nodes(tree) : \A v \in Range(tree.node[n].vals) : v.key \in span[n]
                      /\ InOrder(span, ch)
  BY <1>1 DEF LeavesOrdered
<1> DEFINE K == Cardinality(Leaves)
           V(n) == tree.node[n].vals
<1>3. K = Len(ch) /\ \A k \in 1 .. K : LeafAt[k] = ch[k]
  BY <1>1, <1>2, LeafAtIs
<1>4. Leaves = {n \in Nodes(tree) : tree.node[n].is_leaf}
  BY <1>1, TreeFacts DEF Leaves
<1>5. /\ K \in Nat /\ K >= 1
      /\ \A k \in 1 .. K : ch[k] \in Leaves
      /\ \A n \in Leaves : \E k \in 1 .. K : ch[k] = n
      /\ tree.node[ch[K]].next = 0
  <2>1. /\ ch \in Seq(Nat) /\ Len(ch) >= 1
        /\ \A k \in 1 .. Len(ch) : ch[k] \in Leaves
        /\ \A n \in Leaves : \E k \in 1 .. Len(ch) : ch[k] = n
        /\ \A k \in 1 .. Len(ch) : tree.node[ch[k]].next = IF k = Len(ch) THEN 0 ELSE ch[k + 1]
    BY <1>2, <1>4 DEF Chain
  <2>2. Len(ch) \in Nat
    BY <2>1
  <2> HIDE DEF K
  <2> QED
    BY <1>3, <2>1, <2>2
<1> HIDE DEF K
<1>6. \A n \in Leaves : /\ n \in Nodes(tree) /\ tree.node[n].is_leaf
                        /\ V(n) \in Seq(Value) /\ DOMAIN V(n) = 1 .. Len(V(n))
  <2> TAKE n \in Leaves
  <2>1. n \in Nodes(tree) /\ tree.node[n].is_leaf
    BY <1>4
  <2>2. V(n) \in Seq(Value)
    BY <1>1, <2>1, NodeFacts
  <2> QED
    BY <2>1, <2>2
<1>7. {LeafAt[k] : k \in 1 .. K} = Leaves
  BY <1>3, <1>5
<1>8. tree.node[LeafAt[K]].next = 0
  BY <1>3, <1>5
<1>9. given = UNION {Range(V(n)) : n \in Leaves}
  <2>1. \A v : v \in given <=> \E n, i : Holds(tree, n, i, v)
    BY <1>1 DEF Stored
  <2>2. \A v, n, i : Holds(tree, n, i, v) <=> n \in Leaves /\ i \in 1 .. Len(V(n)) /\ V(n)[i] = v
    BY <1>4 DEF Holds
  <2>3. ASSUME NEW v \in given PROVE v \in UNION {Range(V(n)) : n \in Leaves}
    <3>1. PICK n, i : n \in Leaves /\ i \in 1 .. Len(V(n)) /\ V(n)[i] = v
      BY <2>1, <2>2
    <3>2. v \in Range(V(n))
      BY <1>6, <3>1 DEF Range
    <3> QED
      BY <3>1, <3>2
  <2>4. ASSUME NEW n \in Leaves, NEW v \in Range(V(n)) PROVE v \in given
    <3>1. PICK i \in 1 .. Len(V(n)) : V(n)[i] = v
      BY <1>6, <2>4 DEF Range
    <3> QED
      BY <2>1, <2>2, <3>1
  <2> QED
    BY <2>3, <2>4
<1>10. ASSUME NEW n \in Leaves, NEW m \in Leaves, NEW i \in DOMAIN V(n), NEW j \in DOMAIN V(m),
              V(n)[i] = V(m)[j]
       PROVE  n = m /\ i = j
  <2>1. Holds(tree, n, i, V(n)[i]) /\ Holds(tree, m, j, V(n)[i])
    BY <1>6, <1>10 DEF Holds
  <2> QED
    BY <1>1, <2>1 DEF Stored
<1>11. ASSUME NEW n \in Leaves, NEW i \in DOMAIN V(n), NEW j \in DOMAIN V(n), i < j
       PROVE  V(n)[i].key <= V(n)[j].key
  <2>1. Ascending(V(n))
    BY <1>1, <1>6 DEF SortedNodes
  <2> QED
    BY <1>6, <1>11, <2>1 DEF Ascending
<1>12. ASSUME Distinct, NEW k \in 1 .. K, NEW l \in 1 .. K, k < l,
              NEW v \in Range(V(LeafAt[k])), NEW w \in Range(V(LeafAt[l]))
       PROVE  v.key < w.key
  <2>1. PICK span : /\ \A n \in Nodes(tree) : \A x \in Range(tree.node[n].vals) : x.key \in span[n]
                    /\ InOrder(span, ch)
    BY <1>1, <1>2, <1>12, SingleIs
  <2>2. LeafAt[k] = ch[k] /\ LeafAt[l] = ch[l] /\ ch[k] \in Leaves /\ ch[l] \in Leaves
    BY <1>3, <1>5
  <2>3. v.key \in span[ch[k]] /\ w.key \in span[ch[l]]
    BY <1>6, <1>12, <2>1, <2>2
  <2> QED
    BY <1>3, <1>12, <2>1, <2>3 DEF InOrder
<1>13. /\ \A n, m \in Leaves : \A i \in DOMAIN V(n), j \in DOMAIN V(m) :
             V(n)[i] = V(m)[j] => n = m /\ i = j
       /\ \A n \in Leaves : \A i, j \in DOMAIN V(n) : i < j => V(n)[i].key <= V(n)[j].key
       /\ Distinct => \A k, l \in 1 .. K : k < l =>
             \A v \in Range(V(LeafAt[k])), w \in Range(V(LeafAt[l])) : v.key < w.key
  BY <1>10, <1>11, <1>12
<1> QED
  BY <1>7, <1>8, <1>9, <1>13 DEF ChainComplete, K

\* Whatever is inserted, and wherever make_node() throws: the chain of the
\* leaves reaches every leaf, and the leaves hold every value inserted, each at
\* one place and sorted; with distinct keys the whole chain is sorted.
THEOREM ChainCompleteAlways == Spec => []ChainComplete
  BY FilledAlways, ChainCompleteHolds, PTL

\* The search gets to the value that is stored under a key the root is for.
LEMMA FindsValue ==
    ASSUME NEW t, NEW s, Shaped(t, s), NEW span, Below(t, span),
           NEW ch, Chain(t, ch), InOrder(span, ch), NEW g, Stored(t, g),
           NEW v \in g, v \in Value, v.key \in span[t.root]
    PROVE  find(t, v.key) = {v}
<1>1. t \in Tree
  BY DEF Shaped
<1>2. v.key \in Nat
  BY DEF Value
<1> DEFINE n == iner_find(t, t.root, v.key).node
<1>5. n \in Nodes(t) /\ t.node[n].is_leaf /\ v.key \in span[n]
  BY <1>2, SpanLeaf
<1>6. PICK m, i : Holds(t, m, i, v)
  BY DEF Stored
<1>7. m \in Nodes(t) /\ t.node[m].is_leaf /\ i \in 1 .. Len(t.node[m].vals) /\ t.node[m].vals[i] = v
  BY <1>6 DEF Holds
<1>8. v.key \in span[m] /\ Strict(t.node[m].vals)
  BY <1>7 DEF Below
<1>a. iner_find(t, t.root, v.key).pos = IF n = 0 THEN 0 ELSE lower_bound(t.node[n].vals, v.key)
  BY DEF iner_find
<1>b. find(t, v.key) =
         IF n = 0 \/ iner_find(t, t.root, v.key).pos > Len(t.node[n].vals) THEN {}
         ELSE {t.node[n].vals[iner_find(t, t.root, v.key).pos]}
  BY DEF find
<1> HIDE DEF n
<1>9. n = m
  <2>1. PICK k \in 1 .. Len(ch) : ch[k] = n
    BY <1>5 DEF Chain
  <2>2. PICK l \in 1 .. Len(ch) : ch[l] = m
    BY <1>7 DEF Chain
  <2>3. ~(k < l) /\ ~(l < k)
    <3>1. ~(v.key < v.key)
      BY <1>2
    <3> QED
      BY <1>5, <1>8, <2>1, <2>2, <3>1 DEF InOrder
  <2>4. k = l
    BY <2>3
  <2> QED
    BY <2>1, <2>2, <2>4
<1>10. lower_bound(t.node[n].vals, v.key) = i
  <2> DEFINE vals == t.node[n].vals
  <2>1. vals \in Seq(Value) /\ Len(vals) \in Nat
    BY <1>1, <1>5, NodeFacts
  <2>2. i \in 1 .. Len(vals) /\ vals[i] = v /\ Strict(vals)
    BY <1>7, <1>8, <1>9
  <2> HIDE DEF vals
  <2>3. ASSUME NEW j \in 1 .. i - 1 PROVE vals[j].key < v.key
    <3>1. j \in 1 .. Len(vals) /\ j < i
      BY <2>1, <2>2
    <3> QED
      BY <2>2, <3>1 DEF Strict
  <2>4. i \in 1 .. Len(vals) + 1 /\ vals[i].key >= v.key
    BY <1>2, <2>1, <2>2
  <2>5. lower_bound(vals, v.key) = i
    BY <1>2, <2>1, <2>3, <2>4, LowerBoundIs
  <2> QED
    BY <2>5 DEF vals
<1>11. n # 0 /\ ~(i > Len(t.node[n].vals)) /\ t.node[n].vals[i] = v
  <2>1. n # 0
    BY <1>5 DEF Nodes
  <2>2. t.node[n].vals \in Seq(Value)
    BY <1>1, <1>5, NodeFacts
  <2> QED
    BY <1>7, <1>9, <2>1, <2>2
<1> QED
  BY <1>a, <1>b, <1>10, <1>11

\* It finds nothing for a key above all the root is for.
LEMMA FindsNothing ==
    ASSUME NEW t, NEW s, Shaped(t, s), NEW span, Below(t, span),
           NEW key \in Nat, \A k \in span[t.root] : k < key
    PROVE  find(t, key) = {}
<1> DEFINE n == iner_find(t, t.root, key).node
           vals == t.node[n].vals
           W == {m \in Nodes(t) : \A k \in span[m] : k < key}
<1>1. t \in Tree /\ Joined(t)
  BY DEF Shaped
<1>2. t.root \in W
  BY <1>1 DEF Joined
<1>3. ASSUME NEW m \in W, NEW i \in 1 .. Len(t.node[m].childs), Covers(t.node[m], i, key)
      PROVE  t.node[m].childs[i] \in W
  <2>1. t.node[m].childs[i] \in Nodes(t)
    BY <1>1 DEF Joined
  <2>2. ASSUME NEW k \in span[t.node[m].childs[i]] PROVE k < key
    <3>1. k \in Nat
      BY <2>1 DEF Below
    <3>2. k \in span[m]
      BY <3>1 DEF Below
    <3> QED
      BY <3>2
  <2> QED
    BY <2>1, <2>2
<1>4. W \in SUBSET Nodes(t) /\ \A m \in W : \A k \in span[m] : k < key
  OBVIOUS
<1> HIDE DEF W
<1>5. n \in W /\ n \in Nodes(t)
  BY <1>2, <1>3, <1>4, DescentStays
<1>6. vals \in Seq(Value) /\ Len(vals) \in Nat
  BY <1>1, <1>5, NodeFacts
<1>7. \A i \in 1 .. Len(vals) : vals[i].key < key
  BY <1>4, <1>5 DEF Below
<1>8. iner_find(t, t.root, key).pos = IF n = 0 THEN 0 ELSE lower_bound(vals, key)
  BY DEF iner_find
<1>9. find(t, key) = IF n = 0 \/ iner_find(t, t.root, key).pos > Len(vals) THEN {}
                     ELSE {vals[iner_find(t, t.root, key).pos]}
  BY DEF find
<1> HIDE DEF n, vals
<1>10. lower_bound(vals, key) = Len(vals) + 1
  BY <1>6, <1>7, LowerBoundIs
<1> QED
  BY <1>6, <1>8, <1>9, <1>10

\* In the lower half the search is as it was, with the keys below the middle.
LEMMA CutBelow ==
    ASSUME NEW t, NEW u, NEW n, NEW c, Cut(t, u, n, c), NEW s, Sound(u, s),
           NEW span, Spans(u, span)
    PROVE  /\ Below(t, span)
           /\ \E mid \in Nat : \A k \in Nat : k \in span[t.root] <=> k < mid
<1>1. u \in Tree /\ Linked(u) /\ t.root = n /\ Shaped(t, s)
  <2>1. u \in Tree /\ Linked(u)
    BY DEF Sound
  <2> QED
    BY <2>1, CutShaped
<1>2. Nodes(u) = Nodes(t) \cup {c + 1}
  BY <1>1, CutNodes
<1>3. \A i \in Nodes(t) : t.node[i].vals = u.node[i].vals /\ t.node[i].childs = u.node[i].childs
  BY DEF Cut
<1>4. \A i \in Nodes(t) : \A j, k : Covers(t.node[i], j, k) <=> Covers(u.node[i], j, k)
  BY <1>3 DEF Covers
<1>5. Below(u, span) /\ span[c + 1] = Nat
  BY SpansBelow DEF Cut
<1>6. Below(t, span)
  BY <1>2, <1>3, <1>4, <1>5 DEF Below
<1> DEFINE top == u.node[c + 1]
           mid == top.vals[1].key
<1>7. c + 1 \in Nodes(u) /\ top.childs = <<n, c>> /\ Len(top.vals) = 1
  BY <1>2 DEF Cut
<1>8. mid \in Nat
  <2>1. top.vals \in Seq(Value)
    BY <1>1, <1>7, NodeFacts
  <2> QED
    BY <1>7, <2>1, ValueFacts
<1>9. 1 \in 1 .. Len(top.childs) /\ top.childs[1] = n
  BY <1>7
<1>10. \A k \in Nat : k \in span[n] <=> k \in Nat /\ Covers(top, 1, k)
  BY <1>5, <1>7, <1>9 DEF Below
<1>11. \A k \in Nat : Covers(top, 1, k) <=> k < mid
  BY <1>7, <1>9 DEF Covers
<1> QED
  BY <1>1, <1>6, <1>8, <1>10, <1>11

LEMMA FindsInsertedHolds == TreeInv => FindsInserted
<1> SUFFICES ASSUME TreeInv, Distinct, NEW v \in given
             PROVE  find(tree, v.key) = {v} \/ (status = "torn" /\ find(tree, v.key) = {})
  BY DEF FindsInserted
<1>1. v \in Value /\ v.key \in Nat /\ Single(given) /\ Stored(tree, given)
  BY TreeInvLeaves, SingleIs DEF LeavesHold, Value
<1>2. CASE Steady /\ Filled(tree, given)
  <2>1. Sound(tree, splitting) /\ Shaped(tree, splitting)
    BY <1>2, SoundShaped DEF Steady
  <2>2. PICK ch, span : Chain(tree, ch) /\ Spans(tree, span) /\ InOrder(span, ch)
    BY <1>1, <1>2 DEF Filled, Ordered
  <2>3. Below(tree, span) /\ v.key \in span[tree.root]
    BY <1>1, <2>2, SpansBelow
  <2> QED
    BY <1>1, <2>1, <2>2, <2>3, FindsValue
<1>3. CASE Torn
  <2>1. PICK u, n, c, s : Sound(u, s) /\ Filled(u, given) /\ Cut(tree, u, n, c)
    BY <1>3 DEF Torn
  <2>2. PICK ch, span : Chain(u, ch) /\ Spans(u, span) /\ InOrder(span, ch)
    BY <1>1, <2>1 DEF Filled, Ordered
  <2>3. Shaped(tree, s) /\ Below(tree, span) /\ Chain(tree, ch)
    BY <2>1, <2>2, CutShaped, CutBelow, CutChain DEF Sound
  <2>4. PICK mid \in Nat : \A k \in Nat : k \in span[tree.root] <=> k < mid
    BY <2>1, <2>2, CutBelow
  <2>5. CASE v.key < mid
    BY <1>1, <2>2, <2>3, <2>4, <2>5, FindsValue
  <2>6. CASE ~(v.key < mid)
    <3>1. \A k \in span[tree.root] : k < v.key
      <4>1. span[tree.root] \in SUBSET Nat
        BY <2>3 DEF Below, Shaped, Joined
      <4> QED
        BY <1>1, <2>4, <2>6, <4>1
    <3>2. find(tree, v.key) = {}
      BY <1>1, <2>3, <3>1, FindsNothing
    <3> QED
      BY <1>3, <3>2 DEF Torn
  <2> QED
    BY <1>1, <2>5, <2>6
<1> QED
  BY <1>2, <1>3 DEF TreeInv

\* While no key was inserted twice, find() of every key inserted returns its
\* value, after every number of inserts and between any two splits of one.  If
\* make_node() throws in the middle of the split of a root, it returns its value
\* or, for the keys of the upper half, nothing.
THEOREM FindsInsertedAlways == Spec => []FindsInserted
  BY FilledAlways, FindsInsertedHolds, PTL

\* assert(node != nullptr) in insert() holds while no key was inserted twice.
NoAssert == Distinct => status # "assert"

LEMMA NoAssertNext == TreeInv /\ NoAssert /\ [Next]_vars => NoAssert'
<1> SUFFICES ASSUME TreeInv, NoAssert, [Next]_vars, Distinct', status' = "assert" PROVE FALSE
  BY DEF NoAssert
<1>1. given \in SUBSET Value /\ IsFiniteSet(given)
  BY TreeInvLeaves
<1>2. CASE UNCHANGED vars
  BY <1>2 DEF vars, NoAssert, Distinct, Repeats
<1>3. CASE Split
  BY <1>3 DEF Split
<1>4. ASSUME NEW key \in work.keys, Insert(key) PROVE FALSE
  <2>0. Steady /\ Ordered(tree, given)
    BY <1>4 DEF TreeInv, Torn, Insert, Filled
  <2>1. key \in Nat
    BY <2>0, WorkloadsAssumption DEF Steady
  <2>2. status = "ok" /\ given' = given /\ iner_find(tree, tree.root, key).node = 0
    BY <1>4 DEF Insert
  <2>3. Distinct
    BY <2>2 DEF Distinct, Repeats
  <2>4. PICK span : Spans(tree, span)
    BY <1>1, <2>0, <2>3, SingleIs DEF Ordered
  <2>5. Sound(tree, splitting)
    BY <2>0 DEF Steady
  <2>6. iner_find(tree, tree.root, key).node \in Nodes(tree)
    BY <2>1, <2>4, <2>5, SpanLeaf, SpansBelow, SoundShaped
  <2> QED
    BY <2>2, <2>6 DEF Nodes
<1> QED
  BY <1>2, <1>3, <1>4 DEF Next

\* While no key was inserted twice, iner_find() reaches a leaf for every key:
\* insert()'s assert(node != nullptr) holds.  (With repeated keys it can fail.)
THEOREM AssertHolds == Spec => []NoAssert
<1>1. Init => NoAssert
  BY DEF Init, NoAssert
<1> QED
  BY <1>1, NoAssertNext, FilledAlways, PTL DEF Spec
=============================================================================
