-------------------------------- MODULE BTree --------------------------------
(***************************************************************************)
(* trees::BTree<Key, Value, N> (include/btree.hpp): the tree in which a    *)
(* page's Index keeps its records by time.  Its nodes live in an array, in *)
(* the Index's case in a mapped file, and name each other by their         *)
(* position in it; position 0 is not used and stands for "none".           *)
(*                                                                         *)
(* A tree is a value [N, node, root]: N is the order, a node has room for  *)
(* 2N values and 2N childs; node[i] is the i-th node made, so cache_pos is *)
(* Len(node) + 1.  A value in a node is a record with a field key; what    *)
(* else it holds is the user's.  The arrays vals and childs are sequences  *)
(* of length vals_size and childs_size.                                    *)
(***************************************************************************)
EXTENDS Naturals, Sequences, FiniteSets, SequencesExt

\* Node()
NewNode == [is_leaf |-> FALSE, vals |-> <<>>, childs |-> <<>>, parent |-> 0, next |-> 0]

\* init_cache: the first node is a leaf, and the root.
init_cache(n) == [N |-> n, node |-> <<[NewNode EXCEPT !.is_leaf = TRUE]>>, root |-> 1]

\* The first position whose key is not less than key, or the end.
lower_bound(vals, key) ==
    CHOOSE p \in 1 .. Len(vals) + 1 :
        /\ \A i \in 1 .. p - 1 : vals[i].key < key
        /\ p <= Len(vals) => vals[p].key >= key

\* The values from pos on move up.
insert_to_array(array, pos, v) == InsertAt(array, pos, v)

\* Node::insertValue: before the values with an equal key.
insertValue(vals, kv) == insert_to_array(vals, lower_bound(vals, kv.key), kv)

\* Mutant: the new child goes before the one that was split.
insertChild_before(vals, childs, key, c) ==
    IF key = Last(vals).key
    THEN Append(childs, c)
    ELSE insert_to_array(childs, lower_bound(vals, key), c)

\* Node::insertChild, when key has just been inserted in vals: behind it.
insertChild(vals, childs, key, c) ==
    IF key = Last(vals).key
    THEN Append(childs, c)
    ELSE insert_to_array(childs, lower_bound(vals, key) + 1, c)

\* Mutant: one value more fits.
isFull_late(t, nd) == Len(nd.vals) >= 2 * t.N

isFull(t, nd) == Len(nd.vals) + 1 >= 2 * t.N

-----------------------------------------------------------------------------
(* Searching *)

\* The child of an interior node that iner_find goes on with; 0 in the last
\* case, which does not set out_ptr.
child_for(nd, key) ==
    LET lb == lower_bound(nd.vals, key)
        low == IF nd.vals[lb].key # key THEN lb - 1 ELSE lb
    IN  IF key < nd.vals[1].key THEN nd.childs[1]
        ELSE IF key >= Last(nd.vals).key THEN Last(nd.childs)
        ELSE IF key < nd.vals[low + 1].key THEN nd.childs[low + 1]
        ELSE 0

\* The leaf iner_find reaches from each node, or 0.
leaf_for(t, key) ==
    LET from[n \in 0 .. Len(t.node)] ==
            IF n = 0 THEN 0
            ELSE IF t.node[n].is_leaf THEN n
            ELSE from[child_for(t.node[n], key)]
    IN  from

\* iner_find from node n: the leaf for the key and the position of the first
\* value there that is not less, past the end when the result is false.
iner_find(t, n, key) ==
    LET leaf == leaf_for(t, key)[n]
    IN  [node |-> leaf,
         pos |-> IF leaf = 0 THEN 0 ELSE lower_bound(t.node[leaf].vals, key)]

\* find: the values at the position found, none (the code's 0) otherwise.
find(t, key) ==
    LET f == iner_find(t, t.root, key)
        vals == t.node[f.node].vals
    IN  IF f.node = 0 \/ f.pos > Len(vals) THEN {} ELSE {vals[f.pos]}

\* find_node: node was initialised with the root.
find_node(t, key) ==
    LET n == iner_find(t, t.root, key).node IN IF n = 0 THEN t.root ELSE n

-----------------------------------------------------------------------------
(* Inserting *)

\* Mutant: a full node is split without the value.
store_lost(t, n, kv) ==
    IF isFull(t, t.node[n]) THEN t
    ELSE [t EXCEPT !.node[n].vals = insertValue(@, kv)]

\* insert, when iner_find has set the node n: the value goes in, whether the
\* node is full, and to be split then, or not.
store(t, n, kv) == [t EXCEPT !.node[n].vals = insertValue(@, kv)]

\* What split_node makes of node nd, that has the parent p and is followed by
\* the new node c.
midle(nd) == nd.vals[Len(nd.vals) \div 2 + 1]

lower_half(nd, p, c) ==
    [nd EXCEPT !.vals = SubSeq(@, 1, Len(@) \div 2),
               !.childs = SubSeq(@, 1, Len(@) \div 2),
               !.parent = p,
               !.next = c]

\* A leaf keeps the middle value in c, an interior node gives it away.
upper_half(nd, p) ==
    LET first == Len(nd.vals) \div 2 + (IF nd.is_leaf THEN 1 ELSE 2)
        count == Len(nd.childs) \div 2
    IN  [is_leaf |-> nd.is_leaf,
         vals |-> SubSeq(nd.vals, first, Len(nd.vals)),
         childs |-> SubSeq(nd.childs, count + 1, 2 * count),
         parent |-> p,
         next |-> nd.next]

\* The node that gets the middle value: the parent, or a new root, the second
\* node made.
node2insert(t, n) ==
    IF t.node[n].parent # 0 THEN t.node[n].parent ELSE Len(t.node) + 2

\* That node, with the middle value and the child c.
put_to_parent(t, n, c) ==
    LET nd == t.node[n]
        p == t.node[nd.parent]
        pvals == insertValue(p.vals, midle(nd))
    IN  IF nd.parent # 0
        THEN [p EXCEPT !.vals = pvals,
                       !.childs = insertChild(pvals, @, midle(nd).key, c)]
        ELSE [NewNode EXCEPT !.vals = <<midle(nd)>>, !.childs = <<n, c>>]

\* split_node, up to the call of itself when node2insert is full: node c
\* takes the upper half of the values and childs of n and follows it in the
\* chain; node2insert gets the middle value and c.
split(t, n) ==
    LET nd == t.node[n]
        c == Len(t.node) + 1
        p == node2insert(t, n)
    IN  [N |-> t.N,
         node |-> [i \in 1 .. (IF nd.parent # 0 THEN c ELSE p) |->
             CASE i = n -> lower_half(nd, p, c)
               [] i = c -> upper_half(nd, p)
               [] i = p -> put_to_parent(t, n, c)
               [] OTHER -> IF \E j \in Len(nd.childs) \div 2 + 1 .. Len(nd.childs) :
                                   nd.childs[j] = i
                           THEN [t.node[i] EXCEPT !.parent = c]
                           ELSE t.node[i]],
         root |-> IF nd.parent # 0 THEN t.root ELSE p]

\* What split_node has made of a tree with the root n when it asks for the new
\* root, the last node of split: n and c share the values and the childs, and
\* have no parent.
halve(t, n) ==
    LET u == split(t, n)
        c == Len(t.node) + 1
    IN  [N |-> t.N,
         node |-> [i \in 1 .. c |->
             IF i \in {n, c} THEN [u.node[i] EXCEPT !.parent = 0] ELSE u.node[i]],
         root |-> t.root]
==============================================================================
