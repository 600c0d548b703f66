----------------------------- MODULE BTreeInserts -----------------------------
(***************************************************************************)
(* Every sequence of inserts into a BTree, for each workload.  A value is  *)
(* [key, copy]: the copy-th inserted under that key.  insert() is one step *)
(* that stores the value, and one for each node split_node() then splits;  *)
(* no other call comes between them.                                       *)
(***************************************************************************)
EXTENDS BTree

CONSTANT
    Workloads   \* [N, keys, repeats, cache_size]: the order of the tree, the
                \* keys, bound: how many inserts may repeat a key, and the
                \* number of nodes the array has room for

ASSUME WorkloadsAssumption ==
    Workloads \subseteq [N : Nat \ {0, 1}, keys : SUBSET Nat, repeats : Nat, cache_size : Nat]

VARIABLES
    work,       \* the workload
    tree,
    given,      \* the values inserted so far
    status,     \* "ok" between the inserts, "split" in split_node, or how
                \* insert() ended the program: "assert", "threw" when make_node()
                \* threw before split_node changed anything, "torn" when it threw
                \* in the middle of the split of a root
    splitting   \* the node split_node was called for, 0 for none

vars == <<work, tree, given, status, splitting>>

Copies(key) == Cardinality({v \in given : v.key = key})
Repeats == Cardinality({v \in given : v.copy > 1})

Init ==
    /\ work \in Workloads
    /\ tree = init_cache(work.N)
    /\ given = {}
    /\ status = "ok"
    /\ splitting = 0

\* insert(key, val): assert(node != nullptr), then the value goes in, and a
\* node that was full before is split.
Insert(key) ==
    LET kv == [key |-> key, copy |-> Copies(key) + 1]
        n == iner_find(tree, tree.root, key).node
    IN  /\ status = "ok"
        /\ kv.copy = 1 \/ Repeats < work.repeats
        /\ \/ n = 0 /\ status' = "assert" /\ UNCHANGED <<tree, given, splitting>>
           \/ /\ n # 0
              /\ tree' = store(tree, n, kv)
              /\ given' = given \cup {kv}
              /\ IF isFull(tree, tree.node[n])
                 THEN status' = "split" /\ splitting' = n
                 ELSE UNCHANGED <<status, splitting>>
        /\ UNCHANGED work

\* make_node() throws when cache_pos > cache_size, which nobody catches.
make_node_throws(cache_pos) == cache_pos > work.cache_size

\* One call of split_node.  It makes the node c and, at the end, the new root if
\* the node it splits is one; the next call is for the node that got the middle
\* value, if it is full now.
Split ==
    LET u == split(tree, splitting)
        c == Len(tree.node) + 1
        p == node2insert(tree, splitting)
        new_root == tree.node[splitting].parent = 0
    IN  /\ status = "split"
        /\ \/ /\ make_node_throws(c)
              /\ status' = "threw"
              /\ UNCHANGED <<tree, splitting>>
           \/ /\ ~make_node_throws(c) /\ new_root /\ make_node_throws(p)
              /\ status' = "torn"
              /\ tree' = halve(tree, splitting)
              /\ UNCHANGED splitting
           \/ /\ ~make_node_throws(c) /\ ~(new_root /\ make_node_throws(p))
              /\ tree' = u
              /\ IF isFull(u, u.node[p])
                 THEN splitting' = p /\ UNCHANGED status
                 ELSE splitting' = 0 /\ status' = "ok"
        /\ UNCHANGED <<work, given>>

Next == (\E key \in work.keys : Insert(key)) \/ Split
Spec == Init /\ [][Next]_vars

-----------------------------------------------------------------------------
(* Properties *)

Leaves == {n \in DOMAIN tree.node : tree.node[n].is_leaf}

\* The k-th leaf, by next from the one init_cache made, which stays the first;
\* 0 behind the end.
LeafAt[k \in 1 .. Cardinality(Leaves)] ==
    IF k = 1 THEN 1
    ELSE IF LeafAt[k - 1] = 0 THEN 0
    ELSE tree.node[LeafAt[k - 1]].next

\* No key was inserted twice.
Distinct == Repeats = 0

\* The leaves, followed by next from the first one, are all leaves of the
\* tree, and they hold every value inserted, each at one place: no split
\* loses, repeats or unlinks a value, be the keys distinct or not, not even one
\* that ends half way (btree.hpp:260).  A leaf is
\* sorted; with distinct keys so are the leaves, what findInIndex() relies on
\* when it walks from the leaf of `from` to that of `to`.
ChainComplete ==
    LET K == Cardinality(Leaves)
        Vals(n) == tree.node[n].vals
    IN  /\ {LeafAt[k] : k \in 1 .. K} = Leaves
        /\ tree.node[LeafAt[K]].next = 0
        /\ given = UNION {Range(Vals(n)) : n \in Leaves}
        /\ \A n, m \in Leaves : \A i \in DOMAIN Vals(n), j \in DOMAIN Vals(m) :
              Vals(n)[i] = Vals(m)[j] => n = m /\ i = j
        /\ \A n \in Leaves : \A i, j \in DOMAIN Vals(n) :
              i < j => Vals(n)[i].key <= Vals(n)[j].key
        /\ Distinct => \A k, l \in 1 .. K : k < l =>
              \A v \in Range(Vals(LeafAt[k])), w \in Range(Vals(LeafAt[l])) : v.key < w.key

\* With distinct keys, find() of a key that was inserted returns the value
\* inserted under it, whatever splits happened since (btree_test.cpp inserts
\* ascending runs), also after the exception that comes before a split.  After
\* the one in the middle of a root's split find() does not get to the upper half
\* and has no result for its keys, never another value than the one inserted.
FindsInserted ==
    Distinct => \A v \in given :
        find(tree, v.key) = {v} \/ (status = "torn" /\ find(tree, v.key) = {})

Height[n \in DOMAIN tree.node] ==
    IF tree.node[n].is_leaf THEN 0 ELSE 1 + Height[tree.node[n].childs[1]]

\* The upper half of a root whose split ended before there was a new root: the
\* last node made.
Orphan(n) == status = "torn" /\ n = Len(tree.node)

\* The arrays vals[2N] and childs[2N] are never overrun, and between inserts
\* no node is full; but for the root a node is at least half full; an interior
\* node has one child more than values ("size(vals)+1", btree.h), each knows
\* its parent, and all leaves are at one depth.  When make_node() throws at
\* btree.hpp:260 exactly one node besides the root has no parent, and nothing
\* else of this is broken; its other exception leaves a tree that is whole.
Balanced ==
    \A n \in DOMAIN tree.node :
        LET nd == tree.node[n]
        IN  /\ Len(nd.vals) <= 2 * tree.N /\ Len(nd.childs) <= 2 * tree.N
            /\ status = "ok" => Len(nd.vals) < 2 * tree.N
            /\ n # tree.root => Len(nd.vals) + 1 >= tree.N
            /\ ~nd.is_leaf => Len(nd.childs) = Len(nd.vals) + 1
            /\ nd.parent = 0 <=> n = tree.root \/ Orphan(n)
            /\ \A i \in DOMAIN nd.childs :
                  /\ tree.node[nd.childs[i]].parent = n
                  /\ Height[nd.childs[i]] + 1 = Height[n]
==============================================================================
