------------------------------- MODULE MCBTree -------------------------------
(* Workloads for BTreeInserts: distinct keys in a small tree that grows to *)
(* three levels; distinct keys in arrays that are full when a root that is *)
(* a leaf has been halved, when an interior root is to be halved, and when *)
(* it has been; equal keys in a tree whose nodes hold three of one key,    *)
(* and in an array that is full.                                           *)
EXTENDS BTreeInserts

MCWorkloads == {[N |-> 2, keys |-> 1..12, repeats |-> 0, cache_size |-> 40],
                [N |-> 2, keys |-> 1..4, repeats |-> 0, cache_size |-> 2],
                [N |-> 2, keys |-> 1..8, repeats |-> 0, cache_size |-> 5],
                [N |-> 2, keys |-> 1..8, repeats |-> 0, cache_size |-> 6],
                [N |-> 2, keys |-> 1..5, repeats |-> 4, cache_size |-> 6],
                [N |-> 3, keys |-> 1..2, repeats |-> 14, cache_size |-> 12]}
==============================================================================
