------------------------------ MODULE MCQueries ------------------------------
(* Measurements for Queries: ids come back and flags and sources vary;     *)
(* measurements of one time may end a page, begin the next one, or have    *)
(* one id.                                                                 *)
EXTENDS Queries

M(i, t, f, s) == [id |-> i, time |-> t, flag |-> f, source |-> s]

MCSeries ==
    {{M(0, 1, 1, 2), M(1, 2, 1, 1), M(0, 3, 2, 1), M(2, 5, 3, 2), M(1, 5, 2, 1)},
     {M(2, 1, 3, 2), M(1, 1, 2, 2), M(0, 4, 2, 2), M(2, 4, 1, 1)},
     {M(1, 1, 1, 1), M(1, 2, 3, 1), M(2, 2, 2, 2), M(2, 2, 2, 1)}}
==============================================================================
