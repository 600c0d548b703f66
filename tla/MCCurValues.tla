----------------------------- MODULE MCCurValues -----------------------------
(* Measurements for CurValues: two ids that take turns; ids that leave a   *)
(* gap in the write window, and measurements of one time, which may end    *)
(* two pages.                                                              *)
EXTENDS CurValues

M(i, t) == [id |-> i, time |-> t, flag |-> 0, source |-> 0]

MCSeries ==
    {{M(0, 1), M(1, 2), M(0, 3), M(1, 4), M(0, 5), M(1, 6)},
     {M(0, 1), M(2, 2), M(1, 4), M(2, 4), M(0, 5)},
     {M(0, 1), M(1, 2), M(2, 2), M(1, 3), M(0, 3)}}
==============================================================================
