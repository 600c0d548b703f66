----------------------------- MODULE PageLayout -----------------------------
(***************************************************************************)
(* The bytes of a page (include/page.h, libnkvdb/page.cpp).  Behind the    *)
(* header, records (InternalMeas) grow upwards from the front and values   *)
(* grow downwards from the end.  Page::append stores one more of each as   *)
(* long as isFull() is false; isFull() subtracts positions as unsigned     *)
(* numbers and counts sizeof(Meas) bytes per record, although a record is  *)
(* an InternalMeas and its value has a size of its own.                    *)
(***************************************************************************)
EXTENDS Integers

CONSTANTS
    HeaderSize,     \* sizeof(Page::Header)
    MeasSize,       \* sizeof(Meas), what isFull() reserves for a record
    RecordSize,     \* sizeof(InternalMeas), what a record takes
    ValueSizes,     \* the sizes of the values that are appended
    PageSizes,      \* the sizes given to Page::Create
    Word            \* 2^64 in the code: the modulus of size_t

ASSUME LayoutAssumption ==
    /\ HeaderSize \in Nat
    /\ MeasSize \in Nat \ {0}
    /\ RecordSize \in 1..MeasSize
    /\ ValueSizes \subseteq Nat
    /\ PageSizes \subseteq Nat
    /\ Word \in Nat
    /\ \A f \in PageSizes : HeaderSize + MeasSize <= f /\ f < Word

VARIABLES
    size,               \* header: size in bytes
    write_pos,          \* header: number of records
    write_value_pos     \* header: where the last value begins

vars == <<size, write_pos, write_value_pos>>

\* a - b in size_t
UDiff(a, b) == IF a >= b THEN a - b ELSE a - b + Word

TypeOK ==
    /\ size \in PageSizes
    /\ write_pos \in Nat
    /\ write_value_pos \in 0..(Word - 1)

\* Page::calc_size(n): header + meas + meas_pos
calc_size(n) == HeaderSize + MeasSize * n + 8 * n

\* Page::Create, initHeader
Init ==
    /\ size \in PageSizes
    /\ write_pos = 0
    /\ write_value_pos = size

\* Mutant of isFull: the test that is still there as a comment.
isFullBySize == HeaderSize + MeasSize * write_pos >= size

\* Page::isFull
isFull == UDiff(write_value_pos, HeaderSize + MeasSize * write_pos) < MeasSize

\* Page::append of one element whose value has s bytes.
append(s) ==
    /\ ~isFull
    /\ write_value_pos' = UDiff(write_value_pos, s)
    /\ write_pos' = write_pos + 1
    /\ UNCHANGED size

Next == \E s \in ValueSizes : append(s)

Spec == Init /\ [][Next]_vars

-----------------------------------------------------------------------------
(* Properties *)

\* Records and values never overlap: the records end where the values
\* begin, or before.
NoOverlap == HeaderSize + RecordSize * write_pos <= write_value_pos

\* A page of calc_size(n) takes exactly n records of 8 byte values.
HoldsN ==
    \A n \in 1..size :
        size = calc_size(n) => write_pos <= n /\ (isFull => write_pos = n)
=============================================================================
