-------------------------------- MODULE Search --------------------------------
(***************************************************************************)
(* find_begin (include/search.h): interpolation search in a sorted array,  *)
(* one turn of the loop a step.  pred compares and delta subtracts, as in  *)
(* test/utils_test.cpp.  Positions count from 1; the product in the middle *)
(* of the loop is taken to fit its type.                                   *)
(***************************************************************************)
EXTENDS Integers, Sequences

CONSTANTS
    MaxLen,         \* bound: elements of the array
    Values          \* the elements, and what is looked for

ASSUME SearchAssumption == MaxLen \in Nat \ {0} /\ Values \subseteq Int

\* Sorted arrays that are not empty: end - 1 is an element.
Arrays ==
    {f \in UNION {[1..n -> Values] : n \in 1..MaxLen} :
        \A i, j \in DOMAIN f : i < j => f[i] <= f[j]}

VARIABLES a, val, low, high, result     \* result 0: not yet returned

searchVars == <<a, val, low, high, result>>

SearchInit ==
    /\ a \in Arrays
    /\ val \in Values
    /\ low = 1
    /\ high = Len(a)
    /\ result = 0

Between == a[low] < val /\ val < a[high]

\* Mutant: counted from the beginning of the array.
mid_begin == 1 + ((val - a[low]) * (high - low)) \div (a[high] - a[low])

mid == low + ((val - a[low]) * (high - low)) \div (a[high] - a[low])

\* Mutant: mid stays in the interval.
Turn_stays ==
    /\ result = 0 /\ Between
    /\ \/ a[mid] < val /\ low' = mid /\ UNCHANGED <<high, result>>
       \/ a[mid] > val /\ high' = mid - 1 /\ UNCHANGED <<low, result>>
       \/ a[mid] = val /\ result' = mid /\ UNCHANGED <<low, high>>
    /\ UNCHANGED <<a, val>>

Turn ==
    /\ result = 0 /\ Between
    /\ \/ a[mid] < val /\ low' = mid + 1 /\ UNCHANGED <<high, result>>
       \/ a[mid] > val /\ high' = mid - 1 /\ UNCHANGED <<low, result>>
       \/ a[mid] = val /\ result' = mid /\ UNCHANGED <<low, high>>
    /\ UNCHANGED <<a, val>>

\* Mutant: only low is compared.
Return_low ==
    /\ result = 0 /\ ~Between
    /\ result' = low
    /\ UNCHANGED <<a, val, low, high>>

\* After the loop: low, or high if only that is the value.
Return ==
    /\ result = 0 /\ ~Between
    /\ result' = IF val # a[low] /\ val = a[high] THEN high ELSE low
    /\ UNCHANGED <<a, val, low, high>>

SearchNext == Turn \/ Return

SearchSpec == SearchInit /\ [][SearchNext]_searchVars

\* The loop of one thread goes on.
LiveSearch == SearchSpec /\ WF_searchVars(SearchNext)

-----------------------------------------------------------------------------
(* Properties *)

\* Interpolation never leaves the interval: all elements the loop and the
\* comparisons after it read exist, and what is returned is one of them.
InBounds ==
    /\ 1 <= low /\ low <= high /\ high <= Len(a)
    /\ result \in 0 .. Len(a)
    /\ result = 0 /\ Between => mid \in low .. high

\* A value that is in the array is found.
Found ==
    result # 0 /\ (\E i \in DOMAIN a : a[i] = val) => a[result] = val

\* The loop ends.
Ends == <>(result # 0)
===============================================================================
