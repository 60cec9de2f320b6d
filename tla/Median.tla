------------------------------- MODULE Median -------------------------------
(***************************************************************************)
(* median_i64 of firmware/median.c, run to the end on one array: the       *)
(* quickselect nth_element, once or twice, around the partition loop.      *)
(* Arrays are indexed from 0 as in the code.                               *)
(***************************************************************************)
EXTENDS MedianSpec

CONSTANTS
    Value,        \* the sample values
    MaxLen        \* bound on the number of samples (MAX_SAMPLES)

ASSUME MedianAssumption == Value \subseteq Int /\ MaxLen \in Nat

VARIABLES
    input,        \* the array as the caller passed it
    n,            \* its length
    a,            \* the array as it is being rearranged
    median_pc,           \* where the code is
    lo, hi, k,    \* the arguments of nth_element
    pivot, i, j,  \* the locals of partition
    mid,          \* the first middle element, once selected
    second,       \* TRUE during the second nth_element
    result

medianVars == <<input, n, a, median_pc, lo, hi, k, pivot, i, j, mid, second, result>>

Index == 0 .. n - 1

\* swap64.
Swap(x, y) == [a EXCEPT ![x] = a[y], ![y] = a[x]]

\* Slip: the window reaches one past the end.
EnterOnePast ==
    /\ median_pc = "enter"
    /\ IF n = 0
       THEN median_pc' = "done" /\ result' = 0 /\ UNCHANGED <<lo, hi, k>>
       ELSE /\ lo' = 0 /\ hi' = n /\ k' = n \div 2
            /\ median_pc' = "select"
            /\ UNCHANGED result
    /\ UNCHANGED <<input, n, a, pivot, i, j, mid, second>>

\* The call, with nothing to select from an empty array.
Enter ==
    /\ median_pc = "enter"
    /\ IF n = 0
       THEN median_pc' = "done" /\ result' = 0 /\ UNCHANGED <<lo, hi, k>>
       ELSE /\ lo' = 0 /\ hi' = n - 1 /\ k' = n \div 2
            /\ median_pc' = "select"
            /\ UNCHANGED result
    /\ UNCHANGED <<input, n, a, pivot, i, j, mid, second>>

\* The loop of nth_element: a window of one element is sorted.
Select ==
    /\ median_pc = "select"
    /\ IF lo < hi
       THEN pivot' = a[hi] /\ i' = lo /\ j' = lo /\ median_pc' = "partition"
       ELSE median_pc' = "selected" /\ UNCHANGED <<pivot, i, j>>
    /\ UNCHANGED <<input, n, a, lo, hi, k, mid, second, result>>

\* One turn of the loop of partition.
Scan ==
    /\ median_pc = "partition" /\ j < hi
    /\ j' = j + 1
    /\ IF a[j] < pivot THEN a' = Swap(i, j) /\ i' = i + 1
       ELSE UNCHANGED <<a, i>>
    /\ UNCHANGED <<input, n, median_pc, lo, hi, k, pivot, mid, second, result>>

\* Slip: the pivot's place stays in the window.
PlaceKeepPivot ==
    /\ median_pc = "partition" /\ j = hi
    /\ a' = Swap(i, hi)
    /\ \/ i = k /\ median_pc' = "selected" /\ UNCHANGED <<lo, hi>>
       \/ k < i /\ median_pc' = "select" /\ hi' = i /\ UNCHANGED lo
       \/ k > i /\ median_pc' = "select" /\ lo' = i /\ UNCHANGED hi
    /\ UNCHANGED <<input, n, k, pivot, i, j, mid, second, result>>

\* The end of partition: the pivot goes to its final place, and nth_element
\* goes on in the part that holds position k.
Place ==
    /\ median_pc = "partition" /\ j = hi
    /\ a' = Swap(i, hi)
    /\ \/ i = k /\ median_pc' = "selected" /\ UNCHANGED <<lo, hi>>
       \/ k < i /\ median_pc' = "select" /\ hi' = i - 1 /\ UNCHANGED lo
       \/ k > i /\ median_pc' = "select" /\ lo' = i + 1 /\ UNCHANGED hi
    /\ UNCHANGED <<input, n, k, pivot, i, j, mid, second, result>>

\* An odd length is done; an even one selects the element below as well.
FirstSelected ==
    /\ median_pc = "selected" /\ ~second
    /\ mid' = a[n \div 2]
    /\ IF n % 2 = 0
       THEN /\ second' = TRUE /\ lo' = 0 /\ hi' = n - 1 /\ k' = n \div 2 - 1
            /\ median_pc' = "select" /\ UNCHANGED result
       ELSE /\ median_pc' = "done" /\ result' = a[n \div 2]
            /\ UNCHANGED <<second, lo, hi, k>>
    /\ UNCHANGED <<input, n, a, pivot, i, j>>

\* Slip: the sum is shifted right, which rounds down.
SecondSelectedShift ==
    /\ median_pc = "selected" /\ second
    /\ result' = (a[n \div 2 - 1] + mid) \div 2
    /\ median_pc' = "done"
    /\ UNCHANGED <<input, n, a, lo, hi, k, pivot, i, j, mid, second>>

\* The average of the two middle elements.
SecondSelected ==
    /\ median_pc = "selected" /\ second
    /\ result' = Half(a[n \div 2 - 1] + mid)
    /\ median_pc' = "done"
    /\ UNCHANGED <<input, n, a, lo, hi, k, pivot, i, j, mid, second>>

---------------------------------------------------------------------------
MedianInit ==
    /\ n \in 0 .. MaxLen
    /\ input \in [Index -> Value]
    /\ a = input
    /\ median_pc = "enter"
    /\ lo = 0 /\ hi = 0 /\ k = 0
    /\ pivot = 0 /\ i = 0 /\ j = 0
    /\ mid = 0 /\ second = FALSE /\ result = 0

MedianNext == Enter \/ Select \/ Scan \/ Place \/ FirstSelected \/ SecondSelected

MedianRunSpec == MedianInit /\ [][MedianNext]_medianVars

\* Sequential code runs to its end.
MedianFairSpec == MedianRunSpec /\ WF_medianVars(MedianNext)

---------------------------------------------------------------------------
(* Properties *)

MedianTypeOK ==
    /\ n \in Nat
    /\ input \in [Index -> Int]
    /\ a \in [Index -> Int]
    /\ median_pc \in {"enter", "select", "partition", "selected", "done"}
    /\ lo \in Int /\ hi \in Int /\ k \in Int
    /\ pivot \in Int /\ i \in Int /\ j \in Int
    /\ mid \in Int /\ second \in BOOLEAN /\ result \in Int

\* median.c:24-31.  When nth_element returns, position k separates the
\* array: nothing before it is larger and nothing behind it is smaller.
SelectedInPlace ==
    median_pc = "selected" =>
        /\ k \in Index
        /\ \A x \in Index : x < k => a[x] <= a[k]
        /\ \A y \in Index : k < y => a[k] <= a[y]

\* median.c:10-22.  The selection only rearranges the samples.
Rearranged ==
    \E f \in [Index -> Index] :
        /\ \A x, y \in Index : f[x] = f[y] => x = y
        /\ a = [x \in Index |-> input[f[x]]]

\* median.c:14-31.  Every array access is inside the window, and the window
\* inside the array: no index ever wraps below zero or runs past the end.
InBounds ==
    /\ median_pc \in {"select", "partition"} =>
          0 <= lo /\ lo <= k /\ k <= hi /\ hi < n
    /\ median_pc = "partition" => lo <= i /\ i <= j /\ j <= hi

\* median.c:33-44.  The result is the median of the samples passed in.
MedianCorrect ==
    median_pc = "done" => result = MedianOf([x \in 1 .. n |-> input[x - 1]])

\* median.c:24-31.  A call of nth_element terminates on every array: the
\* window shrinks on every turn.
Returns == (median_pc = "select") ~> (median_pc = "done")

=============================================================================
