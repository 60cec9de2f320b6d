---------------------------- MODULE MedianProofs ----------------------------
(***************************************************************************)
(* The quickselect for arrays of every length over all integers: it stays  *)
(* inside the array, only rearranges it, and leaves position k separating  *)
(* it; and the element there is the one that MedianOf defines by counting, *)
(* so that the call returns the median.                                    *)
(***************************************************************************)
EXTENDS Median, FiniteSetTheorems, TLAPS

\* Outside the window everything is already on its side: no element left of
\* the window is larger than one in it or behind it, and none right of the
\* window is smaller than one in it or before it.
WindowSplits ==
    median_pc \in {"select", "partition"} =>
        /\ \A x, y \in Index : x < lo /\ lo <= y => a[x] <= a[y]
        /\ \A x, y \in Index : x <= hi /\ hi < y => a[x] <= a[y]

\* The loop invariant of partition: smaller elements, then the others, then
\* what is still to be looked at, then the pivot.
Partitioned ==
    median_pc = "partition" =>
        /\ pivot = a[hi]
        /\ \A x \in Index : lo <= x /\ x < i => a[x] < pivot
        /\ \A x \in Index : i <= x /\ x < j => a[x] >= pivot

\* k is one of the two middle positions.
Middle ==
    /\ median_pc \in {"select", "partition", "selected"} =>
          n > 0 /\ k = IF second THEN n \div 2 - 1 ELSE n \div 2
    /\ second => n % 2 = 0 /\ n > 1

\* The first selection comes first.
Fresh == median_pc = "enter" => ~second

IInv == MedianTypeOK /\ InBounds /\ WindowSplits /\ Partitioned /\ Middle
        /\ SelectedInPlace /\ Rearranged /\ Fresh

\* Rearranged with its state as parameters, so that equals can be replaced.
IsRearrangement(new, old, D) ==
    \E f \in [D -> D] :
        /\ \A x, y \in D : f[x] = f[y] => x = y
        /\ new = [x \in D |-> old[f[x]]]

\* Swapping two elements of a rearrangement gives a rearrangement.
LEMMA SwapRearranges ==
    ASSUME MedianTypeOK, Rearranged, NEW x \in Index, NEW y \in Index,
           a' = Swap(x, y), input' = input, n' = n
    PROVE  Rearranged' /\ a' \in [Index -> Int]
  <1>1. a \in [Index -> Int] /\ Index' = Index
    BY DEF MedianTypeOK, Index
  <1>2. PICK f \in [Index -> Index] :
           /\ \A u, v \in Index : f[u] = f[v] => u = v
           /\ a = [u \in Index |-> input[f[u]]]
    BY DEF Rearranged
  <1> DEFINE g == [f EXCEPT ![x] = f[y], ![y] = f[x]]
  <1>3. g \in [Index -> Index]
    BY <1>2
  <1>4. \A u, v \in Index : g[u] = g[v] => u = v
    BY <1>2
  <1>5. a' = [u \in Index |-> input[g[u]]]
    BY <1>1, <1>2 DEF Swap
  <1>6. a' \in [Index -> Int]
    BY <1>1 DEF Swap
  <1> HIDE DEF g
  <1>7. \E h \in [Index -> Index] :
           /\ \A u, v \in Index : h[u] = h[v] => u = v
           /\ a' = [u \in Index |-> input[h[u]]]
    BY <1>3, <1>4, <1>5
  <1>8. IsRearrangement(a', input', Index')
    <2>1. IsRearrangement(a', input, Index)
      BY <1>7 DEF IsRearrangement
    <2>2. input' = input
      OBVIOUS
    <2> QED
      BY <1>1, <2>1, <2>2
  <1> QED
    BY <1>6, <1>8 DEF Rearranged, IsRearrangement

\* The array is untouched, so it is still a rearrangement.
LEMMA SameRearranged ==
    ASSUME Rearranged, UNCHANGED <<a, input, n>> PROVE Rearranged'
  <1>1. Index' = Index
    BY DEF Index
  <1> QED
    BY <1>1 DEF Rearranged

\* The caller's array is its own rearrangement.
LEMMA InitInv == MedianInit => IInv
  <1> SUFFICES ASSUME MedianInit PROVE IInv
    OBVIOUS
  <1>1. MedianTypeOK
    <2>1. n \in Nat
      BY MedianAssumption DEF MedianInit
    <2>2. input \in [Index -> Int] /\ a \in [Index -> Int]
      <3>1. input \in [Index -> Value] /\ a = input
        BY DEF MedianInit
      <3>2. Value \subseteq Int
        BY MedianAssumption
      <3> QED
        BY <3>1, <3>2
    <2>3. second \in BOOLEAN
      BY Zenon DEF MedianInit
    <2> QED
      BY <2>1, <2>2, <2>3 DEF MedianInit, MedianTypeOK
  <1>2. Rearranged
    <2> DEFINE f == [x \in Index |-> x]
    <2>1. f \in [Index -> Index] /\ \A x, y \in Index : f[x] = f[y] => x = y
      OBVIOUS
    <2>2. a = [x \in Index |-> input[f[x]]]
      BY DEF MedianInit
    <2> QED
      BY <2>1, <2>2 DEF Rearranged
  <1> QED
    BY <1>1, <1>2 DEF MedianInit, IInv, InBounds, WindowSplits, Partitioned,
       Middle, SelectedInPlace, Fresh

\* One turn of the partition loop.
LEMMA ScanInv == ASSUME IInv, Scan PROVE IInv'
  <1>1. /\ n \in Nat /\ a \in [Index -> Int] /\ lo \in Int /\ hi \in Int
        /\ k \in Int /\ i \in Int /\ j \in Int /\ pivot \in Int
        /\ median_pc = "partition" /\ median_pc' = "partition" /\ j' = j + 1 /\ j < hi
        /\ 0 <= lo /\ lo <= k /\ k <= hi /\ hi < n
        /\ lo <= i /\ i <= j
        /\ UNCHANGED <<input, n, lo, hi, k, pivot, mid, second, result>>
        /\ Index' = Index /\ i \in Index /\ j \in Index /\ hi \in Index
    BY DEF IInv, MedianTypeOK, InBounds, Scan, Index
  <1>2. /\ \A x, y \in Index : x < lo /\ lo <= y => a[x] <= a[y]
        /\ \A x, y \in Index : x <= hi /\ hi < y => a[x] <= a[y]
        /\ pivot = a[hi]
        /\ \A x \in Index : lo <= x /\ x < i => a[x] < pivot
        /\ \A x \in Index : i <= x /\ x < j => a[x] >= pivot
    BY <1>1 DEF IInv, WindowSplits, Partitioned
  <1>3. CASE a[j] < pivot
    <2>1. a' = Swap(i, j) /\ i' = i + 1
      BY <1>3 DEF Scan
    <2>2. Rearranged' /\ a' \in [Index -> Int]
      BY <1>1, <2>1, SwapRearranges DEF IInv
    <2>3. \A x \in Index : a'[x] = IF x = i THEN a[j] ELSE IF x = j THEN a[i] ELSE a[x]
      BY <1>1, <2>1 DEF Swap
    <2>4. \A x \in Index : x \in Int
      BY <1>1 DEF Index
    <2>5. /\ \A x, y \in Index : x < lo /\ lo <= y => a'[x] <= a'[y]
          /\ \A x, y \in Index : x <= hi /\ hi < y => a'[x] <= a'[y]
      BY <1>1, <1>2, <2>3, <2>4
    <2>6. /\ pivot = a'[hi]
          /\ \A x \in Index : lo <= x /\ x < i + 1 => a'[x] < pivot
          /\ \A x \in Index : i + 1 <= x /\ x < j + 1 => a'[x] >= pivot
      BY <1>1, <1>2, <1>3, <2>3, <2>4
    <2>7. MedianTypeOK' /\ InBounds' /\ Middle' /\ SelectedInPlace' /\ Fresh'
      BY <1>1, <2>1, <2>2 DEF IInv, MedianTypeOK, InBounds, Middle, SelectedInPlace, Index, Fresh
    <2>8. WindowSplits' /\ Partitioned'
      BY <1>1, <2>1, <2>5, <2>6 DEF WindowSplits, Partitioned
    <2> QED
      BY <2>2, <2>7, <2>8 DEF IInv
  <1>4. CASE ~(a[j] < pivot)
    <2>1. UNCHANGED <<a, i>>
      BY <1>4 DEF Scan
    <2>2. Rearranged'
      BY <1>1, <2>1, SameRearranged DEF IInv
    <2>3. \A x \in Index : x \in Int
      BY <1>1 DEF Index
    <2>4. \A x \in Index : i <= x /\ x < j + 1 => a[x] >= pivot
      BY <1>1, <1>2, <1>4, <2>3
    <2>5. WindowSplits' /\ Partitioned'
      BY <1>1, <1>2, <2>1, <2>4 DEF WindowSplits, Partitioned
    <2>6. MedianTypeOK' /\ InBounds' /\ Middle' /\ SelectedInPlace' /\ Fresh'
      BY <1>1, <2>1 DEF IInv, MedianTypeOK, InBounds, Middle, SelectedInPlace, Index, Fresh
    <2> QED
      BY <2>2, <2>5, <2>6 DEF IInv
  <1> QED
    BY <1>3, <1>4

\* The end of partition, in each of the three directions it can go on.
LEMMA PlaceInv == ASSUME IInv, Place PROVE IInv'
  <1>1. /\ n \in Nat /\ a \in [Index -> Int] /\ lo \in Int /\ hi \in Int
        /\ k \in Int /\ i \in Int /\ j \in Int /\ pivot \in Int
        /\ median_pc = "partition" /\ j = hi
        /\ 0 <= lo /\ lo <= k /\ k <= hi /\ hi < n /\ lo <= i /\ i <= hi
        /\ a' = Swap(i, hi)
        /\ UNCHANGED <<input, n, k, pivot, i, j, mid, second, result>>
        /\ Index' = Index /\ i \in Index /\ hi \in Index /\ k \in Index
    BY DEF IInv, MedianTypeOK, InBounds, Place, Index
  <1>2. /\ \A x, y \in Index : x < lo /\ lo <= y => a[x] <= a[y]
        /\ \A x, y \in Index : x <= hi /\ hi < y => a[x] <= a[y]
        /\ pivot = a[hi]
        /\ \A x \in Index : lo <= x /\ x < i => a[x] < pivot
        /\ \A x \in Index : i <= x /\ x < hi => a[x] >= pivot
    BY <1>1 DEF IInv, WindowSplits, Partitioned
  <1>3. Rearranged' /\ a' \in [Index -> Int]
    BY <1>1, SwapRearranges DEF IInv
  <1>4. \A x \in Index :
           /\ x \in Int
           /\ a'[x] = IF x = i THEN a[hi] ELSE IF x = hi THEN a[i] ELSE a[x]
    BY <1>1 DEF Swap, Index
  \* The pivot now separates the whole array.
  <1>5. /\ \A x \in Index : x < i => a'[x] <= a'[i]
        /\ \A y \in Index : i < y => a'[i] <= a'[y]
    BY <1>1, <1>2, <1>4
  <1>6. /\ \A x, y \in Index : x < lo /\ lo <= y => a'[x] <= a'[y]
        /\ \A x, y \in Index : x <= hi /\ hi < y => a'[x] <= a'[y]
    BY <1>1, <1>2, <1>4
  <1>7. /\ \A x, y \in Index : x < i /\ i <= y => a'[x] <= a'[y]
        /\ \A x, y \in Index : x <= i /\ i < y => a'[x] <= a'[y]
    <2>1. \A x \in Index : a'[x] \in Int
      BY <1>3
    <2> QED
      BY <1>1, <1>4, <1>5, <2>1
  <1>8. CASE i = k /\ median_pc' = "selected" /\ UNCHANGED <<lo, hi>>
    BY <1>1, <1>3, <1>5, <1>8 DEF IInv, MedianTypeOK, InBounds, WindowSplits,
       Partitioned, Middle, SelectedInPlace, Index, Fresh
  <1>9. CASE k < i /\ median_pc' = "select" /\ hi' = i - 1 /\ UNCHANGED lo
    <2>1. MedianTypeOK' /\ InBounds' /\ Middle' /\ SelectedInPlace' /\ Fresh' /\ Partitioned'
      BY <1>1, <1>3, <1>9 DEF IInv, MedianTypeOK, InBounds, Middle,
         SelectedInPlace, Partitioned, Index, Fresh
    <2>2. WindowSplits'
      BY <1>1, <1>4, <1>6, <1>7, <1>9 DEF WindowSplits
    <2> QED
      BY <1>3, <2>1, <2>2 DEF IInv
  <1>10. CASE k > i /\ median_pc' = "select" /\ lo' = i + 1 /\ UNCHANGED hi
    <2>1. MedianTypeOK' /\ InBounds' /\ Middle' /\ SelectedInPlace' /\ Fresh' /\ Partitioned'
      BY <1>1, <1>3, <1>10 DEF IInv, MedianTypeOK, InBounds, Middle,
         SelectedInPlace, Partitioned, Index, Fresh
    <2>2. WindowSplits'
      BY <1>1, <1>4, <1>6, <1>7, <1>10 DEF WindowSplits
    <2> QED
      BY <1>3, <2>1, <2>2 DEF IInv
  <1> QED
    BY <1>8, <1>9, <1>10 DEF Place

\* Every step preserves the invariant.
LEMMA NextInv == IInv /\ [MedianNext]_medianVars => IInv'
  <1> SUFFICES ASSUME IInv, [MedianNext]_medianVars PROVE IInv'
    OBVIOUS
  <1>1. CASE Enter
    <2>1. Rearranged'
      BY <1>1, SameRearranged DEF IInv, Enter
    <2>2. /\ n \in Nat /\ n' = n /\ a' = a /\ Index' = Index
          /\ ~second /\ second' = second
      <3>1. n \in Nat /\ second \in BOOLEAN
        BY DEF IInv, MedianTypeOK
      <3>2. ~second
        BY <1>1 DEF IInv, Fresh, Enter
      <3> QED
        BY <1>1, <3>1, <3>2 DEF Enter, Index
    <2>3. CASE n = 0
      BY <1>1, <2>1, <2>2, <2>3 DEF IInv, MedianTypeOK, InBounds, WindowSplits,
         Partitioned, Middle, SelectedInPlace, Enter, Fresh
    <2>4. CASE n # 0
      <3>1. lo' = 0 /\ hi' = n - 1 /\ k' = n \div 2 /\ median_pc' = "select"
        BY <1>1, <2>4 DEF Enter
      <3>2. MedianTypeOK' /\ InBounds' /\ Middle' /\ Fresh'
        BY <1>1, <2>2, <2>4, <3>1 DEF IInv, MedianTypeOK, InBounds, Middle, Enter, Fresh
      <3>3. WindowSplits' /\ Partitioned' /\ SelectedInPlace'
        BY <2>2, <3>1 DEF WindowSplits, Partitioned, SelectedInPlace, Index
      <3> QED
        BY <2>1, <3>2, <3>3 DEF IInv
    <2> QED
      BY <2>3, <2>4
  <1>2. CASE Select
    <2>1. Rearranged'
      BY <1>2, SameRearranged DEF IInv, Select
    <2>2. /\ UNCHANGED <<input, n, a, lo, hi, k, mid, second, result>>
          /\ Index' = Index /\ median_pc = "select"
      BY <1>2 DEF Select, Index
    <2>3. /\ n \in Nat /\ a \in [Index -> Int] /\ lo \in Int /\ hi \in Int
          /\ k \in Int /\ 0 <= lo /\ lo <= k /\ k <= hi /\ hi < n
          /\ \A x, y \in Index : x < lo /\ lo <= y => a[x] <= a[y]
          /\ \A x, y \in Index : x <= hi /\ hi < y => a[x] <= a[y]
      BY <2>2 DEF IInv, MedianTypeOK, InBounds, WindowSplits
    <2>4. CASE lo < hi
      <3>1. pivot' = a[hi] /\ i' = lo /\ j' = lo /\ median_pc' = "partition"
        BY <1>2, <2>4 DEF Select
      <3>2. hi \in Index /\ \A x \in Index : x \in Int
        BY <2>3 DEF Index
      <3>3. a[hi] \in Int
        BY <2>3, <3>2
      <3>4. MedianTypeOK' /\ InBounds' /\ Middle' /\ Fresh'
        BY <2>2, <2>3, <2>4, <3>1, <3>3 DEF IInv, MedianTypeOK, InBounds, Middle, Fresh
      <3>5. WindowSplits' /\ Partitioned' /\ SelectedInPlace'
        BY <2>2, <2>3, <3>1, <3>2 DEF WindowSplits, Partitioned, SelectedInPlace
      <3> QED
        BY <2>1, <3>4, <3>5 DEF IInv
    <2>5. CASE ~(lo < hi)
      <3>1. median_pc' = "selected" /\ UNCHANGED <<pivot, i, j>>
        BY <1>2, <2>5 DEF Select
      <3>2. lo = k /\ hi = k /\ k \in Index /\ \A x \in Index : x \in Int
        BY <2>3, <2>5 DEF Index
      <3>3. SelectedInPlace'
        BY <2>2, <2>3, <3>1, <3>2 DEF SelectedInPlace
      <3>4. MedianTypeOK' /\ InBounds' /\ Middle' /\ WindowSplits' /\ Partitioned' /\ Fresh'
        BY <2>2, <2>3, <3>1 DEF IInv, MedianTypeOK, InBounds, Middle,
           WindowSplits, Partitioned, Fresh
      <3> QED
        BY <2>1, <3>3, <3>4 DEF IInv
    <2> QED
      BY <2>4, <2>5
  <1>3. CASE Scan
    BY <1>3, ScanInv
  <1>4. CASE Place
    BY <1>4, PlaceInv
  <1>5. CASE FirstSelected
    <2>1. Rearranged'
      BY <1>5, SameRearranged DEF IInv, FirstSelected
    <2>2. /\ UNCHANGED <<input, n, a, pivot, i, j>> /\ Index' = Index
          /\ median_pc = "selected" /\ ~second /\ mid' = a[n \div 2]
      BY <1>5 DEF FirstSelected, Index
    <2>3. n \in Nat /\ a \in [Index -> Int] /\ n > 0 /\ k = n \div 2 /\ k \in Index
      BY <2>2 DEF IInv, MedianTypeOK, Middle, SelectedInPlace
    <2>4. a[n \div 2] \in Int
      BY <2>3
    <2>5. CASE n % 2 = 0
      <3>1. /\ second' = TRUE /\ lo' = 0 /\ hi' = n - 1
            /\ k' = n \div 2 - 1 /\ median_pc' = "select" /\ result' = result
        BY <1>5, <2>5 DEF FirstSelected
      <3>2. n > 1
        BY <2>3, <2>5
      <3>3. MedianTypeOK' /\ InBounds' /\ Middle' /\ Fresh'
        BY <2>2, <2>3, <2>4, <2>5, <3>1, <3>2 DEF IInv, MedianTypeOK, InBounds, Middle, Fresh
      <3>4. WindowSplits' /\ Partitioned' /\ SelectedInPlace'
        BY <2>2, <2>3, <3>1 DEF WindowSplits, Partitioned, SelectedInPlace, Index
      <3> QED
        BY <2>1, <3>3, <3>4 DEF IInv
    <2>6. CASE n % 2 # 0
      <3>1. median_pc' = "done" /\ result' = a[n \div 2] /\ UNCHANGED <<second, lo, hi, k>>
        BY <1>5, <2>6 DEF FirstSelected
      <3> QED
        BY <2>1, <2>2, <2>4, <3>1 DEF IInv, MedianTypeOK, InBounds, Middle,
           WindowSplits, Partitioned, SelectedInPlace, Fresh
    <2> QED
      BY <2>5, <2>6
  <1>6. CASE SecondSelected
    <2>1. Rearranged'
      BY <1>6, SameRearranged DEF IInv, SecondSelected
    <2>2. /\ UNCHANGED <<input, n, a, lo, hi, k, pivot, i, j, mid, second>>
          /\ Index' = Index /\ median_pc = "selected" /\ second /\ median_pc' = "done"
          /\ result' = Half(a[n \div 2 - 1] + mid)
      BY <1>6 DEF SecondSelected, Index
    <2>3. a[k] \in Int /\ k = n \div 2 - 1 /\ mid \in Int
      BY <2>2 DEF IInv, MedianTypeOK, Middle, SelectedInPlace
    <2>4. result' \in Int
      BY <2>2, <2>3 DEF Half
    <2> QED
      BY <2>1, <2>2, <2>4 DEF IInv, MedianTypeOK, InBounds, Middle, WindowSplits,
         Partitioned, SelectedInPlace, Fresh
  <1>7. CASE UNCHANGED medianVars
    <2>1. Rearranged'
      BY <1>7, SameRearranged DEF IInv, medianVars
    <2> QED
      BY <1>7, <2>1 DEF IInv, MedianTypeOK, InBounds, Middle, WindowSplits,
         Partitioned, SelectedInPlace, Index, medianVars, Fresh
  <1> QED
    BY <1>1, <1>2, <1>3, <1>4, <1>5, <1>6, <1>7 DEF MedianNext

\* The invariant holds throughout the call.
LEMMA Invariance == MedianRunSpec => []IInv
  BY InitInv, NextInv, PTL DEF MedianRunSpec

\* nth_element never indexes outside its window or the array (median.c:14-31).
THEOREM StaysInBounds == MedianRunSpec => []InBounds
  <1>1. IInv => InBounds
    BY DEF IInv
  <1> QED
    BY <1>1, Invariance, PTL

\* When nth_element returns, position k separates the array (median.c:24-31).
THEOREM SelectionCorrect == MedianRunSpec => []SelectedInPlace
  <1>1. IInv => SelectedInPlace
    BY DEF IInv
  <1> QED
    BY <1>1, Invariance, PTL

\* The selection permutes the samples and loses none (median.c:10-22).
THEOREM OnlyRearranges == MedianRunSpec => []Rearranged
  <1>1. IInv => Rearranged
    BY DEF IInv
  <1> QED
    BY <1>1, Invariance, PTL

---------------------------------------------------------------------------
(* The k-th smallest element by counting.  At most one value has at most k *)
(* samples below it and more than k up to it; the element at a position    *)
(* that separates a rearrangement of the samples is such a value, because  *)
(* the rearrangement carries the positions up to k into the samples up to  *)
(* it, and the samples below it into the positions below k.                *)

\* The caller's array as the sequence that MedianOf is given.
Samples == [x \in 1 .. n |-> input[x - 1]]

\* A set of sample positions has a finite cardinality.
LEMMA SampleSets ==
    ASSUME NEW N \in Nat, NEW T \in SUBSET (1 .. N)
    PROVE  IsFiniteSet(T) /\ Cardinality(T) \in Nat
  <1>1. 1 \in Int /\ N \in Int
    OBVIOUS
  <1>2. IsFiniteSet(1 .. N)
    BY <1>1, FS_Interval
  <1>3. IsFiniteSet(T)
    BY <1>2, FS_Subset
  <1> QED
    BY <1>3, FS_CardinalityType

\* The positions of the samples below v, and up to v.
Below(s, v) == {x \in DOMAIN s : s[x] < v}
UpTo(s, v) == {x \in DOMAIN s : s[x] <= v}

\* At most one value has at most q samples below it and more than q samples
\* up to it.
LEMMA KthUnique ==
    ASSUME NEW N \in Nat, NEW s \in [1 .. N -> Int], NEW q \in Int,
           NEW v \in Int, NEW w \in Int,
           Cardinality(UpTo(s, v)) > q, Cardinality(Below(s, w)) <= q
    PROVE  w <= v
  <1> DEFINE V == UpTo(s, v)
             W == Below(s, w)
  <1>1. SUFFICES ASSUME v < w PROVE FALSE
    OBVIOUS
  <1>2. V \in SUBSET W /\ W \in SUBSET (1 .. N) /\ V \in SUBSET (1 .. N)
    BY <1>1 DEF Below, UpTo
  <1>3. Cardinality(V) > q /\ Cardinality(W) <= q
    OBVIOUS
  <1> HIDE DEF V, W
  <1>4. IsFiniteSet(W) /\ Cardinality(W) \in Nat /\ Cardinality(V) \in Nat
    BY <1>2, SampleSets
  <1>5. Cardinality(V) <= Cardinality(W)
    BY <1>2, <1>4, FS_Subset
  <1> QED
    BY <1>3, <1>4, <1>5

\* b has the N elements of s in the order given by f.
Reorders(N, f, s, b) ==
    /\ f \in [0 .. N - 1 -> 0 .. N - 1]
    /\ \A x, y \in 0 .. N - 1 : f[x] = f[y] => x = y
    /\ \A x \in 0 .. N - 1 : b[x] = s[f[x] + 1]

\* Position q separates b.
Separates(N, q, b) ==
    /\ \A x \in 0 .. N - 1 : x < q => b[x] <= b[q]
    /\ \A y \in 0 .. N - 1 : q < y => b[q] <= b[y]

\* An array that is a rearrangement of s and is separated by position q has
\* the q-th smallest element of s there.
LEMMA SeparatorIsKth ==
    ASSUME NEW N \in Nat, NEW q \in 0 .. N - 1,
           NEW s \in [1 .. N -> Int], NEW b \in [0 .. N - 1 -> Int],
           NEW f, Reorders(N, f, s, b), Separates(N, q, b)
    PROVE  KthSmallest(s, q) = b[q]
  <1> USE DEF Reorders, Separates
  <1> DEFINE D == 0 .. N - 1
             L == {x \in 1 .. N : s[x] < b[q]}
             U == {x \in 1 .. N : s[x] <= b[q]}
  <1>1. IsFiniteSet(D) /\ f \in Injection(D, D)
    <2>1. IsFiniteSet(D)
      BY FS_Interval
    <2>2. f \in [D -> D] /\ \A x, y \in D : f[x] = f[y] => x = y
      OBVIOUS
    <2> HIDE DEF D
    <2> QED
      BY <2>1, <2>2 DEF Injection, IsInjective
  <1>2. \A y \in D : \E x \in D : f[x] = y
    <2>1. f \in Surjection(D, D)
      BY <1>1, FS_Injection
    <2> QED BY <2>1 DEF Surjection
  <1>3. Cardinality(L) <= q
    <2> DEFINE g == [x \in L |-> CHOOSE y \in D : f[y] = x - 1]
    <2>1. ASSUME NEW x \in L
          PROVE  g[x] \in D /\ f[g[x]] = x - 1 /\ g[x] < q
      <3>1. x \in 1 .. N /\ x - 1 \in D /\ s[x] < b[q]
        OBVIOUS
      <3>2. \E y \in D : f[y] = x - 1
        BY <1>2, <3>1
      <3>3. g[x] \in D /\ f[g[x]] = x - 1
        BY <3>2
      <3> HIDE DEF g
      <3>4. b[g[x]] = s[x]
        <4>1. b[g[x]] = s[f[g[x]] + 1]
          BY <3>3
        <4>2. (x - 1) + 1 = x
          BY <3>1
        <4> QED BY <3>3, <4>1, <4>2
      <3>5. b[q] \in Int /\ s[x] \in Int /\ ~(b[q] <= s[x])
        BY <3>1
      <3>6. q < g[x] => b[q] <= s[x]
        BY <3>3, <3>4
      <3>7. g[x] # q
        <4>1. b[q] <= b[q]
          BY <3>5
        <4> QED BY <3>4, <3>5, <4>1
      <3>8. g[x] \in Int /\ q \in Int
        <4>1. \A y \in D : y \in Int
          OBVIOUS
        <4>2. q \in Int
          OBVIOUS
        <4> HIDE DEF D
        <4> QED BY <3>3, <4>1, <4>2
      <3>9. g[x] < q
        BY <3>5, <3>6, <3>7, <3>8
      <3> QED BY <3>3, <3>9
    <2>2. g \in [L -> 0 .. q - 1]
      <3>1. \A x \in L : g[x] \in 0 .. q - 1
        BY <2>1
      <3> QED BY <3>1
    <2>3. \A x, y \in L : g[x] = g[y] => x = y
      <3> SUFFICES ASSUME NEW x \in L, NEW y \in L, g[x] = g[y]
                   PROVE  x = y
        OBVIOUS
      <3> HIDE DEF g
      <3>1. x \in Int /\ y \in Int
        OBVIOUS
      <3> HIDE DEF L
      <3>2. f[g[x]] = x - 1 /\ f[g[y]] = y - 1
        BY <2>1
      <3>3. x - 1 = y - 1
        BY <3>2
      <3> QED BY <3>1, <3>3
    <2> HIDE DEF g, L
    <2>4. g \in Injection(L, 0 .. q - 1)
      BY <2>2, <2>3 DEF Injection, IsInjective
    <2>5. IsFiniteSet(0 .. q - 1) /\ Cardinality(0 .. q - 1) = q
      <3>1. 0 \in Int /\ q - 1 \in Int /\ q \in Nat
        OBVIOUS
      <3>2. IsFiniteSet(0 .. q - 1)
            /\ Cardinality(0 .. q - 1) = IF 0 > q - 1 THEN 0 ELSE q - 1 - 0 + 1
        BY <3>1, FS_Interval
      <3> QED BY <3>1, <3>2
    <2> QED BY <2>4, <2>5, FS_Injection
  <1>4. Cardinality(U) > q
    <2> DEFINE g == [x \in 0 .. q |-> f[x] + 1]
    <2>1. ASSUME NEW x \in 0 .. q
          PROVE  g[x] \in U
      <3>1. x \in D /\ f[x] \in D /\ f[x] + 1 \in 1 .. N
        OBVIOUS
      <3>2. s[f[x] + 1] = b[x] /\ b[x] <= b[q]
        BY <3>1
      <3> QED BY <3>1, <3>2
    <2>2. \A x, y \in 0 .. q : g[x] = g[y] => x = y
      <3> SUFFICES ASSUME NEW x \in 0 .. q, NEW y \in 0 .. q, g[x] = g[y]
                   PROVE  x = y
        OBVIOUS
      <3>1. x \in D /\ y \in D /\ f[x] \in Int /\ f[y] \in Int /\ f[x] + 1 = f[y] + 1
        OBVIOUS
      <3>2. f[x] = f[y]
        BY <3>1
      <3> QED BY <3>1, <3>2
    <2>3. U \in SUBSET (1 .. N)
      OBVIOUS
    <2>3a. g \in [0 .. q -> U]
      <3> HIDE DEF U
      <3> QED BY <2>1
    <2> HIDE DEF g, U
    <2>4. g \in Injection(0 .. q, U)
      BY <2>2, <2>3a DEF Injection, IsInjective
    <2>5. IsFiniteSet(U) /\ Cardinality(U) \in Nat
      BY <2>3, SampleSets
    <2>6. Cardinality(0 .. q) = q + 1
      <3>1. 0 \in Int /\ q \in Int /\ q >= 0
        OBVIOUS
      <3>2. Cardinality(0 .. q) = IF 0 > q THEN 0 ELSE q - 0 + 1
        BY <3>1, FS_Interval
      <3> QED BY <3>1, <3>2
    <2>7. Cardinality(0 .. q) <= Cardinality(U)
      BY <2>4, <2>5, FS_Injection
    <2> QED BY <2>5, <2>6, <2>7
  <1>5. b[q] \in {s[x] : x \in DOMAIN s} /\ DOMAIN s = 1 .. N
    <2>1. f[q] + 1 \in 1 .. N /\ b[q] = s[f[q] + 1] /\ DOMAIN s = 1 .. N
      OBVIOUS
    <2> QED BY <2>1
  <1> DEFINE P(v) == Cardinality(Below(s, v)) <= q /\ Cardinality(UpTo(s, v)) > q
             S == {s[x] : x \in DOMAIN s}
  <1>6. KthSmallest(s, q) = CHOOSE v \in S : P(v)
    BY DEF KthSmallest, Below, UpTo
  <1>7. P(b[q])
    BY <1>3, <1>4, <1>5 DEF Below, UpTo
  <1>8. ASSUME NEW v \in S, P(v) PROVE v = b[q]
    <2>1. v \in Int /\ b[q] \in Int /\ q \in Int
      BY <1>5
    <2>2. v <= b[q]
      BY <1>7, <1>8, <2>1, KthUnique
    <2>3. b[q] <= v
      BY <1>7, <1>8, <2>1, KthUnique
    <2> QED BY <2>1, <2>2, <2>3
  <1> HIDE DEF P, S
  <1>9. b[q] \in S
    BY <1>5 DEF S
  <1> QED
    BY <1>6, <1>7, <1>8, <1>9

\* The element at the selected position is the k-th smallest sample.
LEMMA SelectedIsKth ==
    ASSUME IInv, median_pc = "selected"
    PROVE  KthSmallest(Samples, k) = a[k]
  <1>1. n \in Nat /\ Index = 0 .. n - 1 /\ k \in Index
        /\ input \in [Index -> Int] /\ a \in [Index -> Int]
    BY DEF IInv, MedianTypeOK, SelectedInPlace, Index
  <1>2. PICK f \in [Index -> Index] :
           /\ \A x, y \in Index : f[x] = f[y] => x = y
           /\ a = [x \in Index |-> input[f[x]]]
    BY DEF IInv, Rearranged
  <1>3. /\ \A x \in Index : x < k => a[x] <= a[k]
        /\ \A y \in Index : k < y => a[k] <= a[y]
    BY DEF IInv, SelectedInPlace
  <1>4. Samples \in [1 .. n -> Int]
    <2>1. \A x \in 1 .. n : x - 1 \in Index
      BY <1>1
    <2> QED BY <1>1, <2>1 DEF Samples
  <1>5. \A x \in Index : a[x] = Samples[f[x] + 1]
    <2> SUFFICES ASSUME NEW x \in Index PROVE a[x] = Samples[f[x] + 1]
      OBVIOUS
    <2>1. a[x] = input[f[x]]
      BY <1>2
    <2>2. f[x] \in Index /\ f[x] + 1 \in 1 .. n /\ (f[x] + 1) - 1 = f[x]
      BY <1>1, <1>2
    <2> QED BY <2>1, <2>2 DEF Samples
  <1>6. Reorders(n, f, Samples, a)
    BY <1>1, <1>2, <1>5 DEF Reorders
  <1>7. Separates(n, k, a)
    BY <1>1, <1>3 DEF Separates
  <1> QED
    BY <1>1, <1>4, <1>6, <1>7, SeparatorIsKth

\* The first middle element is kept while the second is selected.
MidKept == second => mid = KthSmallest(Samples, n \div 2)

\* Samples has its length, and halves of a length are what they are.
LEMMA SampleMedian ==
    ASSUME n \in Nat
    PROVE  MedianOf(Samples) =
              IF n = 0 THEN 0
              ELSE IF n % 2 = 0
              THEN Half(KthSmallest(Samples, n \div 2 - 1) + KthSmallest(Samples, n \div 2))
              ELSE KthSmallest(Samples, n \div 2)
  <1>1. Len(Samples) = n
    BY DEF Samples
  <1>2. n % 2 = 1 <=> n % 2 # 0
    OBVIOUS
  <1> HIDE DEF Samples
  <1> QED
    BY <1>1, <1>2 DEF MedianOf

\* Nothing is selected, nothing is returned.
LEMMA MedianInitInv == MedianInit => MidKept /\ MedianCorrect
  BY DEF MedianInit, MidKept, MedianCorrect

\* Each of the three ways to return gives the median.
LEMMA MedianNextInv ==
    IInv /\ MidKept /\ MedianCorrect /\ [MedianNext]_medianVars => (MidKept /\ MedianCorrect)'
  <1> SUFFICES ASSUME IInv, MidKept, MedianCorrect, [MedianNext]_medianVars
               PROVE  (MidKept /\ MedianCorrect)'
    OBVIOUS
  <1>1. n' = n /\ input' = input
    BY DEF MedianNext, Enter, Select, Scan, Place, FirstSelected, SecondSelected, medianVars
  <1>2. Samples' = Samples
    BY <1>1 DEF Samples
  <1>3. n \in Nat /\ second \in BOOLEAN
    BY DEF IInv, MedianTypeOK
  <1>4. MedianCorrect <=> (median_pc = "done" => result = MedianOf(Samples))
    BY DEF MedianCorrect, Samples
  <1>5. MedianCorrect' <=> (median_pc' = "done" => result' = MedianOf(Samples))
    BY <1>1 DEF MedianCorrect, Samples
  <1>6. MidKept' <=> (second' => mid' = KthSmallest(Samples, n \div 2))
    BY <1>1, <1>2 DEF MidKept
  <1>7. CASE UNCHANGED <<mid, second>> /\ (median_pc' # "done" \/ UNCHANGED <<median_pc, result>>)
    BY <1>4, <1>5, <1>6, <1>7 DEF MidKept
  <1>8. CASE Enter
    <2>1. CASE n = 0
      <3>1. result' = 0 /\ UNCHANGED <<mid, second>>
        BY <1>8, <2>1 DEF Enter
      <3>2. MedianOf(Samples) = 0
        BY <1>3, <2>1, SampleMedian
      <3> QED BY <1>5, <1>6, <3>1, <3>2 DEF MidKept
    <2>2. CASE n # 0
      BY <1>7, <1>8, <2>2 DEF Enter
    <2> QED BY <2>1, <2>2
  <1>9. CASE Select \/ Scan \/ Place
    BY <1>7, <1>9 DEF Select, Scan, Place
  <1>10. CASE FirstSelected
    <2>1. median_pc = "selected" /\ ~second /\ mid' = a[n \div 2]
      BY <1>10 DEF FirstSelected
    <2>2. k = n \div 2 /\ n > 0
      BY <2>1 DEF IInv, Middle
    <2>3. a[n \div 2] = KthSmallest(Samples, n \div 2)
      BY <2>1, <2>2, SelectedIsKth
    <2>4. CASE n % 2 = 0
      <3>1. median_pc' = "select"
        BY <1>10, <2>4 DEF FirstSelected
      <3> QED BY <1>5, <1>6, <2>1, <2>3, <3>1
    <2>5. CASE n % 2 # 0
      <3>1. result' = a[n \div 2] /\ second' = second
        BY <1>10, <2>5 DEF FirstSelected
      <3>2. MedianOf(Samples) = KthSmallest(Samples, n \div 2)
        BY <1>3, <2>2, <2>5, SampleMedian
      <3> QED BY <1>5, <1>6, <2>1, <2>3, <3>1, <3>2
    <2> QED BY <2>4, <2>5
  <1>11. CASE SecondSelected
    <2>1. /\ median_pc = "selected" /\ second /\ UNCHANGED <<mid, second>>
          /\ result' = Half(a[n \div 2 - 1] + mid)
      BY <1>11 DEF SecondSelected
    <2>2. k = n \div 2 - 1 /\ n > 0 /\ n % 2 = 0
      BY <2>1 DEF IInv, Middle
    <2>3. a[n \div 2 - 1] = KthSmallest(Samples, n \div 2 - 1)
      BY <2>1, <2>2, SelectedIsKth
    <2>4. mid = KthSmallest(Samples, n \div 2)
      BY <2>1 DEF MidKept
    <2>5. MedianOf(Samples)
             = Half(KthSmallest(Samples, n \div 2 - 1) + KthSmallest(Samples, n \div 2))
      BY <1>3, <2>2, SampleMedian
    <2> QED BY <1>5, <1>6, <2>1, <2>3, <2>4, <2>5
  <1>12. CASE UNCHANGED medianVars
    BY <1>7, <1>12 DEF medianVars
  <1> QED
    BY <1>8, <1>9, <1>10, <1>11, <1>12 DEF MedianNext

\* median.c:33-44.  median_i64 returns the median of the samples it was
\* passed, the C-rounded mean of the two middle ones for an even number, for
\* arrays of every length over all integers.
THEOREM ResultIsMedian == MedianRunSpec => []MedianCorrect
  BY Invariance, MedianInitInv, MedianNextInv, PTL DEF MedianRunSpec

=============================================================================
