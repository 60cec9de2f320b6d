----------------------------- MODULE MedianSpec -----------------------------
(***************************************************************************)
(* What median_i64 (firmware/median.c) is meant to return, stated without  *)
(* an algorithm.  Measurement uses this definition; Median shows that the  *)
(* quickselect of the code computes it.                                    *)
(***************************************************************************)
EXTENDS Integers, Sequences, FiniteSets

\* C integer division by two: truncation towards zero.
Half(x) == IF x >= 0 THEN x \div 2 ELSE -((-x) \div 2)

\* The k-th smallest element, counted from 0, duplicates included.
KthSmallest(s, k) ==
    CHOOSE v \in {s[i] : i \in DOMAIN s} :
        /\ Cardinality({i \in DOMAIN s : s[i] < v}) <= k
        /\ Cardinality({i \in DOMAIN s : s[i] <= v}) > k

\* The middle element, or the average of the two middle ones; 0 for none.
MedianOf(s) ==
    LET n == Len(s) IN
    IF n = 0 THEN 0
    ELSE IF n % 2 = 1 THEN KthSmallest(s, n \div 2)
    ELSE Half(KthSmallest(s, n \div 2 - 1) + KthSmallest(s, n \div 2))

=============================================================================
