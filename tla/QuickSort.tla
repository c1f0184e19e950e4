------------------------------ MODULE QuickSort ------------------------------
(***************************************************************************)
(* The sort of lib/algorithm.h, for the comparison its callers pass: better   *)
(* scores first.  A swap of elements is a change of the function that the      *)
(* vector is; its indices stand for those of the code, one less.              *)
(***************************************************************************)
EXTENDS Integers, Sequences, Functions

Before(p, q) == p.score > q.score

Swap(vec, i, j) == [ vec EXCEPT ![i] = vec[j], ![j] = vec[i] ]

(* A turn of the loop of partition: what comes before the pivot, which is at   *)
(* high, is swapped to the front.                                           *)
Turn(s, j, high) ==
    IF Before(s.vec[j], s.vec[high]) THEN [ vec |-> Swap(s.vec, s.store, j), store |-> s.store + 1 ]
    ELSE s

(* The middle element is the pivot: it goes to the end for the loop, whose      *)
(* state before the turn of j is loop[j], and then where the front ends.       *)
partition(vec, low, high) ==
    LET mid == low + ((high - low) \div 2)
        loop[j \in low..high] == IF j = low THEN [ vec |-> Swap(vec, mid, high), store |-> low ]
                                 ELSE Turn(loop[j - 1], j - 1, high)
    IN  [ vec |-> Swap(loop[high].vec, loop[high].store, high), store |-> loop[high].store ]

(* A call of quickSort on the range low..high of a vector.                   *)
Call(vec, low, high) == [ vec |-> vec, low |-> low, high |-> high ]

(* One on each side of the pivot, unless nothing is left there.              *)
sort(vec) ==
    LET n == Len(vec)
        quickSort[c \in [ vec : [ 1..n -> Range(vec) ], low : 1..n, high : 1..n ]] ==
            LET p    == partition(c.vec, c.low, c.high)
                left == IF p.store > c.low THEN quickSort[Call(p.vec, c.low, p.store - 1)] ELSE p.vec
            IN  IF c.low >= c.high THEN c.vec
                ELSE IF p.store < c.high THEN quickSort[Call(left, p.store + 1, c.high)]
                ELSE left
    IN  IF n <= 1 THEN vec ELSE quickSort[Call(vec, 1, n)]
=============================================================================
