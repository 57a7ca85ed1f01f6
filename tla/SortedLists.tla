------------------------------ MODULE SortedLists ------------------------------
(***************************************************************************)
(* Sorting, filtering and joining of lists, by the positions of their      *)
(* elements.  SortSeq, SelectSeq and FlattenSeq say the same to TLC; the   *)
(* proof system can also reason about these.                               *)
(***************************************************************************)
EXTENDS Integers, Sequences, FiniteSets, Functions

(* The elements of a finite set in the order of their keys, as sort.Slice  *)
(* leaves them: elements with the same key come in an order that is not    *)
(* specified.                                                              *)
SortedBy(S, key) ==
    LET n == Cardinality(S)
    IN  CHOOSE f \in [1..n -> S] :
          /\ \A i, j \in 1..n : f[i] = f[j] => i = j
          /\ \A i, j \in 1..n : i < j => key[f[i]] <= key[f[j]]

(* A finite set of integers in increasing order.                           *)
Ascending(S) == SortedBy(S, [x \in S |-> x])

(* The elements of list s at the given positions, in the order of the list. *)
Pick(s, positions) ==
    LET order == Ascending(positions)
    IN  [k \in DOMAIN order |-> s[order[k]]]

(* The lists of a list of lists, one after the other.                      *)
Joined(seqs) ==
    LET first[k \in 0..Len(seqs)] == IF k = 0 THEN <<>> ELSE first[k - 1] \o seqs[k]
    IN  first[Len(seqs)]
================================================================================
