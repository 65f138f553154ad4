---------------------------- MODULE Arrangement ----------------------------
(***************************************************************************)
(* Finite sets in an order, and sequences with some of their elements:     *)
(* what std::sort and loops with a condition leave.  Both are defined by   *)
(* ranks, the number of elements ahead of an element; they agree with      *)
(* SortSeq and SelectSeq, of which the proof system knows nothing.         *)
(***************************************************************************)
EXTENDS Integers, Sequences, FiniteSets

\* The elements of D that the order R, a set of pairs, puts ahead of d
Ahead(D, R, d) == {e \in D : <<e, d>> \in R}

\* The elements of the finite set D in the strict total order R
Arranged(D, R) ==
  [i \in 1 .. Cardinality(D) |-> CHOOSE d \in D : Cardinality(Ahead(D, R, d)) = i - 1]

\* The elements of the finite set D, each once, in an order that matters to nobody
Listed(D) ==
  CHOOSE s \in [1 .. Cardinality(D) -> D] : \A i, j \in DOMAIN s : s[i] = s[j] => i = j

\* Integers in increasing order
Ascending(K) == Arranged(K, {p \in K \X K : p[1] < p[2]})

\* The integers of s in increasing order, equal ones in the order they have in s.
Sorted(s) ==
  LET at == Arranged(DOMAIN s, {p \in (DOMAIN s) \X (DOMAIN s) :
                                 s[p[1]] < s[p[2]] \/ (s[p[1]] = s[p[2]] /\ p[1] < p[2])})
  IN  [i \in DOMAIN s |-> s[at[i]]]

\* What is left of a sequence if only the places K are kept
Kept(s, K) == LET at == Ascending(K) IN [i \in 1 .. Cardinality(K) |-> s[at[i]]]
=============================================================================
