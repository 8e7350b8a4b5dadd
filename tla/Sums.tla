-------------------------------- MODULE Sums --------------------------------
(***************************************************************************)
(* Sums of sequences of integers, and of integers attached to the elements *)
(* of a finite set.  They are written so that SumProofs can say what they  *)
(* return: Total is a recursive function, and TotalOver takes the elements *)
(* in some order.                                                          *)
(***************************************************************************)
EXTENDS Integers, Sequences, FiniteSets

Total(xs) ==
  LET upto[n \in 0..Len(xs)] == IF n = 0 THEN 0 ELSE upto[n - 1] + xs[n]
  IN upto[Len(xs)]

\* The elements of S, each once.
Enumeration(S) ==
  CHOOSE e \in [1..Cardinality(S) -> S] : \A i, j \in 1..Cardinality(S) : e[i] = e[j] => i = j

\* The sum of f[x] over the elements x of S.
TotalOver(S, f) ==
  Total([i \in 1..Cardinality(S) |-> f[Enumeration(S)[i]]])
=============================================================================
