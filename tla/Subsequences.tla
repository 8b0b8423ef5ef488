---------------------------- MODULE Subsequences ----------------------------
(***************************************************************************)
(* What a loop over a slice leaves that appends the elements it keeps to   *)
(* an empty one.  It is SelectSeq, stated without recursion, so that the   *)
(* proofs can use it.                                                      *)
(***************************************************************************)
EXTENDS Naturals, Sequences, FiniteSets

(* The elements of s at the places `kept`, in their order: the k-th is at  *)
(* the place that has k of them up to it.                                  *)
Kept(s, kept) ==
  [k \in 1..Cardinality(kept) |->
     s[CHOOSE i \in kept : Cardinality({j \in kept : j <= i}) = k]]
=============================================================================
