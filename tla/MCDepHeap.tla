------------------------------ MODULE MCDepHeap ------------------------------
(***************************************************************************)
(* Arrays of two entries out of three indices, so nine addresses to a      *)
(* range, of which the first seven reach both arrays and indices past the  *)
(* end in each dimension.                                                  *)
(***************************************************************************)
EXTENDS DepHeap, TLC

CONSTANTS t1, t2, r1

OneRange == 0..6

Symmetry == Permutations(Tmp)
=============================================================================
