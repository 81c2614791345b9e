----------------------------- MODULE MCDepLists -----------------------------
(***************************************************************************)
(* Operands: one, or two in both orders; and four.                         *)
(***************************************************************************)
EXTENDS DepLists

CONSTANTS t1, t2, r1

MCOps  == {<<t1>>, <<t2>>, <<t1, t2>>, <<t2, t1>>}
MCQops == {<<t1, t1, t2, t2>>, <<t2, t2, t1, t1>>}

Symmetry == Permutations(Tmp)
=============================================================================
