----------------------------- MODULE MCDepFlow -----------------------------
(***************************************************************************)
(* Two guests in one run, as both at once have too many states: three      *)
(* temporaries and a second thread, with data in one byte of registers and *)
(* of memory; and one temporary and one thread, with data in two bytes     *)
(* each and accesses of one byte and two that overlap.                     *)
(***************************************************************************)
EXTENDS DepFlow, TLC

CONSTANTS t1, t2, t3, p1

Symmetry == Permutations(Tmp)

\* Has l been given data or an entry?
Used(l) == ever[l] # {} \/ Deps(l) # {}

OneByteEach == \A l \in {11, 1} : ~Used(l)

OneTemporary ==
  /\ \A s, t \in {u \in Tmp : u \in assigned \/ Used(u)} : s = t
  /\ \A p \in Parked, r \in Reg : bank[p][r] = {}

\* Other states, and those behind the write, which moves no data and changes no
\* entry, are checked and not gone on from.
Explored == write_n = 0 /\ (OneByteEach \/ OneTemporary)
=============================================================================
