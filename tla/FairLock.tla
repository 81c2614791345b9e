------------------------------ MODULE FairLock ------------------------------
(***************************************************************************)
(* What Valgrind's threads need of the_BigLock: one holder at a time, and  *)
(* those who ask get it in the order they asked.                           *)
(***************************************************************************)
EXTENDS Sequences, SequencesExt

CONSTANTS Proc, Nobody

VARIABLES queue, holder

vars == <<queue, holder>>

Init == queue = <<>> /\ holder = Nobody

Join(p) ==
  /\ p # holder /\ ~Contains(queue, p)
  /\ queue' = Append(queue, p)
  /\ UNCHANGED holder

Grant ==
  /\ holder = Nobody /\ queue # <<>>
  /\ holder' = Head(queue) /\ queue' = Tail(queue)

Leave ==
  /\ holder # Nobody /\ holder' = Nobody
  /\ UNCHANGED queue

Next == Grant \/ Leave \/ \E p \in Proc : Join(p)

Spec == Init /\ [][Next]_vars /\ WF_vars(Grant) /\ WF_vars(Leave)
=============================================================================
