----------------------------- MODULE TicketLock -----------------------------
(***************************************************************************)
(* the_BigLock with --fair-sched: m_scheduler/ticket-lock-linux.c, one     *)
(* action per access to shared memory or futex system call.  Tickets and   *)
(* futex values are counted modulo Mod, which is 2^32 in the code.  Taken  *)
(* from outside the file: threads block signals while they wait, so that   *)
(* futex_wait returns 0 or EAGAIN, and stores are seen in the order they   *)
(* are made (the code's barriers).                                         *)
(***************************************************************************)
EXTENDS Integers, FiniteSets

CONSTANTS
  Proc,      \* the threads; a thread takes the lock again and again
  Nobody,    \* owner 0
  Mod,       \* the range of unsigned
  Slots      \* TL_FUTEX_COUNT, a power of two

ASSUME ProcAssumption == IsFiniteSet(Proc) /\ Nobody \notin Proc
ASSUME ModAssumption == Mod \in Nat /\ Cardinality(Proc) < Mod
ASSUME SlotsAssumption == Slots \in Nat \ {0} /\ Mod % Slots = 0

VARIABLES
  head, tail, futex, owner,   \* struct sched_lock
  pc,        \* where a thread is
  ticket,    \* its ticket
  seen,      \* the futex value it read
  wakeup     \* its wakeup_ticket; these three are 0 while they are not in use

vars == <<head, tail, futex, owner, pc, ticket, seen, wakeup>>

Unsigned == 0..Mod - 1

\* Mutant: the counters do not wrap around.
SuccUnbounded(x) == x + 1

Succ(x) == IF x = Mod - 1 THEN 0 ELSE x + 1

Slot(x) == x % Slots

Init ==
  /\ head = 0 /\ tail = 0 /\ owner = Nobody
  /\ futex = [s \in 0..Slots - 1 |-> 0]
  /\ pc = [p \in Proc |-> "out"]
  /\ ticket = [p \in Proc |-> 0] /\ seen = [p \in Proc |-> 0]
  /\ wakeup = [p \in Proc |-> 0]

\* p's variable is not used any more.
Dropped(local, p) == [local EXCEPT ![p] = 0]

Goto(p, from, to) == pc[p] = from /\ pc' = [pc EXCEPT ![p] = to]

-----------------------------------------------------------------------------
(* acquire_sched_lock *)
TakeTicket(p) ==
  /\ Goto(p, "out", "load")
  /\ ticket' = [ticket EXCEPT ![p] = tail] /\ tail' = Succ(tail)
  /\ UNCHANGED <<head, futex, owner, seen, wakeup>>

LoadFutex(p) ==
  /\ Goto(p, "load", "test")
  /\ seen' = [seen EXCEPT ![p] = futex[Slot(ticket[p])]]
  /\ UNCHANGED <<head, tail, futex, owner, ticket, wakeup>>

\* Mutant: a ticket that has been passed is let in too.
TestHeadPassed(p) ==
  /\ IF ticket[p] <= head THEN Goto(p, "test", "enter") /\ seen' = Dropped(seen, p)
                          ELSE Goto(p, "test", "wait") /\ UNCHANGED seen
  /\ UNCHANGED <<head, tail, futex, owner, ticket, wakeup>>

TestHead(p) ==
  /\ IF ticket[p] = head THEN Goto(p, "test", "enter") /\ seen' = Dropped(seen, p)
                         ELSE Goto(p, "test", "wait") /\ UNCHANGED seen
  /\ UNCHANGED <<head, tail, futex, owner, ticket, wakeup>>

\* futex_wait: sleep only if the futex has not changed.
FutexWait(p) ==
  /\ Goto(p, "wait", IF futex[Slot(ticket[p])] = seen[p] THEN "asleep" ELSE "load")
  /\ seen' = Dropped(seen, p)
  /\ UNCHANGED <<head, tail, futex, owner, ticket, wakeup>>

Enter(p) ==
  /\ Goto(p, "enter", "held")
  /\ owner' = p
  /\ UNCHANGED <<head, tail, futex, ticket, seen, wakeup>>

-----------------------------------------------------------------------------
(* release_sched_lock *)
Disown(p) ==
  /\ Goto(p, "held", "bump")
  /\ owner' = Nobody
  /\ UNCHANGED <<head, tail, futex, ticket, seen, wakeup>>

\* Mutant: head is moved on by the fetch-and-add and by the + 1 for wakeup.
BumpHeadTwice(p) ==
  /\ Goto(p, "bump", "tail")
  /\ head' = Succ(Succ(head)) /\ wakeup' = [wakeup EXCEPT ![p] = Succ(Succ(head))]
  /\ ticket' = Dropped(ticket, p)
  /\ UNCHANGED <<tail, futex, owner, seen>>

BumpHead(p) ==
  /\ Goto(p, "bump", "tail")
  /\ head' = Succ(head) /\ wakeup' = [wakeup EXCEPT ![p] = Succ(head)]
  /\ ticket' = Dropped(ticket, p)
  /\ UNCHANGED <<tail, futex, owner, seen>>

TestTail(p) ==
  /\ IF tail # wakeup[p] THEN Goto(p, "tail", "change") /\ UNCHANGED wakeup
     ELSE Goto(p, "tail", "out") /\ wakeup' = Dropped(wakeup, p)
  /\ UNCHANGED <<head, tail, futex, owner, ticket, seen>>

\* Mutant: the futex that is changed is not the one that is waited for.
ChangeFutexAfter(p) ==
  /\ Goto(p, "change", "wake")
  /\ futex' = [futex EXCEPT ![Slot(Succ(wakeup[p]))] = Succ(@)]
  /\ UNCHANGED <<head, tail, owner, ticket, seen, wakeup>>

ChangeFutex(p) ==
  /\ Goto(p, "change", "wake")
  /\ futex' = [futex EXCEPT ![Slot(wakeup[p])] = Succ(@)]
  /\ UNCHANGED <<head, tail, owner, ticket, seen, wakeup>>

\* futex_wake: everyone who sleeps on the futex goes round the loop again.
FutexWake(p) ==
  /\ pc[p] = "wake"
  /\ pc' = [q \in Proc |->
              IF q = p THEN "out"
              ELSE IF pc[q] = "asleep" /\ Slot(ticket[q]) = Slot(wakeup[p])
              THEN "load" ELSE pc[q]]
  /\ wakeup' = Dropped(wakeup, p)
  /\ UNCHANGED <<head, tail, futex, owner, ticket, seen>>

-----------------------------------------------------------------------------
Acquiring(p) ==
  LoadFutex(p) \/ TestHead(p) \/ FutexWait(p) \/ Enter(p)
Releasing(p) ==
  Disown(p) \/ BumpHead(p) \/ TestTail(p) \/ ChangeFutex(p) \/ FutexWake(p)

Next == \E p \in Proc : TakeTicket(p) \/ Acquiring(p) \/ Releasing(p)

\* A thread goes on with what it does, and gives the lock up at the end of its
\* time slice or at a system call; it need not ask for it.
Fairness == \A p \in Proc : WF_vars(Acquiring(p)) /\ WF_vars(Releasing(p))

Spec == Init /\ [][Next]_vars /\ Fairness

-----------------------------------------------------------------------------
Waiting == {p \in Proc : pc[p] \in {"load", "test", "wait", "asleep", "enter"}}
InSection == {"enter", "held", "bump"}

\* Type invariant.
TypeOK ==
  /\ head \in Unsigned /\ tail \in Unsigned
  /\ futex \in [0..Slots - 1 -> Unsigned]
  /\ owner \in Proc \cup {Nobody}
  /\ pc \in [Proc -> {"out", "load", "test", "wait", "asleep", "enter", "held",
                      "bump", "tail", "change", "wake"}]
  /\ ticket \in [Proc -> Unsigned] /\ seen \in [Proc -> Unsigned]
  /\ wakeup \in [Proc -> Unsigned]

\* The assertions on owner hold: a thread that takes the lock finds none, the
\* one that releases it finds itself, and no two threads are past the test of
\* the head, also after head and tail have wrapped around.
MutualExclusion ==
  /\ \A p, q \in Proc : pc[p] \in InSection /\ pc[q] \in InSection => p = q
  /\ \A p \in Proc : pc[p] = "enter" => owner = Nobody
  /\ \A p \in Proc : pc[p] = "held" <=> owner = p

\* No wakeup is lost: while the thread whose turn it is sleeps, another is on
\* its way to wake it.
NoLostWakeup ==
  \A p \in Proc : pc[p] = "asleep" /\ ticket[p] = head =>
    \E q \in Proc : pc[q] \in {"tail", "change", "wake"} /\ wakeup[q] = head

-----------------------------------------------------------------------------
(* The lock is fair. *)
\* How many tickets are before x.
Distance(x) == IF x >= head THEN x - head ELSE x + Mod - head

Before(p) == {q \in Waiting : Distance(ticket[q]) < Distance(ticket[p])}

\* Those who wait, in the order of their tickets: the k-th has k - 1 before it.
Queue == [k \in 1..Cardinality(Waiting) |->
            CHOOSE p \in Waiting : Cardinality(Before(p)) = k - 1]

Abstract == INSTANCE FairLock WITH queue <- Queue, holder <- owner

\* It implements FairLock, its fairness included: nobody overtakes and nobody
\* who asks waits for ever, though the code only spins, sleeps and wakes.
Fair == Abstract!Spec
=============================================================================
