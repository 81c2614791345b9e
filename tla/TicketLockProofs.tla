-------------------------- MODULE TicketLockProofs --------------------------
(***************************************************************************)
(* TicketLock for any number of threads and futexes, as long as there are  *)
(* fewer threads than tickets.                                             *)
(***************************************************************************)
EXTENDS TicketLock, FiniteSetTheorems, SequenceTheorems, TLAPS

Step(p) == TakeTicket(p) \/ Acquiring(p) \/ Releasing(p)

LEMMA ModIsNat == Mod \in Nat \ {0, 1} \/ (Mod = 1 /\ Proc = {})
  <1>1. Cardinality(Proc) \in Nat /\ Mod \in Nat /\ Cardinality(Proc) < Mod
    BY ProcAssumption, ModAssumption, FS_CardinalityType
  <1>2. CASE Mod = 1
    BY <1>1, <1>2, ProcAssumption, FS_EmptySet
  <1>3. CASE Mod # 1
    BY <1>1, <1>3
  <1> QED BY <1>2, <1>3

LEMMA SuccType == ASSUME NEW x \in Unsigned PROVE Succ(x) \in Unsigned
  BY ModAssumption DEF Unsigned, Succ

-----------------------------------------------------------------------------
LEMMA TypeInit == Init => TypeOK
  <1>1. 0 \in Unsigned
    BY ModIsNat DEF Unsigned
  <1> QED BY <1>1 DEF Init, TypeOK

LEMMA SlotType == ASSUME NEW x \in Unsigned PROVE Slot(x) \in 0..Slots - 1
  BY SlotsAssumption, ModAssumption DEF Slot, Unsigned

LEMMA TypeStep == ASSUME TypeOK, NEW p \in Proc, Step(p) PROVE TypeOK'
  <1> USE DEF TypeOK
  <1>0. 0 \in Unsigned
    BY ModIsNat DEF Unsigned
  <1>1. CASE TakeTicket(p)
    BY <1>1, SuccType DEF TakeTicket, Goto
  <1>2. CASE LoadFutex(p)
    BY <1>2, SlotType DEF LoadFutex, Goto
  <1>3. CASE TestHead(p)
    BY <1>0, <1>3 DEF TestHead, Goto, Dropped
  <1>4. CASE FutexWait(p)
    BY <1>0, <1>4 DEF FutexWait, Goto, Dropped
  <1>5. CASE Enter(p)
    BY <1>5 DEF Enter, Goto
  <1>6. CASE Disown(p)
    BY <1>6 DEF Disown, Goto
  <1>7. CASE BumpHead(p)
    BY <1>0, <1>7, SuccType DEF BumpHead, Goto, Dropped
  <1>8. CASE TestTail(p)
    BY <1>0, <1>8 DEF TestTail, Goto, Dropped
  <1>9. CASE ChangeFutex(p)
    BY <1>9, SuccType, SlotType DEF ChangeFutex, Goto
  <1>10. CASE FutexWake(p)
    BY <1>0, <1>10 DEF FutexWake, Dropped
  <1> QED BY <1>1, <1>2, <1>3, <1>4, <1>5, <1>6, <1>7, <1>8, <1>9, <1>10
          DEF Step, Acquiring, Releasing

-----------------------------------------------------------------------------
(* Tickets. *)
\* Those whose ticket counts: from taking it until head is moved past it.
Active ==
  {p \in Proc : pc[p] \in {"load", "test", "wait", "asleep", "enter", "held", "bump"}}

\* The tickets between head and tail are the active threads', each has one.
Tickets ==
  /\ Cardinality(Active) = Distance(tail)
  /\ \A p \in Active : Distance(ticket[p]) < Distance(tail)
  /\ \A p, q \in Active : ticket[p] = ticket[q] => p = q
  /\ \A p \in Proc : pc[p] \in InSection => ticket[p] = head

Owned == \A p \in Proc : pc[p] = "held" <=> owner = p

LEMMA DistanceType == ASSUME TypeOK, NEW x \in Unsigned
                      PROVE  Distance(x) \in 0..Mod - 1
  BY ModAssumption DEF TypeOK, Unsigned, Distance

LEMMA DistanceHead == ASSUME TypeOK, NEW x \in Unsigned
                      PROVE  Distance(x) = 0 <=> x = head
  BY ModAssumption DEF TypeOK, Unsigned, Distance

LEMMA DistanceSucc == ASSUME TypeOK, NEW x \in Unsigned, Distance(x) < Mod - 1
                      PROVE  Distance(Succ(x)) = Distance(x) + 1
  <1>1. x \in 0..Mod - 1 /\ head \in 0..Mod - 1 /\ Mod \in Nat
    BY ModAssumption DEF TypeOK, Unsigned
  <1>2. CASE x = Mod - 1
    <2>1. Succ(x) = 0 /\ head > 0
      BY <1>1, <1>2 DEF Succ, Distance
    <2> QED BY <1>1, <1>2, <2>1 DEF Distance
  <1>3. CASE x # Mod - 1
    <2>1. Succ(x) = x + 1 /\ x + 1 # head
      BY <1>1, <1>3 DEF Succ, Distance
    <2> QED BY <1>1, <1>3, <2>1 DEF Distance
  <1> QED BY <1>2, <1>3

LEMMA ActiveFinite == IsFiniteSet(Active) /\ Cardinality(Active) \in Nat
  <1>1. Active \subseteq Proc
    BY DEF Active
  <1> QED BY <1>1, ProcAssumption, FS_Subset, FS_CardinalityType

LEMMA TicketsInit == Init => Tickets /\ Owned
  <1> SUFFICES ASSUME Init PROVE Tickets /\ Owned
    OBVIOUS
  <1>1. Active = {}
    BY DEF Init, Active
  <1>2. Distance(tail) = 0
    BY DEF Init, Distance
  <1>3. Cardinality(Active) = 0
    BY <1>1, FS_EmptySet
  <1>4. \A p \in Proc : pc[p] = "out" /\ owner # p
    BY ProcAssumption DEF Init
  <1> QED BY <1>1, <1>2, <1>3, <1>4 DEF Tickets, Owned, InSection

\* A step between two places that count, that changes no ticket.
LEMMA TicketsKept ==
  ASSUME Tickets, UNCHANGED <<head, tail, ticket>>, Active' = Active,
         \A p \in Proc : pc'[p] \in InSection => pc[p] \in InSection \/ ticket[p] = head
  PROVE  Tickets'
  <1>1. \A x : Distance(x)' = Distance(x)
    BY DEF Distance
  <1>2. Distance(tail)' = Distance(tail)
    BY <1>1
  <1>3. \A p \in Active : Distance(ticket[p])' = Distance(ticket[p])
    BY DEF Distance
  <1> QED BY <1>2, <1>3 DEF Tickets, InSection

LEMMA TicketsTaken ==
  ASSUME TypeOK, Tickets, NEW p \in Proc, TakeTicket(p) PROVE Tickets'
  <1>1. /\ head' = head /\ tail' = Succ(tail) /\ pc[p] = "out"
        /\ ticket' = [ticket EXCEPT ![p] = tail] /\ pc' = [pc EXCEPT ![p] = "load"]
    BY DEF TakeTicket, Goto
  <1>2. p \notin Active /\ Active' = Active \cup {p}
    BY <1>1 DEF Active, TypeOK
  <1>3. Cardinality(Active') = Cardinality(Active) + 1
    BY <1>2, ActiveFinite, FS_AddElement
  <1>4. Cardinality(Active') <= Cardinality(Proc)
    <2>1. Active' \subseteq Proc
      BY <1>2 DEF Active
    <2> QED BY <2>1, ProcAssumption, FS_Subset
  <1>5. Distance(tail) < Mod - 1
    BY <1>3, <1>4, ActiveFinite, ModAssumption, ProcAssumption, FS_CardinalityType
    DEF Tickets
  <1>6. Distance(tail') = Distance(tail) + 1
    BY <1>1, <1>5, DistanceSucc DEF TypeOK
  <1>7. \A x : Distance(x)' = Distance(x)
    BY <1>1 DEF Distance
  <1>8. Distance(tail)' = Distance(tail) + 1 /\ Distance(tail) \in Nat
    BY <1>1, <1>6, <1>7, DistanceType DEF TypeOK, Distance
  <1>9. ticket'[p] = tail /\ \A q \in Active : ticket'[q] = ticket[q] /\ q # p
    BY <1>1, <1>2 DEF TypeOK, Active
  <1>10. \A q \in Active : Distance(ticket[q]) \in Nat /\ ticket[q] # tail
    <2> SUFFICES ASSUME NEW q \in Active
                 PROVE  Distance(ticket[q]) \in Nat /\ ticket[q] # tail
      OBVIOUS
    <2>1. ticket[q] \in Unsigned
      BY DEF Active, TypeOK
    <2>2. Distance(ticket[q]) \in Nat /\ Distance(ticket[q]) < Distance(tail)
      BY <2>1, DistanceType DEF Tickets
    <2> QED BY <1>8, <2>2
  <1>11. \A q \in Active' : Distance(ticket[q])' < Distance(tail)'
    <2> SUFFICES ASSUME NEW q \in Active'
                 PROVE  Distance(ticket[q])' < Distance(tail)'
      OBVIOUS
    <2>1. Distance(ticket[q])' = Distance(ticket'[q])
      BY <1>1 DEF Distance
    <2>2. CASE q = p
      BY <1>8, <1>9, <2>1, <2>2
    <2>3. CASE q \in Active
      BY <1>8, <1>9, <1>10, <2>1, <2>3 DEF Tickets
    <2> QED BY <1>2, <2>2, <2>3
  <1>12. \A q, r \in Active' : ticket'[q] = ticket'[r] => q = r
    BY <1>2, <1>9, <1>10 DEF Tickets
  <1>13. \A q \in Proc : pc'[q] \in InSection => ticket'[q] = head'
    BY <1>1 DEF Tickets, InSection, TypeOK
  <1> QED BY <1>3, <1>8, <1>11, <1>12, <1>13 DEF Tickets

LEMMA DistanceBumped ==
  ASSUME TypeOK, NEW x \in Unsigned, x # head, head' = Succ(head)
  PROVE  Distance(x)' = Distance(x) - 1
  <1>1. x \in 0..Mod - 1 /\ head \in 0..Mod - 1 /\ Mod \in Nat
    BY ModAssumption DEF TypeOK, Unsigned
  <1>2. Distance(x)' = IF x >= Succ(head) THEN x - Succ(head)
                       ELSE x + Mod - Succ(head)
    BY DEF Distance
  <1> QED BY <1>1, <1>2 DEF Succ, Distance

LEMMA TicketsBumped ==
  ASSUME TypeOK, Tickets, NEW p \in Proc, BumpHead(p) PROVE Tickets'
  <1>1. /\ head' = Succ(head) /\ tail' = tail /\ pc[p] = "bump"
        /\ ticket' = [ticket EXCEPT ![p] = 0] /\ pc' = [pc EXCEPT ![p] = "tail"]
    BY DEF BumpHead, Goto, Dropped
  <1>2. p \in Active /\ Active' = Active \ {p} /\ ticket[p] = head
    BY <1>1 DEF Active, TypeOK, Tickets, InSection
  <1>3. Cardinality(Active') = Cardinality(Active) - 1
    BY <1>2, ActiveFinite, FS_RemoveElement
  <1>4. \A q \in Active' : /\ q \in Active /\ q \in Proc /\ q # p
                           /\ ticket'[q] = ticket[q] /\ ticket[q] # head
    BY <1>1, <1>2 DEF Tickets, Active, TypeOK
  <1>5. tail # head
    <2>1. Distance(head) = 0 /\ Distance(head) < Distance(tail)
      BY <1>2, DistanceHead DEF Tickets, TypeOK
    <2> QED BY <2>1
  <1>6. Distance(tail)' = Distance(tail) - 1
    <2>1. tail \in 0..Mod - 1 /\ head \in 0..Mod - 1 /\ Mod \in Nat
      BY ModAssumption DEF TypeOK, Unsigned
    <2>2. Distance(tail)' = IF tail >= Succ(head) THEN tail - Succ(head)
                            ELSE tail + Mod - Succ(head)
      BY <1>1 DEF Distance
    <2> QED BY <1>5, <2>1, <2>2 DEF Distance, Succ
  <1>7. \A q \in Active' : Distance(ticket[q])' = Distance(ticket[q]) - 1
    <2> SUFFICES ASSUME NEW q \in Active'
                 PROVE  Distance(ticket[q])' = Distance(ticket[q]) - 1
      OBVIOUS
    <2>1. ticket[q] \in Unsigned /\ ticket[q] # head
      BY <1>4 DEF TypeOK
    <2> QED BY <1>1, <1>4, <2>1, DistanceBumped
  <1>8. \A q \in Active' : Distance(ticket[q])' < Distance(tail)'
    <2> SUFFICES ASSUME NEW q \in Active'
                 PROVE  Distance(ticket[q])' < Distance(tail)'
      OBVIOUS
    <2>1. Distance(ticket[q]) < Distance(tail)
      BY <1>4 DEF Tickets
    <2>2. Distance(ticket[q]) \in Int /\ Distance(tail) \in Int
      BY <1>4, DistanceType DEF TypeOK
    <2> QED BY <1>6, <1>7, <2>1, <2>2
  <1>9. \A q, r \in Active' : ticket'[q] = ticket'[r] => q = r
    BY <1>4 DEF Tickets
  <1>10. \A q \in Proc : pc'[q] \in InSection => ticket'[q] = head'
    <2> SUFFICES ASSUME NEW q \in Proc, pc'[q] \in InSection PROVE FALSE
      OBVIOUS
    <2>1. q # p /\ pc[q] \in InSection
      BY <1>1 DEF TypeOK, InSection
    <2>2. q \in Active /\ ticket[q] = head
      BY <2>1 DEF Active, Tickets, InSection
    <2> QED BY <1>2, <2>1, <2>2 DEF Tickets
  <1> QED BY <1>3, <1>6, <1>8, <1>9, <1>10 DEF Tickets

LEMMA TicketsStep ==
  ASSUME TypeOK, Tickets, NEW p \in Proc, Step(p) PROVE Tickets'
  <1> USE DEF Goto, Active, TypeOK
  <1>1. CASE TakeTicket(p)
    BY <1>1, TicketsTaken
  <1>2. CASE LoadFutex(p)
    <2>1. Active' = Active /\ \A q \in Proc : pc'[q] \in InSection => pc[q] \in InSection
      BY <1>2 DEF LoadFutex, InSection
    <2> QED BY <1>2, <2>1, TicketsKept DEF LoadFutex
  <1>3. CASE TestHead(p)
    <2>1. /\ pc[p] = "test"
          /\ \/ ticket[p] = head /\ pc' = [pc EXCEPT ![p] = "enter"]
             \/ pc' = [pc EXCEPT ![p] = "wait"]
      BY <1>3 DEF TestHead
    <2>2. Active' = Active
      BY <2>1
    <2>3. \A q \in Proc : pc'[q] \in InSection => pc[q] \in InSection \/ ticket[q] = head
      BY <2>1 DEF InSection
    <2> QED BY <1>3, <2>2, <2>3, TicketsKept DEF TestHead
  <1>4. CASE FutexWait(p)
    <2>1. Active' = Active /\ \A q \in Proc : pc'[q] \in InSection => pc[q] \in InSection
      BY <1>4 DEF FutexWait, InSection
    <2> QED BY <1>4, <2>1, TicketsKept DEF FutexWait
  <1>5. CASE Enter(p)
    <2>1. Active' = Active /\ \A q \in Proc : pc'[q] \in InSection => pc[q] \in InSection
      BY <1>5 DEF Enter, InSection
    <2> QED BY <1>5, <2>1, TicketsKept DEF Enter
  <1>6. CASE Disown(p)
    <2>1. Active' = Active /\ \A q \in Proc : pc'[q] \in InSection => pc[q] \in InSection
      BY <1>6 DEF Disown, InSection
    <2> QED BY <1>6, <2>1, TicketsKept DEF Disown
  <1>7. CASE BumpHead(p)
    BY <1>7, TicketsBumped
  <1>8. CASE TestTail(p)
    <2>1. Active' = Active /\ \A q \in Proc : pc'[q] \in InSection => pc[q] \in InSection
      BY <1>8 DEF TestTail, InSection
    <2> QED BY <1>8, <2>1, TicketsKept DEF TestTail
  <1>9. CASE ChangeFutex(p)
    <2>1. Active' = Active /\ \A q \in Proc : pc'[q] \in InSection => pc[q] \in InSection
      BY <1>9 DEF ChangeFutex, InSection
    <2> QED BY <1>9, <2>1, TicketsKept DEF ChangeFutex
  <1>10. CASE FutexWake(p)
    <2>1. Active' = Active /\ \A q \in Proc : pc'[q] \in InSection => pc[q] \in InSection
      BY <1>10 DEF FutexWake, InSection
    <2> QED BY <1>10, <2>1, TicketsKept DEF FutexWake
  <1> QED BY <1>1, <1>2, <1>3, <1>4, <1>5, <1>6, <1>7, <1>8, <1>9, <1>10
          DEF Step, Acquiring, Releasing

LEMMA OwnedStep ==
  ASSUME TypeOK, Tickets, Owned, NEW p \in Proc, Step(p) PROVE Owned'
  <1> USE DEF Goto, TypeOK
  <1>1. CASE TakeTicket(p)
    BY <1>1 DEF TakeTicket, Owned
  <1>2. CASE LoadFutex(p)
    BY <1>2 DEF LoadFutex, Owned
  <1>3. CASE TestHead(p)
    BY <1>3 DEF TestHead, Owned
  <1>4. CASE FutexWait(p)
    BY <1>4 DEF FutexWait, Owned
  <1>5. CASE Enter(p)
    <2>1. \A q \in Proc : pc[q] = "held" => q = p
      <3> SUFFICES ASSUME NEW q \in Proc, pc[q] = "held" PROVE q = p
        OBVIOUS
      <3>1. p \in Active /\ q \in Active /\ ticket[p] = head /\ ticket[q] = head
        BY <1>5 DEF Enter, Active, Tickets, InSection
      <3> QED BY <3>1 DEF Tickets
    <2> QED BY <1>5, <2>1 DEF Enter, Owned
  <1>6. CASE Disown(p)
    BY <1>6, ProcAssumption DEF Disown, Owned
  <1>7. CASE BumpHead(p)
    BY <1>7 DEF BumpHead, Owned
  <1>8. CASE TestTail(p)
    BY <1>8 DEF TestTail, Owned
  <1>9. CASE ChangeFutex(p)
    BY <1>9 DEF ChangeFutex, Owned
  <1>10. CASE FutexWake(p)
    BY <1>10 DEF FutexWake, Owned
  <1> QED BY <1>1, <1>2, <1>3, <1>4, <1>5, <1>6, <1>7, <1>8, <1>9, <1>10
          DEF Step, Acquiring, Releasing

-----------------------------------------------------------------------------
(* Wakeups.  A thread goes to sleep on the futex value it read, and may do so *)
(* when its turn has come only if the futex has not come round to that value. *)
\* How far x is after y on the circle of the counters.
Ahead(x, y) == IF x >= y THEN x - y ELSE x + Mod - y

\* How often p's futex has changed since p read it.
Gap(p) == Ahead(futex[Slot(ticket[p])], seen[p])

\* Those who may change p's futex before p has had its turn, each once.
MayChange(p) ==
  {q \in Proc \ {p} : \/ pc[q] \in {"tail", "change"}
                      \/ q \in Active /\ Distance(ticket[q]) < Distance(ticket[p])}

Reading == {"test", "wait"}

FewChanges ==
  \A p \in Proc : pc[p] \in Reading =>
    Gap(p) + Cardinality(MayChange(p)) < Cardinality(Proc)

\* A thread that is about to sleep though it is its turn finds the futex
\* changed, or the one that released the lock has yet to change it.
WillBeWoken ==
  \A p \in Proc : pc[p] = "wait" /\ ticket[p] = head =>
    \/ futex[Slot(ticket[p])] # seen[p]
    \/ \E q \in Proc : pc[q] \in {"tail", "change"} /\ wakeup[q] = head

LEMMA AheadType == ASSUME NEW x \in Unsigned, NEW y \in Unsigned
                   PROVE  Ahead(x, y) \in 0..Mod - 1 /\ (Ahead(x, y) = 0 <=> x = y)
  BY ModAssumption DEF Unsigned, Ahead

LEMMA AheadSucc ==
  ASSUME NEW x \in Unsigned, NEW y \in Unsigned, Ahead(x, y) < Mod - 1
  PROVE  Ahead(Succ(x), y) = Ahead(x, y) + 1
  <1>1. x \in 0..Mod - 1 /\ y \in 0..Mod - 1 /\ Mod \in Nat
    BY ModAssumption DEF Unsigned
  <1>2. CASE x = Mod - 1
    <2>1. Succ(x) = 0 /\ y > 0
      BY <1>1, <1>2 DEF Succ, Ahead
    <2> QED BY <1>1, <1>2, <2>1 DEF Ahead
  <1>3. CASE x # Mod - 1
    <2>1. Succ(x) = x + 1 /\ x + 1 # y
      BY <1>1, <1>3 DEF Succ, Ahead
    <2> QED BY <1>1, <1>3, <2>1 DEF Ahead
  <1> QED BY <1>2, <1>3

LEMMA GapType == ASSUME TypeOK, NEW p \in Proc
                 PROVE  /\ Gap(p) \in 0..Mod - 1
                        /\ Gap(p) = 0 <=> futex[Slot(ticket[p])] = seen[p]
  <1>1. futex[Slot(ticket[p])] \in Unsigned /\ seen[p] \in Unsigned
    BY SlotType DEF TypeOK
  <1> QED BY <1>1, AheadType DEF Gap

LEMMA MayChangeFinite == ASSUME NEW p \in Proc
                         PROVE  /\ IsFiniteSet(MayChange(p))
                                /\ Cardinality(MayChange(p)) \in Nat
                                /\ Cardinality(MayChange(p)) < Cardinality(Proc)
  <1>1. MayChange(p) \subseteq Proc \ {p} /\ IsFiniteSet(Proc \ {p})
    BY ProcAssumption, FS_Subset DEF MayChange
  <1>2. Cardinality(Proc \ {p}) = Cardinality(Proc) - 1
    BY ProcAssumption, FS_RemoveElement
  <1> QED BY <1>1, <1>2, ProcAssumption, FS_Subset, FS_CardinalityType

\* As long as nobody joins those who may change p's futex, and it stays.
LEMMA GapKept ==
  ASSUME FewChanges, NEW p \in Proc, pc[p] \in Reading, TypeOK, TypeOK',
         ticket'[p] = ticket[p], seen'[p] = seen[p], futex' = futex,
         MayChange(p)' \subseteq MayChange(p)
  PROVE  Gap(p)' + Cardinality(MayChange(p))' < Cardinality(Proc)
  <1>1. Gap(p)' = Gap(p) /\ Gap(p) \in Nat
    BY GapType DEF Gap
  <1>2. /\ Cardinality(MayChange(p)) \in Nat /\ Cardinality(MayChange(p)') \in Nat
        /\ Cardinality(MayChange(p)') <= Cardinality(MayChange(p))
    BY MayChangeFinite, FS_Subset, FS_CardinalityType
  <1>3. Gap(p) + Cardinality(MayChange(p)) < Cardinality(Proc)
    BY DEF FewChanges
  <1> QED BY <1>1, <1>2, <1>3, ProcAssumption, FS_CardinalityType

\* The one that changes a futex does not meet the value that p read.
LEMMA GapChanged ==
  ASSUME TypeOK, FewChanges, NEW q \in Proc, ChangeFutex(q),
         NEW p \in Proc, pc[p] \in Reading
  PROVE  /\ Gap(p)' + Cardinality(MayChange(p))' < Cardinality(Proc)
         /\ Slot(wakeup[q]) = Slot(ticket[p]) => futex'[Slot(ticket[p])] # seen[p]
  <1> DEFINE s == Slot(ticket[p])
             N == Cardinality(Proc)
             M == Cardinality(MayChange(p))
  <1>1. /\ pc[q] = "change" /\ pc' = [pc EXCEPT ![q] = "wake"]
        /\ futex' = [futex EXCEPT ![Slot(wakeup[q])] = Succ(@)]
        /\ UNCHANGED <<head, tail, owner, ticket, seen, wakeup>>
    BY DEF ChangeFutex, Goto
  <1>2. q \in MayChange(p)
    BY <1>1 DEF MayChange, Reading
  <1>3. MayChange(p)' = MayChange(p) \ {q}
    BY <1>1, <1>2 DEF MayChange, Active, Distance, TypeOK
  <1>4. M \in Nat /\ M > 0 /\ Cardinality(MayChange(p)') = M - 1
    <2>1. Cardinality(MayChange(p)') = M - 1
      BY <1>2, <1>3, MayChangeFinite, FS_RemoveElement
    <2>2. M # 0
      BY <1>2, MayChangeFinite, FS_EmptySet
    <2> QED BY <2>1, <2>2, MayChangeFinite
  <1>5. /\ Gap(p) \in Nat /\ N \in Nat /\ N < Mod /\ Gap(p) + M < N
    BY GapType, ProcAssumption, ModAssumption, FS_CardinalityType DEF FewChanges
  <1>6. futex[s] \in Unsigned /\ seen[p] \in Unsigned /\ s \in 0..Slots - 1
    BY SlotType DEF TypeOK
  <1>7. Gap(p)' = Ahead(futex'[s], seen[p])
    BY <1>1 DEF Gap, TypeOK
  <1>8. CASE Slot(wakeup[q]) = s
    <2>1. futex'[s] = Succ(futex[s])
      BY <1>1, <1>6, <1>8 DEF TypeOK
    <2>2. Ahead(futex[s], seen[p]) = Gap(p) /\ Gap(p) < Mod - 1
      BY <1>4, <1>5, ModAssumption DEF Gap
    <2>3. Gap(p)' = Gap(p) + 1
      BY <1>6, <1>7, <2>1, <2>2, AheadSucc
    <2>4. futex'[s] # seen[p]
      BY <1>5, <1>6, <1>7, <2>1, <2>3, SuccType, AheadType
    <2> HIDE DEF M, N
    <2> QED BY <1>4, <1>5, <2>3, <2>4 DEF M, N
  <1>9. CASE Slot(wakeup[q]) # s
    <2>1. futex'[s] = futex[s]
      BY <1>1, <1>6, <1>9 DEF TypeOK
    <2>2. Gap(p)' = Gap(p)
      BY <1>7, <2>1 DEF Gap
    <2> HIDE DEF M, N
    <2> QED BY <1>4, <1>5, <1>9, <2>2 DEF M, N
  <1> QED BY <1>8, <1>9

\* The tickets before p's are those of the same threads, or of fewer, also when
\* they are counted from a new head.
LEMMA MayChangeStep ==
  ASSUME TypeOK, TypeOK', Tickets, NEW q \in Proc, Step(q),
         NEW p \in Proc, pc[p] \in Reading, pc'[p] \in Reading
  PROVE  MayChange(p)' \subseteq MayChange(p)
  <1> USE DEF Goto, TypeOK, Reading
  <1> SUFFICES ASSUME NEW r \in MayChange(p)' PROVE r \in MayChange(p)
    OBVIOUS
  <1>0. /\ r \in Proc \ {p}
        /\ \/ pc'[r] \in {"tail", "change"}
           \/ r \in Active' /\ Distance(ticket[r])' < Distance(ticket[p])'
    BY DEF MayChange
  \* What r does is not what it did, or the tickets are the same.
  <1>a. ASSUME UNCHANGED <<head, ticket>>, r \in Active' => r \in Active,
               pc'[r] \in {"tail", "change"} => pc[r] \in {"tail", "change"}
        PROVE  r \in MayChange(p)
    BY <1>0, <1>a DEF MayChange, Distance
  <1>1. CASE TakeTicket(q)
    <2>1. /\ pc[q] = "out" /\ pc' = [pc EXCEPT ![q] = "load"] /\ head' = head
          /\ ticket' = [ticket EXCEPT ![q] = tail]
      BY <1>1 DEF TakeTicket
    <2>2. q # p /\ p \in Active
      BY <2>1 DEF Active
    <2>3. CASE r = q
      <3>1. Distance(ticket[r])' = Distance(tail) /\ Distance(ticket[p])' = Distance(ticket[p])
        BY <2>1, <2>2, <2>3 DEF Distance
      <3>2. Distance(ticket[p]) < Distance(tail)
        BY <2>2 DEF Tickets
      <3>3. Distance(tail) \in Int /\ Distance(ticket[p]) \in Int
        BY DistanceType
      <3>4. pc'[r] = "load"
        BY <2>1, <2>3
      <3> QED BY <1>0, <3>1, <3>2, <3>3, <3>4
    <2>4. CASE r # q
      <3>1. pc'[r] = pc[r] /\ (r \in Active' => r \in Active)
        BY <1>0, <2>1, <2>4 DEF Active
      <3>2. Distance(ticket[r])' = Distance(ticket[r]) /\ Distance(ticket[p])' = Distance(ticket[p])
        BY <1>0, <2>1, <2>2, <2>4 DEF Distance
      <3> QED BY <1>0, <3>1, <3>2 DEF MayChange
    <2> QED BY <2>3, <2>4
  <1>2. CASE LoadFutex(q)
    BY <1>0, <1>2, <1>a DEF LoadFutex, Active
  <1>3. CASE TestHead(q)
    BY <1>0, <1>3, <1>a DEF TestHead, Active
  <1>4. CASE FutexWait(q)
    BY <1>0, <1>4, <1>a DEF FutexWait, Active
  <1>5. CASE Enter(q)
    BY <1>0, <1>5, <1>a DEF Enter, Active
  <1>6. CASE Disown(q)
    BY <1>0, <1>6, <1>a DEF Disown, Active
  <1>7. CASE BumpHead(q)
    <2>1. /\ head' = Succ(head) /\ pc[q] = "bump"
          /\ ticket' = [ticket EXCEPT ![q] = 0] /\ pc' = [pc EXCEPT ![q] = "tail"]
      BY <1>7 DEF BumpHead, Dropped
    <2>2. q # p /\ q \in Active /\ p \in Active /\ ticket[q] = head
      BY <2>1 DEF Active, Tickets, InSection
    <2>3. ticket[p] # head
      BY <2>2 DEF Tickets
    <2>4. CASE r = q
      <3>1. Distance(ticket[q]) = 0 /\ Distance(ticket[p]) # 0
        BY <2>2, <2>3, DistanceHead
      <3>2. Distance(ticket[p]) \in Nat
        BY DistanceType
      <3> QED BY <1>0, <2>2, <2>4, <3>1, <3>2 DEF MayChange
    <2>5. CASE r # q
      <3>1. pc'[r] = pc[r] /\ (r \in Active' => r \in Active)
        BY <1>0, <2>1, <2>5 DEF Active
      <3>2. CASE pc'[r] \in {"tail", "change"}
        BY <1>0, <3>1, <3>2 DEF MayChange
      <3>3. CASE r \in Active' /\ Distance(ticket[r])' < Distance(ticket[p])'
        <4>1. ticket[r] # head
          BY <2>2, <2>5, <3>1, <3>3 DEF Tickets
        <4>2. /\ Distance(ticket[r])' = Distance(ticket[r]) - 1
              /\ Distance(ticket[p])' = Distance(ticket[p]) - 1
          BY <1>0, <2>1, <2>2, <2>3, <2>5, <4>1, DistanceBumped
        <4>3. Distance(ticket[r]) \in Int /\ Distance(ticket[p]) \in Int
          BY <1>0, DistanceType
        <4>4. Distance(ticket[r]) < Distance(ticket[p])
          BY <3>3, <4>2, <4>3
        <4> QED BY <1>0, <3>1, <3>3, <4>4 DEF MayChange
      <3> QED BY <1>0, <3>2, <3>3
    <2> QED BY <2>4, <2>5
  <1>8. CASE TestTail(q)
    BY <1>0, <1>8, <1>a DEF TestTail, Active
  <1>9. CASE ChangeFutex(q)
    BY <1>0, <1>9, <1>a DEF ChangeFutex, Active
  <1>10. CASE FutexWake(q)
    BY <1>0, <1>10, <1>a DEF FutexWake, Active
  <1> QED BY <1>1, <1>2, <1>3, <1>4, <1>5, <1>6, <1>7, <1>8, <1>9, <1>10
          DEF Step, Acquiring, Releasing

LEMMA FewChangesStep ==
  ASSUME TypeOK, TypeOK', Tickets, FewChanges, NEW q \in Proc, Step(q)
  PROVE  FewChanges'
  <1> USE DEF Goto, TypeOK
  <1> SUFFICES ASSUME NEW p \in Proc, pc'[p] \in Reading
               PROVE  Gap(p)' + Cardinality(MayChange(p))' < Cardinality(Proc)
    BY DEF FewChanges
  \* p went on waiting.
  <1>a. ASSUME pc[p] \in Reading, UNCHANGED futex,
               ticket'[p] = ticket[p], seen'[p] = seen[p]
        PROVE  Gap(p)' + Cardinality(MayChange(p))' < Cardinality(Proc)
    BY <1>a, MayChangeStep, GapKept
  <1>1. CASE TakeTicket(q)
    <2>1. q # p /\ pc[p] \in Reading
      BY <1>1 DEF TakeTicket, Reading
    <2> QED BY <1>1, <2>1, <1>a DEF TakeTicket
  <1>2. CASE LoadFutex(q)
    <2>1. CASE q = p
      <3>1. seen'[p] = futex'[Slot(ticket'[p])]
        BY <1>2, <2>1 DEF LoadFutex
      <3>2. Gap(p)' = 0
        <4>1. futex'[Slot(ticket'[p])] \in Unsigned
          BY <3>1
        <4> QED BY <3>1, <4>1, AheadType DEF Gap
      <3>3. Cardinality(MayChange(p)') \in Nat /\ Cardinality(MayChange(p)') < Cardinality(Proc)
        <4>1. MayChange(p)' \subseteq Proc \ {p} /\ IsFiniteSet(Proc \ {p})
          BY ProcAssumption, FS_Subset DEF MayChange
        <4>2. Cardinality(Proc \ {p}) = Cardinality(Proc) - 1
          BY ProcAssumption, FS_RemoveElement
        <4> QED BY <4>1, <4>2, ProcAssumption, FS_Subset, FS_CardinalityType
      <3> QED BY <3>2, <3>3
    <2>2. CASE q # p
      <3>1. pc[p] \in Reading
        BY <1>2, <2>2 DEF LoadFutex
      <3> QED BY <1>2, <2>2, <3>1, <1>a DEF LoadFutex
    <2> QED BY <2>1, <2>2
  <1>3. CASE TestHead(q)
    BY <1>3, <1>a DEF TestHead, Reading, Dropped
  <1>4. CASE FutexWait(q)
    BY <1>4, <1>a DEF FutexWait, Reading, Dropped
  <1>5. CASE Enter(q)
    BY <1>5, <1>a DEF Enter, Reading
  <1>6. CASE Disown(q)
    BY <1>6, <1>a DEF Disown, Reading
  <1>7. CASE BumpHead(q)
    BY <1>7, <1>a DEF BumpHead, Reading, Dropped
  <1>8. CASE TestTail(q)
    BY <1>8, <1>a DEF TestTail, Reading
  <1>9. CASE ChangeFutex(q)
    <2>1. pc[p] \in Reading
      BY <1>9 DEF ChangeFutex, Reading
    <2> QED BY <1>9, <2>1, GapChanged
  <1>10. CASE FutexWake(q)
    BY <1>10, <1>a DEF FutexWake, Reading
  <1> QED BY <1>1, <1>2, <1>3, <1>4, <1>5, <1>6, <1>7, <1>8, <1>9, <1>10
          DEF Step, Acquiring, Releasing

\* The one that releases the lock sees that somebody has taken a ticket.
LEMMA SomebodyWaits ==
  ASSUME TypeOK, Tickets, NEW p \in Active, ticket[p] = head PROVE tail # head
  <1>1. Distance(head) = 0 /\ Distance(head) < Distance(tail)
    BY DistanceHead DEF TypeOK, Tickets
  <1> QED BY <1>1

LEMMA WillBeWokenStep ==
  ASSUME TypeOK, Tickets, FewChanges, WillBeWoken, NEW q \in Proc, Step(q)
  PROVE  WillBeWoken'
  <1> USE DEF Goto, TypeOK
  <1> SUFFICES ASSUME NEW p \in Proc, pc'[p] = "wait", ticket'[p] = head'
               PROVE  \/ futex'[Slot(ticket'[p])] # seen'[p]
                      \/ \E r \in Proc : pc'[r] \in {"tail", "change"} /\ wakeup'[r] = head'
    BY DEF WillBeWoken
  <1>1. CASE TakeTicket(q)
    <2>1. q # p /\ pc[p] = "wait" /\ ticket[p] = head
      BY <1>1 DEF TakeTicket
    <2> QED BY <1>1, <2>1 DEF TakeTicket, WillBeWoken
  <1>2. CASE LoadFutex(q)
    <2>1. q # p /\ pc[p] = "wait" /\ ticket[p] = head
      BY <1>2 DEF LoadFutex
    <2> QED BY <1>2, <2>1 DEF LoadFutex, WillBeWoken
  <1>3. CASE TestHead(q)
    <2>1. q # p /\ pc[p] = "wait" /\ ticket[p] = head
      BY <1>3 DEF TestHead
    <2> QED BY <1>3, <2>1 DEF TestHead, WillBeWoken, Dropped
  <1>4. CASE FutexWait(q)
    <2>1. q # p /\ pc[p] = "wait" /\ ticket[p] = head
      BY <1>4 DEF FutexWait
    <2> QED BY <1>4, <2>1 DEF FutexWait, WillBeWoken, Dropped
  <1>5. CASE Enter(q)
    <2>1. q # p /\ pc[p] = "wait" /\ ticket[p] = head
      BY <1>5 DEF Enter
    <2> QED BY <1>5, <2>1 DEF Enter, WillBeWoken
  <1>6. CASE Disown(q)
    <2>1. q # p /\ pc[p] = "wait" /\ ticket[p] = head
      BY <1>6 DEF Disown
    <2> QED BY <1>6, <2>1 DEF Disown, WillBeWoken
  <1>7. CASE BumpHead(q)
    BY <1>7 DEF BumpHead
  <1>8. CASE TestTail(q)
    <2>1. q # p /\ pc[p] = "wait" /\ ticket[p] = head
      BY <1>8 DEF TestTail
    <2>2. tail # head
      BY <2>1, SomebodyWaits DEF Active
    <2> QED BY <1>8, <2>1, <2>2 DEF TestTail, WillBeWoken, Dropped
  <1>9. CASE ChangeFutex(q)
    <2>1. /\ q # p /\ pc[p] = "wait" /\ ticket[p] = head
          /\ UNCHANGED <<head, ticket, seen, wakeup>>
          /\ pc' = [pc EXCEPT ![q] = "wake"]
          /\ futex' = [futex EXCEPT ![Slot(wakeup[q])] = Succ(@)]
      BY <1>9 DEF ChangeFutex
    <2>2. CASE Slot(wakeup[q]) = Slot(ticket[p])
      <3>1. pc[p] \in Reading
        BY <2>1 DEF Reading
      <3> QED BY <1>9, <2>1, <2>2, <3>1, GapChanged
    <2>3. CASE Slot(wakeup[q]) # Slot(ticket[p])
      <3>1. futex'[Slot(ticket[p])] = futex[Slot(ticket[p])]
        BY <2>1, <2>3, SlotType
      <3>2. wakeup[q] # head
        BY <2>1, <2>3
      <3> QED BY <2>1, <3>1, <3>2 DEF WillBeWoken
    <2> QED BY <2>2, <2>3
  <1>10. CASE FutexWake(q)
    <2>1. q # p /\ pc[p] = "wait" /\ ticket[p] = head /\ pc[q] = "wake"
      BY <1>10 DEF FutexWake
    <2> QED BY <1>10, <2>1 DEF FutexWake, WillBeWoken, Dropped
  <1> QED BY <1>1, <1>2, <1>3, <1>4, <1>5, <1>6, <1>7, <1>8, <1>9, <1>10
          DEF Step, Acquiring, Releasing

LEMMA NoLostWakeupStep ==
  ASSUME TypeOK, Tickets, WillBeWoken, NoLostWakeup, NEW q \in Proc, Step(q)
  PROVE  NoLostWakeup'
  <1> USE DEF Goto, TypeOK
  <1> SUFFICES ASSUME NEW p \in Proc, pc'[p] = "asleep", ticket'[p] = head'
               PROVE  \E r \in Proc : /\ pc'[r] \in {"tail", "change", "wake"}
                                      /\ wakeup'[r] = head'
    BY DEF NoLostWakeup
  <1>1. CASE TakeTicket(q)
    <2>1. q # p /\ pc[p] = "asleep" /\ ticket[p] = head
      BY <1>1 DEF TakeTicket
    <2> QED BY <1>1, <2>1 DEF TakeTicket, NoLostWakeup
  <1>2. CASE LoadFutex(q)
    <2>1. q # p /\ pc[p] = "asleep" /\ ticket[p] = head
      BY <1>2 DEF LoadFutex
    <2> QED BY <1>2, <2>1 DEF LoadFutex, NoLostWakeup
  <1>3. CASE TestHead(q)
    <2>1. q # p /\ pc[p] = "asleep" /\ ticket[p] = head
      BY <1>3 DEF TestHead
    <2> QED BY <1>3, <2>1 DEF TestHead, NoLostWakeup
  <1>4. CASE FutexWait(q)
    <2>1. pc[q] = "wait" /\ UNCHANGED <<head, ticket, wakeup>>
      BY <1>4 DEF FutexWait
    <2>2. CASE q = p
      <3>1. futex[Slot(ticket[p])] = seen[p] /\ ticket[p] = head
        BY <1>4, <2>1, <2>2 DEF FutexWait
      <3>2. PICK r \in Proc : pc[r] \in {"tail", "change"} /\ wakeup[r] = head
        BY <2>1, <2>2, <3>1 DEF WillBeWoken
      <3> QED BY <1>4, <2>1, <3>2 DEF FutexWait
    <2>3. CASE q # p
      BY <1>4, <2>1, <2>3 DEF FutexWait, NoLostWakeup
    <2> QED BY <2>2, <2>3
  <1>5. CASE Enter(q)
    <2>1. q # p /\ pc[p] = "asleep" /\ ticket[p] = head
      BY <1>5 DEF Enter
    <2> QED BY <1>5, <2>1 DEF Enter, NoLostWakeup
  <1>6. CASE Disown(q)
    <2>1. q # p /\ pc[p] = "asleep" /\ ticket[p] = head
      BY <1>6 DEF Disown
    <2> QED BY <1>6, <2>1 DEF Disown, NoLostWakeup
  <1>7. CASE BumpHead(q)
    BY <1>7 DEF BumpHead
  <1>8. CASE TestTail(q)
    <2>1. q # p /\ pc[p] = "asleep" /\ ticket[p] = head
      BY <1>8 DEF TestTail
    <2>2. tail # head
      BY <2>1, SomebodyWaits DEF Active
    <2> QED BY <1>8, <2>1, <2>2 DEF TestTail, NoLostWakeup, Dropped
  <1>9. CASE ChangeFutex(q)
    <2>1. q # p /\ pc[p] = "asleep" /\ ticket[p] = head
      BY <1>9 DEF ChangeFutex
    <2> QED BY <1>9, <2>1 DEF ChangeFutex, NoLostWakeup
  <1>10. CASE FutexWake(q)
    <2>1. /\ q # p /\ pc[p] = "asleep" /\ ticket[p] = head /\ pc[q] = "wake"
          /\ Slot(ticket[p]) # Slot(wakeup[q])
      BY <1>10 DEF FutexWake
    <2>2. PICK r \in Proc : pc[r] \in {"tail", "change", "wake"} /\ wakeup[r] = head
      BY <2>1 DEF NoLostWakeup
    <2>3. r # q
      BY <2>1, <2>2
    <2> QED BY <1>10, <2>2, <2>3 DEF FutexWake, Dropped
  <1> QED BY <1>1, <1>2, <1>3, <1>4, <1>5, <1>6, <1>7, <1>8, <1>9, <1>10
          DEF Step, Acquiring, Releasing

LEMMA WakeupsInit == Init => FewChanges /\ WillBeWoken /\ NoLostWakeup
  BY DEF Init, FewChanges, WillBeWoken, NoLostWakeup, Reading

-----------------------------------------------------------------------------
IInv == TypeOK /\ Tickets /\ Owned /\ FewChanges /\ WillBeWoken /\ NoLostWakeup

LEMMA Inductive == Spec => []IInv
  <1>1. Init => IInv
    BY TypeInit, TicketsInit, WakeupsInit DEF IInv
  <1>2. IInv /\ [Next]_vars => IInv'
    <2> SUFFICES ASSUME IInv, [Next]_vars PROVE IInv'
      OBVIOUS
    <2>1. CASE UNCHANGED vars
      <3>1. TypeOK' /\ Owned' /\ WillBeWoken' /\ NoLostWakeup'
        BY <2>1 DEF vars, IInv, TypeOK, Owned, WillBeWoken, NoLostWakeup
      <3>2. Active' = Active
        BY <2>1 DEF vars, Active
      <3>3. Tickets'
        BY <2>1, <3>2, TicketsKept DEF vars, IInv
      <3>4. \A p : Gap(p)' = Gap(p) /\ MayChange(p)' = MayChange(p)
        BY <2>1, <3>2 DEF vars, Gap, MayChange, Distance
      <3>5. FewChanges'
        <4>1. FewChanges /\ UNCHANGED pc
          BY <2>1 DEF vars, IInv
        <4> QED BY <3>4, <4>1 DEF FewChanges
      <3> QED BY <3>1, <3>3, <3>5 DEF IInv
    <2>2. CASE Next
      <3>1. PICK p \in Proc : Step(p)
        BY <2>2 DEF Next, Step
      <3>2. TypeOK' /\ Tickets' /\ Owned'
        BY <3>1, TypeStep, TicketsStep, OwnedStep DEF IInv
      <3> QED BY <3>1, <3>2, FewChangesStep, WillBeWokenStep, NoLostWakeupStep DEF IInv
    <2> QED BY <2>1, <2>2
  <1> QED BY <1>1, <1>2, PTL DEF Spec

\* Head, tail and futexes stay in range.
THEOREM TypeCorrect == Spec => []TypeOK
  BY Inductive, PTL DEF IInv

\* The assertions on owner hold for any number of threads below Mod, however
\* often the counters wrap around.
THEOREM OneOwner == Spec => []MutualExclusion
  <1>1. IInv => MutualExclusion
    <2> SUFFICES ASSUME IInv PROVE MutualExclusion
      OBVIOUS
    <2>1. ASSUME NEW p \in Proc, NEW q \in Proc, pc[p] \in InSection, pc[q] \in InSection
          PROVE  p = q
      <3>1. p \in Active /\ q \in Active
        BY <2>1 DEF Active, InSection
      <3>2. ticket[p] = head /\ ticket[q] = head
        BY <2>1 DEF IInv, Tickets
      <3> QED BY <3>1, <3>2 DEF IInv, Tickets
    <2>2. ASSUME NEW p \in Proc, pc[p] = "enter" PROVE owner = Nobody
      <3>1. ASSUME owner # Nobody PROVE FALSE
        <4>1. owner \in Proc /\ pc[owner] = "held"
          BY <3>1 DEF IInv, TypeOK, Owned
        <4>2. owner = p
          BY <2>1, <2>2, <4>1 DEF InSection
        <4> QED BY <2>2, <4>1, <4>2
      <3> QED BY <3>1
    <2> QED BY <2>1, <2>2 DEF MutualExclusion, IInv, Owned
  <1> QED BY <1>1, Inductive, PTL

\* A thread that sleeps when its turn comes is about to be woken, for any number
\* of threads and futexes: between its look at the futex and its sleep the futex
\* changes at most once for each of the others, too seldom to come round.
THEOREM WakeupsKept == Spec => []NoLostWakeup
  BY Inductive, PTL DEF IInv

-----------------------------------------------------------------------------
(* The queue.  A thread's place is the number of those who wait before it; the *)
(* places of those who wait are 0, 1, 2 and so on.                            *)
Places == 0..Cardinality(Waiting) - 1

Place(p) == Cardinality(Before(p))

LEMMA WaitingFinite == /\ Waiting \subseteq Active /\ Waiting \subseteq Proc
                       /\ IsFiniteSet(Waiting) /\ Cardinality(Waiting) \in Nat
  <1>1. Waiting \subseteq Active /\ Waiting \subseteq Proc
    BY DEF Waiting, Active
  <1> QED BY <1>1, ProcAssumption, FS_Subset, FS_CardinalityType

LEMMA DistanceInjective ==
  ASSUME TypeOK, NEW x \in Unsigned, NEW y \in Unsigned, Distance(x) = Distance(y)
  PROVE  x = y
  BY ModAssumption DEF TypeOK, Unsigned, Distance

LEMMA Ordered ==
  ASSUME TypeOK, Tickets, NEW p \in Waiting, NEW q \in Waiting, p # q
  PROVE  /\ Distance(ticket[p]) \in Nat
         /\ Distance(ticket[p]) < Distance(ticket[q]) \/ Distance(ticket[q]) < Distance(ticket[p])
  <1>1. p \in Active /\ q \in Active /\ ticket[p] \in Unsigned /\ ticket[q] \in Unsigned
    BY WaitingFinite DEF TypeOK
  <1>2. ticket[p] # ticket[q]
    BY <1>1 DEF Tickets
  <1> QED BY <1>1, <1>2, DistanceType, DistanceInjective

LEMMA PlaceType == ASSUME TypeOK, NEW p \in Waiting PROVE Place(p) \in Places
  <1>1. Before(p) \subseteq Waiting \ {p} /\ IsFiniteSet(Waiting \ {p})
    <2>1. Distance(ticket[p]) \in Nat
      BY WaitingFinite, DistanceType DEF TypeOK
    <2>2. p \notin Before(p)
      BY <2>1 DEF Before
    <2> QED BY <2>2, WaitingFinite, FS_Subset DEF Before
  <1>2. Cardinality(Waiting \ {p}) = Cardinality(Waiting) - 1
    BY WaitingFinite, FS_RemoveElement
  <1> QED BY <1>1, <1>2, WaitingFinite, FS_Subset, FS_CardinalityType DEF Place, Places

LEMMA PlacesDiffer ==
  ASSUME TypeOK, Tickets, NEW p \in Waiting, NEW q \in Waiting,
         Distance(ticket[p]) < Distance(ticket[q])
  PROVE  Place(p) < Place(q)
  <1>1. \A r \in Waiting : Distance(ticket[r]) \in Nat
    BY WaitingFinite, DistanceType DEF TypeOK
  <1>2. Before(p) \subseteq Before(q) /\ p \in Before(q) /\ p \notin Before(p)
    BY <1>1 DEF Before
  <1>3. IsFiniteSet(Before(q))
    BY WaitingFinite, FS_Subset DEF Before
  <1>4. /\ Cardinality(Before(p)) <= Cardinality(Before(q))
        /\ Cardinality(Before(p)) # Cardinality(Before(q))
    BY <1>2, <1>3, FS_Subset
  <1> QED BY <1>4, PlaceType DEF Place, Places

QueueOK ==
  /\ Queue \in Seq(Proc) /\ Len(Queue) = Cardinality(Waiting)
  /\ \A k \in 1..Cardinality(Waiting) : Queue[k] \in Waiting /\ Place(Queue[k]) = k - 1
  /\ \A p \in Waiting : Queue[Place(p) + 1] = p

LEMMA QueueInOrder == TypeOK /\ Tickets => QueueOK
  <1> SUFFICES ASSUME TypeOK, Tickets PROVE QueueOK
    OBVIOUS
  <1> DEFINE N == Cardinality(Waiting)
             place == [p \in Waiting |-> Place(p)]
  <1>1. N \in Nat
    BY WaitingFinite
  <1>2. \A p, q \in Waiting : Place(p) = Place(q) => p = q
    <2> SUFFICES ASSUME NEW p \in Waiting, NEW q \in Waiting, Place(p) = Place(q), p # q
                 PROVE  FALSE
      OBVIOUS
    <2>1. Place(p) \in Int /\ (Place(p) < Place(q) \/ Place(q) < Place(p))
      BY Ordered, PlacesDiffer, PlaceType DEF Places
    <2>2. Place(q) \in Int
      BY PlaceType DEF Places
    <2> QED BY <2>1, <2>2
  <1>3. \A d \in Places : \E p \in Waiting : Place(p) = d
    <2>1. place \in Injection(Waiting, Places)
      BY <1>2, PlaceType DEF Injection, IsInjective
    <2>2. IsFiniteSet(Places) /\ Cardinality(Places) = N
      BY <1>1, FS_Interval DEF Places
    <2>3. place \in Surjection(Waiting, Places)
      BY <2>1, <2>2, FS_Injection
    <2> QED BY <2>3 DEF Surjection
  <1>4. \A k \in 1..N : Queue[k] \in Waiting /\ Place(Queue[k]) = k - 1
    <2> SUFFICES ASSUME NEW k \in 1..N
                 PROVE  Queue[k] \in Waiting /\ Place(Queue[k]) = k - 1
      OBVIOUS
    <2>1. k - 1 \in Places
      BY <1>1 DEF Places
    <2>2. \E p \in Waiting : Cardinality(Before(p)) = k - 1
      BY <1>3, <2>1 DEF Place
    <2>3. Queue[k] = CHOOSE p \in Waiting : Cardinality(Before(p)) = k - 1
      BY DEF Queue
    <2> QED BY <2>2, <2>3 DEF Place
  <1>5. \A p \in Waiting : Queue[Place(p) + 1] = p
    <2> SUFFICES ASSUME NEW p \in Waiting PROVE Queue[Place(p) + 1] = p
      OBVIOUS
    <2>1. Place(p) + 1 \in 1..N /\ (Place(p) + 1) - 1 = Place(p)
      BY <1>1, PlaceType DEF Places
    <2> QED BY <1>2, <1>4, <2>1
  <1>6. Queue \in Seq(Proc) /\ Len(Queue) = N
    <2>1. Queue = [k \in 1..N |-> Queue[k]]
      BY DEF Queue
    <2>2. Queue \in [1..N -> Proc]
      BY <1>4, <2>1, WaitingFinite
    <2>3. Queue \in Seq(Proc)
      BY <1>1, <2>2, SeqDef
    <2> QED BY <1>1, <2>2, <2>3, LenProperties
  <1> QED BY <1>4, <1>5, <1>6 DEF QueueOK

LEMMA QueueInOrderNext == TypeOK' /\ Tickets' => QueueOK'
  BY QueueInOrder, PTL

\* A step that changes neither who waits nor who is before whom.
LEMMA QueueKept ==
  ASSUME QueueOK, QueueOK', Waiting' = Waiting,
         \A p \in Waiting : Before(p)' = Before(p)
  PROVE  Queue' = Queue
  <1>1. /\ Queue \in Seq(Proc) /\ Queue' \in Seq(Proc)
        /\ Len(Queue) = Cardinality(Waiting) /\ Len(Queue') = Cardinality(Waiting)
    BY DEF QueueOK
  <1>2. \A k \in 1..Cardinality(Waiting) : Queue'[k] = Queue[k]
    <2> SUFFICES ASSUME NEW k \in 1..Cardinality(Waiting) PROVE Queue'[k] = Queue[k]
      OBVIOUS
    <2>1. PICK p \in Waiting : Queue[k] = p /\ Place(p) = k - 1
      BY DEF QueueOK
    <2>2. Place(p)' = Place(p)
      BY DEF Place
    <2>3. Queue'[Place(p)' + 1] = p
      BY DEF QueueOK
    <2> QED BY <2>1, <2>2, <2>3, WaitingFinite
  <1> QED BY <1>1, <1>2, SeqEqual

LEMMA JoinsLast ==
  ASSUME TypeOK, Tickets, Owned, QueueOK, QueueOK', NEW p \in Proc, TakeTicket(p)
  PROVE  Abstract!Join(p)
  <1> USE DEF TypeOK
  <1>1. /\ head' = head /\ pc[p] = "out" /\ pc' = [pc EXCEPT ![p] = "load"]
        /\ ticket' = [ticket EXCEPT ![p] = tail] /\ owner' = owner
    BY DEF TakeTicket, Goto
  <1>2. p \notin Waiting /\ Waiting' = Waiting \cup {p}
    BY <1>1 DEF Waiting
  <1> DEFINE N == Cardinality(Waiting)
  <1>3. N \in Nat /\ Cardinality(Waiting') = N + 1
    BY <1>2, WaitingFinite, FS_AddElement
  <1>4. \A q \in Waiting : /\ q # p /\ ticket'[q] = ticket[q]
                           /\ Distance(ticket[q]) \in Int /\ Distance(tail) \in Int
                           /\ Distance(ticket[q]) < Distance(tail)
    BY <1>1, <1>2, WaitingFinite, DistanceType DEF Tickets
  <1>5. /\ Distance(ticket[p])' = Distance(tail)
        /\ \A q \in Waiting : Distance(ticket[q])' = Distance(ticket[q])
    BY <1>1, <1>4 DEF Distance
  <1>6. Before(p)' = Waiting
    BY <1>2, <1>4, <1>5, DistanceType DEF Before
  <1>7. \A q \in Waiting : Before(q)' = Before(q)
    BY <1>2, <1>4, <1>5 DEF Before
  <1>8. /\ Queue \in Seq(Proc) /\ Len(Queue) = N
        /\ Queue' \in Seq(Proc) /\ Len(Queue') = N + 1
    BY <1>3 DEF QueueOK
  <1>9. Queue'[N + 1] = p
    <2>1. Place(p)' = N /\ p \in Waiting'
      BY <1>2, <1>6 DEF Place
    <2> QED BY <2>1 DEF QueueOK
  <1>10. \A k \in 1..N : Queue'[k] = Queue[k]
    <2> SUFFICES ASSUME NEW k \in 1..N PROVE Queue'[k] = Queue[k]
      OBVIOUS
    <2>1. PICK q \in Waiting : Queue[k] = q /\ Place(q) = k - 1
      BY DEF QueueOK
    <2>2. Place(q)' = Place(q) /\ q \in Waiting'
      BY <1>2, <1>7 DEF Place
    <2>3. Queue'[Place(q)' + 1] = q
      BY <2>2 DEF QueueOK
    <2> QED BY <1>3, <2>1, <2>2, <2>3
  <1>11. Queue' = Append(Queue, p)
    <2> HIDE DEF N
    <2>1. /\ Append(Queue, p) \in Seq(Proc) /\ Len(Append(Queue, p)) = N + 1
          /\ \A k \in 1..N : Append(Queue, p)[k] = Queue[k]
          /\ Append(Queue, p)[N + 1] = p
      BY <1>8, AppendProperties
    <2>2. \A k \in 1..N + 1 : Queue'[k] = Append(Queue, p)[k]
      <3>1. \A k \in 1..N + 1 : k \in 1..N \/ k = N + 1
        BY <1>3
      <3> QED BY <1>9, <1>10, <2>1, <3>1
    <2> QED BY <1>8, <2>1, <2>2, SeqEqual
  <1>12. ~Abstract!Contains(Queue, p)
    <2>1. \A k \in 1..Len(Queue) : Queue[k] # p
      BY <1>2, <1>8 DEF QueueOK
    <2> QED BY <2>1 DEF Abstract!Contains
  <1>13. p # owner
    BY <1>1 DEF Owned
  <1> QED BY <1>1, <1>11, <1>12, <1>13 DEF Abstract!Join

\* The first of those who wait gets the lock.
LEMMA FirstEnters ==
  ASSUME TypeOK, Tickets, Owned, QueueOK, QueueOK', NEW p \in Proc, Enter(p)
  PROVE  Abstract!Grant
  <1> USE DEF TypeOK
  <1>1. /\ head' = head /\ pc[p] = "enter" /\ pc' = [pc EXCEPT ![p] = "held"]
        /\ ticket' = ticket /\ owner' = p
    BY DEF Enter, Goto
  <1>2. /\ p \in Waiting /\ p \in Active /\ ticket[p] = head
        /\ Waiting' = Waiting \ {p}
    BY <1>1 DEF Waiting, Active, Tickets, InSection
  <1> DEFINE N == Cardinality(Waiting)
  <1>3. N \in Nat /\ Cardinality(Waiting') = N - 1
    BY <1>2, WaitingFinite, FS_RemoveElement
  <1>4. \A q : Distance(ticket[q])' = Distance(ticket[q])
    BY <1>1 DEF Distance
  <1>5. /\ \A q \in Waiting : Distance(ticket[q]) \in Nat
        /\ Distance(ticket[p]) = 0
        /\ \A q \in Waiting' : Distance(ticket[q]) # 0
    BY <1>2, WaitingFinite, DistanceType, DistanceHead DEF Tickets
  <1>6. Place(p) = 0
    <2>1. Before(p) = {}
      BY <1>5 DEF Before
    <2> QED BY <2>1, FS_EmptySet DEF Place
  <1>7. \A q \in Waiting' : Place(q)' = Place(q) - 1
    <2> SUFFICES ASSUME NEW q \in Waiting' PROVE Place(q)' = Place(q) - 1
      OBVIOUS
    <2>1. p \in Before(q) /\ Before(q)' = Before(q) \ {p}
      BY <1>2, <1>4, <1>5 DEF Before
    <2>2. IsFiniteSet(Before(q))
      BY WaitingFinite, FS_Subset DEF Before
    <2> QED BY <2>1, <2>2, FS_RemoveElement DEF Place
  <1>8. /\ Queue \in Seq(Proc) /\ Len(Queue) = N
        /\ Queue' \in Seq(Proc) /\ Len(Queue') = N - 1
    BY <1>3 DEF QueueOK
  <1>9. Queue[1] = p
    BY <1>2, <1>6 DEF QueueOK
  <1>10. \A k \in 1..N - 1 : Queue'[k] = Queue[k + 1]
    <2> SUFFICES ASSUME NEW k \in 1..N - 1 PROVE Queue'[k] = Queue[k + 1]
      OBVIOUS
    <2>0. k + 1 \in 1..N /\ (k + 1) - 1 = k /\ k # 0
      BY <1>3
    <2>1. PICK q \in Waiting : Queue[k + 1] = q /\ Place(q) = k
      BY <2>0 DEF QueueOK
    <2>2. q \in Waiting'
      BY <1>2, <1>6, <2>0, <2>1
    <2>3. Place(q)' = k - 1
      BY <1>7, <2>1, <2>2
    <2>4. Queue'[Place(q)' + 1] = q
      BY <2>2 DEF QueueOK
    <2> QED BY <2>0, <2>1, <2>3, <2>4
  <1>11. Queue # <<>> /\ owner' = Head(Queue) /\ Queue' = Tail(Queue)
    <2> HIDE DEF N
    <2>1. N # 0
      BY <1>2, WaitingFinite, FS_EmptySet DEF N
    <2>2. Queue # <<>>
      BY <1>8, <2>1, EmptySeq
    <2>3. Head(Queue) = p
      BY <1>8, <1>9, <2>2
    <2>4. /\ Tail(Queue) \in Seq(Proc) /\ Len(Tail(Queue)) = N - 1
          /\ \A k \in 1..N - 1 : Tail(Queue)[k] = Queue[k + 1]
      BY <1>8, <2>2, HeadTailProperties
    <2> QED BY <1>1, <1>8, <1>10, <2>2, <2>3, <2>4, SeqEqual
  <1>12. owner = Nobody
    <2>1. ASSUME owner # Nobody PROVE FALSE
      <3>1. owner \in Proc /\ pc[owner] = "held"
        BY <2>1 DEF Owned
      <3>2. owner \in Active /\ ticket[owner] = head
        BY <3>1 DEF Active, Tickets, InSection
      <3> QED BY <1>1, <1>2, <3>1, <3>2 DEF Tickets
    <2> QED BY <2>1
  <1> QED BY <1>11, <1>12 DEF Abstract!Grant

LEMMA ReleaseLeaves ==
  ASSUME TypeOK, Owned, QueueOK, QueueOK', NEW p \in Proc, Disown(p)
  PROVE  Abstract!Leave
  <1> USE DEF TypeOK
  <1>1. Waiting' = Waiting /\ UNCHANGED <<head, ticket>>
    BY DEF Disown, Goto, Waiting
  <1>2. \A q \in Waiting : Before(q)' = Before(q)
    BY <1>1 DEF Before, Distance
  <1>3. Queue' = Queue
    BY <1>1, <1>2, QueueKept
  <1>4. owner = p /\ owner' = Nobody
    BY DEF Disown, Goto, Owned
  <1> QED BY <1>3, <1>4, ProcAssumption DEF Abstract!Leave

\* Head is moved past the one that left: nobody's place changes.
LEMMA BumpStutters ==
  ASSUME TypeOK, Tickets, QueueOK, QueueOK', NEW p \in Proc, BumpHead(p)
  PROVE  Queue' = Queue
  <1> USE DEF TypeOK
  <1>1. /\ head' = Succ(head) /\ pc[p] = "bump"
        /\ ticket' = [ticket EXCEPT ![p] = 0] /\ pc' = [pc EXCEPT ![p] = "tail"]
    BY DEF BumpHead, Goto, Dropped
  <1>2. p \in Active /\ ticket[p] = head /\ p \notin Waiting
    BY <1>1 DEF Active, Tickets, InSection, Waiting
  <1>3. Waiting' = Waiting
    BY <1>1 DEF Waiting
  <1>4. \A q \in Waiting : Distance(ticket[q])' = Distance(ticket[q]) - 1
    <2> SUFFICES ASSUME NEW q \in Waiting
                 PROVE  Distance(ticket[q])' = Distance(ticket[q]) - 1
      OBVIOUS
    <2>1. q \in Active /\ ticket[q] \in Unsigned /\ ticket[q] # head
      BY <1>2, WaitingFinite DEF Tickets
    <2>2. ticket'[q] = ticket[q]
      BY <1>1, <1>2
    <2> QED BY <1>1, <2>1, <2>2, DistanceBumped
  <1>5. \A q \in Waiting : Distance(ticket[q]) \in Int
    BY WaitingFinite, DistanceType
  <1>6. \A q \in Waiting : Before(q)' = Before(q)
    BY <1>3, <1>4, <1>5 DEF Before
  <1> QED BY <1>3, <1>6, QueueKept

\* Every other step is invisible to FairLock.
LEMMA StepImplements ==
  ASSUME TypeOK, Tickets, Owned, QueueOK, QueueOK', NEW p \in Proc, Step(p)
  PROVE  [Abstract!Next]_(Abstract!vars)
  <1> USE DEF TypeOK, Goto, Waiting
  \* One that is before and after the step among those who wait, or neither.
  <1>a. ASSUME Waiting' = Waiting, UNCHANGED <<head, ticket, owner>>
        PROVE  UNCHANGED Abstract!vars
    <2>1. \A q \in Waiting : Before(q)' = Before(q)
      BY <1>a DEF Before, Distance
    <2>2. Queue' = Queue
      BY <1>a, <2>1, QueueKept
    <2> QED BY <1>a, <2>2 DEF Abstract!vars
  <1>1. CASE TakeTicket(p)
    BY <1>1, JoinsLast DEF Abstract!Next
  <1>2. CASE LoadFutex(p)
    BY <1>2, <1>a DEF LoadFutex
  <1>3. CASE TestHead(p)
    BY <1>3, <1>a DEF TestHead
  <1>4. CASE FutexWait(p)
    BY <1>4, <1>a DEF FutexWait
  <1>5. CASE Enter(p)
    BY <1>5, FirstEnters DEF Abstract!Next
  <1>6. CASE Disown(p)
    BY <1>6, ReleaseLeaves DEF Abstract!Next
  <1>7. CASE BumpHead(p)
    BY <1>7, BumpStutters DEF BumpHead, Abstract!vars
  <1>8. CASE TestTail(p)
    BY <1>8, <1>a DEF TestTail
  <1>9. CASE ChangeFutex(p)
    BY <1>9, <1>a DEF ChangeFutex
  <1>10. CASE FutexWake(p)
    BY <1>10, <1>a DEF FutexWake
  <1> QED BY <1>1, <1>2, <1>3, <1>4, <1>5, <1>6, <1>7, <1>8, <1>9, <1>10
          DEF Step, Acquiring, Releasing

\* The lock implements FairLock, for any number of threads: whoever asks is put
\* at the end of the queue, and only its first gets the lock, when nobody has it.
THEOREM ServedInOrder ==
  Spec => Abstract!Init /\ [][Abstract!Next]_(Abstract!vars)
  <1>1. Init => Abstract!Init
    <2> SUFFICES ASSUME Init PROVE Abstract!Init
      OBVIOUS
    <2>1. Waiting = {}
      BY DEF Init, Waiting
    <2>2. Cardinality(Waiting) = 0
      BY <2>1, FS_EmptySet
    <2>3. QueueOK
      BY TypeInit, TicketsInit, QueueInOrder
    <2>4. Queue = <<>>
      BY <2>2, <2>3, EmptySeq DEF QueueOK
    <2> QED BY <2>4 DEF Init, Abstract!Init
  <1>2. IInv /\ IInv' /\ [Next]_vars => [Abstract!Next]_(Abstract!vars)
    <2> SUFFICES ASSUME IInv, IInv', [Next]_vars PROVE [Abstract!Next]_(Abstract!vars)
      OBVIOUS
    <2>1. QueueOK /\ QueueOK'
      BY QueueInOrder, QueueInOrderNext DEF IInv
    <2>2. CASE UNCHANGED vars
      <3>1. Waiting' = Waiting /\ UNCHANGED <<head, ticket, owner>>
        BY <2>2 DEF vars, Waiting
      <3>2. \A q \in Waiting : Before(q)' = Before(q)
        BY <3>1 DEF Before, Distance
      <3>3. Queue' = Queue
        BY <2>1, <3>1, <3>2, QueueKept
      <3> QED BY <3>1, <3>3 DEF Abstract!vars
    <2>3. CASE Next
      <3>1. PICK p \in Proc : Step(p)
        BY <2>3 DEF Next, Step
      <3> QED BY <2>1, <3>1, StepImplements DEF IInv
    <2> QED BY <2>2, <2>3
  <1> QED BY <1>1, <1>2, Inductive, PTL DEF Spec

=============================================================================
