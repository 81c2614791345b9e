------------------------ MODULE PathDiscoveryProofs ------------------------
(***************************************************************************)
(* What holds of DiscoverPaths for every control-flow graph, of whatever   *)
(* size, and every unrolling bound.  One inductive invariant: types, and   *)
(* the walks under construction, which keep the recursion on blocks of the *)
(* function.  Nesting and completeness follow step by step from it.        *)
(***************************************************************************)
EXTENDS PathDiscovery, SequenceTheorems, FiniteSetTheorems, TLAPS

\* The positions of a sequence form a finite set, and so do those of a block.
LEMMA VisitsFinite ==
  ASSUME NEW p \in Seq(Block), NEW b
  PROVE  /\ IsFiniteSet({i \in 1..Len(p) : p[i] = b})
         /\ Visits(p, b) \in Nat
<1>1. Len(p) \in Nat  OBVIOUS
<1>2. IsFiniteSet(1..Len(p))  BY <1>1, FS_Interval
<1>3. {i \in 1..Len(p) : p[i] = b} \subseteq 1..Len(p)  OBVIOUS
<1>4. IsFiniteSet({i \in 1..Len(p) : p[i] = b})  BY <1>2, <1>3, FS_Subset
<1> QED  BY <1>4, FS_CardinalityType DEF Visits

\* Appending a block adds one visit to it and none to any other.
LEMMA VisitsAppend ==
  ASSUME NEW p \in Seq(Block), NEW b \in Block, NEW c
  PROVE  Visits(Append(p, b), c) =
           IF b = c THEN Visits(p, c) + 1 ELSE Visits(p, c)
<1> DEFINE Old == {i \in 1..Len(p) : p[i] = c}
           q   == Append(p, b)
           New == {i \in 1..Len(q) : q[i] = c}
<1>1. /\ Len(q) = Len(p) + 1 /\ q[Len(p) + 1] = b
      /\ \A i \in 1..Len(p) : q[i] = p[i]
  BY AppendProperties
<1>2. Len(p) \in Nat  OBVIOUS
<1>3. CASE b = c
  <2>1. New = Old \cup {Len(p) + 1}  BY <1>1, <1>2, <1>3
  <2>2. Len(p) + 1 \notin Old  BY <1>2
  <2>3. IsFiniteSet(Old)  BY VisitsFinite
  <2>4. Cardinality(New) = Cardinality(Old) + 1
    BY <2>1, <2>2, <2>3, FS_AddElement
  <2> QED  BY <2>4, <1>3 DEF Visits
<1>4. CASE b # c
  <2>1. New = Old  BY <1>1, <1>2, <1>4
  <2> QED  BY <2>1, <1>4 DEF Visits
<1> QED  BY <1>3, <1>4

\* A sequence that agrees with a prefix of w visits no block more often.
LEMMA VisitsPrefix ==
  ASSUME NEW p \in Seq(Block), NEW w \in Seq(Block), NEW b,
         Len(p) <= Len(w), \A i \in 1..Len(p) : p[i] = w[i]
  PROVE  Visits(p, b) <= Visits(w, b)
<1> DEFINE P == {i \in 1..Len(p) : p[i] = b}
           W == {i \in 1..Len(w) : w[i] = b}
<1>1. Len(p) \in Nat /\ Len(w) \in Nat  OBVIOUS
<1>2. P \in SUBSET W  BY <1>1
<1>3. IsFiniteSet(W)  BY VisitsFinite
<1>4. Cardinality(P) <= Cardinality(W)  BY <1>2, <1>3, FS_Subset
<1> QED  BY <1>4 DEF Visits

-----------------------------------------------------------------------------
\* The types, and the half of PathsAreWalks that speaks of the stack: it needs
\* nothing of the list, which in the whole pass holds the paths of other
\* functions too.
IInv == TypeOK /\ \A k \in 1..Len(stack) : IsWalk(stack[k].path)

\* The active call and the block it is in.
LEMMA AtTop ==
  ASSUME IInv, stack # <<>>
  PROVE  /\ Len(stack) \in Nat \ {0}
         /\ stack[Len(stack)] = Top /\ Top \in Frame
         /\ Top.path \in Seq(Block) /\ Top.next \in Nat \ {0}
         /\ Len(Top.path) \in Nat \ {0}
         /\ Here \in Block /\ Here = Top.path[Len(Top.path)]
         /\ Branch \in BOOLEAN /\ Targets \in Seq(Block)
         /\ IsWalk(Top.path)
<1>1. stack \in Seq(Frame) /\ Len(stack) \in Nat \ {0}  BY DEF IInv, TypeOK
<1>2. Top \in Frame /\ IsWalk(Top.path)
  BY <1>1, Len(stack) \in 1..Len(stack) DEF IInv, Top
<1>3. Top.path \in Seq(Block) /\ Top.next \in Nat \ {0} /\ Top.path # <<>>
  BY <1>2 DEF Frame, IsWalk
<1>4. Len(Top.path) \in Nat \ {0}  BY <1>3
<1>5. Here \in Block  BY <1>3, <1>4 DEF Here
<1>6. Branch \in BOOLEAN /\ Targets \in Seq(Block)
  BY <1>5 DEF Branch, Targets, IInv, TypeOK, Function
<1> QED  BY <1>1, <1>2, <1>3, <1>4, <1>5, <1>6 DEF Top, Here

\* The frames below the active one, and the active one with j incremented.
LEMMA PopKeeps ==
  ASSUME NEW S, NEW s \in Seq(S), NEW n \in Nat, Len(s) = n + 1
  PROVE  /\ SubSeq(s, 1, n) \in Seq(S)
         /\ Len(SubSeq(s, 1, n)) = n
         /\ \A k \in 1..n : SubSeq(s, 1, n)[k] = s[k]
<1> DEFINE q == SubSeq(s, 1, n)
<1>1. \A k \in 1..n : s[k] \in S
  <2>1. 1..n \subseteq 1..Len(s)  OBVIOUS
  <2> QED  BY <2>1, ElementOfSeq
<1>2. /\ q \in Seq(S)
      /\ Len(q) = IF 1 <= n THEN n - 1 + 1 ELSE 0
      /\ \A k \in 1..(n - 1 + 1) : q[k] = s[1 + k - 1]
  BY <1>1, SubSeqProperties
<1> HIDE DEF q
<1>3. n - 1 + 1 = n  OBVIOUS
<1>4. Len(q) = n  BY <1>2
<1>5. ASSUME NEW k \in 1..n
      PROVE  q[k] = s[k]
  <2>1. q[k] = s[1 + k - 1]  BY <1>2, <1>3
  <2>2. 1 + k - 1 = k  OBVIOUS
  <2> QED  BY <2>1, <2>2
<1> QED  BY <1>2, <1>4, <1>5 DEF q

LEMMA AdvanceKeeps ==
  ASSUME IInv, stack # <<>>
  PROVE  /\ Advanced \in Seq(Frame) /\ Len(Advanced) = Len(stack)
         /\ \A k \in 1..Len(stack) : Advanced[k].path = stack[k].path
         /\ \A k \in 1..Len(stack) - 1 : Advanced[k] = stack[k]
         /\ Advanced[Len(stack)].next = Top.next + 1
<1> USE AtTop
<1>1. stack \in Seq(Frame)  BY DEF IInv, TypeOK
<1> DEFINE n == Len(stack)
           f == [stack[n] EXCEPT !.next = @ + 1]
<1>2. Advanced = [stack EXCEPT ![n] = f]  BY DEF Advanced
<1>3. f \in Frame /\ f.path = Top.path /\ f.next = Top.next + 1  BY DEF Frame
<1>4. n \in 1..Len(stack)  OBVIOUS
<1> HIDE DEF f
<1>5. Advanced \in Seq(Frame) /\ Len(Advanced) = Len(stack)
  BY <1>1, <1>2, <1>3, <1>4, ExceptSeq
<1>6. Advanced[n] = f /\ \A k \in 1..Len(stack) : k # n => Advanced[k] = stack[k]
  BY <1>1, <1>2, <1>4
<1> QED  BY <1>1, <1>3, <1>5, <1>6

-----------------------------------------------------------------------------
\* A walk goes on along a branch edge to a block visited less often than the
\* bound.
LEMMA WalkGrows ==
  ASSUME NEW p, IsWalk(p), NEW b \in Block,
         Edge(p[Len(p)], b), ~Exhausted(p, b), TypeOK
  PROVE  IsWalk(Append(p, b))
<1> DEFINE q == Append(p, b)
<1>1. p \in Seq(Block) /\ p # <<>> /\ Len(p) \in Nat \ {0}  BY DEF IsWalk
<1>2. /\ q \in Seq(Block) /\ q # <<>> /\ Len(q) = Len(p) + 1
      /\ \A i \in 1..Len(p) : q[i] = p[i]
      /\ q[Len(p) + 1] = b
  BY <1>1, AppendProperties
<1> HIDE DEF q
<1>3. q[1] = fun.entry  BY <1>1, <1>2 DEF IsWalk
<1>4. ASSUME NEW i \in 1..Len(q) - 1
      PROVE  Edge(q[i], q[i + 1])
  <2>1. CASE i = Len(p)
    BY <1>1, <1>2, <2>1
  <2>2. CASE i # Len(p)
    <3>1. i \in 1..Len(p) - 1 /\ i + 1 \in 1..Len(p) /\ i \in 1..Len(p)
      BY <1>1, <1>2, <2>2
    <3>2. Edge(p[i], p[i + 1])  BY <3>1 DEF IsWalk
    <3> QED  BY <1>2, <3>1, <3>2
  <2> QED  BY <2>1, <2>2
<1>5. ASSUME NEW c \in Block
      PROVE  Visits(q, c) <= MaxVisits + 1
  <2>1. Visits(p, c) \in Nat /\ Visits(p, c) <= MaxVisits + 1
    BY <1>1, VisitsFinite DEF IsWalk
  <2>2. Visits(q, c) = IF b = c THEN Visits(p, c) + 1 ELSE Visits(p, c)
    BY <1>1, VisitsAppend DEF q
  <2>3. b = c => Visits(p, c) <= MaxVisits
    BY <2>1, MaxVisitsAssumption DEF Exhausted
  <2> QED  BY <2>1, <2>2, <2>3, MaxVisitsAssumption
<1>6. IsWalk(q)  BY <1>2, <1>3, <1>4, <1>5 DEF IsWalk
<1> QED  BY <1>6 DEF q

\* What one recursive call pushes on the stack.
LEMMA Descent ==
  ASSUME IInv, Descend
  PROVE  LET f == Enter(Top.path, Target)
         IN  /\ Target \in Block /\ f \in Frame /\ IsWalk(f.path)
             /\ Len(stack) \in Nat \ {0}
             /\ f.path \in Seq(Block) /\ f.next = 1
             /\ Len(f.path) = Len(Top.path) + 1
             /\ f.path[Len(Top.path) + 1] = Target
             /\ \A i \in 1..Len(Top.path) : f.path[i] = Top.path[i]
             /\ stack' \in Seq(Frame) /\ Len(stack') = Len(stack) + 1
             /\ stack'[Len(stack) + 1] = f
             /\ \A k \in 1..Len(stack) : stack'[k] = Advanced[k]
<1> DEFINE f == Enter(Top.path, Target)
<1> USE AtTop
<1>1. /\ stack # <<>> /\ Branch /\ Top.next <= Len(Targets)
      /\ ~Exhausted(Top.path, Target)
      /\ stack' = Append(Advanced, f)
  BY DEF Descend
<1>2. Top.next \in 1..Len(Targets)  BY <1>1
<1>3. Target \in Block  BY <1>1, <1>2, ElementOfSeq DEF Target
<1>4. /\ f.path \in Seq(Block) /\ f.next = 1 /\ f \in Frame
      /\ Len(f.path) = Len(Top.path) + 1
      /\ f.path[Len(Top.path) + 1] = Target
      /\ \A i \in 1..Len(Top.path) : f.path[i] = Top.path[i]
  <2>1. f.path = Append(Top.path, Target) /\ f.next = 1  BY DEF Enter
  <2>2. Append(Top.path, Target) \in Seq(Block)
    BY <1>1, <1>3, AppendProperties
  <2>3. f \in Frame  BY <2>1, <2>2 DEF Enter, Frame
  <2> QED  BY <1>1, <1>3, <2>1, <2>2, <2>3, AppendProperties
<1>5. Edge(Here, Target)
  BY <1>1, <1>2 DEF Edge, Branch, Targets, Target
<1>6. IsWalk(f.path)
  BY <1>1, <1>3, <1>5, WalkGrows DEF Enter, IInv
<1>7. Advanced \in Seq(Frame) /\ Len(Advanced) = Len(stack)
  BY <1>1, AdvanceKeeps
<1> HIDE DEF f
<1>8. /\ stack' \in Seq(Frame) /\ Len(stack') = Len(stack) + 1
      /\ stack'[Len(stack) + 1] = f
      /\ \A k \in 1..Len(stack) : stack'[k] = Advanced[k]
  BY <1>1, <1>4, <1>7, AppendProperties
<1> QED  BY <1>1, <1>3, <1>4, <1>6, <1>8 DEF f

\* What Record, Return and Cut leave of the stack.
LEMMA Popped ==
  ASSUME IInv, stack # <<>>, stack' = Pop
  PROVE  /\ Len(stack) \in Nat \ {0}
         /\ stack' \in Seq(Frame) /\ Len(stack') = Len(stack) - 1
         /\ \A k \in 1..Len(stack') : stack'[k] = stack[k]
<1>1. stack \in Seq(Frame)  BY DEF IInv, TypeOK
<1>2. Len(stack) \in Nat \ {0}  BY AtTop
<1>3. Len(stack) - 1 \in Nat /\ Len(stack) = (Len(stack) - 1) + 1  BY <1>2
<1> QED  BY <1>1, <1>2, <1>3, PopKeeps DEF Pop

-----------------------------------------------------------------------------
\* The call, whatever the list holds.
LEMMA StartIInv ==
  /\ fun \in Function /\ paths \in Seq(Seq(Block))
  /\ stack = <<Enter(<<>>, fun.entry)>>
  => IInv
<1> SUFFICES ASSUME fun \in Function, paths \in Seq(Seq(Block)),
                    stack = <<Enter(<<>>, fun.entry)>>
             PROVE  IInv
  OBVIOUS
<1> DEFINE p == <<fun.entry>>
<1>1. fun \in Function /\ fun.entry \in Block  BY DEF Function
<1>2. Append(<<>>, fun.entry) = p  OBVIOUS
<1>3. p \in Seq(Block) /\ p # <<>> /\ Len(p) = 1 /\ p[1] = fun.entry
  BY <1>1
<1>4. stack = <<[path |-> p, next |-> 1]>>  BY <1>2 DEF Enter
<1> HIDE DEF p
<1>5. \A b \in Block : Visits(p, b) <= MaxVisits + 1
  <2> SUFFICES ASSUME NEW b \in Block PROVE Visits(p, b) <= MaxVisits + 1
    OBVIOUS
  <2>1. Visits(<<>>, b) = 0
    <3>1. {i \in 1..Len(<<>>) : (<<>>)[i] = b} = {}  OBVIOUS
    <3> QED  BY <3>1, FS_EmptySet DEF Visits
  <2>2. <<>> \in Seq(Block)  OBVIOUS
  <2>3. ASSUME NEW q \in Seq(Block), NEW e \in Block
        PROVE  Visits(Append(q, e), b) =
                 IF e = b THEN Visits(q, b) + 1 ELSE Visits(q, b)
    BY VisitsAppend
  <2>4. Visits(p, b) = IF fun.entry = b THEN Visits(<<>>, b) + 1
                                        ELSE Visits(<<>>, b)
    BY <1>1, <1>2, <2>2, <2>3
  <2> QED  BY <2>1, <2>4, MaxVisitsAssumption
<1>6. IsWalk(p)  BY <1>3, <1>5 DEF IsWalk
<1>7. TypeOK
  <2>1. [path |-> p, next |-> 1] \in Frame  BY <1>3 DEF Frame
  <2> QED  BY <1>1, <1>4, <2>1 DEF TypeOK
<1>8. \A k \in 1..Len(stack) : IsWalk(stack[k].path)  BY <1>4, <1>6
<1> QED  BY <1>7, <1>8 DEF IInv

LEMMA InitIInv == Init => IInv
BY StartIInv, FunsAssumption DEF Init

\* The function under analysis never changes.
LEMMA FunKept == [Next]_vars => fun' = fun
BY DEF Next, vars, Record, Descend, Cut, Return

LEMMA StepIInv == IInv /\ [Next]_vars => IInv'
<1> SUFFICES ASSUME IInv, [Next]_vars PROVE IInv'  OBVIOUS
<1>1. fun' = fun /\ fun' \in Function  BY FunKept DEF IInv, TypeOK
<1>2. /\ stack \in Seq(Frame) /\ paths \in Seq(Seq(Block))
      /\ \A k \in 1..Len(stack) : IsWalk(stack[k].path)
  BY DEF IInv, TypeOK
\* What the actions have to provide.
<1>3. ASSUME stack' \in Seq(Frame), paths' \in Seq(Seq(Block)),
             \A k \in 1..Len(stack') : IsWalk(stack'[k].path)
      PROVE  IInv'
  <2>1. TypeOK'  BY <1>1, <1>3 DEF TypeOK
  <2>2. (\A k \in 1..Len(stack) : IsWalk(stack[k].path))'
    BY <1>1, <1>3 DEF IsWalk, Edge
  <2> QED  BY <2>1, <2>2 DEF IInv
<1>4. ASSUME stack # <<>>, stack' = Pop
      PROVE  /\ stack' \in Seq(Frame)
             /\ \A k \in 1..Len(stack') : IsWalk(stack'[k].path)
  <2>1. /\ stack' \in Seq(Frame) /\ Len(stack) \in Nat \ {0}
        /\ Len(stack') = Len(stack) - 1
        /\ \A k \in 1..Len(stack') : stack'[k] = stack[k]
    BY <1>4, Popped
  <2>2. 1..Len(stack') \subseteq 1..Len(stack)  BY <2>1
  <2> QED  BY <1>2, <2>1, <2>2
<1>5. CASE Record
  <2>1. stack # <<>> /\ paths' = Append(paths, Top.path) /\ stack' = Pop
    BY <1>5 DEF Record
  <2>2. paths' \in Seq(Seq(Block))  BY <1>2, <2>1, AtTop, AppendProperties
  <2>3. stack' \in Seq(Frame) /\ \A k \in 1..Len(stack') : IsWalk(stack'[k].path)
    BY <1>4, <2>1
  <2> QED  BY <1>3, <2>2, <2>3
<1>6. CASE Descend
  <2>1. paths' = paths  BY <1>6 DEF Descend
  <2> DEFINE f == Enter(Top.path, Target)
  <2>2. /\ stack' \in Seq(Frame) /\ Len(stack') = Len(stack) + 1
        /\ Len(stack) \in Nat
        /\ stack'[Len(stack) + 1] = f /\ IsWalk(f.path)
        /\ \A k \in 1..Len(stack) : stack'[k] = Advanced[k]
    BY <1>6, Descent
  <2>3. \A k \in 1..Len(stack) : Advanced[k].path = stack[k].path
    BY <1>6, AdvanceKeeps DEF Descend
  <2> HIDE DEF f
  <2>4. \A k \in 1..Len(stack') : IsWalk(stack'[k].path)
    <3> TAKE k \in 1..Len(stack')
    <3>1. k \in 1..Len(stack) \/ k = Len(stack) + 1  BY <2>2
    <3> QED  BY <1>2, <2>2, <2>3, <3>1
  <2> QED  BY <1>2, <1>3, <2>1, <2>2, <2>4
<1>7. CASE Cut
  <2>1. stack # <<>> /\ stack' = Advanced /\ paths' = paths  BY <1>7 DEF Cut
  <2>2. /\ stack' \in Seq(Frame) /\ Len(stack') = Len(stack)
        /\ \A k \in 1..Len(stack) : stack'[k].path = stack[k].path
    BY <2>1, AdvanceKeeps
  <2> QED  BY <1>2, <1>3, <2>1, <2>2
<1>8. CASE Return
  <2>1. stack # <<>> /\ stack' = Pop /\ paths' = paths  BY <1>8 DEF Return
  <2>2. stack' \in Seq(Frame) /\ \A k \in 1..Len(stack') : IsWalk(stack'[k].path)
    BY <1>4, <2>1
  <2> QED  BY <1>2, <1>3, <2>1, <2>2
<1>9. CASE UNCHANGED vars
  BY <1>2, <1>3, <1>9 DEF vars
<1> QED  BY <1>5, <1>6, <1>7, <1>8, <1>9 DEF Next

\* The list: what Record appends is a complete walk.
LEMMA InitWalks == Init => PathsAreWalks
<1> SUFFICES ASSUME Init PROVE PathsAreWalks  OBVIOUS
<1>1. IInv /\ paths = <<>>  BY InitIInv DEF Init
<1> QED  BY <1>1 DEF IInv, PathsAreWalks

LEMMA StepWalks == IInv /\ PathsAreWalks /\ [Next]_vars => PathsAreWalks'
<1> SUFFICES ASSUME IInv, PathsAreWalks, [Next]_vars PROVE PathsAreWalks'
  OBVIOUS
<1>1. fun' = fun /\ IInv'  BY FunKept, StepIInv
<1>2. /\ paths \in Seq(Seq(Block))
      /\ \A k \in 1..Len(paths) : IsComplete(paths[k])
  BY DEF IInv, TypeOK, PathsAreWalks
<1>3. \A k \in 1..Len(paths') : IsComplete(paths'[k])
  <2>1. CASE Record
    <3>1. stack # <<>> /\ ~Branch /\ paths' = Append(paths, Top.path)
      BY <2>1 DEF Record
    <3>2. Top.path \in Seq(Block) /\ IsComplete(Top.path)
      BY <3>1, AtTop DEF IsComplete, Branch, Here
    <3>3. /\ Len(paths) \in Nat /\ Len(paths') = Len(paths) + 1
          /\ \A k \in 1..Len(paths) : paths'[k] = paths[k]
          /\ paths'[Len(paths) + 1] = Top.path
      BY <1>2, <3>1, <3>2, AppendProperties
    <3> TAKE k \in 1..Len(paths')
    <3>4. k \in 1..Len(paths) \/ k = Len(paths) + 1  BY <3>3
    <3> QED  BY <1>2, <3>2, <3>3, <3>4
  <2>2. CASE UNCHANGED paths
    BY <1>2, <2>2
  <2> QED  BY <2>1, <2>2 DEF Next, vars, Descend, Cut, Return
<1>4. (\A k \in 1..Len(paths) : IsComplete(paths[k]))'
  <2>1. \A k \in 1..Len(paths') : IsWalk(paths'[k])  BY <1>3 DEF IsComplete
  <2>2. (\A k \in 1..Len(paths) : IsWalk(paths[k]))'
    BY <1>1, <2>1 DEF IsWalk, Edge
  <2>3. (\A k \in 1..Len(paths) : ~fun.node[paths[k][Len(paths[k])]].br)'
    BY <1>1, <1>3 DEF IsComplete
  <2> QED  BY <2>2, <2>3 DEF IsComplete
<1>5. (\A k \in 1..Len(stack) : IsWalk(stack[k].path))'  BY <1>1 DEF IInv
<1> QED  BY <1>4, <1>5 DEF PathsAreWalks

\* For every set of blocks, every function over them and every bound of the
\* unrolling: the call stack and the list of paths keep their types.
THEOREM TypeCorrect == Spec => []TypeOK
<1>1. IInv => TypeOK  BY DEF IInv
<1> QED  BY <1>1, InitIInv, StepIInv, PTL DEF Spec

\* Whatever the function, DiscoverPaths hands on only walks of it, from the
\* entry to a block that ends in no branch, within the unrolling bound.
THEOREM OnlyWalks == Spec => []PathsAreWalks
BY InitIInv, StepIInv, InitWalks, StepWalks, PTL DEF Spec

-----------------------------------------------------------------------------
\* The frames of the stack are one descent: nesting holds at the start and
\* every step keeps it.
LEMMA InitNested == Init => FramesAreNested
<1> SUFFICES ASSUME Init PROVE FramesAreNested  OBVIOUS
<1>1. Len(stack) = 1  BY DEF Init
<1>2. 1..Len(stack) - 1 = {}  BY <1>1
<1> QED  BY <1>2 DEF FramesAreNested

\* Frame g was pushed by frame f's latest recursive call.
Pushed(f, g) ==
  LET b == f.path[Len(f.path)]
  IN  /\ fun.node[b].br
      /\ f.next > 1
      /\ f.next - 1 <= Len(fun.node[b].succ)
      /\ g.path = Append(f.path, fun.node[b].succ[f.next - 1])

LEMMA StepNested == IInv /\ FramesAreNested /\ [Next]_vars => FramesAreNested'
<1> SUFFICES ASSUME IInv, FramesAreNested, [Next]_vars PROVE FramesAreNested'
  OBVIOUS
<1>1. fun' = fun  BY FunKept
<1>2. \A k \in 1..Len(stack) - 1 : Pushed(stack[k], stack[k + 1])
  BY DEF FramesAreNested, Pushed
<1>3. ASSUME \A k \in 1..Len(stack') - 1 : Pushed(stack'[k], stack'[k + 1])
      PROVE  FramesAreNested'
  BY <1>1, <1>3 DEF FramesAreNested, Pushed
<1>4. ASSUME stack # <<>>, stack' = Pop
      PROVE  FramesAreNested'
  <2>1. /\ Len(stack) \in Nat \ {0} /\ Len(stack') = Len(stack) - 1
        /\ \A k \in 1..Len(stack') : stack'[k] = stack[k]
    BY <1>4, Popped
  <2>2. ASSUME NEW k \in 1..Len(stack') - 1
        PROVE  Pushed(stack'[k], stack'[k + 1])
    <3>1. k \in 1..Len(stack') /\ k + 1 \in 1..Len(stack') /\ k \in 1..Len(stack) - 1
      BY <2>1
    <3> QED  BY <1>2, <2>1, <3>1
  <2> QED  BY <1>3, <2>2
<1>5. CASE Record
  BY <1>4, <1>5 DEF Record
<1>6. CASE Descend
  <2> DEFINE n == Len(stack)
             f == Enter(Top.path, Target)
  <2>1. /\ n \in Nat \ {0} /\ Len(stack') = n + 1 /\ stack'[n + 1] = f
        /\ \A k \in 1..n : stack'[k] = Advanced[k]
    BY <1>6, Descent
  <2>2. /\ \A k \in 1..n : Advanced[k].path = stack[k].path
        /\ \A k \in 1..n - 1 : Advanced[k] = stack[k]
        /\ Advanced[n].next = Top.next + 1
    BY <1>6, AdvanceKeeps DEF Descend
  <2>3. /\ stack[n] = Top /\ Branch /\ Top.next \in Nat \ {0}
        /\ Top.next <= Len(Targets) /\ Here = Top.path[Len(Top.path)]
        /\ f.path = Append(Top.path, Target)
    BY <1>6, AtTop DEF Descend, Enter
  <2>4. Pushed(stack'[n], stack'[n + 1])
    <3>1. stack'[n] = Advanced[n]  BY <2>1
    <3>2. stack'[n].path = Top.path /\ stack'[n].next = Top.next + 1
      BY <2>1, <2>2, <2>3, <3>1
    <3>3. Top.next + 1 > 1 /\ Top.next + 1 - 1 = Top.next  BY <2>3
    <3>4. f.path = Append(Top.path, Targets[Top.next])  BY <2>3 DEF Target
    <3> HIDE DEF f
    <3>5. stack'[n + 1] = f /\ Here = Top.path[Len(Top.path)]  BY <2>1, <2>3
    <3>6. fun.node[Here].br /\ Targets = fun.node[Here].succ
      BY <2>3 DEF Branch, Targets
    <3> HIDE DEF n
    <3> QED  BY <2>3, <3>2, <3>3, <3>4, <3>5, <3>6 DEF Pushed
  <2> HIDE DEF f
  <2>5. ASSUME NEW k \in 1..Len(stack') - 1
        PROVE  Pushed(stack'[k], stack'[k + 1])
    <3>1. k = n \/ (k \in 1..n - 1 /\ k \in 1..n /\ k + 1 \in 1..n)  BY <2>1
    <3>2. CASE k = n  BY <2>4, <3>2
    <3>3. CASE k \in 1..n - 1 /\ k \in 1..n /\ k + 1 \in 1..n
      <4>1. stack'[k] = stack[k] /\ stack'[k + 1].path = stack[k + 1].path
        BY <2>1, <2>2, <3>3
      <4>2. Pushed(stack[k], stack[k + 1])  BY <1>2, <3>3
      <4> QED  BY <4>1, <4>2 DEF Pushed
    <3> QED  BY <3>1, <3>2, <3>3
  <2> QED  BY <1>3, <2>5
<1>7. CASE Cut
  <2>1. stack # <<>> /\ stack' = Advanced  BY <1>7 DEF Cut
  <2>2. /\ Len(stack) \in Nat \ {0} /\ Len(stack') = Len(stack)
        /\ \A k \in 1..Len(stack) : stack'[k].path = stack[k].path
        /\ \A k \in 1..Len(stack) - 1 : stack'[k] = stack[k]
    BY <2>1, AtTop, AdvanceKeeps
  <2>3. ASSUME NEW k \in 1..Len(stack') - 1
        PROVE  Pushed(stack'[k], stack'[k + 1])
    <3>1. k \in 1..Len(stack) - 1 /\ k + 1 \in 1..Len(stack)  BY <2>2
    <3>2. stack'[k] = stack[k] /\ stack'[k + 1].path = stack[k + 1].path
      BY <2>2, <3>1
    <3>3. Pushed(stack[k], stack[k + 1])  BY <1>2, <3>1
    <3> QED  BY <3>2, <3>3 DEF Pushed
  <2> QED  BY <1>3, <2>3
<1>8. CASE Return
  BY <1>4, <1>8 DEF Return
<1>9. CASE UNCHANGED vars
  BY <1>2, <1>3, <1>9 DEF vars
<1> QED  BY <1>5, <1>6, <1>7, <1>8, <1>9 DEF Next

\* Whatever is explored in between, the frames on the call stack stay one
\* descent: each was pushed by the latest call of the one below.
THEOREM AlwaysNested == Spec => []FramesAreNested
BY InitIInv, StepIInv, InitNested, StepNested, PTL DEF Spec

\* w lies ahead of frame f: it runs through f's block and leaves it by a
\* successor whose recursive call has not been made yet.
Ahead(f, w) ==
  LET n == Len(f.path)
  IN  /\ n <= Len(w)
      /\ \A i \in 1..n : f.path[i] = w[i]
      /\ \/ n = Len(w)
         \/ \E j \in f.next..Len(fun.node[w[n]].succ) :
              fun.node[w[n]].succ[j] = w[n + 1]

-----------------------------------------------------------------------------
\* Completeness at every moment, of walks of any length: a complete walk has
\* been recorded or is still ahead of some active call.
NoWalkMissed ==
  \A w \in Seq(Block) :
    IsComplete(w) => \/ Recorded(w)
                     \/ \E k \in 1..Len(stack) : Ahead(stack[k], w)

\* A complete walk as an index range, its edges and its end.
LEMMA WalkFacts ==
  ASSUME NEW w \in Seq(Block), IsComplete(w)
  PROVE  /\ Len(w) \in Nat \ {0} /\ w[1] = fun.entry
         /\ \A n \in 1..Len(w) - 1 :
              /\ fun.node[w[n]].br
              /\ \E j \in 1..Len(fun.node[w[n]].succ) :
                   fun.node[w[n]].succ[j] = w[n + 1]
         /\ ~fun.node[w[Len(w)]].br
         /\ \A b \in Block : Visits(w, b) <= MaxVisits + 1
<1>1. Len(w) \in Nat \ {0}  BY DEF IsComplete, IsWalk
<1> QED  BY <1>1 DEF IsComplete, IsWalk, Edge

\* A walk ahead of a block that branches does not end there, and leaves it by
\* a successor still to come.
LEMMA AheadAtBranch ==
  ASSUME NEW w \in Seq(Block), IsComplete(w), IInv, stack # <<>>, Branch,
         Ahead(Top, w)
  PROVE  /\ Len(Top.path) + 1 <= Len(w)
         /\ \A k \in 1..Len(Top.path) : Top.path[k] = w[k]
         /\ w[Len(Top.path)] = Here
         /\ \E j \in Top.next..Len(Targets) : Targets[j] = w[Len(Top.path) + 1]
<1> DEFINE n == Len(Top.path)
<1>1. /\ n \in Nat \ {0} /\ Here = Top.path[n] /\ Len(w) \in Nat \ {0}
      /\ ~fun.node[w[Len(w)]].br
  BY AtTop, WalkFacts
<1>2. /\ n <= Len(w) /\ \A k \in 1..n : Top.path[k] = w[k]
      /\ \/ n = Len(w)
         \/ \E j \in Top.next..Len(fun.node[w[n]].succ) :
              fun.node[w[n]].succ[j] = w[n + 1]
  BY DEF Ahead
<1>3. n \in 1..n  BY <1>1
<1>4. w[n] = Here  BY <1>1, <1>2, <1>3
<1>5. n # Len(w)  BY <1>1, <1>4 DEF Branch
<1> QED  BY <1>1, <1>2, <1>4, <1>5 DEF Targets

\* Whatever the list holds when DiscoverPaths is called, nothing is lost yet.
LEMMA StartMissed == stack = <<Enter(<<>>, fun.entry)>> => NoWalkMissed
<1> SUFFICES ASSUME stack = <<Enter(<<>>, fun.entry)>>, NEW w \in Seq(Block), IsComplete(w)
             PROVE  Ahead(stack[1], w) /\ 1 \in 1..Len(stack)
  BY DEF NoWalkMissed
<1> DEFINE f == Enter(<<>>, fun.entry)
<1>1. stack = <<f>>  OBVIOUS
<1>2. f.path = <<fun.entry>> /\ f.next = 1  BY DEF Enter
<1> HIDE DEF f
<1>3. stack[1] = f /\ Len(stack) = 1  BY <1>1
<1>4. Len(f.path) = 1 /\ f.path[1] = fun.entry  BY <1>2
<1>5. \A k \in 1..1 : k = 1  OBVIOUS
<1>6. Ahead(f, w)  BY <1>2, <1>4, <1>5, WalkFacts DEF Ahead
<1> QED  BY <1>3, <1>6

LEMMA InitMissed == Init => NoWalkMissed
BY StartMissed DEF Init

LEMMA StepMissed == IInv /\ NoWalkMissed /\ [Next]_vars => NoWalkMissed'
<1> SUFFICES ASSUME IInv, NoWalkMissed, [Next]_vars PROVE NoWalkMissed'
  OBVIOUS
<1>1. fun' = fun  BY FunKept
<1>2. ASSUME \A w \in Seq(Block) :
               IsComplete(w) =>
                 \/ \E k \in 1..Len(paths') : paths'[k] = w
                 \/ \E k \in 1..Len(stack') : Ahead(stack'[k], w)
      PROVE  NoWalkMissed'
  <2>1. SUFFICES ASSUME NEW w \in Seq(Block), IsComplete(w)'
                 PROVE  (Recorded(w) \/ \E k \in 1..Len(stack) : Ahead(stack[k], w))'
    BY DEF NoWalkMissed
  <2>2. IsComplete(w)  BY <1>1, <2>1 DEF IsComplete, IsWalk, Edge
  <2>3. CASE \E k \in 1..Len(paths') : paths'[k] = w
    BY <2>3 DEF Recorded
  <2>4. CASE \E k \in 1..Len(stack') : Ahead(stack'[k], w)
    BY <1>1, <2>4 DEF Ahead
  <2> QED  BY <1>2, <2>2, <2>3, <2>4
<1> SUFFICES ASSUME NEW w \in Seq(Block), IsComplete(w)
             PROVE  \/ \E k \in 1..Len(paths') : paths'[k] = w
                    \/ \E k \in 1..Len(stack') : Ahead(stack'[k], w)
  BY <1>2
<1> HIDE <1>2
<1>3. \/ \E k \in 1..Len(paths) : paths[k] = w
      \/ \E k \in 1..Len(stack) : Ahead(stack[k], w)
  BY DEF NoWalkMissed, Recorded
<1>4. paths \in Seq(Seq(Block)) /\ stack \in Seq(Frame) /\ Len(stack) \in Nat
  BY DEF IInv, TypeOK
\* What a pop leaves of the frames w is ahead of.
<1>5. ASSUME stack # <<>>, stack' = Pop, NEW k \in 1..Len(stack),
             Ahead(stack[k], w), k # Len(stack)
      PROVE  \E l \in 1..Len(stack') : Ahead(stack'[l], w)
  <2>1. /\ Len(stack) \in Nat \ {0} /\ Len(stack') = Len(stack) - 1
        /\ \A l \in 1..Len(stack') : stack'[l] = stack[l]
    BY <1>5, Popped
  <2>2. k \in 1..Len(stack')  BY <1>5, <2>1
  <2> QED  BY <1>5, <2>1, <2>2
\* And what an increment of j leaves.
<1>6. ASSUME stack # <<>>, NEW k \in 1..Len(stack), Ahead(stack[k], w),
             k # Len(stack)
      PROVE  Ahead(Advanced[k], w)
  <2>1. k \in 1..Len(stack) - 1  BY <1>4, <1>6
  <2>2. Advanced[k] = stack[k]  BY <1>6, <2>1, AdvanceKeeps
  <2> QED  BY <1>6, <2>2
<1>7. ASSUME stack # <<>>, Branch, Ahead(Top, w),
             w[Len(Top.path) + 1] # Target \/ Top.next > Len(Targets)
      PROVE  Ahead(Advanced[Len(stack)], w) /\ Top.next <= Len(Targets)
  <2> DEFINE n == Len(Top.path)
             g == Advanced[Len(stack)]
  <2>1. /\ n \in Nat \ {0} /\ Top.next \in Nat \ {0} /\ Targets \in Seq(Block)
        /\ Len(stack) \in 1..Len(stack) /\ stack[Len(stack)] = Top
    BY <1>7, AtTop
  <2>2. g.path = Top.path /\ g.next = Top.next + 1
    BY <1>7, <2>1, AdvanceKeeps
  <2>3. /\ n + 1 <= Len(w) /\ w[n] = Here
        /\ \A i \in 1..n : Top.path[i] = w[i]
        /\ \E j \in Top.next..Len(Targets) : Targets[j] = w[n + 1]
    BY <1>7, AheadAtBranch
  <2>4. PICK j \in Top.next..Len(Targets) : Targets[j] = w[n + 1]
    BY <2>3
  <2>5. Len(Targets) \in Nat /\ Top.next <= Len(Targets)  BY <2>1, <2>4
  <2>6. j # Top.next  BY <1>7, <2>4, <2>5 DEF Target
  <2>7. j \in Top.next + 1..Len(Targets)  BY <2>1, <2>4, <2>5, <2>6
  <2>8. n <= Len(w)  BY <2>1, <2>3
  <2> HIDE DEF g
  <2>9. Ahead(g, w)  BY <2>2, <2>3, <2>4, <2>7, <2>8 DEF Ahead, Targets
  <2> QED  BY <2>5, <2>9 DEF g
<1>8. CASE Record
  <2>1. stack # <<>> /\ ~Branch /\ paths' = Append(paths, Top.path) /\ stack' = Pop
    BY <1>8 DEF Record
  <2>2. Top.path \in Seq(Block) /\ Len(stack) \in Nat \ {0} /\ stack[Len(stack)] = Top
    BY <2>1, AtTop
  <2>3. /\ Len(paths) \in Nat /\ Len(paths') = Len(paths) + 1
        /\ \A k \in 1..Len(paths) : paths'[k] = paths[k]
        /\ paths'[Len(paths) + 1] = Top.path
    BY <1>4, <2>1, <2>2, AppendProperties
  <2>4. CASE \E k \in 1..Len(paths) : paths[k] = w
    <3>1. PICK k \in 1..Len(paths) : paths[k] = w  BY <2>4
    <3>2. k \in 1..Len(paths')  BY <2>3
    <3> QED  BY <2>3, <3>1, <3>2
  <2>5. CASE Ahead(Top, w)
    <3> DEFINE n == Len(Top.path)
    <3>1. n \in Nat \ {0} /\ Here = Top.path[n] /\ n \in 1..n
      BY <2>1, AtTop
    <3>2. n <= Len(w) /\ \A k \in 1..n : Top.path[k] = w[k]
      BY <2>5 DEF Ahead
    <3>3. ~fun.node[w[n]].br  BY <2>1, <3>1, <3>2 DEF Branch
    <3>4. n = Len(w)
      <4>1. Len(w) \in Nat  OBVIOUS
      <4>2. n \notin 1..Len(w) - 1  BY <3>3, WalkFacts
      <4> QED  BY <3>1, <3>2, <4>1, <4>2
    <3>5. Top.path = w  BY <2>2, <3>2, <3>4, SeqEqual
    <3>6. Len(paths) + 1 \in 1..Len(paths')  BY <2>3
    <3> QED  BY <2>3, <3>5, <3>6
  <2>6. CASE \E k \in 1..Len(stack) : Ahead(stack[k], w)
    BY <1>5, <2>1, <2>2, <2>5, <2>6
  <2> QED  BY <1>3, <2>4, <2>6
<1>9. CASE Return
  <2>1. stack # <<>> /\ Branch /\ Top.next > Len(Targets) /\ paths' = paths /\ stack' = Pop
    BY <1>9 DEF Return
  <2>2. /\ Len(stack) \in Nat \ {0} /\ stack[Len(stack)] = Top
        /\ Top.next \in Nat /\ Len(Targets) \in Nat
    BY <2>1, AtTop
  <2>3. ~Ahead(Top, w)  BY <1>7, <2>1, <2>2
  <2>4. ASSUME NEW k \in 1..Len(stack), Ahead(stack[k], w)
        PROVE  \E l \in 1..Len(stack') : Ahead(stack'[l], w)
    BY <1>5, <2>1, <2>2, <2>3, <2>4
  <2> QED  BY <1>3, <2>1, <2>4
<1>10. CASE Cut
  <2>1. /\ stack # <<>> /\ Branch /\ Exhausted(Top.path, Target)
        /\ Top.next <= Len(Targets) /\ paths' = paths /\ stack' = Advanced
    BY <1>10 DEF Cut
  <2>2. /\ Len(stack) \in Nat \ {0} /\ stack[Len(stack)] = Top
        /\ Top.path \in Seq(Block) /\ Len(Top.path) \in Nat \ {0}
        /\ Len(stack') = Len(stack) /\ Targets \in Seq(Block)
        /\ Top.next \in 1..Len(Targets)
    BY <2>1, AtTop, AdvanceKeeps
  <2>3. Target \in Block  BY <2>2, ElementOfSeq DEF Target
  <2>4. ASSUME Ahead(Top, w)
        PROVE  w[Len(Top.path) + 1] # Target
    <3> DEFINE q == Append(Top.path, Target)
    <3>1. SUFFICES ASSUME w[Len(Top.path) + 1] = Target PROVE FALSE  OBVIOUS
    <3>2. /\ Len(Top.path) + 1 <= Len(w)
          /\ \A k \in 1..Len(Top.path) : Top.path[k] = w[k]
      BY <2>1, <2>4, AheadAtBranch
    <3>3. /\ q \in Seq(Block) /\ Len(q) = Len(Top.path) + 1
          /\ \A k \in 1..Len(Top.path) : q[k] = Top.path[k]
          /\ q[Len(Top.path) + 1] = Target
      BY <2>2, <2>3, AppendProperties
    <3>4. Visits(q, Target) = Visits(Top.path, Target) + 1
      BY <2>2, <2>3, VisitsAppend
    <3> HIDE DEF q
    <3>5. \A k \in 1..Len(q) : q[k] = w[k]
      <4> TAKE k \in 1..Len(q)
      <4>1. k \in 1..Len(Top.path) \/ k = Len(Top.path) + 1  BY <2>2, <3>3
      <4> QED  BY <3>1, <3>2, <3>3, <4>1
    <3>6. Visits(q, Target) <= Visits(w, Target)
      BY <3>2, <3>3, <3>5, VisitsPrefix
    <3>7. Visits(w, Target) <= MaxVisits + 1  BY <2>3, WalkFacts
    <3>8. Visits(Top.path, Target) \in Nat /\ Visits(w, Target) \in Nat
      BY <2>2, VisitsFinite
    <3>9. Visits(Top.path, Target) > MaxVisits  BY <2>1 DEF Exhausted
    <3> QED  BY <3>4, <3>6, <3>7, <3>8, <3>9, MaxVisitsAssumption
  <2>5. ASSUME NEW k \in 1..Len(stack), Ahead(stack[k], w)
        PROVE  Ahead(Advanced[k], w)
    <3>1. CASE k = Len(stack)
      <4>1. Ahead(Top, w)  BY <2>2, <2>5, <3>1
      <4> QED  BY <1>7, <2>1, <2>4, <3>1, <4>1
    <3> QED  BY <1>6, <2>1, <2>5, <3>1
  <2> QED  BY <1>3, <2>1, <2>2, <2>5
<1>11. CASE Descend
  <2> DEFINE f == Enter(Top.path, Target)
             m == Len(Top.path)
  <2>1. stack # <<>> /\ Branch /\ paths' = paths  BY <1>11 DEF Descend
  <2>2. /\ Len(stack) \in Nat \ {0} /\ stack[Len(stack)] = Top
        /\ m \in Nat \ {0}
    BY <2>1, AtTop
  <2>3. /\ f.next = 1 /\ Len(f.path) = m + 1 /\ f.path[m + 1] = Target
        /\ \A i \in 1..m : f.path[i] = Top.path[i]
        /\ Len(stack') = Len(stack) + 1 /\ stack'[Len(stack) + 1] = f
        /\ \A k \in 1..Len(stack) : stack'[k] = Advanced[k]
    BY <1>11, Descent
  <2> HIDE DEF f
  <2>4. ASSUME Ahead(Top, w), w[m + 1] = Target
        PROVE  Ahead(f, w)
    <3>1. m + 1 <= Len(w) /\ \A i \in 1..m : Top.path[i] = w[i]
      BY <2>1, <2>4, AheadAtBranch
    <3>2. \A i \in 1..m + 1 : f.path[i] = w[i]
      <4> TAKE i \in 1..m + 1
      <4>1. i \in 1..m \/ i = m + 1  BY <2>2
      <4> QED  BY <2>3, <2>4, <3>1, <4>1
    <3>3. \/ m + 1 = Len(w)
          \/ \E j \in 1..Len(fun.node[w[m + 1]].succ) :
               fun.node[w[m + 1]].succ[j] = w[m + 1 + 1]
      <4>1. Len(w) \in Nat  OBVIOUS
      <4>2. m + 1 = Len(w) \/ m + 1 \in 1..Len(w) - 1  BY <2>2, <3>1, <4>1
      <4> QED  BY <4>2, WalkFacts
    <3> QED  BY <2>3, <3>1, <3>2, <3>3 DEF Ahead
  <2>5. ASSUME NEW k \in 1..Len(stack), Ahead(stack[k], w)
        PROVE  \E l \in 1..Len(stack') : Ahead(stack'[l], w)
    <3>1. k \in 1..Len(stack') /\ Len(stack) + 1 \in 1..Len(stack')  BY <2>2, <2>3
    <3>2. CASE k # Len(stack)
      BY <1>6, <2>1, <2>3, <2>5, <3>1, <3>2
    <3>3. CASE k = Len(stack) /\ w[m + 1] # Target
      <4>1. Ahead(Top, w)  BY <2>2, <2>5, <3>3
      <4>2. Ahead(Advanced[k], w)  BY <1>7, <2>1, <3>3, <4>1
      <4> QED  BY <2>3, <3>1, <4>2
    <3>4. CASE k = Len(stack) /\ w[m + 1] = Target
      <4>1. Ahead(f, w)  BY <2>2, <2>4, <2>5, <3>4
      <4> QED  BY <2>3, <3>1, <4>1
    <3> QED  BY <3>2, <3>3, <3>4
  <2> QED  BY <1>3, <2>1, <2>5
<1>12. CASE UNCHANGED vars
  BY <1>3, <1>12 DEF vars
<1> QED  BY <1>8, <1>9, <1>10, <1>11, <1>12 DEF Next

\* The walks TLC enumerates are among them.
LEMMA BoundedOnes == NoWalkMissed => NoPathMissed
<1>1. BoundedSeqs \subseteq Seq(Block)
  <2> SUFFICES ASSUME NEW n \in 1..WalkBound, NEW w \in [1..n -> Block]
               PROVE  w \in Seq(Block)
    BY DEF BoundedSeqs
  <2>1. WalkBound \in Nat
    BY BlockAssumption, MaxVisitsAssumption, FS_CardinalityType DEF WalkBound
  <2>2. n \in Nat  BY <2>1
  <2> QED  BY <2>2
<1>2. stack = <<>> => 1..Len(stack) = {}  OBVIOUS
<1> QED  BY <1>1, <1>2 DEF NoWalkMissed, NoPathMissed, Recorded

\* No complete walk of the function is lost when DiscoverPaths returns, however
\* the recursion was cut on the way.
THEOREM NoneMissed == Spec => []NoPathMissed
BY InitIInv, StepIInv, InitMissed, StepMissed, BoundedOnes, PTL DEF Spec

\* When DiscoverPaths has returned, the list holds every walk of the function
\* from its entry to a block without BranchInst within the unrolling bound,
\* of whatever length, and nothing else.
AllFound ==
  stack = <<>> => \A w \in Seq(Block) :
                    IsComplete(w) <=> \E k \in 1..Len(paths) : paths[k] = w

THEOREM EnumerationExact == Spec => []AllFound
<1>1. IInv /\ PathsAreWalks /\ NoWalkMissed => AllFound
  <2>1. stack = <<>> => 1..Len(stack) = {}  OBVIOUS
  <2> QED  BY <2>1 DEF IInv, TypeOK, PathsAreWalks, IsComplete, IsWalk, NoWalkMissed,
                      Recorded, AllFound
<1> QED
  BY <1>1, InitIInv, StepIInv, InitWalks, StepWalks, InitMissed, StepMissed, PTL
  DEF Spec

-----------------------------------------------------------------------------
(* How deep the recursion gets. *)
\* The k-th active call has a path of k blocks, and they begin every path above.
Layered ==
  \A k \in 1..Len(stack) :
    /\ Len(stack[k].path) = k
    /\ \A l \in k..Len(stack) : \A i \in 1..k : stack[l].path[i] = stack[k].path[i]

LEMMA InitLayered == Init => Layered
<1> SUFFICES ASSUME Init PROVE Layered  OBVIOUS
<1> DEFINE f == Enter(<<>>, fun.entry)
<1>1. f.path = <<fun.entry>>  BY DEF Enter
<1> HIDE DEF f
<1>2. Len(f.path) = 1 /\ stack = <<f>>  BY <1>1 DEF Init, f
<1>3. Len(stack) = 1 /\ stack[1] = f  BY <1>2
<1>4. \A k \in 1..1 : k = 1  OBVIOUS
<1> QED  BY <1>2, <1>3, <1>4 DEF Layered

LEMMA StepLayered == IInv /\ Layered /\ [Next]_vars => Layered'
<1> SUFFICES ASSUME IInv, Layered, [Next]_vars PROVE Layered'  OBVIOUS
<1> DEFINE n == Len(stack)
<1>1. n \in Nat  BY DEF IInv, TypeOK
\* A step that pops, or leaves the paths as they are.
<1>2. ASSUME Len(stack') \in Nat, Len(stack') <= n,
             \A k \in 1..Len(stack') : stack'[k].path = stack[k].path
      PROVE  Layered'
  <2> SUFFICES ASSUME NEW k \in 1..Len(stack')
               PROVE  /\ Len(stack'[k].path) = k
                      /\ \A l \in k..Len(stack') : \A i \in 1..k :
                           stack'[l].path[i] = stack'[k].path[i]
    BY DEF Layered
  <2>1. k \in 1..n /\ stack'[k].path = stack[k].path  BY <1>1, <1>2
  <2>2. \A l \in k..Len(stack') : l \in k..n /\ stack'[l].path = stack[l].path
    BY <1>1, <1>2
  <2> QED  BY <2>1, <2>2 DEF Layered
<1>3. CASE Record
  <2>1. stack # <<>> /\ stack' = Pop  BY <1>3 DEF Record
  <2> QED  BY <1>1, <1>2, <2>1, Popped
<1>4. CASE Return
  <2>1. stack # <<>> /\ stack' = Pop  BY <1>4 DEF Return
  <2> QED  BY <1>1, <1>2, <2>1, Popped
<1>5. CASE Cut
  <2>1. stack # <<>> /\ stack' = Advanced  BY <1>5 DEF Cut
  <2> QED  BY <1>1, <1>2, <2>1, AdvanceKeeps
<1>6. CASE Descend
  <2> DEFINE f == Enter(Top.path, Target)
  <2>1. /\ Len(stack') = n + 1 /\ stack'[n + 1] = f
        /\ \A k \in 1..n : stack'[k].path = stack[k].path
        /\ Len(f.path) = Len(Top.path) + 1
        /\ \A i \in 1..Len(Top.path) : f.path[i] = Top.path[i]
    BY <1>6, Descent, AdvanceKeeps DEF Descend
  <2>2. n \in 1..n /\ Top = stack[n]  BY <1>6, AtTop DEF Descend
  <2>3. Len(Top.path) = n  BY <2>2 DEF Layered
  <2> HIDE DEF f
  <2> SUFFICES ASSUME NEW k \in 1..Len(stack')
               PROVE  /\ Len(stack'[k].path) = k
                      /\ \A l \in k..Len(stack') : \A i \in 1..k :
                           stack'[l].path[i] = stack'[k].path[i]
    BY DEF Layered
  <2>4. CASE k = n + 1
    BY <1>1, <2>1, <2>3, <2>4
  <2>5. CASE k \in 1..n
    <3>1. Len(stack[k].path) = k /\ stack'[k].path = stack[k].path
      BY <2>1, <2>5 DEF Layered
    <3>2. ASSUME NEW l \in k..Len(stack'), NEW i \in 1..k
          PROVE  stack'[l].path[i] = stack'[k].path[i]
      <4>1. CASE l \in k..n
        <5>1. stack'[l].path = stack[l].path  BY <1>1, <2>1, <2>5, <4>1
        <5> QED  BY <2>5, <3>1, <4>1, <5>1 DEF Layered
      <4>2. CASE l = n + 1
        <5>1. i \in 1..n /\ n \in k..n  BY <1>1, <2>5
        <5>2. f.path[i] = stack[n].path[i]  BY <2>1, <2>2, <2>3, <5>1
        <5>3. stack[n].path[i] = stack[k].path[i]  BY <2>5, <5>1 DEF Layered
        <5> QED  BY <2>1, <3>1, <4>2, <5>2, <5>3
      <4> QED  BY <1>1, <2>1, <2>5, <4>1, <4>2
    <3> QED  BY <3>1, <3>2
  <2> QED  BY <1>1, <2>1, <2>4, <2>5
<1>7. CASE UNCHANGED vars
  BY <1>7 DEF vars, Layered
<1> QED  BY <1>3, <1>4, <1>5, <1>6, <1>7 DEF Next

\* A sequence that visits no block more than m times is no longer than m times
\* the number of blocks: a position is told by its block and the visit it is.
LEMMA LengthBounded ==
  ASSUME NEW p \in Seq(Block), NEW m \in Nat,
         \A b \in Block : Visits(p, b) <= m
  PROVE  Len(p) <= m * Cardinality(Block)
<1> DEFINE n    == Len(p)
           At(b, i) == {k \in 1..i : p[k] = b}
           turn == [i \in 1..n |-> <<p[i], Cardinality(At(p[i], i))>>]
<1>1. n \in Nat /\ IsFiniteSet(Block)  BY BlockAssumption
<1>2. \A i \in 1..n : p[i] \in Block  BY ElementOfSeq
<1>3. ASSUME NEW b \in Block, NEW i \in 1..n
      PROVE  /\ IsFiniteSet(At(b, i)) /\ Cardinality(At(b, i)) \in 0..m
  <2>1. IsFiniteSet({k \in 1..n : p[k] = b}) /\ Visits(p, b) \in Nat /\ Visits(p, b) <= m
    BY VisitsFinite
  <2>2. At(b, i) \subseteq {k \in 1..n : p[k] = b}  BY <1>1
  <2>3. IsFiniteSet(At(b, i)) /\ Cardinality(At(b, i)) <= Visits(p, b)
    BY <2>1, <2>2, FS_Subset DEF Visits
  <2>4. Cardinality(At(b, i)) \in Nat  BY <2>3, FS_CardinalityType
  <2> QED  BY <2>1, <2>3, <2>4
<1>4. ASSUME NEW i \in 1..n
      PROVE  Cardinality(At(p[i], i)) \in 1..m
  <2>1. i \in At(p[i], i) /\ p[i] \in Block  BY <1>1, <1>2
  <2>2. At(p[i], i) # {} /\ IsFiniteSet(At(p[i], i)) /\ Cardinality(At(p[i], i)) \in 0..m
    BY <1>3, <2>1
  <2>3. Cardinality(At(p[i], i)) # 0  BY <2>2, FS_EmptySet
  <2> QED  BY <2>2, <2>3
<1>5. ASSUME NEW i \in 1..n, NEW j \in 1..n, i < j, p[i] = p[j]
      PROVE  Cardinality(At(p[i], i)) # Cardinality(At(p[j], j))
  <2>1. At(p[i], i) \subseteq At(p[j], j) /\ j \in At(p[j], j) /\ j \notin At(p[i], i)
    BY <1>1, <1>5
  <2>2. IsFiniteSet(At(p[j], j))  BY <1>2, <1>3
  <2> QED  BY <2>1, <2>2, FS_Subset
<1> HIDE DEF At
<1>6. turn \in Injection(1..n, Block \X (1..m))
  <2>1. turn \in [1..n -> Block \X (1..m)]  BY <1>2, <1>4
  <2>2. ASSUME NEW i \in 1..n, NEW j \in 1..n, turn[i] = turn[j], i # j PROVE FALSE
    <3>1. p[i] = p[j] /\ Cardinality(At(p[i], i)) = Cardinality(At(p[j], j))
      BY <2>2
    <3>2. i < j \/ j < i  BY <1>1, <2>2
    <3> QED  BY <1>5, <3>1, <3>2
  <2> HIDE DEF turn
  <2>3. DOMAIN turn = 1..n  BY <2>1
  <2> QED  BY <2>1, <2>2, <2>3 DEF Injection, IsInjective
<1>7. IsFiniteSet(1..m) /\ Cardinality(1..m) = m  BY FS_Interval
<1>8. /\ IsFiniteSet(Block \X (1..m))
      /\ Cardinality(Block \X (1..m)) = Cardinality(Block) * m
  BY <1>1, <1>7, FS_Product
<1>9. Cardinality(1..n) <= Cardinality(Block) * m
  BY <1>6, <1>8, FS_Injection
<1>10. Cardinality(1..n) = n /\ Cardinality(Block) \in Nat
  <2>1. n \in Int /\ 1 \in Int  BY <1>1
  <2>2. Cardinality(1..n) = IF 1 > n THEN 0 ELSE n - 1 + 1
    BY <2>1, FS_Interval
  <2> HIDE DEF n
  <2>3. Cardinality(1..n) = n  BY <1>1, <2>2
  <2> QED  BY <1>1, <2>3, FS_CardinalityType DEF n
<1> QED  BY <1>9, <1>10

\* However the function branches, the recursion is never deeper than its blocks
\* and the unrolling bound allow.
THEOREM RecursionBounded == Spec => []DepthBounded
<1>1. IInv /\ Layered => DepthBounded
  <2> SUFFICES ASSUME IInv, Layered PROVE DepthBounded  OBVIOUS
  <2>1. CASE stack = <<>>
    <3>1. Len(stack) = 0 /\ WalkBound \in Nat
      BY <2>1, BlockAssumption, MaxVisitsAssumption, FS_CardinalityType DEF WalkBound
    <3> QED  BY <3>1 DEF DepthBounded
  <2>2. CASE stack # <<>>
    <3>1. /\ Top.path \in Seq(Block) /\ IsWalk(Top.path)
          /\ Len(stack) \in Nat \ {0} /\ Top = stack[Len(stack)]
      BY <2>2, AtTop
    <3>2. Len(Top.path) = Len(stack)  BY <3>1 DEF Layered
    <3>3. MaxVisits + 1 \in Nat  BY MaxVisitsAssumption
    <3>4. Len(Top.path) <= (MaxVisits + 1) * Cardinality(Block)
      BY <3>1, <3>3, LengthBounded DEF IsWalk
    <3> QED  BY <3>2, <3>4 DEF DepthBounded, WalkBound
  <2> QED  BY <2>1, <2>2
<1> QED  BY <1>1, InitIInv, StepIInv, InitLayered, StepLayered, PTL DEF Spec

-----------------------------------------------------------------------------
(* Nothing is recorded twice. *)
\* w lies behind frame f: if it runs through f's block at all, it goes on by a
\* successor whose recursive call has been made.
Behind(f, w) ==
  LET n == Len(f.path)
  IN  n <= Len(w) /\ (\A i \in 1..n : f.path[i] = w[i])
      => /\ n < Len(w)
         /\ \E j \in 1..f.next - 1 : fun.node[w[n]].succ[j] = w[n + 1]

RecordedBehind ==
  NoParallelEdges =>
    \A k \in 1..Len(stack), i \in 1..Len(paths) : Behind(stack[k], paths[i])

LEMMA InitBehind == Init => RecordedBehind
BY DEF Init, RecordedBehind

\* The path under construction differs from every recorded one.
LEMMA TopIsNew ==
  ASSUME IInv, stack # <<>>, RecordedBehind, NoParallelEdges,
         NEW i \in 1..Len(paths)
  PROVE  paths[i] # Top.path
<1>1. Len(stack) \in 1..Len(stack) /\ stack[Len(stack)] = Top  BY AtTop
<1>2. Behind(Top, paths[i])  BY <1>1 DEF RecordedBehind
<1>3. Len(Top.path) \in Nat  BY AtTop
<1> QED  BY <1>2, <1>3 DEF Behind

\* A path being recorded lies behind every call that is still active.
LEMMA TopIsBehind ==
  ASSUME IInv, Layered, FramesAreNested, stack # <<>>,
         NEW k \in 1..Len(stack) - 1
  PROVE  Behind(stack[k], Top.path)
<1> DEFINE n == Len(stack)
           f == stack[k]
           b == f.path[Len(f.path)]
<1>1. /\ n \in Nat \ {0} /\ n \in 1..n /\ k \in 1..n /\ k + 1 \in 1..n
      /\ k + 1 \in 1..k + 1 /\ Top = stack[n] /\ k \in 1..k
  BY AtTop
<1>2. /\ Len(f.path) = k /\ Len(Top.path) = n
      /\ \A i \in 1..k : Top.path[i] = f.path[i]
      /\ Top.path[k + 1] = stack[k + 1].path[k + 1]
  BY <1>1 DEF Layered
<1>3. /\ f.next > 1 /\ f.next - 1 <= Len(fun.node[b].succ)
      /\ stack[k + 1].path = Append(f.path, fun.node[b].succ[f.next - 1])
  BY DEF FramesAreNested
<1>4. f \in Frame /\ f.path \in Seq(Block) /\ f.next \in Nat
  <2>1. stack \in Seq(Frame)  BY DEF IInv, TypeOK
  <2>2. f \in Frame  BY <1>1, <2>1, ElementOfSeq
  <2> HIDE DEF f
  <2> QED  BY <2>2 DEF Frame
<1>5. b \in Block /\ fun.node[b].succ \in Seq(Block)
  BY <1>1, <1>2, <1>4, ElementOfSeq DEF IInv, TypeOK, Function
<1>6. f.next - 1 \in 1..Len(fun.node[b].succ)  BY <1>3, <1>4, <1>5
<1>7. fun.node[b].succ[f.next - 1] \in Block  BY <1>5, <1>6, ElementOfSeq
<1>8. stack[k + 1].path[k + 1] = fun.node[b].succ[f.next - 1]
  <2> DEFINE x == fun.node[b].succ[f.next - 1]
             p == f.path
  <2>1. p \in Seq(Block) /\ x \in Block /\ stack[k + 1].path = Append(p, x)
        /\ Len(p) = k
    BY <1>2, <1>3, <1>4, <1>7
  <2> HIDE DEF x, p
  <2>2. Append(p, x)[Len(p) + 1] = x
    BY <2>1, AppendProperties
  <2>3. stack[k + 1].path[k + 1] = x
    BY <2>1, <2>2
  <2> QED  BY <2>3 DEF x
<1>9. b = Top.path[k]  BY <1>1, <1>2
<1>10. k < n /\ f.next - 1 \in 1..f.next - 1  BY <1>1, <1>3, <1>4
<1> HIDE DEF f, b
<1> QED  BY <1>2, <1>8, <1>9, <1>10 DEF Behind, f

\* The next recursive call follows an edge no recorded path follows yet.
LEMMA NextIsNew ==
  ASSUME IInv, RecordedBehind, NoParallelEdges, Descend, NEW i \in 1..Len(paths)
  PROVE  Behind(Enter(Top.path, Target), paths[i])
<1> DEFINE f == Enter(Top.path, Target)
           n == Len(Top.path)
           w == paths[i]
<1>1. /\ f.path \in Seq(Block) /\ Len(f.path) = n + 1 /\ f.path[n + 1] = Target
      /\ \A k \in 1..n : f.path[k] = Top.path[k]
  BY Descent
<1>2. /\ stack # <<>> /\ Top.next <= Len(Targets)  BY DEF Descend
<1>3. /\ n \in Nat \ {0} /\ n \in 1..n /\ Here \in Block /\ Here = Top.path[n]
      /\ Top.next \in Nat \ {0} /\ Targets \in Seq(Block)
      /\ Len(stack) \in 1..Len(stack) /\ stack[Len(stack)] = Top
  BY <1>2, AtTop
<1>4. w \in Seq(Block)  BY ElementOfSeq DEF IInv, TypeOK
<1>5. Behind(Top, w)  BY <1>3 DEF RecordedBehind
<1> HIDE DEF f, w
<1>6. ASSUME n + 1 <= Len(w), \A k \in 1..n + 1 : f.path[k] = w[k]
      PROVE  FALSE
  <2>1. n <= Len(w) /\ \A k \in 1..n : Top.path[k] = w[k]
    <3>1. Len(w) \in Nat /\ \A k \in 1..n : k \in 1..n + 1  BY <1>3, <1>4
    <3> HIDE DEF n
    <3> QED  BY <1>1, <1>3, <1>6, <3>1
  <2>2. PICK j \in 1..Top.next - 1 : fun.node[w[n]].succ[j] = w[n + 1]
    BY <1>5, <2>1 DEF Behind
  <2>3. w[n] = Here /\ w[n + 1] = Target
    <3>1. n + 1 \in 1..n + 1  BY <1>3
    <3> QED  BY <1>1, <1>3, <1>6, <2>1, <3>1
  <2>4. j \in 1..Len(Targets) /\ Top.next \in 1..Len(Targets) /\ j # Top.next
    BY <1>2, <1>3
  <2>5. Targets[j] = Targets[Top.next]  BY <2>2, <2>3 DEF Targets, Target
  <2> QED  BY <1>3, <2>4, <2>5 DEF NoParallelEdges, Targets
<1> QED  BY <1>1, <1>6 DEF Behind, f, w

LEMMA StepBehind ==
  IInv /\ Layered /\ FramesAreNested /\ RecordedBehind /\ [Next]_vars => RecordedBehind'
<1> SUFFICES ASSUME IInv, Layered, FramesAreNested, RecordedBehind, [Next]_vars
             PROVE  RecordedBehind'
  OBVIOUS
<1>0. fun' = fun /\ NoParallelEdges' = NoParallelEdges
  <2>1. fun' = fun  BY FunKept
  <2> QED  BY <2>1 DEF NoParallelEdges
<1> SUFFICES ASSUME NoParallelEdges
             PROVE  \A k \in 1..Len(stack'), i \in 1..Len(paths') :
                      Behind(stack'[k], paths'[i])
  BY <1>0 DEF RecordedBehind, Behind
<1>1. \A k \in 1..Len(stack), i \in 1..Len(paths) : Behind(stack[k], paths[i])
  BY DEF RecordedBehind
<1>2. paths \in Seq(Seq(Block)) /\ stack \in Seq(Frame) /\ Len(stack) \in Nat
  BY DEF IInv, TypeOK
\* A call that has made one more recursive call.
<1>3. ASSUME stack # <<>>, NEW k \in 1..Len(stack), NEW w, Behind(stack[k], w)
      PROVE  Behind(Advanced[k], w)
  <2>1. /\ Len(stack) \in Nat \ {0} /\ stack[Len(stack)] = Top
        /\ Top.next \in Nat \ {0}
        /\ Advanced[k].path = stack[k].path
        /\ k \in 1..Len(stack) - 1 => Advanced[k] = stack[k]
        /\ Advanced[Len(stack)].next = Top.next + 1
    BY <1>3, AtTop, AdvanceKeeps
  <2>2. CASE k = Len(stack)
    <3>1. \A j \in 1..Top.next - 1 : j \in 1..(Top.next + 1) - 1  BY <2>1
    <3>2. Advanced[k].path = Top.path /\ Advanced[k].next = Top.next + 1 /\ Behind(Top, w)
      BY <1>3, <2>1, <2>2
    <3> QED  BY <3>1, <3>2 DEF Behind
  <2>3. CASE k # Len(stack)
    BY <1>3, <2>1, <2>3
  <2> QED  BY <2>2, <2>3
<1>4. CASE Record
  <2>1. stack # <<>> /\ paths' = Append(paths, Top.path) /\ stack' = Pop
    BY <1>4 DEF Record
  <2>2. /\ Top.path \in Seq(Block) /\ Len(stack) \in Nat \ {0}
        /\ Len(stack') = Len(stack) - 1
        /\ \A k \in 1..Len(stack') : stack'[k] = stack[k]
    BY <2>1, AtTop, Popped
  <2>3. /\ Len(paths) \in Nat /\ Len(paths') = Len(paths) + 1
        /\ \A i \in 1..Len(paths) : paths'[i] = paths[i]
        /\ paths'[Len(paths) + 1] = Top.path
    BY <1>2, <2>1, <2>2, AppendProperties
  <2> TAKE k \in 1..Len(stack'), i \in 1..Len(paths')
  <2>4. k \in 1..Len(stack) - 1 /\ k \in 1..Len(stack) /\ stack'[k] = stack[k]
    BY <2>2
  <2>5. i \in 1..Len(paths) \/ i = Len(paths) + 1  BY <2>3
  <2> QED  BY <1>1, <2>1, <2>3, <2>4, <2>5, TopIsBehind
<1>5. CASE Return
  <2>1. stack # <<>> /\ paths' = paths /\ stack' = Pop  BY <1>5 DEF Return
  <2>2. /\ Len(stack) \in Nat \ {0} /\ Len(stack') = Len(stack) - 1
        /\ \A k \in 1..Len(stack') : stack'[k] = stack[k]
    BY <2>1, Popped
  <2>3. \A k \in 1..Len(stack') : k \in 1..Len(stack)  BY <2>2
  <2> QED  BY <1>1, <2>1, <2>2, <2>3
<1>6. CASE Cut
  <2>1. stack # <<>> /\ paths' = paths /\ stack' = Advanced  BY <1>6 DEF Cut
  <2>2. Len(stack') = Len(stack)  BY <2>1, AdvanceKeeps
  <2> QED  BY <1>1, <1>3, <2>1, <2>2
<1>7. CASE Descend
  <2> DEFINE f == Enter(Top.path, Target)
  <2>1. /\ Len(stack') = Len(stack) + 1 /\ stack'[Len(stack) + 1] = f
        /\ \A k \in 1..Len(stack) : stack'[k] = Advanced[k]
    BY <1>7, Descent
  <2>2. stack # <<>> /\ paths' = paths  BY <1>7 DEF Descend
  <2> HIDE DEF f
  <2> TAKE k \in 1..Len(stack'), i \in 1..Len(paths')
  <2>3. CASE k \in 1..Len(stack)
    BY <1>1, <1>3, <2>1, <2>2, <2>3
  <2>4. CASE k = Len(stack) + 1
    BY <1>7, <2>1, <2>2, <2>4, NextIsNew DEF f
  <2> QED  BY <1>2, <2>1, <2>3, <2>4
<1>8. CASE UNCHANGED vars
  BY <1>1, <1>8 DEF vars
<1> QED  BY <1>4, <1>5, <1>6, <1>7, <1>8 DEF Next

LEMMA InitOnce == Init => RecordedOnce
BY DEF Init, RecordedOnce

LEMMA StepOnce == IInv /\ RecordedBehind /\ RecordedOnce /\ [Next]_vars => RecordedOnce'
<1> SUFFICES ASSUME IInv, RecordedBehind, RecordedOnce, [Next]_vars
             PROVE  RecordedOnce'
  OBVIOUS
<1>0. NoParallelEdges' = NoParallelEdges
  <2>1. fun' = fun  BY FunKept
  <2> QED  BY <2>1 DEF NoParallelEdges
<1> SUFFICES ASSUME NoParallelEdges
             PROVE  \A i, j \in 1..Len(paths') : paths'[i] = paths'[j] => i = j
  BY <1>0 DEF RecordedOnce
<1>1. \A i, j \in 1..Len(paths) : paths[i] = paths[j] => i = j  BY DEF RecordedOnce
<1>2. CASE Record
  <2>1. stack # <<>> /\ paths' = Append(paths, Top.path)  BY <1>2 DEF Record
  <2>2. paths \in Seq(Seq(Block)) /\ Top.path \in Seq(Block)
    BY <2>1, AtTop DEF IInv, TypeOK
  <2>3. /\ Len(paths) \in Nat /\ Len(paths') = Len(paths) + 1
        /\ \A i \in 1..Len(paths) : paths'[i] = paths[i] /\ paths[i] # Top.path
        /\ paths'[Len(paths) + 1] = Top.path
    BY <2>1, <2>2, AppendProperties, TopIsNew
  <2>4. \A i \in 1..Len(paths') : i \in 1..Len(paths) \/ i = Len(paths) + 1  BY <2>3
  <2> QED  BY <1>1, <2>3, <2>4
<1>3. CASE paths' = paths
  BY <1>1, <1>3
<1> QED  BY <1>2, <1>3 DEF Next, vars, Descend, Cut, Return

\* If no block names a successor twice, no path is handed to the analysis
\* twice, whatever the control-flow graph.
THEOREM NoneRepeated == Spec => []RecordedOnce
BY InitIInv, StepIInv, InitLayered, StepLayered, InitNested, StepNested,
   InitBehind, StepBehind, InitOnce, StepOnce, PTL DEF Spec
=============================================================================
