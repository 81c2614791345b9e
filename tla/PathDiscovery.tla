--------------------------- MODULE PathDiscovery ---------------------------
(***************************************************************************)
(* DiscoverPaths of proj2/LeakDetector.cpp: the recursive enumeration of   *)
(* the control-flow paths of one function.  The C++ call stack is the      *)
(* sequence stack, one frame per active call; each frame holds its own     *)
(* copy of path, which the code passes by value.                           *)
(***************************************************************************)
EXTENDS Naturals, Sequences, FiniteSets

CONSTANTS
  Block,      \* the basic blocks
  Funs,       \* the functions that may be analysed, as control-flow graphs
  MaxVisits   \* 2 in the code: a call returns at once beyond this count

\* A block either ends in a BranchInst or not; only a BranchInst's successors
\* are followed, those of a switch, an invoke, ... are in succ all the same.
Function ==
  [entry : Block, node : [Block -> [br : BOOLEAN, succ : Seq(Block)]]]

ASSUME BlockAssumption == IsFiniteSet(Block)
ASSUME FunsAssumption == Funs \subseteq Function
ASSUME MaxVisitsAssumption == MaxVisits \in Nat

VARIABLES
  fun,     \* the function being analysed
  stack,   \* active calls: the path including the call's own block, and j + 1
  paths    \* the global list paths

vars == <<fun, stack, paths>>

Frame == [path : Seq(Block), next : Nat \ {0}]

Visits(p, b) == Cardinality({i \in 1..Len(p) : p[i] = b})

Top     == stack[Len(stack)]
Here    == Top.path[Len(Top.path)]
Branch  == fun.node[Here].br
Targets == fun.node[Here].succ
Target  == Targets[Top.next]

\* Mutants: one visit too many, one too few, a count of the wrong block.
ExhaustedLate(p, b)  == Visits(p, b) > MaxVisits + 1
ExhaustedEarly(p, b) == Visits(p, b) >= MaxVisits
ExhaustedEntry(p, b) == Visits(p, fun.entry) > MaxVisits

\* std::count over the caller's path, before the block is pushed.
Exhausted(p, b) == Visits(p, b) > MaxVisits

\* Mutant: j starts one too low.
EnterLow(p, b) == [path |-> Append(p, b), next |-> 0]

\* The frame of a call that got past its first test.
Enter(p, b) == [path |-> Append(p, b), next |-> 1]

Advanced == [stack EXCEPT ![Len(stack)].next = @ + 1]

Pop == SubSeq(stack, 1, Len(stack) - 1)

Init ==
  /\ fun \in Funs
  /\ stack = <<Enter(<<>>, fun.entry)>>
  /\ paths = <<>>

\* No BranchInst in the block: the path is complete.
Record ==
  /\ stack # <<>>
  /\ ~Branch
  /\ paths' = Append(paths, Top.path)
  /\ stack' = Pop
  /\ UNCHANGED fun

\* Mutant: path is passed by reference.
DescendByReference ==
  /\ stack # <<>>
  /\ Branch
  /\ Top.next <= Len(Targets)
  /\ ~Exhausted(Top.path, Target)
  /\ stack' = Append([Advanced EXCEPT ![Len(stack)].path = Append(@, Target)],
                     Enter(Top.path, Target))
  /\ UNCHANGED <<fun, paths>>

\* The recursive call on the j-th successor pushes the block ...
Descend ==
  /\ stack # <<>>
  /\ Branch
  /\ Top.next <= Len(Targets)
  /\ ~Exhausted(Top.path, Target)
  /\ stack' = Append(Advanced, Enter(Top.path, Target))
  /\ UNCHANGED <<fun, paths>>

\* Mutants: the cut path is recorded; j is not incremented.
CutRecorded ==
  /\ stack # <<>>
  /\ Branch
  /\ Top.next <= Len(Targets)
  /\ Exhausted(Top.path, Target)
  /\ stack' = Advanced
  /\ paths' = Append(paths, Top.path)
  /\ UNCHANGED fun

CutStays ==
  /\ stack # <<>>
  /\ Branch
  /\ Top.next <= Len(Targets)
  /\ Exhausted(Top.path, Target)
  /\ UNCHANGED vars

\* ... or returns without recording anything.
Cut ==
  /\ stack # <<>>
  /\ Branch
  /\ Top.next <= Len(Targets)
  /\ Exhausted(Top.path, Target)
  /\ stack' = Advanced
  /\ UNCHANGED <<fun, paths>>

\* Mutant: the return after the loop is missing, and the path is recorded.
ReturnRecords ==
  /\ stack # <<>>
  /\ Branch
  /\ Top.next > Len(Targets)
  /\ stack' = Pop
  /\ paths' = Append(paths, Top.path)
  /\ UNCHANGED fun

\* The loop over the successors is over.
Return ==
  /\ stack # <<>>
  /\ Branch
  /\ Top.next > Len(Targets)
  /\ stack' = Pop
  /\ UNCHANGED <<fun, paths>>

Next == Record \/ Descend \/ Cut \/ Return

Spec == Init /\ [][Next]_vars /\ WF_vars(Next)

-----------------------------------------------------------------------------
\* Every variable has its type.
TypeOK ==
  /\ fun \in Function
  /\ stack \in Seq(Frame)
  /\ paths \in Seq(Seq(Block))

\* The branch edges of the function.
Edge(b, c) ==
  /\ fun.node[b].br
  /\ \E j \in 1..Len(fun.node[b].succ) : fun.node[b].succ[j] = c

\* A walk from the entry that takes branch edges and visits no block more
\* often than the unrolling bound allows.
IsWalk(p) ==
  /\ p \in Seq(Block)
  /\ p # <<>>
  /\ p[1] = fun.entry
  /\ \A i \in 1..Len(p) - 1 : Edge(p[i], p[i + 1])
  /\ \A b \in Block : Visits(p, b) <= MaxVisits + 1

IsComplete(p) == IsWalk(p) /\ ~fun.node[p[Len(p)]].br

\* Soundness of the enumeration: each path handed to MemoryLeakDetection is a
\* bounded walk of the function from its entry to a block without BranchInst,
\* whatever siblings were explored before it, and so is each path under
\* construction, up to its end.
PathsAreWalks ==
  /\ \A k \in 1..Len(paths) : IsComplete(paths[k])
  /\ \A k \in 1..Len(stack) : IsWalk(stack[k].path)

\* The loop that extends path is nowhere ahead or behind the recursion: the
\* frame above extends the one below by the successor it last took.
FramesAreNested ==
  \A k \in 1..Len(stack) - 1 :
    LET f == stack[k]
        b == f.path[Len(f.path)]
    IN  /\ fun.node[b].br
        /\ f.next > 1
        /\ f.next - 1 <= Len(fun.node[b].succ)
        /\ stack[k + 1].path = Append(f.path, fun.node[b].succ[f.next - 1])

Recorded(w) == \E k \in 1..Len(paths) : paths[k] = w

WalkBound == (MaxVisits + 1) * Cardinality(Block)

BoundedSeqs == UNION {[1..n -> Block] : n \in 1..WalkBound}

\* Completeness: when DiscoverPaths has returned, no complete bounded walk of
\* the function is missing, whatever was cut on the way.
NoPathMissed ==
  stack = <<>> => \A w \in BoundedSeqs : IsComplete(w) => Recorded(w)

NoParallelEdges ==
  \A b \in Block : \A i, j \in 1..Len(fun.node[b].succ) :
    fun.node[b].succ[i] = fun.node[b].succ[j] => i = j

\* No path is analysed twice, except where a conditional branch names the same
\* block for both outcomes.
RecordedOnce ==
  NoParallelEdges =>
    \A i, j \in 1..Len(paths) : paths[i] = paths[j] => i = j

\* The recursion is never deeper than the bound allows: the code recurses on
\* the machine stack, with a copy of path in every frame.
DepthBounded == Len(stack) <= WalkBound

\* DiscoverPaths returns, cyclic control flow or not.
Termination == <>(stack = <<>>)
=============================================================================
