---------------------------- MODULE LeakDetector ----------------------------
(***************************************************************************)
(* runOnModule of proj2/LeakDetector.cpp: for each function of a module,   *)
(* DiscoverPaths (PathDiscovery) extends the global list paths, and then   *)
(* every path of that list goes through MemoryLeakDetection (LeakScan),    *)
(* which may insert instructions into the code the next scan reads.        *)
(***************************************************************************)
EXTENDS Integers, Sequences, SequencesExt, FiniteSets

CONSTANTS
  Block, Name, NoName, Index, Place, MaxVisits,
  NoBlock,   \* the entry of a function that is only declared
  Modules    \* the modules that may be analysed

VARIABLES
  module,    \* the module: its blocks, code and functions
  f,         \* the function being analysed, 0 before the first
  phase,     \* where runOnModule is
  next,      \* position in paths of the path to scan next
  reported,  \* the paths printed, in order
  verdicts,  \* each path scanned so far, with the verdict it got

  fun, stack, paths,                                       \* PathDiscovery
  code, path, bb, i, malloc_id, mallocs, malloc_vars,      \* LeakScan
  malloc_structs, verdict

passVars  == <<module, f, phase, next, reported, verdicts>>
discovery == <<fun, stack, paths>>
scan      == <<code, path, bb, i, malloc_id, mallocs, malloc_vars,
               malloc_structs, verdict>>
vars == <<passVars, discovery, scan>>

\* The graph of a function, read off the module.
Graph(m, entry) == [entry |-> entry, node |-> m.node]

Entries(m) == {m.entries[k] : k \in 1..Len(m.entries)} \ {NoBlock}

Discovery == INSTANCE PathDiscovery WITH
  Funs <- {Graph(m, e) : m \in Modules, e \in Block}
Scan == INSTANCE LeakScan

\* A module is a graph, the entries of its functions, and the code.
ASSUME NoBlockAssumption == NoBlock \notin Block
ASSUME NoNameAssumption == NoName \in Name
ASSUME BlockAssumption == IsFiniteSet(Block)
ASSUME MaxVisitsAssumption == MaxVisits \in Nat
\* Before the pass no instruction is one of getAsInstruction's.
ASSUME ModulesAssumption ==
  \A m \in Modules :
    /\ m.node \in [Block -> [br : BOOLEAN, succ : Seq(Block)]]
    /\ m.entries \in Seq(Block \cup {NoBlock})
    /\ m.code \in [Block -> Seq(Scan!Instr)]
    /\ \A b \in Block : \A k \in 1..Len(m.code[b]) : m.code[b][k].op # "address"

Init ==
  /\ module \in Modules
  /\ f = 0 /\ phase = "functions" /\ next = 1
  /\ reported = <<>> /\ verdicts = {}
  /\ fun = Graph(module, module.entries[1])
  /\ stack = <<>> /\ paths = <<>>
  /\ code = module.code
  /\ Scan!Start(<<>>)

Declared == module.entries[f + 1] = NoBlock

\* A function without a body is passed over.
SkipDeclaration ==
  /\ phase = "functions" /\ f < Len(module.entries) /\ Declared
  /\ f' = f + 1
  /\ UNCHANGED <<module, phase, next, reported, verdicts, discovery, scan>>

\* DiscoverPaths is called with an empty path; the global list is as it was.
CallDiscoverPaths ==
  /\ phase = "functions" /\ f < Len(module.entries) /\ ~Declared
  /\ f' = f + 1
  /\ fun' = Graph(module, module.entries[f + 1])
  /\ stack' = <<Discovery!Enter(<<>>, module.entries[f + 1])>>
  /\ phase' = "discovering"
  /\ UNCHANGED <<module, next, reported, verdicts, paths, scan>>

Discover ==
  /\ phase = "discovering"
  /\ Discovery!Next
  /\ UNCHANGED <<passVars, scan>>

\* Mutant: the loop begins at the second path.
BeginLoopSecond ==
  /\ phase = "discovering" /\ stack = <<>>
  /\ phase' = "paths" /\ next' = 2
  /\ UNCHANGED <<module, f, reported, verdicts, discovery, scan>>

\* DiscoverPaths has returned: the loop over all of paths begins.
BeginLoop ==
  /\ phase = "discovering" /\ stack = <<>>
  /\ phase' = "paths" /\ next' = 1
  /\ UNCHANGED <<module, f, reported, verdicts, discovery, scan>>

CallMemoryLeakDetection ==
  /\ phase = "paths" /\ next <= Len(paths)
  /\ phase' = "scanning"
  /\ UNCHANGED <<module, f, next, reported, verdicts, discovery>>
  /\ Scan!Call(paths[next])

ScanPath ==
  /\ phase = "scanning"
  /\ Scan!ScanNext
  /\ UNCHANGED <<passVars, discovery>>

\* MemoryLeakDetection has returned; the path is printed if it said so.
Returned ==
  /\ phase = "scanning" /\ verdict \in {"leak", "clean"}
  /\ reported' = IF verdict = "leak" THEN Append(reported, path) ELSE reported
  /\ verdicts' = verdicts \cup {<<path, verdict>>}
  /\ next' = next + 1
  /\ phase' = "paths"
  /\ UNCHANGED <<module, f, discovery, scan>>

\* Mutant: the loop waits for one path more.
EndLoopLate ==
  /\ phase = "paths" /\ next > Len(paths) + 1
  /\ phase' = "functions"
  /\ UNCHANGED <<module, f, next, reported, verdicts, discovery, scan>>

EndLoop ==
  /\ phase = "paths" /\ next > Len(paths)
  /\ phase' = "functions"
  /\ UNCHANGED <<module, f, next, reported, verdicts, discovery, scan>>

\* runOnModule returns false.
ReturnFalse ==
  /\ phase = "functions" /\ f = Len(module.entries)
  /\ phase' = "done"
  /\ UNCHANGED <<module, f, next, reported, verdicts, discovery, scan>>

Next == \/ SkipDeclaration \/ CallDiscoverPaths \/ Discover \/ BeginLoop
        \/ CallMemoryLeakDetection \/ ScanPath \/ Returned \/ EndLoop
        \/ ReturnFalse

Spec == Init /\ [][Next]_vars /\ WF_vars(Next)

-----------------------------------------------------------------------------
\* A path of the module, with the code it had before the pass.
ProgramOn(p) == [code |-> module.code, path |-> p]

\* The bounded walks of a function, by length.
WalkBound == (MaxVisits + 1) * Cardinality(Block)
Follow(p) ==
  LET last == module.node[p[Len(p)]]
  IN  IF last.br
      THEN {Append(p, last.succ[j]) : j \in 1..Len(last.succ)}
      ELSE {}
Walks(entry) ==
  LET of[n \in 1..WalkBound] ==
        IF n = 1 THEN {<<entry>>}
        ELSE {w \in UNION {Follow(p) : p \in of[n - 1]} :
                \A b \in Block :
                  Cardinality({k \in 1..n : w[k] = b}) <= MaxVisits + 1}
  IN  {w \in UNION {of[n] : n \in 1..WalkBound} :
         ~module.node[w[Len(w)]].br}

AllPaths == UNION {Walks(e) : e \in Entries(module)}

\* No operand of the module is a constant expression, so that the scans insert
\* nothing, and the tables can follow each of its paths.
NoConstantExprs ==
  \A b \in Block : \A k \in 1..Len(module.code[b]) :
    module.code[b][k].ptr.kind = "plain"

Followable ==
  NoConstantExprs /\ \A p \in AllPaths : Scan!Disciplined(ProgramOn(p))

Ended == phase = "done"

\* End to end, over discovery, scans and the loops of runOnModule: when the
\* pass is done, the paths printed are the complete bounded walks of all the
\* functions on which the program leaks, and no other.
LeaksReported ==
  Ended /\ Followable =>
    {reported[k] : k \in 1..Len(reported)} = {p \in AllPaths : Scan!LeaksOn(ProgramOn(p))}

\* Scanning a path again, after other functions, gives the verdict it had.
VerdictsStable ==
  NoConstantExprs =>
    \A v, w \in verdicts : v[1] = w[1] => v = w

\* A walk from entry along branches to a block that ends in none, within the
\* bound on visits.
CompleteWalk(entry, p) ==
  /\ p # <<>> /\ p[1] = entry
  /\ \A k \in 1..Len(p) - 1 :
       module.node[p[k]].br /\ p[k + 1] \in ToSet(module.node[p[k]].succ)
  /\ ~module.node[p[Len(p)]].br
  /\ \A b \in Block : Discovery!Visits(p, b) <= MaxVisits + 1

\* Each path printed is a complete bounded walk of one function, which was
\* analysed before, however often the list that all functions share was
\* scanned since.
ReportsAreWalks ==
  \A k \in 1..Len(reported) :
    \E n \in 1..f : CompleteWalk(module.entries[n], reported[k])

\* The pass ends, unless it crashes.
PassEnds == <>(Ended \/ verdict = "crash")

\* README.md line 11: the pass "tracks heap allocation and release along each
\* path, and reports leaks": a path on which the program releases everything
\* is not printed, whichever paths were scanned before it.
ReportsAreLeaks ==
  \A k \in 1..Len(reported) : Scan!LeaksOn(ProgramOn(reported[k]))
=============================================================================
