------------------------- MODULE LeakDetectorProofs -------------------------
(***************************************************************************)
(* For any modules, in any number of functions: what the pass prints are   *)
(* walks of the functions analysed so far; the verdict on a path does not  *)
(* depend on when it is scanned, as long as the scans insert nothing; and  *)
(* on paths the tables can follow what is printed at the end is what leaks.*)
(*                                                                         *)
(* The last is proved from what is known of the parts: PathDiscoveryProofs *)
(* and LeakTruthProofs are instantiated for the calls that runOnModule     *)
(* makes of DiscoverPaths and of MemoryLeakDetection.                      *)
(***************************************************************************)
EXTENDS LeakDetector, SequenceTheorems, FiniteSetTheorems, WellFoundedInduction,
        TLAPS

\* A walk of m from e, within the bound on visits.
IsWalk(m, e, p) ==
  /\ p \in Seq(Block) /\ p # <<>> /\ p[1] = e
  /\ \A k \in 1..Len(p) - 1 :
       m.node[p[k]].br /\ p[k + 1] \in ToSet(m.node[p[k]].succ)
  /\ \A b \in Block : Discovery!Visits(p, b) <= MaxVisits + 1

\* A complete walk of one of the first functions.
Found(m, e, p) ==
  \E n \in 1..e : IsWalk(m, m.entries[n], p) /\ ~m.node[p[Len(p)]].br

\* DiscoverPaths, as it was proved about by itself, for the function called.
Enum == INSTANCE PathDiscoveryProofs WITH
  Funs <- {Graph(m, e) : m \in Modules, e \in Block}

\* The frames of DiscoverPaths are those of the function being analysed; the
\* list that all functions share, and what was printed of it, are walks of the
\* functions so far.
PInv ==
  /\ module \in Modules
  /\ f \in 0..Len(module.entries)
  /\ next \in Nat \ {0}
  /\ phase \in {"functions", "discovering", "paths", "scanning", "done"}
  /\ phase = "discovering" =>
       /\ f > 0 /\ fun = Graph(module, module.entries[f])
       /\ Enum!IInv
  /\ paths \in Seq(Seq(Block)) /\ \A k \in 1..Len(paths) : Found(module, f, paths[k])
  /\ \A k \in 1..Len(reported) : Found(module, f, reported[k])
  /\ reported \in Seq(Seq(Block))
  /\ phase = "scanning" => next <= Len(paths) /\ path = paths[next]

\* What was found stays found when another function follows.
LEMMA FoundStays ==
  ASSUME NEW m, NEW e \in Nat, NEW p, Found(m, e, p)
  PROVE  Found(m, e + 1, p)
BY 1..e \subseteq 1..e + 1 DEF Found

-----------------------------------------------------------------------------
(***************************************************************************)
(* What PathDiscoveryProofs has of DiscoverPaths holds of the calls that   *)
(* runOnModule makes: the modules' graphs meet its assumptions, its steps  *)
(* are those here, and its walks those of the module.                      *)
(***************************************************************************)
LEMMA EnumMeets ==
  /\ {Graph(m, e) : m \in Modules, e \in Block} \subseteq Enum!Function
  /\ Enum!IsFiniteSet(Block) /\ MaxVisits \in Nat
<1>1. {Graph(m, e) : m \in Modules, e \in Block} \subseteq Enum!Function
  BY ModulesAssumption DEF Enum!Function, Graph
<1> QED
  BY <1>1, BlockAssumption, MaxVisitsAssumption DEF IsFiniteSet, Enum!IsFiniteSet

LEMMA EnumStarts ==
  /\ fun \in Enum!Function /\ paths \in Seq(Seq(Block))
  /\ stack = <<Enum!Enter(<<>>, fun.entry)>>
  => Enum!IInv /\ Enum!NoWalkMissed
BY Enum!StartIInv, Enum!StartMissed, EnumMeets

LEMMA EnumSteps ==
  /\ Enum!IInv /\ [Enum!Next]_(Enum!vars) => fun' = fun /\ Enum!IInv'
  /\ Enum!IInv /\ Enum!NoWalkMissed /\ [Enum!Next]_(Enum!vars) => Enum!NoWalkMissed'
BY Enum!FunKept, Enum!StepIInv, Enum!StepMissed,
   EnumMeets

LEMMA SameNext == Discovery!Next => Enum!Next
BY DEF Discovery!Next, Discovery!Record, Discovery!Descend, Discovery!Cut,
       Discovery!Return, Discovery!Top, Discovery!Here, Discovery!Branch,
       Discovery!Targets, Discovery!Target, Discovery!Exhausted,
       Discovery!Visits, Discovery!Cardinality, Discovery!Enter,
       Discovery!Advanced, Discovery!Pop,
       Enum!Next, Enum!Record, Enum!Descend, Enum!Cut,
       Enum!Return, Enum!Top, Enum!Here, Enum!Branch,
       Enum!Targets, Enum!Target, Enum!Exhausted,
       Enum!Visits, Enum!Cardinality, Enum!Enter,
       Enum!Advanced, Enum!Pop

LEMMA SameVisits ==
  ASSUME NEW p, NEW b
  PROVE  Discovery!Visits(p, b) = Enum!Visits(p, b)
BY DEF Discovery!Visits, Discovery!Cardinality, Enum!Visits, Enum!Cardinality

LEMMA SameWalks ==
  ASSUME NEW e, fun = Graph(module, e), NEW p
  PROVE  /\ Enum!IsWalk(p) <=> IsWalk(module, e, p)
         /\ Enum!IsComplete(p) <=> IsWalk(module, e, p) /\ ~module.node[p[Len(p)]].br
<1>1. fun.entry = e /\ fun.node = module.node
  BY DEF Graph
<1>2. \A b : Discovery!Visits(p, b) = Enum!Visits(p, b)
  BY SameVisits
<1>3. \A b, c : Enum!Edge(b, c) <=> module.node[b].br /\ c \in ToSet(module.node[b].succ)
  <2>1. \A q, c : c \in ToSet(q) <=> \E j \in 1..Len(q) : q[j] = c
    BY DEF ToSet
  <2> QED  BY <1>1, <2>1 DEF Enum!Edge
<1>4. Enum!IsWalk(p) <=> IsWalk(module, e, p)
  BY <1>1, <1>2, <1>3 DEF Enum!IsWalk, IsWalk
<1> QED  BY <1>1, <1>4 DEF Enum!IsComplete

\* One step of DiscoverPaths adds at most a complete walk to the list.
LEMMA DiscoverAdds ==
  ASSUME PInv, Discover
  PROVE  /\ phase = "discovering" /\ UNCHANGED <<passVars, scan, fun>>
         /\ Enum!Next /\ Enum!IInv'
         /\ \/ paths' = paths
            \/ \E w \in Seq(Block) : Found(module, f, w) /\ paths' = Append(paths, w)
<1>1. phase = "discovering" /\ Discovery!Next /\ UNCHANGED <<passVars, scan>>
  BY DEF Discover
<1>2. /\ Enum!Next /\ Enum!IInv /\ f \in 1..f
      /\ fun = Graph(module, module.entries[f])
  BY <1>1, SameNext DEF PInv
<1>3. fun' = fun /\ Enum!IInv'
  BY <1>2, EnumSteps
<1>4. CASE Enum!Record
  <2>1. stack # <<>> /\ ~Enum!Branch /\ paths' = Append(paths, Enum!Top.path)
    BY <1>4 DEF Enum!Record
  <2> DEFINE w == Enum!Top.path
  <2>2. Enum!IsWalk(w) /\ w \in Seq(Block) /\ Enum!Here = w[Len(w)]
    BY <1>2, <2>1, Enum!AtTop, EnumMeets
  <2>3. ~module.node[w[Len(w)]].br
    BY <1>2, <2>1, <2>2 DEF Enum!Branch, Graph
  <2> HIDE DEF w
  <2>4. IsWalk(module, module.entries[f], w)
    BY <1>2, <2>2, SameWalks
  <2>5. Found(module, f, w)
    BY <1>2, <2>3, <2>4 DEF Found
  <2> QED  BY <1>1, <1>2, <1>3, <2>1, <2>2, <2>5 DEF w
<1>5. CASE paths' = paths
  BY <1>1, <1>2, <1>3, <1>5
<1> QED  BY <1>2, <1>4, <1>5 DEF Enum!Next, Enum!Descend, Enum!Cut, Enum!Return

\* A scan leaves the path it was called with.
LEMMA ScanKeepsPath == Scan!ScanNext => path' = path
<1>1. Scan!Step => path' = path
  BY DEF Scan!Step, Scan!TrackAlias, Scan!CopyStruct, Scan!TrackVar,
         Scan!TrackField, Scan!FreeVar, Scan!FreeField, Scan!ExpandCast,
         Scan!Pass, Scan!Move, Scan!ExpandHere
<1>2. Scan!Crash \/ Scan!NextBlock \/ Scan!Finish => path' = path
  BY DEF Scan!Crash, Scan!NextBlock, Scan!Finish
<1> QED  BY <1>1, <1>2 DEF Scan!ScanNext

-----------------------------------------------------------------------------
LEMMA InitPInv == Init => PInv
<1> SUFFICES ASSUME Init PROVE PInv
  OBVIOUS
<1>1. /\ module \in Modules /\ f = 0 /\ next = 1 /\ phase = "functions"
      /\ reported = <<>> /\ paths = <<>>
  BY DEF Init
<1>2. Len(module.entries) \in Nat
  BY <1>1, ModulesAssumption
<1> QED  BY <1>1, <1>2 DEF PInv

LEMMA SkipKeeps == PInv /\ SkipDeclaration => PInv'
<1> SUFFICES ASSUME PInv, SkipDeclaration PROVE PInv'
  OBVIOUS
<1>1. /\ phase = "functions" /\ f < Len(module.entries) /\ f' = f + 1
      /\ UNCHANGED <<module, phase, next, reported, paths>>
  BY DEF SkipDeclaration, discovery
<1>2. Len(module.entries) \in Nat /\ f \in Nat
  BY ModulesAssumption DEF PInv
<1>3. ASSUME NEW p, Found(module, f, p) PROVE Found(module, f', p)
  BY <1>1, <1>2, <1>3, FoundStays
<1> QED  BY <1>1, <1>2, <1>3 DEF PInv

\* DiscoverPaths is called.
LEMMA CallStarts ==
  ASSUME PInv, CallDiscoverPaths
  PROVE  /\ UNCHANGED <<module, next, reported, paths>>
         /\ f < Len(module.entries) /\ f' = f + 1 /\ f \in Nat
         /\ phase = "functions" /\ phase' = "discovering"
         /\ fun' = Graph(module, module.entries[f + 1])
         /\ Enum!IInv' /\ Enum!NoWalkMissed'
<1> DEFINE e == module.entries[f + 1]
<1>1. /\ f < Len(module.entries) /\ f' = f + 1 /\ phase = "functions"
      /\ e # NoBlock /\ fun' = Graph(module, e) /\ phase' = "discovering"
      /\ stack' = <<Discovery!Enter(<<>>, e)>>
      /\ UNCHANGED <<module, next, reported, paths>>
  BY DEF CallDiscoverPaths, Declared
<1>2. f \in Nat /\ e \in Block
  <2>1. Len(module.entries) \in Nat /\ f \in Nat /\ f + 1 \in 1..Len(module.entries)
    BY <1>1, ModulesAssumption DEF PInv
  <2>2. e \in Block \cup {NoBlock}
    BY <2>1, ModulesAssumption, ElementOfSeq DEF PInv
  <2> QED  BY <1>1, <2>1, <2>2
<1>3. fun' \in Enum!Function
  BY <1>1, <1>2, EnumMeets DEF PInv
<1>4. stack' = <<Enum!Enter(<<>>, fun'.entry)>>
  BY <1>1 DEF Discovery!Enter, Enum!Enter, Graph
<1>5. (/\ fun \in Enum!Function /\ paths \in Seq(Seq(Block))
       /\ stack = <<Enum!Enter(<<>>, fun.entry)>>)'
  BY <1>1, <1>3, <1>4 DEF PInv, Enum!Function, Enum!Enter
<1>6. Enum!IInv' /\ Enum!NoWalkMissed'
  BY <1>5, EnumStarts, PTL
<1> QED  BY <1>1, <1>2, <1>6

LEMMA CallDiscoverKeeps == PInv /\ CallDiscoverPaths => PInv'
<1> SUFFICES ASSUME PInv, CallDiscoverPaths PROVE PInv'
  OBVIOUS
<1>1. /\ UNCHANGED <<module, next, reported, paths>>
      /\ f < Len(module.entries) /\ f' = f + 1 /\ f \in Nat
      /\ phase' = "discovering" /\ fun' = Graph(module, module.entries[f + 1])
      /\ Enum!IInv'
  BY CallStarts
<1>2. ASSUME NEW p, Found(module, f, p) PROVE Found(module, f', p)
  BY <1>1, <1>2, FoundStays
<1>3. f' \in 0..Len(module.entries) /\ f' > 0
  BY <1>1, ModulesAssumption DEF PInv
<1> QED  BY <1>1, <1>2, <1>3 DEF PInv

\* One step of DiscoverPaths.
LEMMA DiscoverKeeps == PInv /\ Discover => PInv'
<1> SUFFICES ASSUME PInv, Discover PROVE PInv'
  OBVIOUS
<1>1. /\ phase = "discovering" /\ UNCHANGED <<passVars, scan, fun>> /\ Enum!IInv'
      /\ \/ paths' = paths
         \/ \E w \in Seq(Block) : Found(module, f, w) /\ paths' = Append(paths, w)
  BY DiscoverAdds
<1>2. UNCHANGED <<module, f, phase, next, reported, fun>>
  BY <1>1 DEF passVars
<1>3. /\ paths' \in Seq(Seq(Block))
      /\ \A k \in 1..Len(paths') : Found(module, f, paths'[k])
  <2>1. /\ paths \in Seq(Seq(Block))
        /\ \A k \in 1..Len(paths) : Found(module, f, paths[k])
    BY DEF PInv
  <2>2. CASE paths' = paths
    BY <2>1, <2>2
  <2>3. ASSUME NEW w \in Seq(Block), Found(module, f, w), paths' = Append(paths, w)
        PROVE  /\ paths' \in Seq(Seq(Block))
               /\ \A k \in 1..Len(paths') : Found(module, f, paths'[k])
    BY <2>1, <2>3, AppendProperties
  <2> QED  BY <1>1, <2>2, <2>3
<1> QED  BY <1>1, <1>2, <1>3 DEF PInv

\* One step of the loop that scans and prints the paths.
LEMMA LoopKeeps ==
  PInv /\ (BeginLoop \/ CallMemoryLeakDetection \/ ScanPath \/ Returned
           \/ EndLoop \/ ReturnFalse) => PInv'
<1> SUFFICES ASSUME PInv PROVE BeginLoop \/ CallMemoryLeakDetection \/ ScanPath
                               \/ Returned \/ EndLoop \/ ReturnFalse => PInv'
  OBVIOUS
<1>1. ASSUME BeginLoop PROVE PInv'
  <2>1. /\ phase' = "paths" /\ next' = 1
        /\ UNCHANGED <<module, f, reported, paths>>
    BY <1>1 DEF BeginLoop, discovery
  <2> QED  BY <2>1 DEF PInv
<1>2. ASSUME CallMemoryLeakDetection PROVE PInv'
  <2>1. /\ next <= Len(paths) /\ phase' = "scanning" /\ path' = paths[next]
        /\ UNCHANGED <<module, f, next, reported, paths>>
    BY <1>2 DEF CallMemoryLeakDetection, discovery, Scan!Call
  <2> QED  BY <2>1 DEF PInv
<1>3. ASSUME ScanPath PROVE PInv'
  <2>1. phase = "scanning" /\ path' = path
    BY <1>3, ScanKeepsPath DEF ScanPath
  <2>2. UNCHANGED <<module, f, phase, next, reported, paths>>
    BY <1>3 DEF ScanPath, passVars, discovery
  <2> QED  BY <2>1, <2>2 DEF PInv
<1>4. ASSUME Returned PROVE PInv'
  <2>1. /\ phase = "scanning" /\ phase' = "paths" /\ next' = next + 1
        /\ UNCHANGED <<module, f, paths>>
    BY <1>4 DEF Returned, discovery
  <2>2. next \in 1..Len(paths) /\ path = paths[next]
    BY <2>1 DEF PInv
  <2>3. Found(module, f, path) /\ path \in Seq(Block)
    BY <2>2 DEF PInv
  <2>4. reported' = reported \/ reported' = Append(reported, path)
    BY <1>4 DEF Returned
  <2>5. /\ reported' \in Seq(Seq(Block))
        /\ \A k \in 1..Len(reported') : Found(module, f, reported'[k])
    <3>1. /\ reported \in Seq(Seq(Block))
          /\ \A k \in 1..Len(reported) : Found(module, f, reported[k])
      BY DEF PInv
    <3> DEFINE s == Append(reported, path)
    <3>2. /\ s \in Seq(Seq(Block)) /\ Len(s) = Len(reported) + 1
          /\ s[Len(reported) + 1] = path
          /\ \A k \in 1..Len(reported) : s[k] = reported[k]
          /\ Len(reported) \in Nat
      BY <2>3, <3>1, AppendProperties
    <3>3. \A k \in 1..Len(s) : k \in 1..Len(reported) \/ k = Len(reported) + 1
      BY <3>2
    <3>4. \A k \in 1..Len(s) : Found(module, f, s[k])
      BY <2>3, <3>1, <3>2, <3>3
    <3> QED  BY <2>4, <3>1, <3>2, <3>4
  <2>6. next' \in Nat \ {0}
    BY <2>1 DEF PInv
  <2>7. \A k \in 1..Len(paths') : Found(module', f', paths'[k])
    BY <2>1 DEF PInv
  <2>8. \A k \in 1..Len(reported') : Found(module', f', reported'[k])
    BY <2>1, <2>5
  <2>9. phase' = "paths" /\ module' = module /\ f' = f /\ paths' = paths
    BY <2>1
  <2> HIDE DEF Found
  <2> QED  BY <2>5, <2>6, <2>7, <2>8, <2>9 DEF PInv
<1>5. ASSUME EndLoop PROVE PInv'
  BY <1>5 DEF PInv, EndLoop, discovery
<1>6. ASSUME ReturnFalse PROVE PInv'
  BY <1>6 DEF PInv, ReturnFalse, discovery
<1> QED  BY <1>1, <1>2, <1>3, <1>4, <1>5, <1>6

LEMMA StepPInv == PInv /\ [Next]_vars => PInv'
<1>1. PInv /\ UNCHANGED vars => PInv'
  <2> SUFFICES ASSUME PInv, UNCHANGED vars PROVE PInv'
    OBVIOUS
  <2>1. UNCHANGED <<module, f, phase, next, reported, fun, stack, paths, path>>
    BY DEF vars, passVars, discovery, scan
  <2>2. UNCHANGED Enum!vars
    BY <2>1 DEF Enum!vars
  <2>3. Enum!IInv => Enum!IInv'
    BY <2>2, EnumSteps
  <2> QED  BY <2>1, <2>3 DEF PInv
<1> QED
  BY <1>1, SkipKeeps, CallDiscoverKeeps, DiscoverKeeps, LoopKeeps DEF Next

\* What the pass prints is the complete bounded walks of the functions analysed
\* so far, however often the list that all functions share was scanned: paths
\* that DiscoverPaths appended and the scans, which change the code, left alone.
THEOREM PrintsWalks == Spec => []ReportsAreWalks
<1>1. PInv => ReportsAreWalks
  BY DEF PInv, Found, IsWalk, ReportsAreWalks, CompleteWalk
<1> QED  BY <1>1, InitPInv, StepPInv, PTL DEF Spec

-----------------------------------------------------------------------------
(***************************************************************************)
(* A scan of a module without constant expressions is a function of the    *)
(* module and the path: the state of a scan, its first state, and the one  *)
(* that follows a state.                                                   *)
(***************************************************************************)
State(b, k, n, ms, vs, v) ==
  [bb |-> b, i |-> k, id |-> n, mallocs |-> ms, vars |-> vs, verdict |-> v]

Now   == State(bb, i, malloc_id, mallocs, malloc_vars, verdict)
First == State(1, 1, 0, <<>>, Scan!NoVars, "scanning")

Is(in, c) == in.op = "call" /\ in.callee = c

\* The next instruction of body is a store.
Stored(body, k) == k < Len(body) /\ body[k + 1].op = "store"

AfterInst(body, s) ==
  LET in   == body[s.i]
      prev == body[s.i - 1]
      succ == body[s.i + 1]
      On(n, ms, vs) == State(s.bb, s.i + 1, n, ms, vs, s.verdict)
  IN  IF in.op = "icall" \/ (Is(in, "free") /\ ~(s.i > 1))
        THEN State(s.bb, s.i, s.id, s.mallocs, s.vars, "crash")
      ELSE IF in.op = "load" /\ Stored(body, s.i) /\ s.vars[Scan!Key(in.ptr)] # -1
        THEN On(s.id, s.mallocs,
                [s.vars EXCEPT ![Scan!Key(succ.ptr)] = s.vars[Scan!Key(in.ptr)]])
      ELSE IF Is(in, "malloc") /\ Stored(body, s.i)
        THEN On(s.id + 1, Append(s.mallocs, "call"),
                IF s.vars[succ.ptr.name] = -1
                THEN [s.vars EXCEPT ![succ.ptr.name] = s.id] ELSE s.vars)
      ELSE IF Is(in, "free") /\ prev.op = "load"
        THEN On(s.id,
                IF s.vars[prev.ptr.name] = -1 THEN s.mallocs
                ELSE [s.mallocs EXCEPT ![s.vars[prev.ptr.name] + 1] = "NULL"],
                s.vars)
      ELSE On(s.id, s.mallocs, s.vars)

After(m, p, s) ==
  LET body == m.code[p[s.bb]]
  IN  IF s.verdict # "scanning" THEN s
      ELSE IF s.i <= Len(body) THEN AfterInst(body, s)
      ELSE IF s.bb < Len(p)
        THEN State(s.bb + 1, 1, s.id, s.mallocs, s.vars, s.verdict)
      ELSE State(s.bb, s.i, s.id, s.mallocs, s.vars,
                 IF \E k \in 1..Len(s.mallocs) : s.mallocs[k] # "NULL"
                 THEN "leak" ELSE "clean")

\* What holds between the steps of a scan of path in such a module.
Scanning ==
  /\ module \in Modules /\ NoConstantExprs /\ code = module.code
  /\ path \in Seq(Block) /\ bb \in 1..Len(path) /\ i \in Nat \ {0}

LEMMA Plain ==
  ASSUME Scanning
  PROVE  /\ Scan!Body = module.code[path[bb]] /\ Len(Scan!Body) \in Nat
         /\ \A k \in 1..Len(Scan!Body) : Scan!Body[k].ptr.kind = "plain"
<1>1. path[bb] \in Block
  BY ElementOfSeq DEF Scanning
<1>2. Scan!Body = module.code[path[bb]]
  BY DEF Scan!Body, Scanning
<1>3. module.code[path[bb]] \in Seq(Scan!Instr)
  BY <1>1, ModulesAssumption DEF Scanning
<1> QED  BY <1>1, <1>2, <1>3 DEF Scanning, NoConstantExprs

\* What is left of the steps of a scan.
LEMMA PlainSteps ==
  ASSUME Scanning, Scan!ScanNext
  PROVE  \/ Scan!TrackAlias \/ Scan!TrackVar \/ Scan!FreeVar \/ Scan!Pass
         \/ Scan!Crash \/ Scan!NextBlock \/ Scan!Finish
<1>1. i \in Nat \ {0}
  BY DEF Scanning
<1>2. ~Scan!CopyStruct
  BY <1>1, Plain DEF Scan!CopyStruct, Scan!Calls, Scan!InBlock, Scan!Inst
<1>3. ASSUME NEW kind, Scan!Allocates(kind) PROVE kind = "plain"
  <2>1. i + 1 \in 1..Len(Scan!Body) /\ Scan!Body[i + 1].ptr.kind = kind
    BY <1>1, <1>3, Plain DEF Scan!Allocates, Scan!Following
  <2> QED  BY <2>1, Plain
<1>4. ASSUME NEW kind, Scan!Frees(kind) PROVE kind = "plain"
  <2>1. i - 1 \in 1..Len(Scan!Body) /\ Scan!Body[i - 1].ptr.kind = kind
    BY <1>1, <1>4, Plain DEF Scan!Frees, Scan!Calls, Scan!InBlock,
                             Scan!HasPrevious, Scan!Previous
  <2> QED  BY <2>1, Plain
<1>5. ~Scan!TrackField /\ ~Scan!FreeField /\ ~Scan!ExpandCast
  BY <1>3, <1>4 DEF Scan!TrackField, Scan!FreeField, Scan!ExpandCast
<1> QED  BY <1>2, <1>5 DEF Scan!ScanNext, Scan!Step

\* The state that follows, in the terms of LeakScan.
LEMMA AfterInBlock ==
  ASSUME Scanning, Scan!InBlock
  PROVE  LET in   == Scan!Inst
             prev == Scan!Body[i - 1]
             succ == Scan!Following
             stored == i < Len(Scan!Body) /\ succ.op = "store"
             On(n, ms, vs) == State(bb, i + 1, n, ms, vs, "scanning")
         IN  /\ i \in 1..Len(Scan!Body)
             /\ After(module, path, Now) =
                  IF in.op = "icall" \/ (Is(in, "free") /\ ~(i > 1))
                    THEN State(bb, i, malloc_id, mallocs, malloc_vars, "crash")
                  ELSE IF in.op = "load" /\ stored /\ malloc_vars[Scan!Key(in.ptr)] # -1
                    THEN On(malloc_id, mallocs,
                            [malloc_vars EXCEPT ![Scan!Key(succ.ptr)] =
                               malloc_vars[Scan!Key(in.ptr)]])
                  ELSE IF Is(in, "malloc") /\ stored
                    THEN On(malloc_id + 1, Append(mallocs, "call"),
                            IF malloc_vars[succ.ptr.name] = -1
                            THEN [malloc_vars EXCEPT ![succ.ptr.name] = malloc_id]
                            ELSE malloc_vars)
                  ELSE IF Is(in, "free") /\ prev.op = "load"
                    THEN On(malloc_id,
                            IF malloc_vars[prev.ptr.name] = -1 THEN mallocs
                            ELSE [mallocs EXCEPT ![malloc_vars[prev.ptr.name] + 1] = "NULL"],
                            malloc_vars)
                  ELSE On(malloc_id, mallocs, malloc_vars)
<1>1. /\ Now.bb = bb /\ Now.i = i /\ Now.id = malloc_id /\ Now.mallocs = mallocs
      /\ Now.vars = malloc_vars /\ Now.verdict = verdict
  BY DEF Now, State
<1>2. verdict = "scanning" /\ i <= Len(Scan!Body)
  BY DEF Scan!InBlock
<1>3. After(module, path, Now) = AfterInst(Scan!Body, Now)
  BY <1>1, <1>2, Plain DEF After
<1>4. Scan!Inst = Scan!Body[i] /\ Scan!Following = Scan!Body[i + 1]
  BY DEF Scan!Inst, Scan!Following
<1>5. i \in 1..Len(Scan!Body)
  BY <1>2, Plain DEF Scanning
<1> HIDE DEF Now
<1> QED  BY <1>1, <1>2, <1>3, <1>4, <1>5, Zenon DEF AfterInst, Stored

\* A step inside a block.
LEMMA InstStep ==
  ASSUME Scanning,
         Scan!TrackAlias \/ Scan!TrackVar \/ Scan!FreeVar \/ Scan!Pass \/ Scan!Crash
  PROVE  Now' = After(module, path, Now) /\ UNCHANGED <<code, path, bb>>
         /\ i' \in Nat \ {0}
<1> DEFINE in   == Scan!Inst
           prev == Scan!Body[i - 1]
           succ == Scan!Following
           stored == i < Len(Scan!Body) /\ succ.op = "store"
<1> USE DEF Scan!Loads, Scan!Calls, Scan!Move, Scan!Stay, Scan!tables
<1>0. i \in Nat \ {0} /\ Now' = State(bb', i', malloc_id', mallocs', malloc_vars', verdict')
  BY DEF Scanning, Now, State
<1>1. CASE Scan!TrackAlias
  <2>1. Scan!InBlock /\ in.op = "load" /\ stored /\ malloc_vars[Scan!Key(in.ptr)] # -1
    BY <1>1 DEF Scan!TrackAlias, Scan!Copying, Scan!NoId
  <2>2. /\ malloc_vars' = [malloc_vars EXCEPT ![Scan!Key(succ.ptr)] = malloc_vars[Scan!Key(in.ptr)]]
        /\ i' = i + 1 /\ UNCHANGED <<code, path, bb, malloc_id, mallocs, verdict>>
    BY <1>1 DEF Scan!TrackAlias
  <2>3. verdict = "scanning"
    BY <2>1 DEF Scan!InBlock
  <2>4. After(module, path, Now) =
          State(bb, i + 1, malloc_id, mallocs,
                [malloc_vars EXCEPT ![Scan!Key(succ.ptr)] = malloc_vars[Scan!Key(in.ptr)]],
                "scanning")
    BY <2>1, AfterInBlock DEF Is
  <2> QED  BY <1>0, <2>2, <2>3, <2>4
<1>2. CASE Scan!TrackVar
  <2>1. Scan!InBlock /\ Is(in, "malloc") /\ stored
    BY <1>2 DEF Scan!TrackVar, Scan!Allocates, Is
  <2>2. /\ malloc_id' = malloc_id + 1 /\ mallocs' = Append(mallocs, "call")
        /\ malloc_vars' = IF malloc_vars[succ.ptr.name] = -1
                             THEN [malloc_vars EXCEPT ![succ.ptr.name] = malloc_id]
                             ELSE malloc_vars
        /\ i' = i + 1 /\ UNCHANGED <<code, path, bb, verdict>>
    BY <1>2 DEF Scan!TrackVar, Scan!NewId, Scan!Inserted, Scan!NoId
  <2>3. verdict = "scanning"
    BY <2>1 DEF Scan!InBlock
  <2>4. After(module, path, Now) =
          State(bb, i + 1, malloc_id + 1, Append(mallocs, "call"),
                IF malloc_vars[succ.ptr.name] = -1
                THEN [malloc_vars EXCEPT ![succ.ptr.name] = malloc_id]
                ELSE malloc_vars,
                "scanning")
    BY <2>1, AfterInBlock DEF Is
  <2> QED  BY <1>0, <2>2, <2>3, <2>4
<1>3. CASE Scan!FreeVar
  <2>1. Scan!InBlock /\ Is(in, "free") /\ i > 1 /\ prev.op = "load"
    BY <1>3 DEF Scan!FreeVar, Scan!Frees, Scan!HasPrevious, Scan!Previous, Is
  <2>2. /\ mallocs' = IF malloc_vars[prev.ptr.name] = -1 THEN mallocs
                       ELSE [mallocs EXCEPT ![malloc_vars[prev.ptr.name] + 1] = "NULL"]
        /\ i' = i + 1 /\ UNCHANGED <<code, path, bb, malloc_id, malloc_vars, verdict>>
    BY <1>3 DEF Scan!FreeVar, Scan!Clear, Scan!Previous, Scan!NoId
  <2>3. verdict = "scanning"
    BY <2>1 DEF Scan!InBlock
  <2>4. After(module, path, Now) =
          State(bb, i + 1, malloc_id,
                IF malloc_vars[prev.ptr.name] = -1 THEN mallocs
                ELSE [mallocs EXCEPT ![malloc_vars[prev.ptr.name] + 1] = "NULL"],
                malloc_vars, "scanning")
    BY <2>1, AfterInBlock DEF Is
  <2> QED  BY <1>0, <2>2, <2>3, <2>4
<1>4. CASE Scan!Pass
  <2>1. /\ i' = i + 1
        /\ UNCHANGED <<code, path, bb, malloc_id, mallocs, malloc_vars, verdict>>
    BY <1>4 DEF Scan!Pass
  <2>2. Scan!InBlock
    BY <1>4 DEF Scan!Pass
  <2>3. verdict = "scanning"
    BY <2>2 DEF Scan!InBlock
  <2>4. /\ in.op # "icall" /\ ~(Is(in, "free") /\ ~(i > 1))
        /\ ~(in.op = "load" /\ stored /\ malloc_vars[Scan!Key(in.ptr)] # -1)
        /\ ~(Is(in, "malloc") /\ stored)
        /\ ~(Is(in, "free") /\ prev.op = "load")
    <3>1. stored => succ.ptr.kind = "plain"
      BY <1>0, Plain DEF Scan!Following
    <3> QED  BY <1>4, <3>1 DEF Scan!Pass, Scan!Copying, Scan!NoId, Scan!Allocates,
                               Scan!HasPrevious, Scan!Previous, Is
  <2>5. After(module, path, Now) =
          State(bb, i + 1, malloc_id, mallocs, malloc_vars, "scanning")
    BY <2>2, <2>4, AfterInBlock
  <2> QED  BY <1>0, <2>1, <2>3, <2>5
<1>5. CASE Scan!Crash
  <2>1. Scan!InBlock /\ (in.op = "icall" \/ (Is(in, "free") /\ ~(i > 1)))
    BY <1>5 DEF Scan!Crash, Scan!HasPrevious, Is
  <2>2. verdict' = "crash" /\ UNCHANGED <<code, path, bb, i, malloc_id, mallocs, malloc_vars>>
    BY <1>5 DEF Scan!Crash
  <2>3. After(module, path, Now) =
          State(bb, i, malloc_id, mallocs, malloc_vars, "crash")
    BY <2>1, AfterInBlock
  <2> QED  BY <1>0, <2>2, <2>3
<1> QED  BY <1>1, <1>2, <1>3, <1>4, <1>5

LEMMA ScanIsAfter ==
  ASSUME Scanning, Scan!ScanNext
  PROVE  /\ Now' = After(module, path, Now) /\ UNCHANGED <<code, path>>
         /\ bb' \in 1..Len(path) /\ i' \in Nat \ {0}
<1>0. /\ i \in Nat \ {0} /\ bb \in 1..Len(path) /\ Len(path) \in Nat
      /\ Now' = State(bb', i', malloc_id', mallocs', malloc_vars', verdict')
  BY DEF Scanning, Now, State
<1>1. /\ Now.bb = bb /\ Now.i = i /\ Now.id = malloc_id /\ Now.mallocs = mallocs
      /\ Now.vars = malloc_vars /\ Now.verdict = verdict
  BY DEF Now, State
<1>2. ASSUME verdict = "scanning", i > Len(Scan!Body)
      PROVE  After(module, path, Now) =
               IF bb < Len(path)
               THEN State(bb + 1, 1, malloc_id, mallocs, malloc_vars, verdict)
               ELSE State(bb, i, malloc_id, mallocs, malloc_vars,
                          IF \E k \in 1..Len(mallocs) : mallocs[k] # "NULL"
                          THEN "leak" ELSE "clean")
  <2>1. ~(i <= Len(Scan!Body))
    BY <1>0, <1>2, Plain
  <2> HIDE DEF Now
  <2> QED  BY <1>1, <1>2, <2>1, Plain, Zenon DEF After
<1>3. CASE Scan!NextBlock
  <2>1. /\ verdict = "scanning" /\ i > Len(Scan!Body) /\ bb < Len(path)
        /\ bb' = bb + 1 /\ i' = 1
        /\ UNCHANGED <<code, path, malloc_id, mallocs, malloc_vars, verdict>>
    BY <1>3 DEF Scan!NextBlock, Scan!tables
  <2> QED  BY <1>0, <1>2, <2>1
<1>4. CASE Scan!Finish
  <2>1. /\ verdict = "scanning" /\ i > Len(Scan!Body) /\ ~(bb < Len(path))
        /\ verdict' = IF \E k \in 1..Len(mallocs) : mallocs[k] # "NULL"
                      THEN "leak" ELSE "clean"
        /\ UNCHANGED <<code, path, bb, i, malloc_id, mallocs, malloc_vars>>
    BY <1>0, <1>4 DEF Scan!Finish, Scan!tables, Scan!Left
  <2> QED  BY <1>0, <1>2, <2>1
<1>5. CASE Scan!TrackAlias \/ Scan!TrackVar \/ Scan!FreeVar \/ Scan!Pass \/ Scan!Crash
  BY <1>0, <1>5, InstStep
<1> QED  BY <1>3, <1>4, <1>5, PlainSteps

-----------------------------------------------------------------------------
\* Induction over the natural numbers, for a set of them: the least number
\* outside of the set is neither 0 nor the successor of another.
LEMMA LeastNat ==
  ASSUME NEW T \in SUBSET Nat, T # {}
  PROVE  \E n \in T : \A m \in T : n <= m
<1> DEFINE R == OpToRel(<, Nat)
<1>1. IsWellFoundedOn(R, Nat)
  BY NatLessThanWellFounded
<1>2. \A x, y \in Nat : <<x, y>> \in R <=> x < y
  BY DEF OpToRel
<1> HIDE DEF R
<1>3. PICK n \in T : \A m \in T : ~(<<m, n>> \in R)
  BY <1>1, WFMin
<1>4. ASSUME NEW m \in T PROVE n <= m
  <2>1. ~(m < n)
    BY <1>2, <1>3
  <2> QED  BY <2>1
<1> QED  BY <1>4

LEMMA Reaches ==
  ASSUME NEW N \in Nat, NEW T, 0 \in T, \A n \in 0..N - 1 : n \in T => n + 1 \in T
  PROVE  N \in T
<1> SUFFICES ASSUME N \notin T PROVE FALSE
  OBVIOUS
<1> DEFINE U == {n \in 0..N : n \notin T}
<1>1. U \in SUBSET Nat /\ U # {}
  OBVIOUS
<1>2. PICK n \in U : \A m \in U : n <= m
  BY <1>1, LeastNat
<1>3. n # 0 /\ n - 1 \in 0..N - 1 /\ n - 1 \notin U
  BY <1>2
<1>4. n - 1 \in T
  BY <1>3
<1>5. (n - 1) + 1 \in T
  BY <1>3, <1>4
<1> QED  BY <1>2, <1>5

\* s comes up on the way when p is scanned: it is at n of a run w.
RunOf(m, p, w, n) ==
  w[0] = First /\ \A k \in 0..n - 1 : w[k + 1] = After(m, p, w[k])

Comes(m, p, s) == \E n \in Nat : \E w : RunOf(m, p, w, n) /\ w[n] = s

LEMMA FirstComes == ASSUME NEW m, NEW p PROVE Comes(m, p, First)
<1> DEFINE w == [k \in {0} |-> First]
<1>1. w[0] = First /\ 0..0 - 1 = {}
  OBVIOUS
<1> HIDE DEF w
<1>2. RunOf(m, p, w, 0)
  BY <1>1 DEF RunOf
<1> QED  BY <1>1, <1>2 DEF Comes

LEMMA NextComes ==
  ASSUME NEW m, NEW p, NEW s, Comes(m, p, s)
  PROVE  Comes(m, p, After(m, p, s))
<1>1. PICK n \in Nat : \E w : RunOf(m, p, w, n) /\ w[n] = s
  BY DEF Comes
<1>2. PICK w : RunOf(m, p, w, n) /\ w[n] = s
  BY <1>1
<1> DEFINE x == [k \in 0..n + 1 |-> IF k = n + 1 THEN After(m, p, s) ELSE w[k]]
<1>3. x[n + 1] = After(m, p, s) /\ \A k \in 0..n : x[k] = w[k]
  OBVIOUS
<1> HIDE DEF x
<1>4. x[0] = First
  BY <1>2, <1>3 DEF RunOf
<1>5. ASSUME NEW k \in 0..(n + 1) - 1 PROVE x[k + 1] = After(m, p, x[k])
  <2>1. CASE k = n
    BY <1>2, <1>3, <2>1
  <2>2. CASE k # n
    <3>1. k \in 0..n - 1 /\ k \in 0..n /\ k + 1 \in 0..n
      BY <2>2
    <3>2. w[k + 1] = After(m, p, w[k])
      BY <1>2, <3>1 DEF RunOf
    <3>3. x[k] = w[k] /\ x[k + 1] = w[k + 1]
      BY <1>3, <3>1
    <3> QED  BY <3>2, <3>3
  <2> QED  BY <2>1, <2>2
<1>6. RunOf(m, p, x, n + 1)
  BY <1>4, <1>5 DEF RunOf
<1> QED  BY <1>3, <1>6 DEF Comes

\* A run that has ended stays where it is, and two runs of a path are one.
LEMMA OneEnd ==
  ASSUME NEW m, NEW p, NEW s, NEW t, NEW v, NEW w, NEW a \in Nat, NEW b \in Nat,
         RunOf(m, p, v, a), v[a] = s, s.verdict # "scanning",
         RunOf(m, p, w, b), w[b] = t, a <= b
  PROVE  s = t
<1> DEFINE T == {k \in 0..b : w[k] = IF k <= a THEN v[k] ELSE s}
<1>1. 0 \in T
  BY DEF RunOf
<1>2. After(m, p, s) = s
  BY DEF After
<1>3. ASSUME NEW k \in 0..b - 1, k \in T PROVE k + 1 \in T
  <2>1. w[k + 1] = After(m, p, w[k])
    BY DEF RunOf
  <2>2. w[k] = IF k <= a THEN v[k] ELSE s
    BY <1>3
  <2>3. CASE k < a
    <3>1. k \in 0..a - 1
      BY <2>3
    <3>2. v[k + 1] = After(m, p, v[k])
      BY <3>1 DEF RunOf
    <3> QED  BY <2>1, <2>2, <2>3, <3>2
  <2>4. CASE k >= a
    <3>1. w[k] = s
      BY <2>2, <2>4
    <3> QED  BY <1>2, <2>1, <2>4, <3>1
  <2> QED  BY <2>3, <2>4
<1> HIDE DEF T
<1>4. b \in T
  BY <1>1, <1>3, Reaches
<1> QED  BY <1>4 DEF T

LEMMA EndsOnce ==
  ASSUME NEW m, NEW p, NEW s, NEW t, Comes(m, p, s), Comes(m, p, t),
         s.verdict # "scanning", t.verdict # "scanning"
  PROVE  s = t
<1>1. PICK a \in Nat : \E v : RunOf(m, p, v, a) /\ v[a] = s
  BY DEF Comes
<1>2. PICK v : RunOf(m, p, v, a) /\ v[a] = s
  BY <1>1
<1>3. PICK b \in Nat : \E w : RunOf(m, p, w, b) /\ w[b] = t
  BY DEF Comes
<1>4. PICK w : RunOf(m, p, w, b) /\ w[b] = t
  BY <1>3
<1>5. CASE a <= b
  BY <1>2, <1>4, <1>5, OneEnd
<1>6. CASE b <= a
  BY <1>2, <1>4, <1>6, OneEnd
<1> QED  BY <1>5, <1>6

-----------------------------------------------------------------------------
\* The code is as the module had it, the scan is on the way that its path has,
\* and every verdict is at the end of one.
VInv ==
  NoConstantExprs =>
    /\ code = module.code
    /\ phase = "scanning" =>
         /\ bb \in 1..Len(path) /\ i \in Nat \ {0}
         /\ Comes(module, path, Now)
    /\ \A v \in verdicts :
         \E s : /\ Comes(module, v[1], s) /\ s.verdict # "scanning"
               /\ v = <<v[1], s.verdict>>

LEMMA InitVInv == Init => VInv
BY DEF Init, VInv

LEMMA StepVInv == PInv /\ VInv /\ [Next]_vars => VInv'
<1> SUFFICES ASSUME PInv, VInv, [Next]_vars, NoConstantExprs PROVE VInv'
  <2>1. [Next]_vars => module' = module
    BY DEF Next, vars, passVars, SkipDeclaration, CallDiscoverPaths, Discover,
           BeginLoop, CallMemoryLeakDetection, ScanPath, Returned, EndLoop,
           ReturnFalse
  <2>2. module' = module => (NoConstantExprs' <=> NoConstantExprs)
    BY DEF NoConstantExprs
  <2> QED  BY <2>1, <2>2 DEF VInv
<1>1. /\ module \in Modules /\ code = module.code
      /\ \A v \in verdicts :
           \E s : /\ Comes(module, v[1], s) /\ s.verdict # "scanning"
                 /\ v = <<v[1], s.verdict>>
  BY DEF PInv, VInv
<1>2. CASE UNCHANGED vars
  BY <1>2 DEF VInv, vars, passVars, discovery, scan, NoConstantExprs, Now, State
<1>3. CASE SkipDeclaration \/ CallDiscoverPaths \/ Discover \/ BeginLoop \/ EndLoop
           \/ ReturnFalse
  <2>1. phase' # "scanning" /\ UNCHANGED <<module, code, verdicts>>
    BY <1>3 DEF SkipDeclaration, CallDiscoverPaths, Discover, BeginLoop, EndLoop,
                ReturnFalse, passVars, scan
  <2> QED  BY <1>1, <2>1 DEF VInv
<1>4. CASE CallMemoryLeakDetection
  <2>1. /\ next <= Len(paths) /\ path' = paths[next]
        /\ bb' = 1 /\ i' = 1 /\ malloc_id' = 0 /\ mallocs' = <<>>
        /\ malloc_vars' = Scan!NoVars /\ verdict' = "scanning"
        /\ UNCHANGED <<module, code, verdicts>>
    BY <1>4 DEF CallMemoryLeakDetection, Scan!Call
  <2>2. next \in 1..Len(paths)
    BY <2>1 DEF PInv
  <2>3. paths[next] \in Seq(Block) /\ paths[next] # <<>>
    BY <2>2 DEF PInv, Found, IsWalk
  <2>4. bb' \in 1..Len(path') /\ i' \in Nat \ {0}
    BY <2>1, <2>3
  <2>5. Now' = First
    BY <2>1 DEF Now, First, State
  <2>6. Comes(module, path', First)
    BY FirstComes
  <2>7. Comes(module', path', Now')
    BY <2>1, <2>5, <2>6
  <2> QED  BY <1>1, <2>1, <2>4, <2>7 DEF VInv
<1>5. CASE ScanPath
  <2>1. phase = "scanning" /\ Scan!ScanNext /\ UNCHANGED <<module, verdicts>>
    BY <1>5 DEF ScanPath, passVars
  <2>2. path = paths[next] /\ next \in 1..Len(paths)
    BY <2>1 DEF PInv
  <2>3. Scanning
    BY <1>1, <2>1, <2>2 DEF Scanning, PInv, VInv
  <2>4. /\ Now' = After(module, path, Now) /\ UNCHANGED <<code, path>>
        /\ bb' \in 1..Len(path) /\ i' \in Nat \ {0}
    BY <2>1, <2>3, ScanIsAfter
  <2>5. Comes(module, path, Now)
    BY <2>1 DEF VInv
  <2>6. Comes(module, path, After(module, path, Now))
    BY <2>5, NextComes
  <2>7. Comes(module', path', Now')
    BY <2>1, <2>4, <2>6
  <2> QED  BY <1>1, <2>1, <2>4, <2>7 DEF VInv
<1>6. CASE Returned
  <2>1. /\ phase = "scanning" /\ phase' = "paths" /\ verdict \in {"leak", "clean"}
        /\ verdicts' = verdicts \cup {<<path, verdict>>}
        /\ UNCHANGED <<module, code>>
    BY <1>6 DEF Returned, scan
  <2>2. Comes(module, path, Now) /\ Now.verdict = verdict
    BY <2>1 DEF VInv, Now, State
  <2> DEFINE u == <<path, verdict>>
  <2>3. u[1] = path /\ u = <<u[1], verdict>>
    OBVIOUS
  <2>4. \E s : Comes(module, u[1], s) /\ s.verdict # "scanning" /\ u = <<u[1], s.verdict>>
    BY <2>1, <2>2, <2>3
  <2> HIDE DEF u
  <2>5. verdicts' = verdicts \cup {u}
    BY <2>1 DEF u
  <2>6. \A v \in verdicts' :
         \E s : /\ Comes(module, v[1], s) /\ s.verdict # "scanning"
               /\ v = <<v[1], s.verdict>>
    BY <1>1, <2>4, <2>5
  <2> QED  BY <1>1, <2>1, <2>6 DEF VInv
<1> QED  BY <1>2, <1>3, <1>4, <1>5, <1>6 DEF Next

\* Scanning a path again gives the verdict it had, whichever functions were
\* analysed and whichever paths were scanned in between, for any module in which
\* the scans find no constant expression to expand: nothing but the module and
\* the path enters into a verdict.
THEOREM SameVerdict == Spec => []VerdictsStable
<1>1. VInv => VerdictsStable
  <2> SUFFICES ASSUME VInv, NoConstantExprs,
                      NEW v \in verdicts, NEW w \in verdicts, v[1] = w[1]
               PROVE  v = w
    BY DEF VerdictsStable
  <2>1. PICK s : /\ Comes(module, v[1], s) /\ s.verdict # "scanning"
                 /\ v = <<v[1], s.verdict>>
    BY DEF VInv
  <2>2. PICK t : /\ Comes(module, w[1], t) /\ t.verdict # "scanning"
                 /\ w = <<w[1], t.verdict>>
    BY DEF VInv
  <2>3. s = t
    BY <2>1, <2>2, EndsOnce
  <2> QED  BY <2>1, <2>2, <2>3
<1> QED  BY <1>1, InitPInv, StepPInv, InitVInv, StepVInv, PTL DEF Spec

-----------------------------------------------------------------------------
(***************************************************************************)
(* Every complete walk of the functions analysed so far is in the list,    *)
(* and DiscoverPaths will see to those of the present one.                 *)
(***************************************************************************)
Complete(m, e, p) == IsWalk(m, e, p) /\ ~m.node[p[Len(p)]].br

Listed(n) ==
  \A p : Complete(module, module.entries[n], p) =>
           \E k \in 1..Len(paths) : paths[k] = p

AllListed ==
  /\ phase = "discovering" => Enum!NoWalkMissed
  /\ \A n \in 1..f : Listed(n) \/ (phase = "discovering" /\ n = f)

\* The list grows at most.
LEMMA StaysListed ==
  ASSUME NEW n, Listed(n), module' = module,
         paths \in Seq(Seq(Block)),
         paths' = paths \/ \E w \in Seq(Block) : paths' = Append(paths, w)
  PROVE  Listed(n)'
<1>1. ASSUME NEW k \in 1..Len(paths) PROVE k \in 1..Len(paths') /\ paths'[k] = paths[k]
  <2>1. ASSUME NEW w \in Seq(Block), paths' = Append(paths, w)
        PROVE  k \in 1..Len(paths') /\ paths'[k] = paths[k]
    <3>1. Len(paths') = Len(paths) + 1 /\ paths'[k] = paths[k] /\ Len(paths) \in Nat
      BY <2>1, AppendProperties
    <3> QED  BY <3>1
  <2> QED  BY <2>1
<1> QED  BY <1>1 DEF Listed

LEMMA InitListed == Init => AllListed
BY DEF Init, AllListed

LEMMA StepListed == PInv /\ AllListed /\ [Next]_vars => AllListed'
<1> SUFFICES ASSUME PInv, AllListed, [Next]_vars PROVE AllListed'
  OBVIOUS
<1>1. /\ \A n \in 1..f : Listed(n) \/ (phase = "discovering" /\ n = f)
      /\ f \in Nat /\ paths \in Seq(Seq(Block)) /\ module \in Modules
  BY ModulesAssumption DEF AllListed, PInv
<1>2. ASSUME UNCHANGED <<module, paths>>, NEW n, Listed(n) PROVE Listed(n)'
  BY <1>1, <1>2, StaysListed
<1>3. CASE SkipDeclaration
  <2>1. /\ phase = "functions" /\ phase' = phase /\ f' = f + 1
        /\ module.entries[f + 1] = NoBlock /\ UNCHANGED <<module, paths>>
    BY <1>3 DEF SkipDeclaration, Declared, discovery
  <2>2. Listed(f + 1)
    <3> SUFFICES ASSUME NEW p, IsWalk(module, NoBlock, p) PROVE FALSE
      BY <2>1 DEF Listed, Complete
    <3>1. p[1] \in Block /\ p[1] = NoBlock
      BY DEF IsWalk
    <3> QED  BY <3>1, NoBlockAssumption
  <2>3. \A n \in 1..f' : n \in 1..f \/ n = f + 1
    BY <1>1, <2>1
  <2>4. \A n \in 1..f' : Listed(n)'
    BY <1>1, <1>2, <2>1, <2>2, <2>3
  <2> QED  BY <2>1, <2>4 DEF AllListed
<1>4. CASE CallDiscoverPaths
  <2>1. /\ UNCHANGED <<module, paths>> /\ f' = f + 1 /\ phase = "functions"
        /\ phase' = "discovering" /\ Enum!NoWalkMissed'
    BY <1>4, CallStarts
  <2>2. \A n \in 1..f' : n \in 1..f \/ n = f'
    BY <1>1, <2>1
  <2>3. \A n \in 1..f : Listed(n)'
    BY <1>1, <1>2, <2>1
  <2> QED  BY <2>1, <2>2, <2>3 DEF AllListed
<1>5. CASE Discover
  <2>1. /\ phase = "discovering" /\ UNCHANGED <<passVars, scan, fun>> /\ Enum!Next
        /\ \/ paths' = paths
           \/ \E w \in Seq(Block) : Found(module, f, w) /\ paths' = Append(paths, w)
    BY <1>5, DiscoverAdds
  <2>2. UNCHANGED <<module, f, phase>>
    BY <2>1 DEF passVars
  <2>3. Enum!NoWalkMissed'
    BY <2>1, EnumSteps DEF AllListed, PInv
  <2>4. ASSUME NEW n, Listed(n) PROVE Listed(n)'
    BY <1>1, <2>1, <2>2, <2>4, StaysListed
  <2> QED  BY <1>1, <2>2, <2>3, <2>4 DEF AllListed
<1>6. CASE BeginLoop
  <2>1. /\ phase = "discovering" /\ stack = <<>> /\ phase' = "paths"
        /\ UNCHANGED <<module, f, paths>>
    BY <1>6 DEF BeginLoop, discovery
  <2>2. fun = Graph(module, module.entries[f]) /\ Enum!NoWalkMissed
    BY <2>1 DEF PInv, AllListed
  <2>3. Listed(f)
    <3> SUFFICES ASSUME NEW p, Complete(module, module.entries[f], p)
                 PROVE  \E k \in 1..Len(paths) : paths[k] = p
      BY DEF Listed
    <3>1. p \in Seq(Block) /\ Enum!IsComplete(p)
      BY <2>2, SameWalks DEF Complete, IsWalk
    <3>2. 1..Len(stack) = {}
      BY <2>1
    <3> QED  BY <2>2, <3>1, <3>2 DEF Enum!NoWalkMissed, Enum!Recorded
  <2>4. \A n \in 1..f : Listed(n)'
    BY <1>1, <1>2, <2>1, <2>3
  <2> QED  BY <2>1, <2>4 DEF AllListed
<1>7. CASE CallMemoryLeakDetection \/ ScanPath \/ Returned \/ EndLoop \/ ReturnFalse
  <2>1. /\ phase # "discovering" /\ phase' # "discovering"
        /\ UNCHANGED <<module, f, paths>>
    BY <1>7 DEF CallMemoryLeakDetection, ScanPath, Returned, EndLoop, ReturnFalse,
                discovery, passVars
  <2>2. \A n \in 1..f : Listed(n)'
    BY <1>1, <1>2, <2>1
  <2> QED  BY <2>1, <2>2 DEF AllListed
<1>8. CASE UNCHANGED vars
  <2>1. UNCHANGED <<module, f, phase, fun, stack, paths>> /\ UNCHANGED Enum!vars
    BY <1>8 DEF vars, passVars, discovery, Enum!vars
  <2>2. phase = "discovering" => Enum!NoWalkMissed'
    BY <2>1, EnumSteps DEF AllListed, PInv
  <2> QED  BY <1>1, <1>2, <2>1, <2>2 DEF AllListed
<1> QED  BY <1>3, <1>4, <1>5, <1>6, <1>7, <1>8 DEF Next

\* No function makes the pass lose a walk: once DiscoverPaths has returned from
\* a function, each complete bounded walk of it is in the global list, and stays
\* there while the other functions are analysed and the paths scanned.
THEOREM EveryWalkListed == Spec => []AllListed
BY InitPInv, StepPInv, InitListed, StepListed, PTL DEF Spec

-----------------------------------------------------------------------------
(***************************************************************************)
(* The walks that LeakDetector generates length by length are the complete *)
(* walks within the bound on visits: that bound bounds the length too.     *)
(***************************************************************************)
Within(w, n) ==
  \A b \in Block : Cardinality({k \in 1..n : w[k] = b}) <= MaxVisits + 1

\* The generator, and the function that it defines.
Grown(e, g) ==
  [n \in 1..WalkBound |->
     IF n = 1 THEN {<<e>>}
     ELSE {w \in UNION {Follow(p) : p \in g[n - 1]} :
             \A b \in Block : Cardinality({k \in 1..n : w[k] = b}) <= MaxVisits + 1}]

Levels(e) == CHOOSE g : g = Grown(e, g)

\* Walks is built from that function.
LEMMA WalksByLevel ==
  ASSUME NEW e
  PROVE  Walks(e) = {w \in UNION {Levels(e)[n] : n \in 1..WalkBound} :
                       ~module.node[w[Len(w)]].br}
BY DEF Walks, Levels, Grown

Level(e, n) == {w \in Seq(Block) : IsWalk(module, e, w) /\ Len(w) = n}

\* The bound is the one on visits.
LEMMA VisitsAre ==
  ASSUME NEW w, NEW n, Len(w) = n
  PROVE  Within(w, n) <=> \A b \in Block : Discovery!Visits(w, b) <= MaxVisits + 1
BY DEF Within, Discovery!Visits, Discovery!Cardinality, Cardinality

LEMMA FirstLevel ==
  ASSUME NEW e \in Block
  PROVE  Level(e, 1) = {<<e>>}
<1>1. <<e>> \in Seq(Block) /\ Len(<<e>>) = 1 /\ <<e>>[1] = e /\ <<e>> # <<>>
  OBVIOUS
<1>2. Within(<<e>>, 1)
  <2> SUFFICES ASSUME NEW b \in Block
               PROVE  Cardinality({k \in 1..1 : <<e>>[k] = b}) <= MaxVisits + 1
    BY DEF Within
  <2>1. {k \in 1..1 : <<e>>[k] = b} \subseteq {1}
    OBVIOUS
  <2>2. IsFiniteSet({1}) /\ Cardinality({1}) = 1
    BY FS_Singleton
  <2>3. /\ Cardinality({k \in 1..1 : <<e>>[k] = b}) <= 1
        /\ Cardinality({k \in 1..1 : <<e>>[k] = b}) \in Nat
    BY <2>1, <2>2, FS_Subset, FS_CardinalityType
  <2> QED  BY <2>3, MaxVisitsAssumption
<1> DEFINE v == <<e>>
<1>3. IsWalk(module, e, v)
  <2>1. \A b \in Block : Discovery!Visits(v, b) <= MaxVisits + 1
    BY <1>1, <1>2, VisitsAre
  <2>2. v \in Seq(Block) /\ v # <<>> /\ v[1] = e /\ 1..Len(v) - 1 = {}
    BY <1>1
  <2> HIDE DEF v
  <2> QED  BY <2>1, <2>2 DEF IsWalk
<1>4. ASSUME NEW w \in Level(e, 1) PROVE w = <<e>>
  BY DEF Level, IsWalk
<1> QED  BY <1>1, <1>3, <1>4 DEF Level

\* The walks of length n + 1 are those of length n gone on with, where the
\* bound allows.
LEMMA NextLevel ==
  ASSUME NEW e \in Block, NEW n \in Nat \ {0}, module \in Modules
  PROVE  Level(e, n + 1) =
           {w \in UNION {Follow(p) : p \in Level(e, n)} : Within(w, n + 1)}
<1>1. ASSUME NEW w \in Level(e, n + 1)
      PROVE  Within(w, n + 1) /\ \E p \in Level(e, n) : w \in Follow(p)
  <2>1. /\ w \in Seq(Block) /\ Len(w) = n + 1 /\ w[1] = e
        /\ \A k \in 1..n : module.node[w[k]].br /\ w[k + 1] \in ToSet(module.node[w[k]].succ)
        /\ \A b \in Block : Discovery!Visits(w, b) <= MaxVisits + 1
    BY DEF Level, IsWalk
  <2> DEFINE p == [k \in 1..n |-> w[k]]
  <2>2. p \in Seq(Block) /\ Len(p) = n /\ \A k \in 1..n : p[k] = w[k]
    BY <2>1
  <2> HIDE DEF p
  <2>3. ASSUME NEW b \in Block PROVE Discovery!Visits(p, b) <= MaxVisits + 1
    <3>1. Enum!Visits(p, b) <= Enum!Visits(w, b)
      BY <2>1, <2>2, Enum!VisitsPrefix, EnumMeets
    <3>2. Enum!Visits(p, b) \in Nat /\ Enum!Visits(w, b) \in Nat
      <4>1. ASSUME NEW q \in Seq(Block) PROVE Enum!Visits(q, b) \in Nat
        <5> DEFINE V == {k \in 1..Len(q) : q[k] = b}
        <5>1. Len(q) \in Nat /\ V \subseteq 1..Len(q)
          OBVIOUS
        <5>2. IsFiniteSet(1..Len(q))
          BY <5>1, FS_Interval
        <5>3. Cardinality(V) \in Nat
          BY <5>1, <5>2, FS_Subset, FS_CardinalityType
        <5> QED  BY <5>3 DEF Enum!Visits, Enum!Cardinality, Cardinality
      <4> QED  BY <2>1, <2>2, <4>1
    <3>3. Discovery!Visits(p, b) = Enum!Visits(p, b) /\ Discovery!Visits(w, b) = Enum!Visits(w, b)
      BY SameVisits
    <3> QED  BY <2>1, <3>1, <3>2, <3>3, MaxVisitsAssumption
  <2>4. p # <<>> /\ p[1] = e
    BY <2>1, <2>2
  <2>5. \A k \in 1..n - 1 : /\ module.node[p[k]].br
                            /\ p[k + 1] \in ToSet(module.node[p[k]].succ)
    <3>1. \A k \in 1..n - 1 : k \in 1..n /\ k + 1 \in 1..n
      OBVIOUS
    <3> QED  BY <2>1, <2>2, <3>1
  <2>6. p \in Level(e, n)
    BY <2>2, <2>3, <2>4, <2>5 DEF Level, IsWalk
  <2>7. n \in 1..n /\ module.node[w[n]].br /\ w[n + 1] \in ToSet(module.node[w[n]].succ)
    BY <2>1
  <2>8. PICK j \in 1..Len(module.node[w[n]].succ) : w[n + 1] = module.node[w[n]].succ[j]
    <3>1. w[n] \in Block
      BY <2>1
    <3>2. module.node[w[n]].succ \in Seq(Block)
      BY <3>1, ModulesAssumption
    <3> DEFINE c == module.node[w[n]].succ
    <3>3. c \in Seq(Block) /\ w[n + 1] \in ToSet(c)
      BY <2>7, <3>2
    <3> HIDE DEF c
    <3>4. \E j \in 1..Len(c) : w[n + 1] = c[j]
      BY <3>3 DEF ToSet
    <3> QED  BY <3>4 DEF c
  <2>9. w[n + 1] \in Block
    BY <2>1
  <2>10. w = Append(p, w[n + 1])
    <3>1. /\ Append(p, w[n + 1]) \in Seq(Block) /\ Len(Append(p, w[n + 1])) = n + 1
          /\ \A k \in 1..n : Append(p, w[n + 1])[k] = w[k]
          /\ Append(p, w[n + 1])[n + 1] = w[n + 1]
      BY <2>2, <2>9, AppendProperties
    <3>2. \A k \in 1..n + 1 : k \in 1..n \/ k = n + 1
      OBVIOUS
    <3>3. \A k \in 1..n + 1 : Append(p, w[n + 1])[k] = w[k]
      BY <3>1, <3>2
    <3> QED  BY <2>1, <3>1, <3>3, SeqEqual
  <2>11. w \in Follow(p)
    BY <2>2, <2>7, <2>8, <2>10 DEF Follow
  <2> QED  BY <2>1, <2>6, <2>11, VisitsAre
<1>2. ASSUME NEW p \in Level(e, n), NEW w \in Follow(p), Within(w, n + 1)
      PROVE  w \in Level(e, n + 1)
  <2>1. /\ p \in Seq(Block) /\ Len(p) = n /\ p[1] = e
        /\ \A k \in 1..n - 1 : module.node[p[k]].br /\ p[k + 1] \in ToSet(module.node[p[k]].succ)
    BY DEF Level, IsWalk
  <2> DEFINE last == module.node[p[n]]
  <2>2. p[n] \in Block
    BY <2>1
  <2>3. last.succ \in Seq(Block)
    BY <2>2, ModulesAssumption
  <2>4. last.br /\ \E j \in 1..Len(last.succ) : w = Append(p, last.succ[j])
    BY <2>1, Zenon DEF Follow
  <2>5. PICK j \in 1..Len(last.succ) : w = Append(p, last.succ[j])
    BY <2>4
  <2>6. last.succ[j] \in Block /\ last.succ[j] \in ToSet(last.succ)
    BY <2>3 DEF ToSet
  <2> DEFINE b == last.succ[j]
  <2>7. last.br /\ last = module.node[p[n]] /\ b \in Block /\ b \in ToSet(last.succ)
    BY <2>4, <2>6
  <2> HIDE DEF b, last
  <2>8. /\ w \in Seq(Block) /\ Len(w) = n + 1 /\ w[n + 1] = b
        /\ \A k \in 1..n : w[k] = p[k]
    BY <2>1, <2>5, <2>7, AppendProperties DEF b
  <2>9. w # <<>> /\ w[1] = e
    BY <2>1, <2>8
  <2>10. ASSUME NEW k \in 1..(n + 1) - 1
         PROVE  module.node[w[k]].br /\ w[k + 1] \in ToSet(module.node[w[k]].succ)
    <3>1. CASE k = n
      BY <2>7, <2>8, <3>1
    <3>2. CASE k # n
      <4>1. k \in 1..n - 1 /\ k \in 1..n /\ k + 1 \in 1..n
        BY <3>2
      <4> QED  BY <2>1, <2>8, <4>1
    <3> QED  BY <3>1, <3>2
  <2>11. \A c \in Block : Discovery!Visits(w, c) <= MaxVisits + 1
    BY <1>2, <2>8, VisitsAre
  <2> QED  BY <2>8, <2>9, <2>10, <2>11 DEF Level, IsWalk
<1> QED  BY <1>1, <1>2

LEMMA WalkBoundIs == WalkBound \in Nat /\ \A e \in Block : WalkBound >= 1
<1>1. Cardinality(Block) \in Nat
  BY BlockAssumption, FS_CardinalityType
<1>2. ASSUME NEW e \in Block PROVE Cardinality(Block) # 0
  BY BlockAssumption, FS_EmptySet
<1> DEFINE n == Cardinality(Block)
           m == MaxVisits + 1
<1>3. n \in Nat /\ m \in Nat \ {0} /\ WalkBound = m * n
  BY <1>1, MaxVisitsAssumption DEF WalkBound
<1> HIDE DEF n, m
<1>4. m * n \in Nat /\ (n # 0 => m * n >= 1)
  <2>1. \A x \in Nat \ {0}, y \in Nat : x * y \in Nat /\ (y # 0 => x * y >= 1)
    OBVIOUS
  <2> QED  BY <1>3, <2>1
<1> QED  BY <1>2, <1>3, <1>4 DEF n

\* The levels are a function of the kind the generator defines, so there is one.
LEMMA LevelsExist ==
  ASSUME NEW e \in Block, module \in Modules
  PROVE  Levels(e) = Grown(e, Levels(e))
<1> DEFINE g == [n \in 1..WalkBound |-> Level(e, n)]
<1>1. ASSUME NEW n \in 1..WalkBound
      PROVE  g[n] = Grown(e, g)[n]
  <2>1. CASE n = 1
    BY <2>1, FirstLevel DEF Grown
  <2>2. CASE n # 1
    <3>1. n - 1 \in Nat \ {0} /\ n - 1 \in 1..WalkBound /\ (n - 1) + 1 = n
      BY <2>2, WalkBoundIs
    <3>2. Level(e, (n - 1) + 1) =
            {w \in UNION {Follow(p) : p \in Level(e, n - 1)} : Within(w, (n - 1) + 1)}
      BY <3>1, NextLevel
    <3>3. g[n - 1] = Level(e, n - 1) /\ g[n] = Level(e, n)
      BY <3>1
    <3> HIDE DEF g
    <3>4. Grown(e, g)[n] = {w \in UNION {Follow(p) : p \in g[n - 1]} : Within(w, n)}
      BY <2>2 DEF Grown, Within
    <3> QED  BY <3>1, <3>2, <3>3, <3>4
  <2> QED  BY <2>1, <2>2
<1>2. g = Grown(e, g)
  <2>1. Grown(e, g) = [n \in 1..WalkBound |-> Grown(e, g)[n]]
    BY DEF Grown
  <2>2. g = [n \in 1..WalkBound |-> g[n]]
    OBVIOUS
  <2> HIDE DEF g
  <2> QED  BY <1>1, <2>1, <2>2
<1> HIDE DEF g
<1> QED  BY <1>2 DEF Levels

\* They are the bounded walks of each length.
LEMMA LevelsAre ==
  ASSUME NEW e \in Block, module \in Modules, NEW n \in 1..WalkBound
  PROVE  Levels(e)[n] = Level(e, n)
<1> DEFINE T == {k \in 0..WalkBound : k = 0 \/ Levels(e)[k] = Level(e, k)}
           g == Levels(e)
<1>1. WalkBound \in Nat /\ 0 \in T /\ g = Grown(e, g)
  BY WalkBoundIs, LevelsExist
<1>2. ASSUME NEW k \in 0..n - 1, k \in T PROVE k + 1 \in T
  <2>1. k + 1 \in 1..WalkBound
    BY <1>1
  <2> HIDE DEF g
  <2>2. Grown(e, g)[k + 1] =
          IF k + 1 = 1 THEN {<<e>>}
          ELSE {w \in UNION {Follow(p) : p \in g[(k + 1) - 1]} : Within(w, k + 1)}
    BY <2>1 DEF Grown, Within
  <2>3. CASE k = 0
    BY <1>1, <2>1, <2>2, <2>3, FirstLevel DEF g
  <2>4. CASE k # 0
    <3>1. k \in Nat \ {0} /\ (k + 1) - 1 = k /\ k + 1 # 1
      BY <2>4
    <3>2. g[k] = Level(e, k)
      BY <1>2, <2>4 DEF g
    <3>3. Level(e, k + 1) = {w \in UNION {Follow(p) : p \in Level(e, k)} : Within(w, k + 1)}
      BY <3>1, NextLevel
    <3>4. g[k + 1] = Level(e, k + 1)
      BY <1>1, <2>2, <3>1, <3>2, <3>3
    <3> QED  BY <2>1, <3>4 DEF g
  <2> QED  BY <2>3, <2>4
<1> HIDE DEF T
<1>3. n \in T
  BY <1>1, <1>2, Reaches
<1> QED  BY <1>3 DEF T

\* The walks that the properties of LeakDetector generate are the complete
\* ones: none is longer than the last level.
LEMMA WalksAre ==
  ASSUME NEW e \in Block, module \in Modules, NEW p
  PROVE  p \in Walks(e) <=> Complete(module, e, p)
<1>1. p \in Walks(e) <=> /\ \E n \in 1..WalkBound : p \in Level(e, n)
                         /\ ~module.node[p[Len(p)]].br
  <2>1. Walks(e) = {w \in UNION {Level(e, n) : n \in 1..WalkBound} :
                       ~module.node[w[Len(w)]].br}
    BY WalksByLevel, LevelsAre
  <2> QED  BY <2>1
<1>2. ASSUME IsWalk(module, e, p) PROVE Len(p) \in 1..WalkBound
  <2>1. p \in Seq(Block) /\ p # <<>> /\ \A b \in Block : Discovery!Visits(p, b) <= MaxVisits + 1
    BY <1>2 DEF IsWalk
  <2>2. \A b \in Block : Enum!Visits(p, b) <= MaxVisits + 1
    BY <2>1, SameVisits
  <2>3. MaxVisits + 1 \in Nat
    BY MaxVisitsAssumption
  <2>4. Len(p) <= (MaxVisits + 1) * Enum!Cardinality(Block)
    BY <2>1, <2>2, <2>3, Enum!LengthBounded, EnumMeets
  <2>5. Len(p) <= WalkBound
    BY <2>4 DEF WalkBound, Enum!Cardinality, Cardinality
  <2> QED  BY <2>1, <2>5
<1>3. IsWalk(module, e, p) => p \in Seq(Block)
  BY DEF IsWalk
<1> QED  BY <1>1, <1>2, <1>3 DEF Level, Complete

-----------------------------------------------------------------------------
(***************************************************************************)
(* What a path does to memory: the functions by which LeakProgram follows  *)
(* it exist and are what their recursive definitions say.                  *)
(***************************************************************************)
Memory == [cell : [Scan!Address -> Nat], last : Nat, objects : Nat,
           live : SUBSET Nat, frees : Nat]

LEMMA EmptyIsMemory == Scan!Empty \in Memory
BY DEF Scan!Empty, Memory

LEMMA RunIsMemory ==
  ASSUME NEW m \in Memory, NEW in \in Scan!Instr
  PROVE  Scan!Run(m, in) \in Memory
<1>1. /\ m.cell \in [Scan!Address -> Nat] /\ m.last \in Nat /\ m.objects \in Nat
      /\ m.live \in SUBSET Nat /\ m.frees \in Nat
  BY DEF Memory
<1>2. /\ Scan!At(in.ptr) \in Scan!Address
      /\ \A a \in Scan!Address : <<in.src.place, a[2]>> \in Scan!Address
  BY DEF Scan!Instr, Scan!Operand, Scan!At, Scan!Address
<1>3. [m EXCEPT !.last = m.cell[Scan!At(in.ptr)]] \in Memory
  BY <1>1, <1>2 DEF Memory
<1>4. [m EXCEPT !.cell[Scan!At(in.ptr)] = IF in.val = "last" THEN m.last ELSE 0] \in Memory
  BY <1>1, <1>2 DEF Memory
<1>5. [m EXCEPT !.objects = @ + 1, !.last = m.objects + 1,
                !.live = @ \cup {m.objects + 1}] \in Memory
  <2>1. m.live \cup {m.objects + 1} \in SUBSET Nat
    BY <1>1
  <2>2. \A s \in SUBSET Nat, k \in Nat :
          [m EXCEPT !.objects = k, !.last = k, !.live = s] \in Memory
    BY DEF Memory
  <2> QED  BY <1>1, <2>1, <2>2
<1>6. [m EXCEPT !.live = @ \ {m.last}, !.frees = @ + 1] \in Memory
  <2>1. m.live \ {m.last} \in SUBSET Nat /\ m.frees + 1 \in Nat
    BY <1>1
  <2>2. \A s \in SUBSET Nat, k \in Nat : [m EXCEPT !.live = s, !.frees = k] \in Memory
    BY DEF Memory
  <2> QED  BY <2>1, <2>2, Zenon
<1>7. [m EXCEPT !.cell = [a \in Scan!Address |->
            IF a[1] = in.ptr.place THEN m.cell[<<in.src.place, a[2]>>]
            ELSE m.cell[a]]] \in Memory
  <2> DEFINE c == [a \in Scan!Address |->
                     IF a[1] = in.ptr.place THEN m.cell[<<in.src.place, a[2]>>]
                     ELSE m.cell[a]]
  <2>1. c \in [Scan!Address -> Nat]
    BY <1>1, <1>2
  <2> HIDE DEF c
  <2>2. [m EXCEPT !.cell = c] \in Memory
    BY <2>1 DEF Memory
  <2> QED  BY <2>2 DEF c
<1> QED  BY <1>3, <1>4, <1>5, <1>6, <1>7, Zenon DEF Scan!Run

\* A function that is defined by recursion on its argument exists.
Recurs(w, N, X, c, S) ==
  /\ w \in [0..N -> X] /\ w[0] = c
  /\ \A n \in 1..N : w[n] = S[<<n, w[n - 1]>>]

\* A recursive function over the numbers up to N exists, and has its type.
LEMMA Recursion ==
  ASSUME NEW N \in Nat, NEW X, NEW c \in X, NEW S,
         \A n \in 1..N : \A x \in X : S[<<n, x>>] \in X
  PROVE  \E w : Recurs(w, N, X, c, S)
<1> DEFINE Upto(k) == \E w \in [0..k -> X] :
                        w[0] = c /\ \A n \in 1..k : w[n] = S[<<n, w[n - 1]>>]
           T == {k \in 0..N : Upto(k)}
<1>1. 0 \in T
  <2> DEFINE w == [n \in 0..0 |-> c]
  <2>1. w \in [0..0 -> X] /\ w[0] = c /\ 1..0 = {}
    OBVIOUS
  <2> HIDE DEF w
  <2> QED  BY <2>1
<1>2. ASSUME NEW k \in 0..N - 1, k \in T PROVE k + 1 \in T
  <2>1. PICK w \in [0..k -> X] : w[0] = c /\ \A n \in 1..k : w[n] = S[<<n, w[n - 1]>>]
    BY <1>2
  <2> DEFINE v == [n \in 0..k + 1 |-> IF n = k + 1 THEN S[<<k + 1, w[k]>>] ELSE w[n]]
  <2>2. S[<<k + 1, w[k]>>] \in X
    BY <2>1
  <2>3. /\ v \in [0..k + 1 -> X] /\ v[k + 1] = S[<<k + 1, w[k]>>]
        /\ \A n \in 0..k : v[n] = w[n]
    BY <2>1, <2>2
  <2> HIDE DEF v
  <2>4. ASSUME NEW n \in 1..k + 1 PROVE v[n] = S[<<n, v[n - 1]>>]
    <3>1. CASE n = k + 1
      BY <2>3, <3>1
    <3>2. CASE n # k + 1
      <4>1. n \in 1..k /\ n \in 0..k /\ n - 1 \in 0..k
        BY <3>2
      <4> QED  BY <2>1, <2>3, <4>1
    <3> QED  BY <3>1, <3>2
  <2>5. v[0] = c
    BY <2>1, <2>3
  <2>6. Upto(k + 1)
    BY <2>3, <2>4, <2>5
  <2> HIDE DEF Upto
  <2> QED  BY <2>6
<1> HIDE DEF T
<1>3. N \in T
  BY <1>1, <1>2, Reaches
<1> QED  BY <1>3 DEF T, Recurs

\* Memory after each instruction of a block.
LEMMA RunsBody ==
  ASSUME NEW m \in Memory, NEW body \in Seq(Scan!Instr)
  PROVE  LET g == Scan!InBody(m, body)
         IN  /\ \A n \in 0..Len(body) : g[n] \in Memory
             /\ g[0] = m
             /\ \A n \in 1..Len(body) : g[n] = Scan!Run(g[n - 1], body[n])
<1> DEFINE N == Len(body)
           S == [x \in (1..N) \X Memory |-> Scan!Run(x[2], body[x[1]])]
           g == Scan!InBody(m, body)
           Solves(h) == h = [n \in 0..N |-> IF n = 0 THEN m ELSE Scan!Run(h[n - 1], body[n])]
<1>1. N \in Nat /\ \A n \in 1..N : body[n] \in Scan!Instr
  BY ElementOfSeq
<1>2. \A n \in 1..N, h \in Memory : S[<<n, h>>] = Scan!Run(h, body[n])
  OBVIOUS
<1>3. \A n \in 1..N : \A h \in Memory : S[<<n, h>>] \in Memory
  BY <1>1, <1>2, RunIsMemory
<1> HIDE DEF S, N
<1>4. \E w : Recurs(w, N, Memory, m, S)
  BY <1>1, <1>3, Recursion
<1>5. PICK w \in [0..N -> Memory] :
        w[0] = m /\ \A n \in 1..N : w[n] = S[<<n, w[n - 1]>>]
  BY <1>4 DEF Recurs
<1>6. Solves(w)
  <2>1. ASSUME NEW n \in 1..N PROVE w[n] = Scan!Run(w[n - 1], body[n])
    <3>1. n - 1 \in 0..N
      BY <1>1
    <3> QED  BY <1>2, <1>5, <3>1
  <2>2. \A n \in 0..N : w[n] = IF n = 0 THEN m ELSE Scan!Run(w[n - 1], body[n])
    BY <1>1, <1>5, <2>1
  <2>3. w = [n \in 0..N |-> w[n]]
    BY <1>5
  <2> QED  BY <2>2, <2>3
<1>7. g = CHOOSE h : Solves(h)
  BY DEF Scan!InBody, N
<1> HIDE DEF g
<1>8. Solves(g)
  <2> HIDE DEF Solves
  <2> QED  BY <1>6, <1>7
<1>9. g[0] = m /\ \A n \in 1..N : g[n] = Scan!Run(g[n - 1], body[n])
  <2>1. 0 \in 0..N /\ \A n \in 1..N : n \in 0..N /\ n # 0
    BY <1>1
  <2> QED  BY <1>8, <2>1
<1>10. ASSUME NEW n \in 0..N PROVE g[n] \in Memory
  <2> DEFINE T == {k \in 0..N : g[k] \in Memory}
  <2>1. 0 \in T
    BY <1>1, <1>9
  <2>2. ASSUME NEW k \in 0..n - 1, k \in T PROVE k + 1 \in T
    <3>1. k + 1 \in 1..N /\ (k + 1) - 1 = k
      BY <1>1
    <3>2. g[k + 1] = Scan!Run(g[k], body[k + 1])
      BY <1>9, <3>1
    <3>3. body[k + 1] \in Scan!Instr /\ g[k] \in Memory
      BY <1>1, <2>2, <3>1
    <3> QED  BY <3>1, <3>2, <3>3, RunIsMemory
  <2> HIDE DEF T
  <2>3. n \in T
    BY <1>1, <2>1, <2>2, Reaches
  <2> QED  BY <2>3 DEF T
<1> QED  BY <1>9, <1>10 DEF g, N

\* Memory after each block of a path.
LEMMA RunsPath ==
  ASSUME NEW g, g.code \in [Block -> Seq(Scan!Instr)], g.path \in Seq(Block)
  PROVE  LET m == Scan!OnPath(g)
         IN  /\ \A k \in 0..Len(g.path) : m[k] \in Memory
             /\ m[0] = Scan!Empty
             /\ \A k \in 1..Len(g.path) :
                  LET body == g.code[g.path[k]]
                  IN  m[k] = Scan!InBody(m[k - 1], body)[Len(body)]
<1> DEFINE N == Len(g.path)
           body(k) == g.code[g.path[k]]
           over(k, x) == Scan!InBody(x, body(k))[Len(body(k))]
           S == [x \in (1..N) \X Memory |-> over(x[1], x[2])]
           m == Scan!OnPath(g)
           Solves(h) == h = [k \in 0..N |-> IF k = 0 THEN Scan!Empty ELSE over(k, h[k - 1])]
<1>1. N \in Nat /\ \A k \in 1..N : body(k) \in Seq(Scan!Instr)
  <2>1. \A k \in 1..N : g.path[k] \in Block
    BY ElementOfSeq
  <2> QED  BY <2>1
<1>2. \A k \in 1..N, x \in Memory : S[<<k, x>>] = over(k, x)
  OBVIOUS
<1>3. ASSUME NEW k \in 1..N, NEW x \in Memory PROVE over(k, x) \in Memory
  <2> DEFINE b == body(k)
  <2>1. b \in Seq(Scan!Instr)
    BY <1>1
  <2> HIDE DEF b
  <2>2. Len(b) \in 0..Len(b)
    BY <2>1
  <2>3. Scan!InBody(x, b)[Len(b)] \in Memory
    BY <2>1, <2>2, RunsBody
  <2> QED  BY <2>3 DEF b
<1>4. m = CHOOSE h : Solves(h)
  BY DEF Scan!OnPath
<1> HIDE DEF S, N, m, over
<1>5. \A k \in 1..N : \A x \in Memory : S[<<k, x>>] \in Memory
  BY <1>2, <1>3
<1>6. \E w : Recurs(w, N, Memory, Scan!Empty, S)
  BY <1>1, <1>5, EmptyIsMemory, Recursion
<1>7. PICK w \in [0..N -> Memory] :
        w[0] = Scan!Empty /\ \A k \in 1..N : w[k] = S[<<k, w[k - 1]>>]
  BY <1>6 DEF Recurs
<1>8. Solves(w)
  <2>1. ASSUME NEW k \in 1..N PROVE w[k] = over(k, w[k - 1])
    <3>1. k - 1 \in 0..N
      BY <1>1
    <3> QED  BY <1>2, <1>7, <3>1
  <2>2. \A k \in 0..N : w[k] = IF k = 0 THEN Scan!Empty ELSE over(k, w[k - 1])
    BY <1>1, <1>7, <2>1
  <2>3. w = [k \in 0..N |-> w[k]]
    BY <1>7
  <2> QED  BY <2>2, <2>3
<1>9. Solves(m)
  <2> HIDE DEF Solves
  <2> QED  BY <1>4, <1>8
<1>10. m[0] = Scan!Empty /\ \A k \in 1..N : m[k] = over(k, m[k - 1])
  <2>1. 0 \in 0..N /\ \A k \in 1..N : k \in 0..N /\ k # 0
    BY <1>1
  <2> QED  BY <1>9, <2>1
<1>11. ASSUME NEW n \in 0..N PROVE m[n] \in Memory
  <2> DEFINE T == {k \in 0..N : m[k] \in Memory}
  <2>1. 0 \in T
    BY <1>1, <1>10, EmptyIsMemory
  <2>2. ASSUME NEW k \in 0..n - 1, k \in T PROVE k + 1 \in T
    <3>1. k + 1 \in 1..N /\ (k + 1) - 1 = k
      BY <1>1
    <3>2. m[k + 1] = over(k + 1, m[k]) /\ m[k] \in Memory
      BY <1>10, <2>2, <3>1
    <3> QED  BY <1>3, <3>1, <3>2
  <2> HIDE DEF T
  <2>3. n \in T
    BY <1>1, <2>1, <2>2, Reaches
  <2> QED  BY <2>3 DEF T
<1> QED  BY <1>10, <1>11 DEF m, N, over

\* Memory before instruction k of block b of a path p of m, and where the scan is.
HeapAt(m, p, b, k) ==
  Scan!InBody(Scan!OnPath([code |-> m.code, path |-> p])[b - 1], m.code[p[b]])[k - 1]

HeapNow == HeapAt(module, path, bb, i)

\* Memory inside of a block goes on from one instruction to the next, and from
\* the end of a block to the start of the next.
LEMMA HeapIs ==
  ASSUME NEW m \in Modules, NEW p \in Seq(Block), NEW b \in 1..Len(p)
  PROVE  LET body  == m.code[p[b]]
             after == Scan!OnPath([code |-> m.code, path |-> p])
         IN  /\ body \in Seq(Scan!Instr)
             /\ \A k \in 1..Len(body) + 1 : HeapAt(m, p, b, k) \in Memory
             /\ \A k \in 1..Len(body) :
                  HeapAt(m, p, b, k + 1) = Scan!Run(HeapAt(m, p, b, k), body[k])
             /\ HeapAt(m, p, b, 1) = after[b - 1]
             /\ HeapAt(m, p, b, Len(body) + 1) = after[b]
             /\ after[0] = Scan!Empty
<1> DEFINE g     == [code |-> m.code, path |-> p]
           body  == m.code[p[b]]
           after == Scan!OnPath(g)
           start == after[b - 1]
           run   == Scan!InBody(start, body)
<1>1. p[b] \in Block /\ Len(p) \in Nat
  BY ElementOfSeq
<1>2. body \in Seq(Scan!Instr) /\ m.code \in [Block -> Seq(Scan!Instr)]
  BY <1>1, ModulesAssumption
<1>3. g.code = m.code /\ g.path = p
  OBVIOUS
<1> HIDE DEF g, body
<1>4. /\ \A k \in 0..Len(p) : after[k] \in Memory
      /\ after[0] = Scan!Empty
      /\ \A k \in 1..Len(p) :
           after[k] = Scan!InBody(after[k - 1], m.code[p[k]])[Len(m.code[p[k]])]
  BY <1>2, <1>3, RunsPath
<1> HIDE DEF after
<1>5. start \in Memory
  BY <1>1, <1>4
<1> HIDE DEF start
<1>6. /\ \A n \in 0..Len(body) : run[n] \in Memory
      /\ run[0] = start
      /\ \A n \in 1..Len(body) : run[n] = Scan!Run(run[n - 1], body[n])
  BY <1>2, <1>5, RunsBody
<1>7. after[b] = run[Len(body)]
  BY <1>4 DEF body, start
<1> HIDE DEF run
<1>8. \A k : HeapAt(m, p, b, k) = run[k - 1]
  BY DEF HeapAt, run, start, after, g, body
<1>9. Len(body) \in Nat
  BY <1>2
<1>10. \A k \in 1..Len(body) + 1 : HeapAt(m, p, b, k) \in Memory
  BY <1>6, <1>8, <1>9
<1>11. ASSUME NEW k \in 1..Len(body)
       PROVE  HeapAt(m, p, b, k + 1) = Scan!Run(HeapAt(m, p, b, k), body[k])
  <2>1. (k + 1) - 1 = k
    BY <1>9
  <2> QED  BY <1>6, <1>8, <2>1
<1>12. HeapAt(m, p, b, 1) = start /\ HeapAt(m, p, b, Len(body) + 1) = after[b]
  <2>1. 1 - 1 = 0 /\ (Len(body) + 1) - 1 = Len(body)
    BY <1>9
  <2> QED  BY <1>6, <1>7, <1>8, <2>1
<1> QED  BY <1>2, <1>4, <1>10, <1>11, <1>12 DEF body, start, after, g

-----------------------------------------------------------------------------
\* MemoryLeakDetection and the program it reads, as they were proved about by
\* themselves: the program is here what the path does to memory.
Truth == INSTANCE LeakTruthProofs WITH
  source <- module.code, cell <- HeapNow.cell, last <- HeapNow.last,
  objects <- HeapNow.objects, live <- HeapNow.live, frees <- HeapNow.frees,
  Programs <- {[code |-> m.code, path |-> p] :
                 m \in Modules, p \in Seq(Block) \ {<<>>}}

\* The names of the two instances for the same things, and what the theorems
\* about the one assume of its constants.
LEMMA SameInstr ==
  /\ Truth!Instr = Scan!Instr /\ Truth!Operand = Scan!Operand
  /\ Truth!Address = Scan!Address /\ \A o : Truth!At(o) = Scan!At(o)
  /\ \A o : Truth!Key(o) = Scan!Key(o)
BY DEF Truth!Instr, Scan!Instr, Truth!Operand, Scan!Operand,
       Truth!Address, Scan!Address, Truth!At, Scan!At, Truth!Key, Scan!Key

LEMMA TruthMeets ==
  \A p \in {[code |-> m.code, path |-> q] :
              m \in Modules, q \in Seq(Block) \ {<<>>}} :
    /\ p \in Truth!ProgramType /\ p.path # <<>>
    /\ \A b \in Block : \A n \in 1..Len(p.code[b]) : p.code[b][n].op # "address"
BY ModulesAssumption, SameInstr DEF Truth!ProgramType

\* Its invariants, and what they say of the verdict.
LEMMA TruthStarts == Truth!Init => Truth!IInv /\ Truth!XInv
BY Truth!InitIInv, Truth!InitXInv, TruthMeets, NoNameAssumption

LEMMA TruthSteps ==
  Truth!IInv /\ Truth!XInv /\ [Truth!Next]_(Truth!vars) => Truth!IInv' /\ Truth!XInv'
BY Truth!StepIInv, Truth!StepXInv, TruthMeets, NoNameAssumption

LEMMA TruthExact == Truth!IInv /\ Truth!XInv => Truth!ExactWhenDisciplined
BY Truth!InvIsExact, TruthMeets, NoNameAssumption

\* With no constant expression to expand, the steps of a scan are those of
\* MemoryLeakDetection as it was proved about.
LEMMA SameScan ==
  /\ Scan!TrackAlias => Truth!TrackAlias
  /\ Scan!TrackVar => Truth!TrackVar
  /\ Scan!FreeVar => Truth!FreeVar
  /\ Scan!Pass => Truth!Pass
  /\ Scan!Crash => Truth!Crash
  /\ Scan!NextBlock => Truth!NextBlock
  /\ Scan!Finish => Truth!Finish
<1> USE SameInstr DEF Scan!NoId, Truth!NoId, Scan!Move, Truth!Move, Scan!Stay, Truth!Stay,
        Scan!InBlock, Truth!InBlock, Scan!Body, Truth!Body, Scan!Inst, Truth!Inst,
        Scan!Following, Truth!Following, Scan!HasPrevious, Truth!HasPrevious,
        Scan!Previous, Truth!Previous, Scan!Loads, Truth!Loads, Scan!Calls, Truth!Calls,
        Scan!tables, Truth!tables
<1>1. Scan!TrackAlias => Truth!TrackAlias
  BY DEF Scan!TrackAlias, Truth!TrackAlias, Scan!Copying, Truth!Copying
<1>2. Scan!TrackVar => Truth!TrackVar
  BY DEF Scan!TrackVar, Truth!TrackVar, Scan!Allocates, Truth!Allocates,
         Scan!NewId, Truth!NewId, Scan!Inserted, Truth!Inserted
<1>3. Scan!FreeVar => Truth!FreeVar
  BY DEF Scan!FreeVar, Truth!FreeVar, Scan!Frees, Truth!Frees, Scan!Clear, Truth!Clear
<1>4. Scan!Pass => Truth!Pass
  BY DEF Scan!Pass, Truth!Pass, Scan!Copying, Truth!Copying, Scan!Allocates, Truth!Allocates
<1>5. Scan!Crash => Truth!Crash
  BY DEF Scan!Crash, Truth!Crash
<1>6. Scan!NextBlock => Truth!NextBlock
  BY DEF Scan!NextBlock, Truth!NextBlock
<1>7. Scan!Finish => Truth!Finish
  BY DEF Scan!Finish, Truth!Finish, Scan!Left, Truth!Left
<1> QED  BY <1>1, <1>2, <1>3, <1>4, <1>5, <1>6, <1>7

\* An instruction that is read is executed.
LEMMA RunExecutes ==
  ASSUME module' = module, HeapNow \in Memory, Scan!Inst \in Scan!Instr,
         Scan!Inst.op # "icall", HeapNow' = Scan!Run(HeapNow, Scan!Inst)
  PROVE  Truth!Execute
<1> DEFINE in == Scan!Inst
           m  == HeapNow
           r  == Scan!Run(m, in)
           R  == [cell |-> r.cell, last |-> r.last, objects |-> r.objects,
                  live |-> r.live, frees |-> r.frees]
<1>1. Truth!Inst = in
  BY DEF Scan!Inst, Truth!Inst, Scan!Body, Truth!Body
<1>2. /\ module'.code = module.code
      /\ HeapNow'.cell = r.cell /\ HeapNow'.last = r.last
      /\ HeapNow'.objects = r.objects /\ HeapNow'.live = r.live
      /\ HeapNow'.frees = r.frees
  OBVIOUS
<1> HIDE DEF in, m
<1>3. CASE in.op = "load"
  <2>1. r = [m EXCEPT !.last = m.cell[Scan!At(in.ptr)]]
    BY <1>3 DEF Scan!Run
  <2>2. /\ r.last = m.cell[Scan!At(in.ptr)]
        /\ r.cell = m.cell /\ r.objects = m.objects /\ r.live = m.live /\ r.frees = m.frees
    BY <2>1 DEF Memory, m
  <2> HIDE DEF r
  <2>3. Truth!DoLoad
    BY <1>1, <1>2, <1>3, <2>2, SameInstr DEF Truth!DoLoad, m
  <2> QED  BY <2>3 DEF Truth!Execute
<1>4. CASE in.op = "store"
  <2>1. r = [m EXCEPT !.cell[Scan!At(in.ptr)] = IF in.val = "last" THEN m.last ELSE 0]
    BY <1>4 DEF Scan!Run
  <2>2. /\ r.cell = [m.cell EXCEPT ![Scan!At(in.ptr)] = IF in.val = "last" THEN m.last ELSE 0]
        /\ r.last = m.last /\ r.objects = m.objects /\ r.live = m.live /\ r.frees = m.frees
    BY <2>1 DEF Memory, m
  <2> HIDE DEF r
  <2>3. Truth!DoStore
    BY <1>1, <1>2, <1>4, <2>2, SameInstr DEF Truth!DoStore, m
  <2> QED  BY <2>3 DEF Truth!Execute
<1>5. CASE in.op = "call" /\ in.callee = "malloc"
  <2>1. r = [m EXCEPT !.objects = @ + 1, !.last = m.objects + 1,
                      !.live = @ \cup {m.objects + 1}]
    BY <1>5 DEF Scan!Run
  <2>2. /\ r.objects = m.objects + 1 /\ r.last = m.objects + 1
        /\ r.live = m.live \cup {m.objects + 1}
        /\ r.cell = m.cell /\ r.frees = m.frees
    BY <2>1 DEF Memory, m
  <2> HIDE DEF r
  <2>3. Truth!DoMalloc
    BY <1>1, <1>2, <1>5, <2>2 DEF Truth!DoMalloc, m
  <2> QED  BY <2>3 DEF Truth!Execute
<1>6. CASE in.op = "call" /\ in.callee = "free"
  <2>1. r = [m EXCEPT !.live = @ \ {m.last}, !.frees = @ + 1]
    BY <1>6 DEF Scan!Run
  <2>2. /\ r.live = m.live \ {m.last} /\ r.frees = m.frees + 1
        /\ r.cell = m.cell /\ r.last = m.last /\ r.objects = m.objects
    BY <2>1 DEF Memory, m
  <2> HIDE DEF r
  <2>3. Truth!DoFree
    BY <1>1, <1>2, <1>6, <2>2 DEF Truth!DoFree, m
  <2> QED  BY <2>3 DEF Truth!Execute
<1>7. CASE in.op = "call" /\ in.callee = "memcpy"
  <2> DEFINE c == [a \in Scan!Address |->
                     IF a[1] = in.ptr.place THEN m.cell[<<in.src.place, a[2]>>]
                     ELSE m.cell[a]]
  <2>1. r = [m EXCEPT !.cell = c]
    BY <1>7 DEF Scan!Run
  <2> HIDE DEF c
  <2>2. /\ r.cell = c
        /\ r.last = m.last /\ r.objects = m.objects /\ r.live = m.live /\ r.frees = m.frees
    BY <2>1 DEF Memory, m
  <2> HIDE DEF r
  <2>3. Truth!DoMemcpy
    BY <1>1, <1>2, <1>7, <2>2, SameInstr DEF Truth!DoMemcpy, c, m
  <2> QED  BY <2>3 DEF Truth!Execute
<1>8. CASE in.op \in {"address", "other"} \/ (in.op = "call" /\ in.callee = "else")
  <2>1. r = m
    BY <1>8 DEF Scan!Run
  <2> HIDE DEF r
  <2>2. Truth!DoNothing
    BY <1>1, <1>2, <1>8, <2>1 DEF Truth!DoNothing, Truth!heap, m
  <2> QED  BY <2>2 DEF Truth!Execute
<1>9. /\ in.op \in {"load", "store", "call", "icall", "address", "other"}
      /\ in.callee \in {"memcpy", "malloc", "free", "else"}
  BY DEF Scan!Instr, in
<1> QED  BY <1>3, <1>4, <1>5, <1>6, <1>7, <1>8, <1>9 DEF in

-----------------------------------------------------------------------------
\* While a path is scanned memory is what the program made of it, and the
\* scan's tables say of it what LeakTruthProofs has them say.
ScanReads ==
  /\ i <= Len(Scan!Body) + 1
  /\ verdict \in {"leak", "clean"} => bb = Len(path) /\ i = Len(Scan!Body) + 1
  /\ Truth!IInv /\ Truth!XInv

MInv == NoConstantExprs /\ phase = "scanning" => ScanReads

\* The call of MemoryLeakDetection starts both, and its steps are steps of both.
LEMMA ScanBegins ==
  /\ module \in Modules /\ code = module.code
  /\ path \in Seq(Block) \ {<<>>} /\ Scan!Start(path)
  => ScanReads
<1> SUFFICES ASSUME module \in Modules, code = module.code,
                    path \in Seq(Block) \ {<<>>}, Scan!Start(path)
             PROVE  ScanReads
  OBVIOUS
<1>1. bb = 1 /\ i = 1 /\ verdict = "scanning" /\ 1 \in 1..Len(path)
  BY DEF Scan!Start
<1>2. /\ HeapNow = Scan!Empty /\ Scan!Body \in Seq(Scan!Instr)
  <2>1. /\ module.code[path[1]] \in Seq(Scan!Instr)
        /\ HeapAt(module, path, 1, 1) = Scan!OnPath([code |-> module.code, path |-> path])[1 - 1]
        /\ Scan!OnPath([code |-> module.code, path |-> path])[0] = Scan!Empty
    BY <1>1, HeapIs
  <2>2. 1 - 1 = 0
    OBVIOUS
  <2> QED  BY <1>1, <2>1, <2>2 DEF HeapNow, Scan!Body
<1>3. Truth!Init
  <2> DEFINE p == [code |-> module.code, path |-> path]
             all == {[code |-> m.code, path |-> q] :
                       m \in Modules, q \in Seq(Block) \ {<<>>}}
  <2>1. p \in all /\ p.code = code /\ p.path = path
    OBVIOUS
  <2>2. Truth!Start(path)
    BY DEF Scan!Start, Truth!Start, Scan!NoVars, Truth!NoVars, Scan!NoStructs,
           Truth!NoStructs, Scan!NoId, Truth!NoId
  <2>3. /\ HeapNow.cell = [a \in Truth!Address |-> 0] /\ HeapNow.last = 0
        /\ HeapNow.objects = 0 /\ HeapNow.live = {} /\ HeapNow.frees = 0
    BY <1>2, SameInstr DEF Scan!Empty
  <2> HIDE DEF p
  <2>4. \E q \in all : code = q.code /\ Truth!Start(q.path)
    BY <2>1, <2>2
  <2> QED  BY <2>3, <2>4 DEF Truth!Init
<1> QED  BY <1>1, <1>2, <1>3, TruthStarts DEF ScanReads

LEMMA ScanExecutes ==
  ASSUME Scanning, ScanReads, Scan!ScanNext, module' = module
  PROVE  ScanReads'
<1> DEFINE n == Len(Scan!Body)
<1>1. /\ Scan!Body = module.code[path[bb]] /\ n \in Nat
      /\ i \in Nat \ {0} /\ bb \in 1..Len(path) /\ path \in Seq(Block)
      /\ module \in Modules /\ i <= n + 1 /\ Truth!IInv /\ Truth!XInv
  BY Plain DEF Scanning, ScanReads
<1>2. UNCHANGED <<code, path>>
  BY ScanIsAfter
<1>3. /\ Scan!Body \in Seq(Scan!Instr)
      /\ \A k \in 1..n + 1 : HeapAt(module, path, bb, k) \in Memory
      /\ \A k \in 1..n : HeapAt(module, path, bb, k + 1) =
                           Scan!Run(HeapAt(module, path, bb, k), Scan!Body[k])
  BY <1>1, HeapIs
<1>4. bb' = bb => Scan!Body' = Scan!Body
  BY <1>2 DEF Scan!Body
<1>5. \A b, k : bb' = b /\ i' = k => HeapNow' = HeapAt(module, path, b, k)
  BY <1>2 DEF HeapNow, HeapAt
<1> SUFFICES /\ Truth!Next
             /\ i' <= Len(Scan!Body') + 1
             /\ verdict' \in {"leak", "clean"} => bb' = Len(path) /\ i' = Len(Scan!Body') + 1
  BY <1>1, <1>2, TruthSteps DEF ScanReads
<1>6. CASE Scan!TrackAlias \/ Scan!TrackVar \/ Scan!FreeVar \/ Scan!Pass
  <2>1. Scan!InBlock /\ i' = i + 1 /\ UNCHANGED <<bb, verdict>>
    BY <1>6 DEF Scan!TrackAlias, Scan!TrackVar, Scan!FreeVar, Scan!Pass, Scan!Move,
                Scan!Loads, Scan!Allocates, Scan!Frees, Scan!Calls
  <2>2. i \in 1..n /\ verdict = "scanning"
    BY <1>1, <2>1 DEF Scan!InBlock
  <2>3. Scan!Inst \in Scan!Instr /\ Scan!Inst = Scan!Body[i]
    BY <1>3, <2>2, ElementOfSeq DEF Scan!Inst
  <2>4. Scan!Inst.op # "icall"
    BY <1>6 DEF Scan!TrackAlias, Scan!TrackVar, Scan!FreeVar, Scan!Pass,
                Scan!Loads, Scan!Allocates, Scan!Frees, Scan!Calls
  <2>5. HeapNow \in Memory /\ HeapNow' = Scan!Run(HeapNow, Scan!Inst)
    <3>1. HeapNow = HeapAt(module, path, bb, i)
      BY DEF HeapNow
    <3>2. HeapNow' = HeapAt(module, path, bb, i + 1)
      BY <1>5, <2>1
    <3> QED  BY <1>3, <2>2, <2>3, <3>1, <3>2
  <2>6. Truth!Execute
    BY <2>3, <2>4, <2>5, RunExecutes
  <2>7. Truth!Next
    BY <1>6, <2>6, SameScan DEF Truth!Next, Truth!Step
  <2> QED  BY <1>1, <1>4, <2>1, <2>2, <2>7
<1>7. CASE Scan!Crash \/ Scan!Finish
  <2>1. /\ UNCHANGED <<bb, i>>
        /\ \/ verdict' = "crash"
           \/ i > n /\ bb = Len(path)
    BY <1>7 DEF Scan!Crash, Scan!Finish
  <2>2. HeapNow' = HeapNow
    BY <1>5, <2>1 DEF HeapNow
  <2>3. Truth!Next
    BY <1>7, <2>2, SameScan DEF Truth!Next, Truth!heap
  <2> QED  BY <1>1, <1>4, <2>1, <2>3
<1>8. CASE Scan!NextBlock
  <2>1. /\ verdict = "scanning" /\ verdict' = verdict /\ i > n /\ bb < Len(path)
        /\ bb' = bb + 1 /\ i' = 1
    BY <1>8 DEF Scan!NextBlock
  <2>2. i = n + 1 /\ bb + 1 \in 1..Len(path) /\ (bb + 1) - 1 = bb
    BY <1>1, <2>1
  <2>3. HeapNow' = HeapNow
    <3>1. HeapAt(module, path, bb + 1, 1) =
            Scan!OnPath([code |-> module.code, path |-> path])[bb]
      BY <1>1, <2>2, HeapIs
    <3>2. HeapAt(module, path, bb, n + 1) =
            Scan!OnPath([code |-> module.code, path |-> path])[bb]
      BY <1>1, HeapIs
    <3> QED  BY <1>5, <2>1, <2>2, <3>1, <3>2 DEF HeapNow
  <2>4. Truth!Next
    BY <1>8, <2>3, SameScan DEF Truth!Next, Truth!heap
  <2>5. Len(Scan!Body') \in Nat
    <3>1. Scan!Body' = module.code[path[bb + 1]]
      BY <1>2, <2>1 DEF Scan!Body, Scanning
    <3>2. module.code[path[bb + 1]] \in Seq(Scan!Instr)
      BY <1>1, <2>2, HeapIs
    <3> QED  BY <3>1, <3>2
  <2> QED  BY <2>1, <2>4, <2>5
<1> QED  BY <1>6, <1>7, <1>8, PlainSteps

LEMMA InitMInv == Init => MInv
BY DEF Init, MInv

LEMMA StepMInv == PInv /\ VInv /\ MInv /\ [Next]_vars => MInv'
<1> SUFFICES ASSUME PInv, VInv, MInv, [Next]_vars, NoConstantExprs', phase' = "scanning"
             PROVE  ScanReads'
  BY DEF MInv
<1>1. module' = module /\ NoConstantExprs
  <2>1. module' = module
    BY DEF Next, vars, passVars, SkipDeclaration, CallDiscoverPaths, Discover,
           BeginLoop, CallMemoryLeakDetection, ScanPath, Returned, EndLoop,
           ReturnFalse
  <2> QED  BY <2>1 DEF NoConstantExprs
<1>2. module \in Modules /\ code = module.code
  BY <1>1 DEF PInv, VInv
<1>3. CASE UNCHANGED vars
  <2>1. UNCHANGED <<module, code, path, bb, i, malloc_id, mallocs, malloc_vars,
                    malloc_structs, verdict, phase>>
    BY <1>3 DEF vars, passVars, scan
  <2>2. ScanReads
    BY <1>1, <2>1 DEF MInv
  <2>3. UNCHANGED <<HeapNow, Scan!Body>>
    BY <2>1 DEF HeapNow, HeapAt, Scan!Body
  <2>4. UNCHANGED Truth!vars
    BY <2>1, <2>3 DEF Truth!vars, Truth!scanVars, Truth!tables, Truth!heap
  <2> QED  BY <2>1, <2>2, <2>3, <2>4, TruthSteps DEF ScanReads
<1>4. CASE CallMemoryLeakDetection
  <2>1. /\ next <= Len(paths) /\ Scan!Call(paths[next])
        /\ UNCHANGED <<module, code>>
    BY <1>4 DEF CallMemoryLeakDetection, Scan!Call
  <2>2. paths[next] \in Seq(Block) \ {<<>>}
    <3>1. next \in 1..Len(paths)
      BY <2>1 DEF PInv
    <3> QED  BY <3>1 DEF PInv, Found, IsWalk
  <2>3. path' \in Seq(Block) \ {<<>>} /\ Scan!Start(path)'
    BY <2>1, <2>2 DEF Scan!Call, Scan!Start, Scan!NoVars, Scan!NoStructs
  <2>4. module' \in Modules /\ code' = module'.code
    BY <1>2, <2>1
  <2>5. (/\ module \in Modules /\ code = module.code
         /\ path \in Seq(Block) \ {<<>>} /\ Scan!Start(path))'
    BY <2>3, <2>4
  <2> QED  BY <2>5, ScanBegins, PTL
<1>5. CASE ScanPath
  <2>1. phase = "scanning" /\ Scan!ScanNext
    BY <1>5 DEF ScanPath
  <2>2. Scanning /\ ScanReads
    <3>1. path = paths[next] /\ next \in 1..Len(paths)
      BY <2>1 DEF PInv
    <3> QED  BY <1>1, <1>2, <2>1, <3>1 DEF Scanning, PInv, VInv, MInv
  <2> QED  BY <1>1, <2>1, <2>2, ScanExecutes
<1>6. CASE \/ SkipDeclaration \/ CallDiscoverPaths \/ Discover \/ BeginLoop
           \/ Returned \/ EndLoop \/ ReturnFalse
  BY <1>6 DEF SkipDeclaration, CallDiscoverPaths, Discover, BeginLoop, Returned,
              EndLoop, ReturnFalse, passVars
<1> QED  BY <1>3, <1>4, <1>5, <1>6 DEF Next

\* A path that the tables can follow is one in both instances.
LEMMA SameDisciplined ==
  ASSUME NEW g, Scan!Disciplined(g)
  PROVE  Truth!Disciplined(g)
<1>1. /\ Truth!Positions(g) = Scan!Positions(g)
      /\ \A s : Truth!Line(g, s) = Scan!Line(g, s)
      /\ \A s : Truth!After(s) = Scan!After(s) /\ Truth!Before(s) = Scan!Before(s)
  BY DEF Truth!Positions, Scan!Positions, Truth!Line, Scan!Line, Truth!After,
         Scan!After, Truth!Before, Scan!Before
<1>2. /\ \A s, op : Truth!Is(g, s, op) <=> Scan!Is(g, s, op)
      /\ \A in, a : Truth!Writes(in, a) <=> Scan!Writes(in, a)
  BY <1>1, SameInstr DEF Truth!Is, Scan!Is, Truth!Writes, Scan!Writes
<1>3. /\ \A s, c : Truth!IsCall(g, s, c) <=> Scan!IsCall(g, s, c)
      /\ \A o : /\ Truth!Named(o) <=> Scan!Named(o)
                /\ Truth!IsField(o) <=> Scan!IsField(o)
                /\ Truth!InStruct(o) <=> Scan!InStruct(o)
  BY <1>1, <1>2, SameInstr DEF Truth!IsCall, Scan!IsCall, Truth!Named, Scan!Named,
     Truth!IsField, Scan!IsField, Truth!InStruct, Scan!InStruct
<1>4. Truth!Operands(g) = Scan!Operands(g)
  BY <1>1, <1>2, <1>3 DEF Truth!Operands, Scan!Operands
<1>5. Truth!NoBlockTwice(g) \/ Truth!Unexpanded(g)
  BY <1>1, <1>2 DEF Scan!Disciplined, Truth!NoBlockTwice, Scan!NoBlockTwice,
                    Truth!Unexpanded, Scan!Unexpanded
<1>6. Truth!NamesIdentify(g)
  BY <1>3, <1>4, SameInstr DEF Scan!Disciplined, Truth!NamesIdentify, Scan!NamesIdentify
<1>7. Truth!WrittenOnce(g)
  BY <1>1, <1>2, SameInstr DEF Scan!Disciplined, Truth!WrittenOnce, Scan!WrittenOnce
<1>8. \A s \in Scan!Positions(g) : Truth!Style(g, s)
  BY <1>1, <1>2, <1>3 DEF Scan!Disciplined, Truth!Style, Scan!Style
<1> QED  BY <1>1, <1>5, <1>6, <1>7, <1>8 DEF Truth!Disciplined

\* What was found is one of the walks that LeaksReported speaks of.
LEMMA FoundIsPath ==
  ASSUME NEW p, PInv, Found(module, f, p)
  PROVE  p \in AllPaths
<1>1. PICK n \in 1..f : Complete(module, module.entries[n], p)
  BY DEF Found, Complete
<1> DEFINE e == module.entries[n]
<1>2. n \in 1..Len(module.entries) /\ module \in Modules
  BY ModulesAssumption DEF PInv
<1>3. e \in Block
  BY <1>1 DEF Complete, IsWalk
<1>4. e \in Entries(module)
  BY <1>2, <1>3, NoBlockAssumption DEF Entries
<1>5. p \in Walks(e)
  BY <1>1, <1>2, <1>3, WalksAre
<1> QED  BY <1>4, <1>5 DEF AllPaths

\* At the end each of those walks is in the list.
LEMMA PathIsFound ==
  ASSUME NEW p \in AllPaths, PInv, AllListed, phase # "discovering",
         f = Len(module.entries)
  PROVE  \E k \in 1..Len(paths) : paths[k] = p
<1>1. PICK e \in Entries(module) : p \in Walks(e)
  BY DEF AllPaths
<1>2. PICK n \in 1..Len(module.entries) : e = module.entries[n]
  BY <1>1 DEF Entries
<1>3. module \in Modules /\ e \in Block
  <2>1. module \in Modules /\ module.entries \in Seq(Block \cup {NoBlock})
    BY ModulesAssumption DEF PInv
  <2>2. module.entries[n] \in Block \cup {NoBlock}
    BY <2>1, ElementOfSeq
  <2> QED  BY <1>1, <1>2, <2>1, <2>2 DEF Entries
<1>4. Complete(module, module.entries[n], p)
  BY <1>1, <1>2, <1>3, WalksAre
<1>5. Listed(n)
  BY <1>2 DEF AllListed
<1> QED  BY <1>4, <1>5 DEF Listed

\* The verdict on a path the tables can follow is what the path does to memory.
LEMMA VerdictIsTrue ==
  ASSUME PInv, VInv, MInv, Followable, phase = "scanning", verdict \in {"leak", "clean"}
  PROVE  /\ path \in Seq(Block) /\ path = paths[next] /\ next \in 1..Len(paths)
         /\ verdict = "leak" <=> Scan!LeaksOn(ProgramOn(path))
<1>1. /\ path = paths[next] /\ next \in 1..Len(paths) /\ path \in Seq(Block)
      /\ Found(module, f, path) /\ module \in Modules
  BY DEF PInv
<1>2. NoConstantExprs /\ Scan!Disciplined(ProgramOn(path))
  BY <1>1, FoundIsPath DEF Followable
<1>3. /\ ScanReads /\ code = module.code
      /\ bb = Len(path) /\ i = Len(Scan!Body) + 1 /\ bb \in 1..Len(path)
  BY <1>2 DEF MInv, VInv, ScanReads
<1>4. verdict = "leak" <=> Truth!Leaks
  <2>1. Truth!prog = ProgramOn(path)
    BY DEF Truth!prog, ProgramOn
  <2>2. Truth!Disciplined(Truth!prog)
    BY <1>2, <2>1, SameDisciplined
  <2> QED  BY <1>3, <2>2, TruthExact DEF ScanReads, Truth!ExactWhenDisciplined
<1>5. HeapNow = Scan!OnPath(ProgramOn(path))[Len(path)]
  <2>1. Scan!Body = module.code[path[bb]]
    BY <1>3 DEF Scan!Body
  <2>2. HeapAt(module, path, bb, Len(module.code[path[bb]]) + 1) =
          Scan!OnPath([code |-> module.code, path |-> path])[bb]
    BY <1>1, <1>3, HeapIs
  <2> QED  BY <1>3, <2>1, <2>2 DEF HeapNow, ProgramOn
<1>6. Truth!Leaks <=> Scan!LeaksOn(ProgramOn(path))
  <2>1. ProgramOn(path).path = path
    BY DEF ProgramOn
  <2> QED  BY <1>5, <2>1 DEF Truth!Leaks, Scan!LeaksOn
<1> QED  BY <1>1, <1>4, <1>6

-----------------------------------------------------------------------------
\* The paths of the list whose scan has ended since the last function was added.
Scanned ==
  CASE phase \in {"paths", "scanning"} -> {k \in 1..Len(paths) : k < next}
    [] phase \in {"functions", "done"} -> 1..Len(paths)
    [] OTHER -> {}

Printed(p) == \E j \in 1..Len(reported) : reported[j] = p

\* What is printed leaks, and what leaks and was scanned is printed.
Exact ==
  /\ \A j \in 1..Len(reported) : Scan!LeaksOn(ProgramOn(reported[j]))
  /\ \A k \in Scanned : Scan!LeaksOn(ProgramOn(paths[k])) => Printed(paths[k])

LInv ==
  /\ phase = "done" => f = Len(module.entries)
  /\ Followable => Exact

LEMMA InitLInv == Init => LInv
BY DEF Init, LInv, Exact, Scanned

\* Followable speaks of the module alone.
LEMMA SameFollowable ==
  ASSUME module' = module
  PROVE  /\ Followable' <=> Followable
         /\ \A p : Scan!LeaksOn(ProgramOn(p))' <=> Scan!LeaksOn(ProgramOn(p))
<1>1. /\ NoConstantExprs' <=> NoConstantExprs
      /\ \A p : ProgramOn(p)' = ProgramOn(p)
  BY DEF NoConstantExprs, ProgramOn
<1>2. AllPaths' = AllPaths
  <2>1. Entries(module)' = Entries(module)
    OBVIOUS
  <2>2. \A e : Walks(e)' = Walks(e)
    BY DEF Walks, Follow
  <2> QED  BY <2>1, <2>2 DEF AllPaths
<1> QED  BY <1>1, <1>2 DEF Followable

\* The verdict that the loop acts on is right, and one scan after another the
\* loop comes by every position of the list.
LEMMA StepLInv == PInv /\ VInv /\ MInv /\ LInv /\ [Next]_vars => LInv'
<1> SUFFICES ASSUME PInv, VInv, MInv, LInv, [Next]_vars PROVE LInv'
  OBVIOUS
<1>1. module' = module
  BY DEF Next, vars, passVars, SkipDeclaration, CallDiscoverPaths, Discover,
         BeginLoop, CallMemoryLeakDetection, ScanPath, Returned, EndLoop,
         ReturnFalse
<1> DEFINE Leaking(p) == Scan!LeaksOn(ProgramOn(p))
<1>2. /\ Followable' <=> Followable
      /\ \A p : Leaking(p)' <=> Leaking(p)
  BY <1>1, SameFollowable
<1>3. next \in Nat \ {0} /\ reported \in Seq(Seq(Block)) /\ Len(paths) \in Nat
  BY DEF PInv
<1>4. CASE Returned
  <2>1. /\ phase = "scanning" /\ verdict \in {"leak", "clean"}
        /\ reported' = IF verdict = "leak" THEN Append(reported, path) ELSE reported
        /\ next' = next + 1 /\ phase' = "paths" /\ paths' = paths
    BY <1>4 DEF Returned, discovery
  <2> SUFFICES ASSUME Followable PROVE Exact'
    BY <1>2, <2>1 DEF LInv
  <2>2. /\ path \in Seq(Block) /\ path = paths[next] /\ next \in 1..Len(paths)
        /\ verdict = "leak" <=> Leaking(path)
    BY <2>1, VerdictIsTrue
  <2>3. /\ \A j \in 1..Len(reported) : Leaking(reported[j])
        /\ \A k \in 1..Len(paths) : k < next /\ Leaking(paths[k]) => Printed(paths[k])
    BY <2>1 DEF LInv, Exact, Scanned
  <2>4. Scanned' = {k \in 1..Len(paths) : k < next + 1}
    BY <2>1 DEF Scanned
  <2> HIDE DEF Leaking
  <2>5. CASE verdict = "leak"
    <3>1. /\ reported' = Append(reported, path) /\ Len(reported) \in Nat
          /\ Len(reported') = Len(reported) + 1
          /\ \A j \in 1..Len(reported) : reported'[j] = reported[j]
          /\ reported'[Len(reported) + 1] = path
      BY <1>3, <2>1, <2>2, <2>5, AppendProperties
    <3>2. \A j \in 1..Len(reported') : Leaking(reported'[j])
      BY <2>2, <2>3, <2>5, <3>1
    <3>3. \A p : p = path \/ Printed(p) => \E j \in 1..Len(reported') : reported'[j] = p
      BY <3>1 DEF Printed
    <3>4. ASSUME NEW k \in Scanned', Leaking(paths[k])
          PROVE  \E j \in 1..Len(reported') : reported'[j] = paths[k]
      <4>1. k \in 1..Len(paths) /\ (k < next \/ k = next)
        BY <1>3, <2>4
      <4> QED  BY <2>2, <2>3, <3>3, <3>4, <4>1
    <3> QED  BY <1>2, <2>1, <3>2, <3>4 DEF Exact, Leaking, Printed
  <2>6. CASE verdict # "leak"
    <3>1. reported' = reported /\ ~Leaking(path)
      BY <2>1, <2>2, <2>6
    <3>2. ASSUME NEW k \in Scanned', Leaking(paths[k])
          PROVE  Printed(paths[k])
      <4>1. k \in 1..Len(paths) /\ (k < next \/ k = next)
        BY <1>3, <2>4
      <4> QED  BY <2>2, <2>3, <3>1, <3>2, <4>1
    <3> QED  BY <1>2, <2>1, <2>3, <3>1, <3>2 DEF Exact, Leaking, Printed
  <2> QED  BY <2>5, <2>6
<1>5. ASSUME UNCHANGED <<reported, paths>>, Scanned' \subseteq Scanned, Followable
      PROVE  Exact'
  <2>1. Exact
    BY <1>5 DEF LInv
  <2> HIDE DEF Leaking
  <2>2. /\ \A j \in 1..Len(reported) : Leaking(reported[j])
        /\ \A k \in Scanned : Leaking(paths[k]) => Printed(paths[k])
    BY <2>1 DEF Exact, Leaking
  <2> QED  BY <1>2, <1>5, <2>2 DEF Exact, Leaking, Printed
<1>6. CASE SkipDeclaration \/ CallMemoryLeakDetection \/ ScanPath
           \/ EndLoop \/ ReturnFalse \/ BeginLoop \/ UNCHANGED vars
  <2>1. UNCHANGED <<reported, paths>>
    BY <1>6 DEF SkipDeclaration, CallMemoryLeakDetection, ScanPath, EndLoop,
                ReturnFalse, BeginLoop, vars, passVars, discovery
  <2>2. Scanned' \subseteq Scanned
    <3>1. CASE SkipDeclaration \/ CallMemoryLeakDetection \/ ScanPath \/ UNCHANGED vars
      BY <3>1 DEF SkipDeclaration, CallMemoryLeakDetection, ScanPath, vars, passVars,
                  discovery, Scanned
    <3>2. CASE EndLoop
      BY <1>3, <3>2 DEF EndLoop, discovery, Scanned
    <3>3. CASE ReturnFalse
      BY <3>3 DEF ReturnFalse, discovery, Scanned
    <3>4. CASE BeginLoop
      BY <1>3, <3>4 DEF BeginLoop, discovery, Scanned
    <3> QED  BY <1>6, <3>1, <3>2, <3>3, <3>4
  <2>3. phase' = "done" => f' = Len(module'.entries)
    BY <1>1, <1>6 DEF LInv, SkipDeclaration, CallMemoryLeakDetection, ScanPath, EndLoop,
                ReturnFalse, BeginLoop, vars, passVars
  <2> QED  BY <1>2, <1>5, <2>1, <2>2, <2>3 DEF LInv
<1>7. CASE CallDiscoverPaths \/ Discover
  <2>1. phase' = "discovering" /\ UNCHANGED reported
    BY <1>7 DEF CallDiscoverPaths, Discover, passVars
  <2>2. Scanned' = {}
    BY <2>1 DEF Scanned
  <2>3. Followable => \A j \in 1..Len(reported) : Leaking(reported[j])
    BY DEF LInv, Exact
  <2> HIDE DEF Leaking
  <2>4. Followable => Exact'
    BY <1>2, <2>1, <2>2, <2>3 DEF Exact, Leaking
  <2> QED  BY <1>2, <2>1, <2>4 DEF LInv
<1> QED  BY <1>4, <1>6, <1>7 DEF Next

\* End to end, for any module whose paths the tables can follow: when the pass is
\* done, what it printed are the complete bounded walks of the functions on which
\* the program leaks, and no other.  Discovery misses none and makes none up, the
\* loops of runOnModule scan each of them, and each verdict is right.
THEOREM AllLeaksReported == Spec => []LeaksReported
<1>1. PInv /\ AllListed /\ LInv => LeaksReported
  <2> SUFFICES ASSUME PInv, AllListed, LInv, Ended, Followable
               PROVE  {reported[k] : k \in 1..Len(reported)} =
                        {p \in AllPaths : Scan!LeaksOn(ProgramOn(p))}
    BY DEF LeaksReported
  <2>1. phase = "done" /\ f = Len(module.entries)
    BY DEF Ended, LInv
  <2>2. /\ \A j \in 1..Len(reported) : Scan!LeaksOn(ProgramOn(reported[j]))
        /\ \A k \in 1..Len(paths) :
             Scan!LeaksOn(ProgramOn(paths[k])) => Printed(paths[k])
    BY <2>1 DEF LInv, Exact, Scanned
  <2>3. \A j \in 1..Len(reported) : reported[j] \in AllPaths
    BY FoundIsPath DEF PInv
  <2>4. ASSUME NEW p \in AllPaths, Scan!LeaksOn(ProgramOn(p))
        PROVE  Printed(p)
    <3>1. PICK k \in 1..Len(paths) : paths[k] = p
      BY <2>1, PathIsFound
    <3> QED  BY <2>2, <2>4, <3>1
  <2> QED  BY <2>2, <2>3, <2>4 DEF Printed
<1> QED  BY <1>1, InitPInv, StepPInv, InitVInv, StepVInv, InitListed, StepListed,
            InitMInv, StepMInv, InitLInv, StepLInv, PTL DEF Spec
=============================================================================
