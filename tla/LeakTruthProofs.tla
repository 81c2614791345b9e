-------------------------- MODULE LeakTruthProofs --------------------------
(***************************************************************************)
(* MemoryLeakDetection on every path of every program: its tables keep     *)
(* their types and agree on the numbers given out, it never sets more      *)
(* entries to NULL than the path has calls of free, what it inserts into a *)
(* block loses nothing of the program, and on a disciplined path its       *)
(* verdict is right.  The proof takes the scan apart: where the loop is,   *)
(* the tables, the entries cleared, the code, the program's memory.        *)
(***************************************************************************)
EXTENDS LeakTruth, SequenceTheorems, FunctionTheorems, FiniteSetTheorems, TLAPS

\* TypeOK in two parts: the loop over the code, and the tables.
LoopOK ==
  /\ code \in [Block -> Seq(Instr)]
  /\ path \in Seq(Block)
  /\ bb \in 1..Len(path)
  /\ i \in Nat \ {0}
  /\ verdict \in {"scanning", "leak", "clean", "crash"}

Entry == {"call", "NULL"}

TablesOK ==
  /\ malloc_id \in Nat
  /\ mallocs \in Seq(Entry)
  /\ malloc_vars \in [Name -> IdOrNone]
  /\ malloc_structs \in [Name -> [Index -> IdOrNone]]
  /\ IdsAreIndices

IInv == LoopOK /\ TablesOK

\* The instruction being read, and its neighbours.
LEMMA Reading ==
  ASSUME LoopOK, InBlock
  PROVE  /\ path[bb] \in Block /\ Body \in Seq(Instr) /\ Len(Body) \in Nat
         /\ i \in 1..Len(Body) /\ Inst \in Instr
         /\ i < Len(Body) => Following \in Instr
         /\ HasPrevious => Previous \in Instr
<1>1. path[bb] \in Block  BY ElementOfSeq DEF LoopOK
<1>2. Body \in Seq(Instr)  BY <1>1 DEF LoopOK, Body
<1>3. Len(Body) \in Nat /\ i \in 1..Len(Body)  BY <1>2 DEF LoopOK, InBlock
<1>4. Inst \in Instr  BY <1>2, <1>3, ElementOfSeq DEF Inst
<1>5. ASSUME i < Len(Body) PROVE Following \in Instr
  <2>1. i + 1 \in 1..Len(Body)  BY <1>3, <1>5
  <2> QED  BY <1>2, <2>1, ElementOfSeq DEF Following
<1>6. ASSUME HasPrevious PROVE Previous \in Instr
  <2>1. i - 1 \in 1..Len(Body)  BY <1>3, <1>6 DEF HasPrevious
  <2> QED  BY <1>2, <2>1, ElementOfSeq DEF Previous
<1> QED  BY <1>1, <1>2, <1>3, <1>4, <1>5, <1>6

\* The names under which a pointer operand is looked up.
LEMMA KeyIsName ==
  ASSUME NEW o \in Operand
  PROVE  Key(o) \in Name /\ o.name \in Name /\ o.idx \in Index
BY NoNameAssumption DEF Operand, Key

\* The loop moves on, over an inserted instruction or not.
LEMMA MoveKeepsLoop ==
  ASSUME LoopOK, InBlock, Move, Stay
  PROVE  LoopOK'
BY DEF LoopOK, Move, Stay

LEMMA ExpandKeepsLoop ==
  ASSUME LoopOK, InBlock, ExpandHere
  PROVE  LoopOK'
<1> DEFINE in  == Expanded(Inst)
           new == InsertAt(Body, i, in)
<1>1. /\ path[bb] \in Block /\ Body \in Seq(Instr) /\ Len(Body) \in Nat
      /\ i \in 1..Len(Body) /\ Inst \in Instr
  BY Reading
<1>2. in \in Instr  BY <1>1 DEF Expanded, Instr
<1> HIDE DEF in
<1>3. \A k \in 1..Len(Body) : Body[k] \in Instr  BY <1>1, ElementOfSeq
<1>4. \A k \in 1..i - 1 : Body[k] \in Instr  BY <1>1, <1>3
<1>5. SubSeq(Body, 1, i - 1) \in Seq(Instr)
  BY <1>1, <1>4, SubSeqProperties
<1>6. \A k \in i..Len(Body) : Body[k] \in Instr  BY <1>1, <1>3
<1>7. SubSeq(Body, i, Len(Body)) \in Seq(Instr)
  BY <1>1, <1>6, SubSeqProperties
<1>8. <<in>> \in Seq(Instr)  BY <1>2
<1>9. new \in Seq(Instr)
  BY <1>5, <1>7, <1>8, ConcatProperties DEF InsertAt
<1>10. code' = [code EXCEPT ![path[bb]] = new]  BY DEF ExpandHere, in
<1> HIDE DEF new
<1>11. code' \in [Block -> Seq(Instr)]  BY <1>9, <1>10 DEF LoopOK
<1>12. i' \in Nat \ {0}  BY DEF LoopOK, ExpandHere
<1> QED  BY <1>11, <1>12 DEF LoopOK, ExpandHere

-----------------------------------------------------------------------------
\* The tables under each of their updates.
LEMMA SameTables == TablesOK /\ UNCHANGED tables => TablesOK'
BY DEF TablesOK, IdsAreIndices, tables

LEMMA AliasKeepsTables ==
  ASSUME LoopOK, TablesOK, TrackAlias
  PROVE  TablesOK'
<1>1. Inst.ptr \in Operand /\ Following.ptr \in Operand
  BY Reading DEF TrackAlias, Copying, Loads, Instr
<1>2. Key(Inst.ptr) \in Name /\ Key(Following.ptr) \in Name
  BY <1>1, KeyIsName
<1> DEFINE id == malloc_vars[Key(Inst.ptr)]
<1>3. id \in IdOrNone /\ id < malloc_id
  BY <1>2 DEF TablesOK, IdsAreIndices
<1>4. malloc_vars' = [malloc_vars EXCEPT ![Key(Following.ptr)] = id]
  BY DEF TrackAlias
<1> HIDE DEF id
<1> QED  BY <1>2, <1>3, <1>4 DEF TablesOK, IdsAreIndices, TrackAlias

LEMMA CopyKeepsTables ==
  ASSUME LoopOK, TablesOK, CopyStruct
  PROVE  TablesOK'
<1>1. Inst.ptr \in Operand /\ Inst.src \in Operand
  BY Reading DEF CopyStruct, Calls, Instr
<1>2. Inst.ptr.name \in Name /\ Inst.src.name \in Name  BY <1>1, KeyIsName
<1> QED  BY <1>2 DEF TablesOK, IdsAreIndices, CopyStruct

\* A number is given out and pushed: the two stay level.
LEMMA NewIdKeeps ==
  ASSUME TablesOK, NewId
  PROVE  /\ malloc_id \in Nat /\ malloc_id' = malloc_id + 1
         /\ mallocs' \in Seq(Entry) /\ Len(mallocs') = malloc_id'
<1>1. "call" \in Entry  BY DEF Entry
<1>2. mallocs \in Seq(Entry) /\ mallocs' = Append(mallocs, "call")
  BY DEF TablesOK, NewId
<1>3. mallocs' \in Seq(Entry) /\ Len(mallocs') = Len(mallocs) + 1
  BY <1>1, <1>2, AppendProperties
<1> QED  BY <1>3 DEF TablesOK, IdsAreIndices, NewId

\* Inserted leaves a map of numbers below the next one.
LEMMA InsertedIsBelow ==
  ASSUME NEW S, NEW m \in [S -> IdOrNone], NEW k \in S, malloc_id \in Nat,
         \A n \in S : m[n] < malloc_id
  PROVE  /\ Inserted(m, k) \in [S -> IdOrNone]
         /\ \A n \in S : Inserted(m, k)[n] < malloc_id + 1
<1>1. malloc_id \in IdOrNone  BY DEF IdOrNone
<1>2. \A n \in S : m[n] \in Int  BY DEF IdOrNone, NoId
<1> QED  BY <1>1, <1>2 DEF Inserted

LEMMA VarKeepsTables ==
  ASSUME LoopOK, TablesOK, TrackVar
  PROVE  TablesOK'
<1>1. Following.ptr \in Operand
  BY Reading DEF TrackVar, Allocates, Calls, Instr
<1>2. Following.ptr.name \in Name  BY <1>1, KeyIsName
<1>3. /\ malloc_id \in Nat /\ malloc_id' = malloc_id + 1
      /\ mallocs' \in Seq(Entry) /\ Len(mallocs') = malloc_id'
  BY NewIdKeeps DEF TrackVar
<1>4. /\ malloc_vars' \in [Name -> IdOrNone]
      /\ \A n \in Name : malloc_vars'[n] < malloc_id + 1
  BY <1>2, InsertedIsBelow DEF TrackVar, TablesOK, IdsAreIndices
<1>5. \A n \in Name, x \in Index : malloc_structs[n][x] < malloc_id + 1
  BY DEF TablesOK, IdsAreIndices, IdOrNone, NoId
<1> QED  BY <1>3, <1>4, <1>5 DEF TablesOK, IdsAreIndices, TrackVar

LEMMA FieldKeepsTables ==
  ASSUME LoopOK, TablesOK, TrackField
  PROVE  TablesOK'
<1>1. Following.ptr \in Operand
  BY Reading DEF TrackField, Allocates, Calls, Instr
<1>2. Following.ptr.name \in Name /\ Following.ptr.idx \in Index
  BY <1>1, KeyIsName
<1>3. /\ malloc_id \in Nat /\ malloc_id' = malloc_id + 1
      /\ mallocs' \in Seq(Entry) /\ Len(mallocs') = malloc_id'
  BY NewIdKeeps DEF TrackField
<1> DEFINE s == Following.ptr.name
           m == Inserted(malloc_structs[s], Following.ptr.idx)
<1>4. /\ m \in [Index -> IdOrNone]
      /\ \A x \in Index : m[x] < malloc_id + 1
  BY <1>2, InsertedIsBelow DEF TablesOK, IdsAreIndices
<1>5. malloc_structs' = [malloc_structs EXCEPT ![s] = m]
  BY DEF TrackField
<1> HIDE DEF m, s
<1>6. malloc_structs' \in [Name -> [Index -> IdOrNone]]
  BY <1>4, <1>5 DEF TablesOK
<1>7. ASSUME NEW n \in Name, NEW x \in Index
      PROVE  malloc_structs'[n][x] < malloc_id + 1
  <2>1. CASE n = s  BY <1>4, <1>5, <2>1 DEF TablesOK
  <2>2. CASE n # s
    <3>1. malloc_structs'[n] = malloc_structs[n]  BY <1>5, <2>2 DEF TablesOK
    <3>2. malloc_structs[n][x] < malloc_id /\ malloc_structs[n][x] \in Int
      BY DEF TablesOK, IdsAreIndices, IdOrNone, NoId
    <3> QED  BY <1>3, <3>1, <3>2
  <2> QED  BY <2>1, <2>2
<1>8. ASSUME NEW n \in Name
      PROVE  malloc_vars[n] < malloc_id + 1
  <2>1. malloc_vars[n] < malloc_id /\ malloc_vars[n] \in Int
    BY DEF TablesOK, IdsAreIndices, IdOrNone, NoId
  <2> QED  BY <1>3, <2>1
<1> QED  BY <1>3, <1>6, <1>7, <1>8 DEF TablesOK, IdsAreIndices, TrackField

\* mallocs[id] = NULL is a write within the vector, and sets one entry.
LEMMA ClearOne ==
  ASSUME TablesOK, NEW id \in IdOrNone, id < malloc_id, Clear(id)
  PROVE  /\ mallocs' \in Seq(Entry) /\ Len(mallocs') = Len(mallocs)
         /\ \A k \in 1..Len(mallocs) : k # id + 1 => mallocs'[k] = mallocs[k]
<1>1. mallocs \in Seq(Entry) /\ "NULL" \in Entry  BY DEF TablesOK, Entry
<1>2. CASE id = NoId
  BY <1>1, <1>2 DEF Clear
<1>3. CASE id # NoId
  <2>1. id + 1 \in 1..Len(mallocs)
    BY <1>3 DEF TablesOK, IdsAreIndices, IdOrNone
  <2>2. mallocs' = [mallocs EXCEPT ![id + 1] = "NULL"]  BY <1>3 DEF Clear
  <2> QED  BY <1>1, <2>1, <2>2, ExceptSeq
<1> QED  BY <1>2, <1>3

\* The number that a free looks up.
LEMMA FreedIds ==
  ASSUME LoopOK, TablesOK
  PROVE  /\ FreeVar => LET id == malloc_vars[Previous.ptr.name]
                       IN  id \in IdOrNone /\ id < malloc_id /\ Clear(id)
         /\ FreeField =>
              LET id == malloc_structs[Previous.ptr.name][Previous.ptr.idx]
              IN  id \in IdOrNone /\ id < malloc_id /\ Clear(id)
<1>1. FreeVar \/ FreeField => Previous.ptr \in Operand
  BY Reading DEF FreeVar, FreeField, Frees, Calls, Instr
<1>2. FreeVar \/ FreeField =>
        Previous.ptr.name \in Name /\ Previous.ptr.idx \in Index
  BY <1>1, KeyIsName
<1> QED  BY <1>2 DEF FreeVar, FreeField, TablesOK, IdsAreIndices

LEMMA FreeKeepsTables ==
  ASSUME LoopOK, TablesOK, FreeVar \/ FreeField
  PROVE  TablesOK'
<1>1. mallocs' \in Seq(Entry) /\ Len(mallocs') = Len(mallocs)
  BY FreedIds, ClearOne
<1>2. UNCHANGED <<malloc_id, malloc_vars, malloc_structs>>
  BY DEF FreeVar, FreeField
<1> QED  BY <1>1, <1>2 DEF TablesOK, IdsAreIndices

-----------------------------------------------------------------------------
LEMMA InitIInv == Init => IInv
<1> SUFFICES ASSUME Init PROVE IInv  OBVIOUS
<1>1. PICK p \in Programs : code = p.code /\ Start(p.path)  BY DEF Init
<1>2. p.code \in [Block -> Seq(Instr)] /\ p.path \in Seq(Block) /\ p.path # <<>>
  BY ProgramsAssumption DEF ProgramType
<1>3. LoopOK
  <2>1. Len(p.path) \in Nat \ {0}  BY <1>2
  <2> QED  BY <1>1, <1>2, <2>1 DEF LoopOK, Start
<1>4. <<>> \in Seq(Entry) /\ Len(<<>>) = 0  OBVIOUS
<1>5. NoId \in IdOrNone /\ NoId < 0  BY DEF NoId, IdOrNone
<1>6. TablesOK
  BY <1>1, <1>4, <1>5 DEF TablesOK, IdsAreIndices, Start, NoVars, NoStructs
<1> QED  BY <1>3, <1>6 DEF IInv

LEMMA StepIInv == IInv /\ [Next]_vars => IInv'
<1> SUFFICES ASSUME IInv, [Next]_vars PROVE IInv'  OBVIOUS
<1> USE DEF IInv
<1>1. CASE TrackAlias
  <2>1. LoopOK'  BY <1>1, MoveKeepsLoop DEF TrackAlias, Loads
  <2> QED  BY <1>1, <2>1, AliasKeepsTables
<1>2. CASE CopyStruct
  <2>1. LoopOK'  BY <1>2, MoveKeepsLoop DEF CopyStruct, Calls
  <2> QED  BY <1>2, <2>1, CopyKeepsTables
<1>3. CASE TrackVar
  <2>1. LoopOK'  BY <1>3, MoveKeepsLoop DEF TrackVar, Allocates, Calls
  <2> QED  BY <1>3, <2>1, VarKeepsTables
<1>4. CASE TrackField
  <2>1. LoopOK'  BY <1>4, ExpandKeepsLoop DEF TrackField, Allocates, Calls
  <2> QED  BY <1>4, <2>1, FieldKeepsTables
<1>5. CASE FreeVar
  <2>1. LoopOK'  BY <1>5, MoveKeepsLoop DEF FreeVar, Frees, Calls
  <2> QED  BY <1>5, <2>1, FreeKeepsTables
<1>6. CASE FreeField
  <2>1. LoopOK'  BY <1>6, ExpandKeepsLoop DEF FreeField, Frees, Calls
  <2> QED  BY <1>6, <2>1, FreeKeepsTables
<1>7. CASE ExpandCast
  <2>1. InBlock /\ ExpandHere /\ UNCHANGED tables
    BY <1>7 DEF ExpandCast, Allocates, Frees, Calls
  <2> QED  BY <2>1, ExpandKeepsLoop, SameTables
<1>8. CASE Pass
  <2>1. InBlock /\ Move /\ Stay /\ UNCHANGED tables
    BY <1>8 DEF Pass, Loads, Calls
  <2> QED  BY <2>1, MoveKeepsLoop, SameTables
<1>9. CASE Crash
  <2>1. LoopOK' /\ UNCHANGED tables  BY <1>9 DEF Crash, LoopOK
  <2> QED  BY <2>1, SameTables
<1>10. CASE NextBlock
  <2>1. bb + 1 \in 1..Len(path) /\ 1 \in Nat \ {0}  BY <1>10 DEF NextBlock,
          LoopOK
  <2>2. LoopOK' /\ UNCHANGED tables  BY <1>10, <2>1 DEF NextBlock, LoopOK
  <2> QED  BY <2>2, SameTables
<1>11. CASE Finish
  <2>1. verdict' \in {"leak", "clean"}  BY <1>11 DEF Finish
  <2>2. LoopOK' /\ UNCHANGED tables  BY <1>11, <2>1 DEF Finish, LoopOK
  <2> QED  BY <2>2, SameTables
<1>12. CASE UNCHANGED vars
  <2>1. LoopOK' /\ UNCHANGED tables  BY <1>12 DEF vars, scanVars, tables, LoopOK
  <2> QED  BY <2>1, SameTables
<1> QED
  BY <1>1, <1>2, <1>3, <1>4, <1>5, <1>6, <1>7, <1>8, <1>9, <1>10, <1>11, <1>12
  DEF Next, Step

\* On every path of every program, calls and constant expressions of any kind
\* included, the scan's variables keep their types.
THEOREM TypeCorrect == Spec => []TypeOK
<1>1. IInv => TypeOK  BY DEF IInv, LoopOK, TablesOK, Entry, TypeOK
<1> QED  BY <1>1, InitIInv, StepIInv, PTL DEF Spec

\* mallocs[id] is never out of range: every number in a table of names or
\* fields, through aliases and copies, is that of a call pushed.
THEOREM IdsInRange == Spec => []IdsAreIndices
<1>1. IInv => IdsAreIndices  BY DEF IInv, TablesOK
<1> QED  BY <1>1, InitIInv, StepIInv, PTL DEF Spec

-----------------------------------------------------------------------------
\* The count of released entries follows the count of calls of free.
CInv == frees \in Nat /\ ClearedAtMostFrees

LEMMA ClearedFinite ==
  ASSUME TablesOK
  PROVE  /\ Cleared \subseteq 1..Len(mallocs) /\ IsFiniteSet(Cleared)
         /\ Cardinality(Cleared) \in Nat /\ Len(mallocs) \in Nat
<1>1. Len(mallocs) \in Nat  BY DEF TablesOK
<1>2. Cleared \subseteq 1..Len(mallocs)  BY DEF Cleared
<1>3. IsFiniteSet(1..Len(mallocs))  BY <1>1, FS_Interval
<1> QED  BY <1>1, <1>2, <1>3, FS_Subset, FS_CardinalityType

\* A step that clears nothing, and the one entry a call of free clears.
LEMMA NothingCleared ==
  ASSUME TablesOK, Cleared' \subseteq Cleared
  PROVE  Cardinality(Cleared') <= Cardinality(Cleared)
BY ClearedFinite, FS_Subset

LEMMA OneCleared ==
  ASSUME TablesOK, FreeVar \/ FreeField, LoopOK
  PROVE  Cardinality(Cleared') <= Cardinality(Cleared) + 1
<1>1. PICK id \in IdOrNone : id < malloc_id /\ Clear(id)
  BY FreedIds
<1>2. /\ Len(mallocs') = Len(mallocs)
      /\ \A k \in 1..Len(mallocs) : k # id + 1 => mallocs'[k] = mallocs[k]
  BY <1>1, ClearOne
<1>3. Cleared' \subseteq Cleared \cup {id + 1}
  BY <1>2 DEF Cleared
<1>4. /\ IsFiniteSet(Cleared \cup {id + 1})
      /\ Cardinality(Cleared \cup {id + 1}) <= Cardinality(Cleared) + 1
  <2>1. IsFiniteSet(Cleared) /\ Cardinality(Cleared) \in Nat  BY ClearedFinite
  <2>2. /\ IsFiniteSet(Cleared \cup {id + 1})
        /\ Cardinality(Cleared \cup {id + 1}) =
             IF id + 1 \in Cleared THEN Cardinality(Cleared)
                                   ELSE Cardinality(Cleared) + 1
    BY <2>1, FS_AddElement
  <2> QED  BY <2>1, <2>2
<1>5. Cardinality(Cleared') <= Cardinality(Cleared \cup {id + 1})
  BY <1>3, <1>4, FS_Subset
<1>6. Cardinality(Cleared') \in Nat /\ Cardinality(Cleared) \in Nat
  <2>1. IsFiniteSet(Cleared')  BY <1>3, <1>4, FS_Subset
  <2> QED  BY <2>1, ClearedFinite, FS_CardinalityType
<1>7. Cardinality(Cleared \cup {id + 1}) \in Nat
  BY <1>4, FS_CardinalityType
<1> QED  BY <1>4, <1>5, <1>6, <1>7

LEMMA StepCInv == IInv /\ IInv' /\ CInv /\ [Next]_vars => CInv'
<1> SUFFICES ASSUME IInv, IInv', CInv, [Next]_vars PROVE CInv'  OBVIOUS
<1>1. TablesOK /\ LoopOK /\ TablesOK'  BY DEF IInv
<1>2. Cardinality(Cleared) \in Nat  BY <1>1, ClearedFinite
<1>3. frees \in Nat /\ Cardinality(Cleared) <= frees
  BY DEF CInv, ClearedAtMostFrees
<1>4. frees' \in Nat /\ frees' >= frees
  <2>1. frees' = frees \/ frees' = frees + 1
    BY DEF Next, vars, heap, Execute, DoLoad, DoStore, DoMalloc, DoFree,
           DoMemcpy, DoNothing
  <2> QED  BY <1>3, <2>1
<1>5. Cardinality(Cleared') \in Nat
  <2>1. IsFiniteSet(Cleared')
    <3>1. Len(mallocs') \in Nat  BY <1>1 DEF TablesOK
    <3>2. Cleared' \subseteq 1..Len(mallocs')  BY DEF Cleared
    <3>3. IsFiniteSet(1..Len(mallocs'))  BY <3>1, FS_Interval
    <3> QED  BY <3>2, <3>3, FS_Subset
  <2> QED  BY <2>1, FS_CardinalityType
<1>6. CASE FreeVar \/ FreeField
  <2>1. Inst.op = "call" /\ Inst.callee = "free"
    BY <1>6 DEF FreeVar, FreeField, Frees, Calls
  <2>2. Execute
    BY <1>6, <2>1 DEF Next, vars, scanVars, Crash, NextBlock, Finish, FreeVar,
      FreeField, Move, ExpandHere, Frees, Calls, InBlock, IInv, LoopOK
  <2>3. frees' = frees + 1
    BY <2>1, <2>2 DEF Execute, DoLoad, DoStore, DoMalloc, DoFree, DoMemcpy,
      DoNothing
  <2>4. Cardinality(Cleared') <= Cardinality(Cleared) + 1
    BY <1>1, <1>6, OneCleared
  <2> QED  BY <1>2, <1>3, <1>4, <1>5, <2>3, <2>4 DEF CInv, ClearedAtMostFrees
<1>7. CASE TrackVar \/ TrackField
  <2>1. mallocs' = Append(mallocs, "call")  BY <1>7 DEF TrackVar, TrackField,
          NewId
  <2>2. mallocs \in Seq(Entry) /\ "call" \in Entry  BY <1>1 DEF TablesOK, Entry
  <2>3. /\ Len(mallocs) \in Nat /\ Len(mallocs') = Len(mallocs) + 1
        /\ \A k \in 1..Len(mallocs) : mallocs'[k] = mallocs[k]
        /\ mallocs'[Len(mallocs) + 1] = "call"
    BY <2>1, <2>2, AppendProperties
  <2>4. ASSUME NEW k \in Cleared'
        PROVE  k \in Cleared
    <3>1. k \in 1..Len(mallocs') /\ mallocs'[k] = "NULL"  BY DEF Cleared
    <3>2. k # Len(mallocs) + 1  BY <2>3, <3>1
    <3>3. k \in 1..Len(mallocs)  BY <2>3, <3>1, <3>2
    <3> QED  BY <2>3, <3>1, <3>3 DEF Cleared
  <2>5. Cardinality(Cleared') <= Cardinality(Cleared)
    BY <1>1, <2>4, NothingCleared
  <2> QED  BY <1>2, <1>3, <1>4, <1>5, <2>5 DEF CInv, ClearedAtMostFrees
<1>8. CASE UNCHANGED mallocs
  <2>1. Cleared' = Cleared  BY <1>8 DEF Cleared
  <2> QED  BY <1>2, <1>3, <1>4, <2>1 DEF CInv, ClearedAtMostFrees
<1>9. \/ FreeVar \/ FreeField \/ TrackVar \/ TrackField \/ UNCHANGED mallocs
  BY DEF Next, Step, TrackAlias, CopyStruct, ExpandCast, Pass, Crash,
         NextBlock, Finish, vars, scanVars, tables
<1> QED  BY <1>6, <1>7, <1>8, <1>9

LEMMA InitCInv == Init => CInv
<1> SUFFICES ASSUME Init PROVE CInv  OBVIOUS
<1>1. mallocs = <<>> /\ frees = 0  BY DEF Init, Start
<1>2. Cleared = {}  BY <1>1 DEF Cleared
<1> QED  BY <1>1, <1>2, FS_EmptySet DEF CInv, ClearedAtMostFrees

\* However names come to share numbers, a path on which free is called fewer
\* times than memory was tracked ends with an entry left.
THEOREM FreesBoundCleared == Spec => []ClearedAtMostFrees
<1>1. CInv => ClearedAtMostFrees  BY DEF CInv
<1> QED  BY <1>1, InitIInv, StepIInv, InitCInv, StepCInv, PTL DEF Spec

-----------------------------------------------------------------------------
\* Where a position goes when an instruction is inserted at position p.
Past(p, n) == IF n < p THEN n ELSE n + 1

LEMMA PastKeepsCount ==
  ASSUME NEW p \in Int, NEW A \in SUBSET Int, IsFiniteSet(A), NEW B,
         B = {Past(p, n) : n \in A}
  PROVE  Cardinality(B) = Cardinality(A)
<1> DEFINE g == [n \in A |-> Past(p, n)]
<1>1. g \in [A -> B]  OBVIOUS
<1>2. ASSUME NEW m \in A, NEW n \in A, g[m] = g[n] PROVE m = n
  <2>1. m \in Int /\ n \in Int  OBVIOUS
  <2> QED  BY <1>2, <2>1 DEF Past
<1>3. \A x \in B : \E n \in A : g[n] = x  OBVIOUS
<1>4. g \in Bijection(A, B)  BY <1>1, <1>2, <1>3, Fun_IsBij
<1>5. ExistsBijection(A, B)  BY <1>4 DEF ExistsBijection
<1> QED  BY <1>5, FS_Bijection

\* What InsertAt does, position by position.
LEMMA Insertion ==
  ASSUME LoopOK, InBlock, ExpandHere, NEW new,
         new = InsertAt(Body, i, Expanded(Inst))
  PROVE  /\ new \in Seq(Instr) /\ Len(new) = Len(Body) + 1
         /\ new[i].op = "address"
         /\ \A n \in 1..Len(Body) : new[Past(i, n)] = Body[n]
<1> DEFINE in == Expanded(Inst)
           lo == SubSeq(Body, 1, i - 1)
           hi == SubSeq(Body, i, Len(Body))
<1>1. /\ Body \in Seq(Instr) /\ Len(Body) \in Nat
      /\ i \in 1..Len(Body) /\ Inst \in Instr
  BY Reading
<1>2. in \in Instr /\ in.op = "address"  BY <1>1 DEF Expanded, Instr
<1>3. \A k \in 1..Len(Body) : Body[k] \in Instr  BY <1>1, ElementOfSeq
<1>4. new = lo \o <<in>> \o hi  BY DEF InsertAt
<1> HIDE DEF in
<1>5. /\ lo \in Seq(Instr) /\ Len(lo) = i - 1
      /\ \A k \in 1..i - 1 : lo[k] = Body[k]
  <2>1. \A k \in 1..i - 1 : Body[k] \in Instr  BY <1>1, <1>3
  <2> QED  BY <1>1, <2>1, SubSeqProperties
<1>6. /\ hi \in Seq(Instr) /\ Len(hi) = Len(Body) - i + 1
      /\ \A k \in 1..Len(Body) - i + 1 : hi[k] = Body[i + k - 1]
  <2>1. \A k \in i..Len(Body) : Body[k] \in Instr  BY <1>1, <1>3
  <2> QED  BY <1>1, <2>1, SubSeqProperties
<1> HIDE DEF lo, hi
<1>7. <<in>> \in Seq(Instr) /\ Len(<<in>>) = 1 /\ <<in>>[1] = in  BY <1>2
<1>8. /\ lo \o <<in>> \in Seq(Instr) /\ Len(lo \o <<in>>) = i
      /\ \A k \in 1..i : (lo \o <<in>>)[k] = IF k <= i - 1 THEN lo[k] ELSE in
  <2>1. /\ lo \o <<in>> \in Seq(Instr)
             /\ Len(lo \o <<in>>) = Len(lo) + Len(<<in>>)
        /\ \A k \in 1..Len(lo) + Len(<<in>>) : (lo \o <<in>>)[k] =
             IF k <= Len(lo) THEN lo[k] ELSE <<in>>[k - Len(lo)]
    BY <1>5, <1>7, ConcatProperties
  <2> QED  BY <1>1, <1>5, <1>7, <2>1
<1> DEFINE up == lo \o <<in>>
<1> HIDE DEF up
<1>9. /\ new \in Seq(Instr) /\ Len(new) = Len(Body) + 1
      /\ \A k \in 1..Len(Body) + 1 :
           new[k] = IF k <= i THEN up[k] ELSE hi[k - i]
  <2>0. up \in Seq(Instr) /\ hi \in Seq(Instr)
    BY <1>6, <1>8 DEF up
  <2> HIDE DEF hi
  <2>1. /\ up \o hi \in Seq(Instr) /\ Len(up \o hi) = Len(up) + Len(hi)
        /\ \A k \in 1..Len(up) + Len(hi) : (up \o hi)[k] =
             IF k <= Len(up) THEN up[k] ELSE hi[k - Len(up)]
    BY <2>0, ConcatProperties
  <2>2. new = up \o hi  BY <1>4 DEF up
  <2>3. Len(up) = i  BY <1>8 DEF up
  <2>4. Len(up) + Len(hi) = Len(Body) + 1  BY <1>1, <1>6, <2>3
  <2> QED  BY <2>1, <2>2, <2>3, <2>4
<1>10. new[i] = in  BY <1>1, <1>8, <1>9 DEF up
<1>11. ASSUME NEW n \in 1..Len(Body) PROVE new[Past(i, n)] = Body[n]
  <2>1. CASE n < i
    <3>1. new[n] = up[n] /\ up[n] = lo[n] /\ lo[n] = Body[n]
      BY <1>1, <1>5, <1>8, <1>9, <2>1 DEF up
    <3> QED  BY <2>1, <3>1 DEF Past
  <2>2. CASE ~(n < i)
    <3>1. new[n + 1] = hi[n + 1 - i]  BY <1>1, <1>9, <2>2
    <3>2. n + 1 - i \in 1..Len(Body) - i + 1 /\ i + (n + 1 - i) - 1 = n
      BY <1>1, <2>2
    <3>3. hi[n + 1 - i] = Body[n]  BY <1>6, <3>2
    <3> QED  BY <2>2, <3>1, <3>3 DEF Past
  <2> QED  BY <2>1, <2>2
<1> QED  BY <1>2, <1>9, <1>10, <1>11

LEMMA ExpandKeepsProgram ==
  ASSUME LoopOK, InBlock, ExpandHere, ProgramKept, source' = source
  PROVE  ProgramKept'
<1> DEFINE new == InsertAt(Body, i, Expanded(Inst))
<1>1. path[bb] \in Block /\ Len(Body) \in Nat /\ i \in 1..Len(Body)  BY Reading
<1>2. /\ new \in Seq(Instr) /\ Len(new) = Len(Body) + 1
      /\ new[i].op = "address"
      /\ \A n \in 1..Len(Body) : new[Past(i, n)] = Body[n]
  BY Insertion
<1>3. code' = [code EXCEPT ![path[bb]] = new]  BY DEF ExpandHere
<1> HIDE DEF new
<1>4. PICK c \in Block : c = path[bb]  BY <1>1
<1>5. code'[c] = new /\ code[c] = Body  BY <1>3, <1>4 DEF LoopOK, Body
<1> SUFFICES ASSUME NEW b \in Block
             PROVE  /\ Cardinality(Kept(b)') = Len(source[b])
                    /\ \A n \in Kept(b)' :
                         source[b][Cardinality(KeptTo(b, n)')] = code'[b][n]
  BY DEF ProgramKept, Kept, KeptTo
<1>6. CASE b # c
  <2>1. code'[b] = code[b]  BY <1>3, <1>4, <1>6 DEF LoopOK
  <2>2. Kept(b)' = Kept(b) /\ \A n : KeptTo(b, n)' = KeptTo(b, n)
    BY <2>1 DEF Kept, KeptTo
  <2> QED  BY <2>1, <2>2 DEF ProgramKept
<1>7. CASE b = c
  <2>1. Kept(c) \subseteq 1..Len(Body) /\ Kept(c) \in SUBSET Int
    BY <1>1, <1>5 DEF Kept
  <2>2. \A n \in 1..Len(Body) : Past(i, n) \in 1..Len(new)
    BY <1>1, <1>2 DEF Past
  <2>3. \A m \in 1..Len(new) : m = i \/ \E n \in 1..Len(Body) : m = Past(i, n)
    <3> SUFFICES ASSUME NEW m \in 1..Len(new), m # i
                 PROVE  \E n \in 1..Len(Body) : m = Past(i, n)
      OBVIOUS
    <3>1. CASE m < i
      <4>1. m \in 1..Len(Body) /\ m = Past(i, m)  BY <1>1, <1>2, <3>1 DEF Past
      <4> QED  BY <4>1
    <3>2. CASE m > i
      <4>1. m - 1 \in 1..Len(Body) /\ m = Past(i, m - 1)
        BY <1>1, <1>2, <3>2 DEF Past
      <4> QED  BY <4>1
    <3> QED  BY <1>1, <1>2, <3>1, <3>2
  <2>4. Kept(c)' = {Past(i, n) : n \in Kept(c)}
    <3>0. Kept(c)' = {n \in 1..Len(new) : new[n].op # "address"}
      BY <1>5 DEF Kept
    <3>1. \A m : m \in Kept(c)' <=> m \in 1..Len(new) /\ new[m].op # "address"
      BY <3>0
    <3>2. \A n : n \in Kept(c) <=> n \in 1..Len(Body) /\ Body[n].op # "address"
      BY <1>5 DEF Kept
    <3>3. ASSUME NEW m \in Kept(c)' PROVE \E n \in Kept(c) : m = Past(i, n)
      <4>1. m # i  BY <1>2, <3>1
      <4>2. PICK n \in 1..Len(Body) : m = Past(i, n)  BY <2>3, <3>1, <4>1
      <4>3. n \in Kept(c)  BY <1>2, <3>1, <3>2, <4>2
      <4> QED  BY <4>2, <4>3
    <3>4. ASSUME NEW n \in Kept(c) PROVE Past(i, n) \in Kept(c)'
      BY <1>2, <2>2, <3>1, <3>2
    <3> QED  BY <3>3, <3>4
  <2>5. IsFiniteSet(Kept(c))
    <3>1. IsFiniteSet(1..Len(Body))  BY <1>1, FS_Interval
    <3> QED  BY <2>1, <3>1, FS_Subset
  <2>6. Cardinality(Kept(c)') = Cardinality(Kept(c))
    BY <1>1, <2>1, <2>4, <2>5, PastKeepsCount
  <2>7. ASSUME NEW m \in Kept(c)'
        PROVE  source[c][Cardinality(KeptTo(c, m)')] = code'[c][m]
    <3>1. PICK n \in Kept(c) : m = Past(i, n)  BY <2>4
    <3>2. new[m] = Body[n]  BY <1>2, <2>1, <3>1
    <3>3. KeptTo(c, m)' = {x \in Kept(c)' : x <= m}  BY DEF KeptTo
    <3>4. KeptTo(c, n) = {x \in Kept(c) : x <= n}  BY DEF KeptTo
    <3>5. \A x \in Kept(c) : Past(i, x) <= m <=> x <= n
      BY <1>1, <2>1, <3>1 DEF Past
    <3>6. KeptTo(c, m)' = {Past(i, x) : x \in KeptTo(c, n)}
      BY <2>4, <3>3, <3>4, <3>5
    <3>7. KeptTo(c, n) \in SUBSET Int /\ IsFiniteSet(KeptTo(c, n))
      BY <2>1, <2>5, <3>4, FS_Subset
    <3>8. Cardinality(KeptTo(c, m)') = Cardinality(KeptTo(c, n))
      BY <1>1, <3>6, <3>7, PastKeepsCount
    <3>9. source[c][Cardinality(KeptTo(c, n))] = code[c][n]  BY <3>1 DEF ProgramKept
    <3> QED  BY <1>5, <3>2, <3>8, <3>9
  <2>8. Cardinality(Kept(c)) = Len(source[c])  BY DEF ProgramKept
  <2> QED  BY <1>7, <2>6, <2>7, <2>8
<1> QED  BY <1>6, <1>7

LEMMA InitKept == Init => ProgramKept
<1> SUFFICES ASSUME Init PROVE ProgramKept  OBVIOUS
<1>1. PICK p \in Programs : code = p.code  BY DEF Init
<1>2. /\ code \in [Block -> Seq(Instr)] /\ source = code
      /\ \A b \in Block : \A n \in 1..Len(code[b]) : code[b][n].op # "address"
  BY <1>1, ProgramsAssumption DEF ProgramType, Init
<1> SUFFICES ASSUME NEW b \in Block
             PROVE  /\ Cardinality(Kept(b)) = Len(source[b])
                    /\ \A n \in Kept(b) :
                         source[b][Cardinality(KeptTo(b, n))] = code[b][n]
  BY DEF ProgramKept
<1>3. Len(code[b]) \in Nat  BY <1>2
<1>4. Kept(b) = 1..Len(code[b])  BY <1>2 DEF Kept
<1>5. Cardinality(Kept(b)) = Len(code[b])
  BY <1>3, <1>4, FS_Interval
<1>6. ASSUME NEW n \in Kept(b) PROVE Cardinality(KeptTo(b, n)) = n
  <2>1. n \in Nat /\ KeptTo(b, n) = 1..n  BY <1>3, <1>4 DEF KeptTo
  <2> QED  BY <2>1, FS_Interval
<1> QED  BY <1>2, <1>5, <1>6

LEMMA SameCode == ProgramKept /\ UNCHANGED <<code, source>> => ProgramKept'
<1> SUFFICES ASSUME ProgramKept, UNCHANGED <<code, source>> PROVE ProgramKept'
  OBVIOUS
<1>1. \A b : Kept(b)' = Kept(b)  BY DEF Kept
<1>2. \A b, n : KeptTo(b, n)' = KeptTo(b, n)  BY <1>1 DEF KeptTo
<1> QED  BY <1>1, <1>2 DEF ProgramKept

LEMMA StepKept == IInv /\ ProgramKept /\ [Next]_vars => ProgramKept'
<1> SUFFICES ASSUME IInv, ProgramKept, [Next]_vars PROVE ProgramKept'  OBVIOUS
<1>1. source' = source
  BY DEF Next, vars, heap, Execute, DoLoad, DoStore, DoMalloc, DoFree, DoMemcpy,
         DoNothing
<1>2. CASE InBlock /\ ExpandHere
  BY <1>1, <1>2, ExpandKeepsProgram DEF IInv
<1>3. CASE UNCHANGED code
  BY <1>1, <1>3, SameCode
<1>4. (InBlock /\ ExpandHere) \/ UNCHANGED code
  BY DEF Next, Step, TrackAlias, CopyStruct, TrackVar, TrackField, FreeVar,
         FreeField, ExpandCast, Pass, Allocates, Frees, Calls, Stay, Crash,
         NextBlock, Finish, vars, scanVars
<1> QED  BY <1>2, <1>3, <1>4

\* The scan inserts instructions into the block it iterates over, and reads
\* on: through any number of insertions, and through blocks it comes back to,
\* the program's own instructions are all there, unchanged and in their order.
THEOREM ProgramSurvives == Spec => []ProgramKept
BY InitIInv, StepIInv, InitKept, StepKept, PTL DEF Spec

-----------------------------------------------------------------------------
(***************************************************************************)
(* The verdict.  On a disciplined path the scan is at the instruction that *)
(* the program is at, the numbers are the objects, and each entry of the   *)
(* tables has the number of the object its memory points to.               *)
(***************************************************************************)
\* How far the program is in its block: the scan is ahead by what it inserted.
Ahead == Len(code[path[bb]]) - Len(source[path[bb]])
Cur   == <<bb, i - Ahead>>

\* From the previous instruction on, the block is as the program has it, and
\* so are the blocks to come.
Aligned ==
  LET b == path[bb]
      j == i - Ahead
  IN  /\ Ahead \in Nat /\ j \in 1..Len(source[b]) + 1
      /\ \A n \in 1..Len(source[b]) : n >= j =>
           code[b][n + Ahead] = source[b][n]
      /\ j > 1 => code[b][i - 1] = source[b][j - 1]
      /\ j = 1 => i = 1
      /\ \A k \in bb + 1..Len(path) : code[path[k]] = source[path[k]]

SourceOK == source \in [Block -> Seq(Instr)]

LEMMA PositionsAre ==
  ASSUME LoopOK, SourceOK, NEW b, NEW n
  PROVE  <<b, n>> \in Positions(prog) <=>
           b \in 1..Len(path) /\ n \in 1..Len(source[path[b]])
<1>1. <<b, n>> \in Positions(prog) <=>
        \E k \in 1..Len(path) : <<b, n>> \in {k} \X (1..Len(source[path[k]]))
  BY Zenon DEF Positions, prog
<1>2. ASSUME NEW k PROVE <<b, n>> \in {k} \X (1..Len(source[path[k]])) <=>
                           b = k /\ n \in 1..Len(source[path[k]])
  OBVIOUS
<1> QED  BY <1>1, <1>2

LEMMA PositionTypes ==
  ASSUME LoopOK, SourceOK, NEW s \in Positions(prog)
  PROVE  /\ s = <<s[1], s[2]>> /\ s[1] \in 1..Len(path)
         /\ s[2] \in 1..Len(source[path[s[1]]]) /\ Line(prog, s) \in Instr
         /\ path[s[1]] \in Block
<1>1. PICK k \in 1..Len(path) : s \in {k} \X (1..Len(source[path[k]]))
  BY DEF Positions, prog
<1>2. s = <<s[1], s[2]>> /\ s[1] = k /\ s[2] \in 1..Len(source[path[k]])
  BY <1>1
<1>3. path[k] \in Block
  BY ElementOfSeq DEF LoopOK
<1>4. source[path[k]] \in Seq(Instr)
  BY <1>3 DEF SourceOK
<1>5. source[path[k]][s[2]] \in Instr
  BY <1>2, <1>4, ElementOfSeq
<1> QED  BY <1>2, <1>3, <1>5 DEF Line, prog

\* The instruction read is the one the program is at, and its neighbours are.
LEMMA Here ==
  ASSUME LoopOK, SourceOK, Aligned, InBlock
  PROVE  /\ Cur \in Positions(prog) /\ Inst = Line(prog, Cur)
         /\ i < Len(Body) <=> After(Cur) \in Positions(prog)
         /\ i < Len(Body) => Following = Line(prog, After(Cur))
         /\ Before(Cur) \in Positions(prog) => HasPrevious
              /\ Previous = Line(prog, Before(Cur))
<1> DEFINE b == path[bb]
           j == i - Ahead
           N == Len(source[b])
<1>1. b \in Block /\ Len(Body) \in Nat /\ i \in 1..Len(Body)
        /\ bb \in 1..Len(path)
  BY Reading DEF LoopOK
<1>2. N \in Nat /\ Ahead = Len(Body) - N /\ Ahead \in Nat
  BY <1>1 DEF SourceOK, Ahead, Body, Aligned
<1>3. /\ j \in 1..N + 1
      /\ \A n \in 1..N : n >= j => Body[n + Ahead] = source[b][n]
      /\ j > 1 => Body[i - 1] = source[b][j - 1]
  BY DEF Aligned, Body
<1> HIDE DEF N
<1>4. j \in 1..N /\ j + Ahead = i
  BY <1>1, <1>2, <1>3
<1>5. Cur = <<bb, j>> /\ After(Cur) = <<bb, j + 1>>
        /\ Before(Cur) = <<bb, j - 1>>
  BY DEF Cur, After, Before
<1>6. Body[j + Ahead] = source[b][j]
  BY <1>3, <1>4
<1>7. Cur \in Positions(prog) /\ Inst = Line(prog, Cur)
  BY <1>1, <1>4, <1>5, <1>6, PositionsAre DEF Inst, Line, N, prog
<1>8. i < Len(Body) <=> j < N
  BY <1>1, <1>2, <1>4
<1>9. i < Len(Body) <=> After(Cur) \in Positions(prog)
  <2>1. j < N <=> j + 1 \in 1..N
    BY <1>2, <1>4
  <2> QED  BY <1>1, <1>5, <1>8, <2>1, PositionsAre DEF N
<1>10. ASSUME i < Len(Body) PROVE Following = Line(prog, After(Cur))
  <2>1. j + 1 \in 1..N /\ (j + 1) + Ahead = i + 1
    BY <1>1, <1>2, <1>4, <1>8, <1>10
  <2>2. Body[(j + 1) + Ahead] = source[b][j + 1]
    BY <1>3, <1>4, <2>1
  <2> QED  BY <1>5, <2>1, <2>2 DEF Following, Line, prog
<1>11. ASSUME Before(Cur) \in Positions(prog) PROVE HasPrevious
                /\ Previous = Line(prog, Before(Cur))
  <2>1. j - 1 \in 1..N
    BY <1>1, <1>5, <1>11, PositionsAre DEF N
  <2>2. i > 1 /\ j > 1
    BY <1>2, <1>4, <2>1
  <2> QED  BY <1>3, <1>5, <2>2 DEF HasPrevious, Previous, Line, prog
<1> QED  BY <1>7, <1>9, <1>10, <1>11

LEMMA MoveAligned ==
  ASSUME LoopOK, SourceOK, Aligned, InBlock, Move, Stay, UNCHANGED source
  PROVE  Aligned' /\ Cur' = After(Cur)
<1> DEFINE b == path[bb]
           j == i - Ahead
           N == Len(source[b])
           A == Ahead
<1>1. b \in Block /\ Len(Body) \in Nat /\ i \in 1..Len(Body)
  BY Reading
<1>2. N \in Nat /\ A = Len(Body) - N /\ A \in Nat
  BY <1>1 DEF SourceOK, Ahead, Body, Aligned
<1>3. /\ j \in 1..N + 1
      /\ \A n \in 1..N : n >= j => code[b][n + A] = source[b][n]
      /\ \A k \in bb + 1..Len(path) : code[path[k]] = source[path[k]]
  BY DEF Aligned
<1>4. /\ i' = i + 1 /\ UNCHANGED <<code, path, bb, verdict>> /\ Ahead' = A
  BY DEF Move, Stay, Ahead
<1> HIDE DEF N, A
<1>5. j \in 1..N /\ j + A = i /\ i' - A = j + 1
  BY <1>1, <1>2, <1>3, <1>4 DEF A
<1>6. code[b][i] = source[b][j]
  BY <1>3, <1>5
<1>7. Cur' = After(Cur)
  BY <1>4, <1>5 DEF Cur, After, A
<1>8. /\ j + 1 \in 1..N + 1 /\ j + 1 > 1 /\ (j + 1) - 1 = j /\ i' - 1 = i
      /\ \A n \in 1..N : n >= j + 1 => n >= j
  BY <1>1, <1>2, <1>4, <1>5
<1>9. /\ \A n \in 1..N : n >= j + 1 => code[b][n + A] = source[b][n]
      /\ code[b][i' - 1] = source[b][(j + 1) - 1]
      /\ j + 1 # 1
  BY <1>3, <1>5, <1>6, <1>8
<1>10. Aligned'
  BY <1>2, <1>3, <1>4, <1>5, <1>8, <1>9 DEF Aligned, N
<1> QED  BY <1>7, <1>10

LEMMA ExpandAligned ==
  ASSUME LoopOK, SourceOK, Aligned, NoBlockTwice(prog), InBlock, ExpandHere,
         UNCHANGED source
  PROVE  Aligned' /\ Cur' = After(Cur)
<1> DEFINE b == path[bb]
           j == i - Ahead
           N == Len(source[b])
           A == Ahead
           new == InsertAt(Body, i, Expanded(Inst))
<1>1. /\ b \in Block /\ Len(Body) \in Nat /\ i \in 1..Len(Body)
      /\ bb \in 1..Len(path) /\ Len(path) \in Nat
  BY Reading DEF LoopOK
<1>2. N \in Nat /\ A = Len(Body) - N /\ A \in Nat
  BY <1>1 DEF SourceOK, Ahead, Body, Aligned
<1>3. /\ j \in 1..N + 1
      /\ \A n \in 1..N : n >= j => Body[n + A] = source[b][n]
      /\ \A k \in bb + 1..Len(path) : code[path[k]] = source[path[k]]
  BY DEF Aligned, Body
<1>4. /\ i' = i + 2 /\ UNCHANGED <<path, bb, verdict>>
      /\ code' = [code EXCEPT ![b] = new]
  BY DEF ExpandHere
<1>5. /\ new \in Seq(Instr) /\ Len(new) = Len(Body) + 1
      /\ \A n \in 1..Len(Body) : new[Past(i, n)] = Body[n]
  BY Insertion
<1> HIDE DEF N, A, new
<1>6. j \in 1..N /\ j + A = i /\ i' - (A + 1) = j + 1
  BY <1>1, <1>2, <1>3, <1>4 DEF A
<1>7. code'[b] = new /\ \A c \in Block : c # b => code'[c] = code[c]
  BY <1>1, <1>4 DEF LoopOK
<1>8. Ahead' = A + 1
  BY <1>1, <1>2, <1>4, <1>5, <1>7 DEF Ahead, A, N
<1>9. Cur' = After(Cur)
  BY <1>4, <1>6, <1>8 DEF Cur, After, A
<1>10. ASSUME NEW n \in 1..N, n >= j
       PROVE  new[n + A + 1] = source[b][n]
  <2>1. n + A \in 1..Len(Body) /\ ~(n + A < i)
    BY <1>1, <1>2, <1>6, <1>10
  <2>2. new[(n + A) + 1] = Body[n + A]
    BY <1>5, <2>1 DEF Past
  <2>3. Body[n + A] = source[b][n]
    BY <1>3, <1>10
  <2>4. (n + A) + 1 = n + A + 1
    BY <1>2
  <2> QED  BY <2>2, <2>3, <2>4
<1>11. ASSUME NEW n \in 1..N, n >= j + 1
       PROVE  code'[b][n + (A + 1)] = source[b][n]
  <2>1. n >= j /\ n + (A + 1) = n + A + 1
    BY <1>2, <1>6, <1>11
  <2> QED  BY <1>7, <1>10, <2>1
<1>12. code'[b][i' - 1] = source[b][(j + 1) - 1]
  <2>1. i' - 1 = j + A + 1 /\ (j + 1) - 1 = j
    BY <1>2, <1>4, <1>6
  <2> QED  BY <1>6, <1>7, <1>10, <2>1
<1>13. ASSUME NEW k \in bb + 1..Len(path) PROVE code'[path[k]] = source[path[k]]
  <2>1. k \in 1..Len(path) /\ k # bb
    BY <1>1
  <2>2. path[k] # b /\ path[k] \in Block
    BY <1>1, <2>1, ElementOfSeq DEF NoBlockTwice, LoopOK, prog
  <2> QED  BY <1>3, <1>7, <2>2
<1>14. A + 1 \in Nat /\ j + 1 \in 1..N + 1 /\ j + 1 # 1
  BY <1>2, <1>6
<1>15. Aligned'
  BY <1>4, <1>6, <1>8, <1>11, <1>12, <1>13, <1>14 DEF Aligned, N
<1> QED  BY <1>9, <1>15

LEMMA NextBlockAligned ==
  ASSUME LoopOK, SourceOK, Aligned, NextBlock, UNCHANGED source
  PROVE  Aligned' /\ Cur' = <<bb + 1, 1>>
<1> DEFINE c == path[bb + 1]
<1>1. /\ bb \in 1..Len(path) /\ bb + 1 \in 1..Len(path) /\ Len(path) \in Nat
      /\ bb' = bb + 1 /\ i' = 1 /\ UNCHANGED <<code, path>>
  BY DEF LoopOK, NextBlock
<1>2. \A k \in bb + 1..Len(path) : code[path[k]] = source[path[k]]
  BY DEF Aligned
<1>3. code[c] = source[c]
  BY <1>1, <1>2
<1>4. c \in Block
  BY <1>1, ElementOfSeq DEF LoopOK
<1>5. Len(source[c]) \in Nat
  BY <1>4 DEF SourceOK
<1> HIDE DEF c
<1>6. path'[bb'] = c
  BY <1>1 DEF c
<1>7. Ahead' = 0
  BY <1>1, <1>3, <1>5, <1>6 DEF Ahead
<1>8. \A k \in bb' + 1..Len(path') : code'[path'[k]] = source'[path'[k]]
  BY <1>1, <1>2
<1>9. \A n \in 1..Len(source[c]) : n + 0 = n
  OBVIOUS
<1>10. i' - Ahead' = 1 /\ 1 \in 1..Len(source[c]) + 1
  BY <1>1, <1>5, <1>7
<1>11. Aligned'
  BY <1>1, <1>3, <1>6, <1>7, <1>8, <1>9, <1>10 DEF Aligned
<1> QED  BY <1>1, <1>10, <1>11 DEF Cur

\* A scan that stands still, or ends.
LEMMA StillAligned ==
  ASSUME Aligned, UNCHANGED <<code, path, bb, i, source>>
  PROVE  Aligned' /\ Cur' = Cur
BY DEF Aligned, Ahead, Cur

LEMMA InitAligned ==
  ASSUME Init
  PROVE  Aligned /\ SourceOK /\ Cur = <<1, 1>>
<1>1. PICK p \in Programs : code = p.code /\ Start(p.path)
  BY DEF Init
<1>2. p.code \in [Block -> Seq(Instr)] /\ p.path \in Seq(Block) /\ p.path # <<>>
  BY ProgramsAssumption DEF ProgramType
<1>3. source = code /\ SourceOK /\ bb = 1 /\ i = 1 /\ path \in Seq(Block)
        /\ path # <<>>
  BY <1>1, <1>2 DEF Init, SourceOK, Start
<1>4. path[bb] \in Block
  BY <1>3, ElementOfSeq
<1>5. Len(source[path[bb]]) \in Nat
  BY <1>3, <1>4 DEF SourceOK
<1>6. Ahead = 0
  BY <1>3, <1>5 DEF Ahead
<1>7. i - Ahead = 1
  BY <1>3, <1>6
<1>8. \A n \in 1..Len(source[path[bb]]) : n + 0 = n
  OBVIOUS
<1>9. Aligned
  BY <1>3, <1>5, <1>6, <1>7, <1>8 DEF Aligned
<1> QED  BY <1>3, <1>7, <1>9 DEF Cur

-----------------------------------------------------------------------------
\* The store at s is about to change a; the program wrote a before s, or is
\* about to.
Pending(s, a) == Is(prog, s, "store") /\ At(Line(prog, s).ptr) = a
Earlier(t, s) == t[1] < s[1] \/ (t[1] = s[1] /\ t[2] < s[2])
Behind(s, a)  ==
  \E t \in Positions(prog) :
    /\ Writes(Line(prog, t), a)
    /\ Earlier(t, s) \/ (t = s /\ Is(prog, s, "store"))

\* The entry id is the number of the object that a points to, or will point to
\* after the store at s; the scan is one step ahead with it.
Linked(s, l, c, id, a) ==
  /\ id + 1 = IF Pending(s, a) THEN l ELSE c[a]
  /\ id # NoId => Behind(s, a)

\* At s, with last l, memory c and the tables mv and ms.
AllLinked(s, l, c, mv, ms) ==
  /\ \A o \in Operands(prog) : Named(o) => Linked(s, l, c, mv[o.name], At(o))
  /\ \A o \in Operands(prog) : InStruct(o) =>
       \A x \in Index : Linked(s, l, c, ms[o.name][x], <<o.place, x>>)
  /\ Is(prog, Before(s), "load") => l = c[At(Line(prog, Before(s)).ptr)]

LEMMA AllLinkedNext ==
  ASSUME UNCHANGED <<path, source>>,
         NEW s, NEW l, NEW c, NEW mv, NEW ms
  PROVE  AllLinked(s, l, c, mv, ms)' <=> AllLinked(s, l, c, mv, ms)
<1>1. Positions(prog)' = Positions(prog)
  BY DEF Positions, prog
<1>2. \A t : Line(prog, t)' = Line(prog, t)
  BY DEF Line, prog
<1>3. \A t, op : Is(prog, t, op)' <=> Is(prog, t, op)
  BY <1>1, <1>2 DEF Is
<1>4. \A t, f : IsCall(prog, t, f)' <=> IsCall(prog, t, f)
  BY <1>2, <1>3 DEF IsCall
<1>5. Operands(prog)' = Operands(prog)
  BY <1>1, <1>2, <1>3, <1>4 DEF Operands
<1>6. \A a : (Pending(s, a)' <=> Pending(s, a))
        /\ (Behind(s, a)' <=> Behind(s, a))
  BY <1>1, <1>2, <1>3 DEF Pending, Behind
<1>7. \A id, a : Linked(s, l, c, id, a)' <=> Linked(s, l, c, id, a)
  BY <1>6 DEF Linked
<1>8. /\ Is(prog, Before(s), "load")' <=> Is(prog, Before(s), "load")
      /\ Line(prog, Before(s))' = Line(prog, Before(s))
  BY <1>2, <1>3 DEF Before
<1> QED  BY <1>5, <1>7, <1>8 DEF AllLinked

LEMMA SameDiscipline ==
  ASSUME UNCHANGED <<path, source>>
  PROVE  Disciplined(prog)' <=> Disciplined(prog)
<1>1. prog' = prog
  BY DEF prog
<1> QED  BY <1>1

\* The operands have their types, and which operand is one.
LEMMA OperandTypes ==
  ASSUME LoopOK, SourceOK
  PROVE  /\ \A o \in Operands(prog) : /\ o \in Operand /\ At(o) \in Address
                                /\ o.name \in Name /\ o.idx \in Index
                                     /\ o.place \in Place
         /\ \A s : Is(prog, s, "load") \/ Is(prog, s, "store") =>
              Line(prog, s).ptr \in Operands(prog)
         /\ \A s : IsCall(prog, s, "memcpy") =>
              Line(prog, s).ptr \in Operands(prog)
                /\ Line(prog, s).src \in Operands(prog)
<1>1. \A s \in Positions(prog) : Line(prog, s).ptr \in Operand
        /\ Line(prog, s).src \in Operand
  BY PositionTypes DEF Instr
<1>2. ASSUME NEW o \in Operands(prog) PROVE o \in Operand
  <2>1. CASE \E s \in Positions(prog) : o = Line(prog, s).ptr
    BY <1>1, <2>1
  <2>2. CASE \E s \in Positions(prog) : o \in {Line(prog, s).ptr, Line(prog, s).src}
    BY <1>1, <2>2
  <2> QED  BY <1>2, <2>1, <2>2 DEF Operands
<1>3. \A o \in Operand : /\ At(o) \in Address
                         /\ o.name \in Name /\ o.idx \in Index
                              /\ o.place \in Place
  BY DEF Operand, At, Address
<1>4. \A s : Is(prog, s, "load") \/ Is(prog, s, "store") =>
        Line(prog, s).ptr \in Operands(prog)
  BY DEF Operands, Is
<1>5. \A s : IsCall(prog, s, "memcpy") => Line(prog, s).ptr \in Operands(prog)
        /\ Line(prog, s).src \in Operands(prog)
  <2> SUFFICES ASSUME NEW s, IsCall(prog, s, "memcpy")
               PROVE  Line(prog, s).ptr \in Operands(prog)
                        /\ Line(prog, s).src \in Operands(prog)
    OBVIOUS
  <2>1. s \in {t \in Positions(prog) : IsCall(prog, t, "memcpy")}
    BY DEF IsCall, Is
  <2> QED  BY <2>1 DEF Operands
<1> QED  BY <1>2, <1>3, <1>4, <1>5

\* A named operand is a variable, and a field is in a struct.
LEMMA Kinds ==
  ASSUME NEW o
  PROVE  /\ Named(o) => o.kind = "plain" /\ Key(o) = o.name /\ ~InStruct(o)
         /\ IsField(o) => InStruct(o) /\ o.kind = "gep"
BY DEF Named, Key, InStruct, IsField

LEMMA Around ==
  ASSUME LoopOK, SourceOK, NEW s \in Positions(prog)
  PROVE  /\ s[1] \in Nat /\ s[2] \in Nat /\ Before(After(s)) = s
         /\ Earlier(s, After(s)) /\ s # After(s)
<1>1. s = <<s[1], s[2]>> /\ s[1] \in Nat /\ s[2] \in Nat
  <2>1. s = <<s[1], s[2]>> /\ s[1] \in 1..Len(path)
        /\ s[2] \in 1..Len(source[path[s[1]]])
    BY PositionTypes
  <2> QED  BY <2>1
<1>2. After(s) = <<s[1], s[2] + 1>> /\ (s[2] + 1) - 1 = s[2] /\ s[2] + 1 # s[2]
  BY <1>1 DEF After
<1>3. Before(After(s)) = <<s[1], (s[2] + 1) - 1>>
  BY <1>2 DEF Before
<1> QED  BY <1>1, <1>2, <1>3 DEF Earlier

LEMMA BehindGoesOn ==
  ASSUME LoopOK, SourceOK, NEW s \in Positions(prog), NEW a, Behind(s, a)
  PROVE  Behind(After(s), a)
<1>1. PICK t \in Positions(prog) :
        Writes(Line(prog, t), a) /\ (Earlier(t, s) \/ t = s)
  BY DEF Behind
<1>2. t[1] \in Nat /\ t[2] \in Nat /\ s[1] \in Nat /\ s[2] \in Nat
  BY Around
<1>3. Earlier(t, s) => Earlier(t, After(s))
  BY <1>2 DEF Earlier, After
<1>4. Earlier(t, After(s))
  BY <1>1, <1>3, Around
<1> QED  BY <1>1, <1>4 DEF Behind

\* What may come before a store.
LEMMA StoreComes ==
  ASSUME LoopOK, SourceOK, Disciplined(prog), NEW s \in Positions(prog),
         Is(prog, After(s), "store")
  PROVE  Is(prog, s, "load") \/ IsCall(prog, s, "malloc")
<1>1. After(s) \in Positions(prog)
  BY DEF Is
<1>2. Style(prog, After(s))
  BY <1>1 DEF Disciplined
<1>3. Before(After(s)) = s
  BY Around
<1> QED  BY <1>2, <1>3 DEF Style

\* What the next store writes was not written before, and has no number.
LEMMA Fresh ==
  ASSUME LoopOK, SourceOK, Disciplined(prog), NEW s \in Positions(prog),
         ~Is(prog, s, "store"),
         NEW a \in Address, Pending(After(s), a)
  PROVE  /\ \A l, c, id : Linked(s, l, c, id, a) => id = NoId
         /\ Behind(After(s), a)
<1> DEFINE t == After(s)
<1>1. t \in Positions(prog) /\ Writes(Line(prog, t), a) /\ Is(prog, t, "store")
  BY DEF Pending, Is, Writes
<1>2. ~Behind(s, a)
  <2> SUFFICES ASSUME Behind(s, a) PROVE FALSE
    OBVIOUS
  <2>1. PICK u \in Positions(prog) : Writes(Line(prog, u), a) /\ Earlier(u, s)
    BY DEF Behind
  <2>2. u = t
    BY <1>1, <2>1 DEF Disciplined, WrittenOnce
  <2>3. s[1] \in Nat /\ s[2] \in Nat
    BY Around
  <2> QED  BY <2>1, <2>2, <2>3 DEF Earlier, After
<1>3. Behind(t, a)
  BY <1>1 DEF Behind
<1> QED  BY <1>2, <1>3 DEF Linked

\* An entry that the instruction at s leaves alone.
LEMMA Carried ==
  ASSUME LoopOK, SourceOK, NEW s \in Positions(prog), ~Is(prog, s, "store"),
         NEW l, NEW k, NEW c, NEW d, NEW id, NEW a,
         Linked(s, l, c, id, a), ~Pending(After(s), a), d[a] = c[a]
  PROVE  Linked(After(s), k, d, id, a)
<1>1. ~Pending(s, a)
  BY DEF Pending
<1>2. id + 1 = d[a]
  BY <1>1 DEF Linked
<1>3. id # NoId => Behind(After(s), a)
  BY BehindGoesOn DEF Linked
<1> QED  BY <1>2, <1>3 DEF Linked

\* No store before or after: the tables stay, and so does what they say.
LEMMA QuietStep ==
  ASSUME LoopOK, SourceOK, NEW s \in Positions(prog),
         NEW l, NEW k, NEW c, NEW mv, NEW ms, AllLinked(s, l, c, mv, ms),
         ~Is(prog, s, "store"), ~Is(prog, After(s), "store"),
         Is(prog, s, "load") => k = c[At(Line(prog, s).ptr)]
  PROVE  AllLinked(After(s), k, c, mv, ms)
<1>1. \A a : ~Pending(After(s), a)
  BY DEF Pending
<1>2. \A id, a : Linked(s, l, c, id, a) => Linked(After(s), k, c, id, a)
  BY <1>1, Carried
<1>3. Before(After(s)) = s
  BY Around
<1> QED  BY <1>2, <1>3 DEF AllLinked

\* A load whose value is stored next: the alias is where the value will be.
LEMMA LoadStep ==
  ASSUME LoopOK, SourceOK, Disciplined(prog), NEW s \in Positions(prog),
         NEW l, NEW c, NEW mv \in [Name -> IdOrNone], NEW ms,
         AllLinked(s, l, c, mv, ms),
         Is(prog, s, "load"), Is(prog, After(s), "store"),
         NEW mw, mw = IF mv[Line(prog, s).ptr.name] # NoId
                      THEN [mv EXCEPT ![Line(prog, After(s)).ptr.name] = mv[Line(prog, s).ptr.name]]
                      ELSE mv
  PROVE  AllLinked(After(s), c[At(Line(prog, s).ptr)], c, mw, ms)
<1> DEFINE t == After(s)
           r == Line(prog, s).ptr
           q == Line(prog, t).ptr
           k == c[At(r)]
<1>1. /\ r \in Operands(prog) /\ q \in Operands(prog) /\ q.name \in Name
           /\ r.name \in Name
      /\ At(q) \in Address
  BY OperandTypes
<1>2. Named(r) /\ Named(q)
  BY DEF Disciplined, Style
<1>3. ~Is(prog, s, "store")
  BY DEF Is
<1>4. \A a : Pending(t, a) <=> a = At(q)
  BY DEF Pending
<1>5. \A a : ~Pending(s, a)
  BY <1>3 DEF Pending
<1>6. mv[r.name] + 1 = k
  BY <1>1, <1>2, <1>5 DEF AllLinked, Linked
<1>7. mv[q.name] = NoId /\ Behind(t, At(q))
  <2>1. Pending(t, At(q))
    BY <1>4
  <2>2. Linked(s, l, c, mv[q.name], At(q))
    BY <1>1, <1>2 DEF AllLinked
  <2> QED  BY <1>1, <1>3, <2>1, <2>2, Fresh
<1>8. mw[q.name] = mv[r.name] /\ \A n \in Name : n # q.name => mw[n] = mv[n]
  BY <1>1, <1>7
<1> HIDE DEF t, r, q, k
<1>9. ASSUME NEW o \in Operands(prog), Named(o)
      PROVE  Linked(t, k, c, mw[o.name], At(o))
  <2>1. o.name \in Name /\ (o.name = q.name <=> At(o) = At(q))
    BY <1>1, <1>2, <1>9, OperandTypes DEF Disciplined, NamesIdentify
  <2>2. CASE At(o) = At(q)
    BY <1>4, <1>6, <1>7, <1>8, <2>1, <2>2 DEF Linked
  <2>3. CASE At(o) # At(q)
    <3>1. mw[o.name] = mv[o.name]
      BY <1>8, <2>1, <2>3
    <3>2. Linked(s, l, c, mv[o.name], At(o))
      BY <1>9 DEF AllLinked
    <3> QED  BY <1>3, <1>4, <2>3, <3>1, <3>2, Carried DEF t
  <2> QED  BY <2>2, <2>3
<1>10. ASSUME NEW o \in Operands(prog), InStruct(o), NEW x \in Index
       PROVE  Linked(t, k, c, ms[o.name][x], <<o.place, x>>)
  <2>1. q.place # o.place
    BY <1>1, <1>2, <1>10 DEF Disciplined, NamesIdentify
  <2>2. <<o.place, x>> # At(q)
    BY <2>1 DEF At
  <2>3. Linked(s, l, c, ms[o.name][x], <<o.place, x>>)
    BY <1>10 DEF AllLinked
  <2> QED  BY <1>3, <1>4, <2>2, <2>3, Carried DEF t
<1>11. Is(prog, Before(t), "load") => k = c[At(Line(prog, Before(t)).ptr)]
  BY Around DEF t, r, k
<1> QED  BY <1>9, <1>10, <1>11 DEF AllLinked, t, k, r

\* The store: memory gets what the tables already have.
LEMMA StoreStep ==
  ASSUME LoopOK, SourceOK, Disciplined(prog), NEW s \in Positions(prog),
         NEW l, NEW c \in [Address -> Nat], NEW mv, NEW ms,
         AllLinked(s, l, c, mv, ms),
         Is(prog, s, "store")
  PROVE  AllLinked(After(s), l, [c EXCEPT ![At(Line(prog, s).ptr)] = l], mv, ms)
<1> DEFINE t == After(s)
           p == Line(prog, s).ptr
           d == [c EXCEPT ![At(p)] = l]
<1>1. p \in Operands(prog) /\ At(p) \in Address
  BY OperandTypes
<1>2. ~Is(prog, t, "store")
  BY StoreComes DEF Is, IsCall
<1>3. \A a : ~Pending(t, a)
  BY <1>2 DEF Pending
<1>4. \A a \in Address : d[a] = IF Pending(s, a) THEN l ELSE c[a]
  BY <1>1 DEF Pending
<1>5. Before(t) = s /\ ~Is(prog, s, "load")
  BY Around DEF Is
<1> HIDE DEF t, p, d
<1>6. ASSUME NEW id, NEW a \in Address, Linked(s, l, c, id, a)
      PROVE  Linked(t, l, d, id, a)
  <2>1. id + 1 = d[a]
    BY <1>4, <1>6 DEF Linked
  <2>2. id # NoId => Behind(t, a)
    BY <1>6, BehindGoesOn DEF Linked, t
  <2> QED  BY <1>3, <2>1, <2>2 DEF Linked
<1>7. ASSUME NEW o \in Operands(prog)
      PROVE  At(o) \in Address /\ \A x \in Index : <<o.place, x>> \in Address
  BY OperandTypes DEF Address
<1> QED  BY <1>5, <1>6, <1>7 DEF AllLinked, t, d, p

\* malloc and the store of its result: the new number is the new object.
LEMMA MallocVarStep ==
  ASSUME LoopOK, SourceOK, Disciplined(prog), NEW s \in Positions(prog),
         NEW l, NEW c, NEW mv \in [Name -> IdOrNone], NEW ms,
         AllLinked(s, l, c, mv, ms),
         ~Is(prog, s, "store"), ~Is(prog, s, "load"),
         Is(prog, After(s), "store"),
         Named(Line(prog, After(s)).ptr),
         NEW n \in Nat, NEW mw,
         mw = [mv EXCEPT ![Line(prog, After(s)).ptr.name] = n]
  PROVE  AllLinked(After(s), n + 1, c, mw, ms)
<1> DEFINE t == After(s)
           q == Line(prog, t).ptr
<1>1. q \in Operands(prog) /\ q.name \in Name /\ At(q) \in Address
  BY OperandTypes
<1>2. \A a : Pending(t, a) <=> a = At(q)
  BY DEF Pending
<1>3. Behind(t, At(q))
  BY <1>1, <1>2, Fresh
<1>4. mw[q.name] = n /\ \A m \in Name : m # q.name => mw[m] = mv[m]
  BY <1>1
<1>5. Named(q) /\ Before(t) = s
  BY Around
<1> HIDE DEF t, q
<1>6. ASSUME NEW o \in Operands(prog), Named(o)
      PROVE  Linked(t, n + 1, c, mw[o.name], At(o))
  <2>1. o.name \in Name /\ (o.name = q.name <=> At(o) = At(q))
    BY <1>1, <1>5, <1>6, OperandTypes DEF Disciplined, NamesIdentify
  <2>2. CASE At(o) = At(q)
    BY <1>2, <1>3, <1>4, <2>1, <2>2 DEF Linked
  <2>3. CASE At(o) # At(q)
    <3>1. Linked(s, l, c, mw[o.name], At(o))
      BY <1>4, <1>6, <2>1, <2>3 DEF AllLinked
    <3> QED  BY <1>2, <2>3, <3>1, Carried DEF t
  <2> QED  BY <2>2, <2>3
<1>7. ASSUME NEW o \in Operands(prog), InStruct(o), NEW x \in Index
      PROVE  Linked(t, n + 1, c, ms[o.name][x], <<o.place, x>>)
  <2>1. q.place # o.place
    BY <1>1, <1>5, <1>7 DEF Disciplined, NamesIdentify
  <2>2. <<o.place, x>> # At(q)
    BY <2>1 DEF At
  <2>3. Linked(s, l, c, ms[o.name][x], <<o.place, x>>)
    BY <1>7 DEF AllLinked
  <2> QED  BY <1>2, <2>2, <2>3, Carried DEF t
<1> QED  BY <1>5, <1>6, <1>7 DEF AllLinked, t

LEMMA MallocFieldStep ==
  ASSUME LoopOK, SourceOK, Disciplined(prog), NEW s \in Positions(prog),
         NEW l, NEW c, NEW mv, NEW ms \in [Name -> [Index -> IdOrNone]],
         AllLinked(s, l, c, mv, ms),
         ~Is(prog, s, "store"), ~Is(prog, s, "load"),
         Is(prog, After(s), "store"),
         IsField(Line(prog, After(s)).ptr),
         NEW n \in Nat, NEW mt, NEW m,
         m = [ms[Line(prog, After(s)).ptr.name] EXCEPT ![Line(prog, After(s)).ptr.idx] = n],
         mt = [ms EXCEPT ![Line(prog, After(s)).ptr.name] = m]
  PROVE  AllLinked(After(s), n + 1, c, mv, mt)
<1> DEFINE t == After(s)
           q == Line(prog, t).ptr
<1>1. /\ q \in Operands(prog) /\ q.name \in Name /\ q.idx \in Index
           /\ At(q) \in Address
      /\ At(q) = <<q.place, q.idx>>
  BY OperandTypes DEF At
<1>2. \A a : Pending(t, a) <=> a = At(q)
  BY DEF Pending
<1>3. Behind(t, At(q))
  BY <1>1, <1>2, Fresh
<1>4. /\ mt[q.name] = m /\ m[q.idx] = n
      /\ \A x \in Index : x # q.idx => m[x] = ms[q.name][x]
      /\ \A k \in Name : k # q.name => mt[k] = ms[k]
  BY <1>1
<1>5. InStruct(q) /\ Before(t) = s
  BY Around, Kinds
<1> HIDE DEF t, q
<1>6. ASSUME NEW o \in Operands(prog), Named(o)
      PROVE  Linked(t, n + 1, c, mv[o.name], At(o))
  <2>1. o.place # q.place
    BY <1>1, <1>5, <1>6 DEF Disciplined, NamesIdentify
  <2>2. At(o) # At(q)
    BY <2>1 DEF At
  <2>3. Linked(s, l, c, mv[o.name], At(o))
    BY <1>6 DEF AllLinked
  <2> QED  BY <1>2, <2>2, <2>3, Carried DEF t
<1>7. ASSUME NEW o \in Operands(prog), InStruct(o), NEW x \in Index
      PROVE  Linked(t, n + 1, c, mt[o.name][x], <<o.place, x>>)
  <2>1. o.name \in Name /\ (o.name = q.name <=> o.place = q.place)
    BY <1>1, <1>5, <1>7, OperandTypes DEF Disciplined, NamesIdentify
  <2>2. CASE o.place = q.place /\ x = q.idx
    BY <1>1, <1>2, <1>3, <1>4, <2>1, <2>2 DEF Linked
  <2>3. CASE ~(o.place = q.place /\ x = q.idx)
    <3>1. <<o.place, x>> # At(q)
      BY <1>1, <2>3
    <3>2. mt[o.name][x] = ms[o.name][x]
      BY <1>4, <2>1, <2>3
    <3>3. Linked(s, l, c, mt[o.name][x], <<o.place, x>>)
      BY <1>7, <3>2 DEF AllLinked
    <3> QED  BY <1>2, <3>1, <3>3, Carried DEF t
  <2> QED  BY <2>2, <2>3
<1> QED  BY <1>5, <1>6, <1>7 DEF AllLinked, t

\* memcpy: the fields of one struct and their numbers go together.
LEMMA CopyStep ==
  ASSUME LoopOK, SourceOK, Disciplined(prog), NEW s \in Positions(prog),
         NEW l, NEW c, NEW mv, NEW ms \in [Name -> [Index -> IdOrNone]],
         AllLinked(s, l, c, mv, ms), IsCall(prog, s, "memcpy"),
         NEW d, d = [a \in Address |->
                       IF a[1] = Line(prog, s).ptr.place THEN c[<<Line(prog, s).src.place, a[2]>>]
                       ELSE c[a]],
         NEW mt, mt = [ms EXCEPT ![Line(prog, s).ptr.name] = ms[Line(prog, s).src.name]]
  PROVE  AllLinked(After(s), l, d, mv, mt)
<1> DEFINE t == After(s)
           p == Line(prog, s).ptr
           r == Line(prog, s).src
<1>1. /\ p \in Operands(prog) /\ p.name \in Name /\ InStruct(p)
      /\ r \in Operands(prog) /\ r.name \in Name /\ InStruct(r)
  <2>1. p.kind = "cast" /\ r.kind = "cast"
    BY DEF Disciplined, Style
  <2> QED  BY <2>1, OperandTypes DEF InStruct
<1>2. ~Is(prog, s, "store") /\ ~Is(prog, s, "load") /\ Line(prog, s).op = "call"
        /\ Line(prog, s).callee = "memcpy"
  BY DEF IsCall, Is
<1>3. ~Is(prog, t, "store")
  BY <1>2, StoreComes DEF IsCall
<1>4. (\A a : ~Pending(t, a)) /\ \A a : ~Pending(s, a)
  BY <1>2, <1>3 DEF Pending
<1>5. mt[p.name] = ms[r.name] /\ \A n \in Name : n # p.name => mt[n] = ms[n]
  BY <1>1
<1>6. /\ Before(t) = s /\ Earlier(s, t)
      /\ \A a \in Address : a[1] = p.place => Writes(Line(prog, s), a)
  BY <1>2, Around DEF Writes
<1>7. /\ \A a \in Address : a[1] # p.place => d[a] = c[a]
      /\ \A x \in Index : <<p.place, x>> \in Address
           /\ d[<<p.place, x>>] = c[<<r.place, x>>]
  BY <1>1, OperandTypes DEF Address
<1> HIDE DEF t, p, r
<1>8. ASSUME NEW o \in Operands(prog), Named(o)
      PROVE  Linked(t, l, d, mv[o.name], At(o))
  <2>1. o.place # p.place /\ At(o) \in Address /\ At(o)[1] = o.place
    BY <1>1, <1>8, OperandTypes DEF Disciplined, NamesIdentify, At
  <2>2. Linked(s, l, c, mv[o.name], At(o)) /\ d[At(o)] = c[At(o)]
    BY <1>7, <1>8, <2>1 DEF AllLinked
  <2> QED  BY <1>2, <1>4, <2>2, Carried DEF t
<1>9. ASSUME NEW o \in Operands(prog), InStruct(o), NEW x \in Index
      PROVE  Linked(t, l, d, mt[o.name][x], <<o.place, x>>)
  <2>1. /\ o.name \in Name /\ <<o.place, x>> \in Address
        /\ o.name = p.name <=> o.place = p.place
    BY <1>1, <1>9, OperandTypes DEF Disciplined, NamesIdentify, Address
  <2>2. CASE o.place = p.place
    <3>1. Linked(s, l, c, ms[r.name][x], <<r.place, x>>)
      BY <1>1 DEF AllLinked
    <3>2. ms[r.name][x] + 1 = d[<<o.place, x>>]
      BY <1>4, <1>7, <2>2, <3>1 DEF Linked
    <3>3. Behind(t, <<o.place, x>>)
      BY <1>6, <2>1, <2>2 DEF Behind
    <3> QED  BY <1>4, <1>5, <2>1, <2>2, <3>2, <3>3 DEF Linked
  <2>3. CASE o.place # p.place
    <3>1. mt[o.name][x] = ms[o.name][x] /\ d[<<o.place, x>>] = c[<<o.place, x>>]
      BY <1>5, <1>7, <2>1, <2>3
    <3>2. Linked(s, l, c, ms[o.name][x], <<o.place, x>>)
      BY <1>9 DEF AllLinked
    <3> QED  BY <1>2, <1>4, <3>1, <3>2, Carried DEF t
  <2> QED  BY <2>2, <2>3
<1> QED  BY <1>2, <1>6, <1>8, <1>9 DEF AllLinked, t

\* The first position of a block is not a store, nor after a load.
LEMMA FirstOfBlock ==
  ASSUME LoopOK, SourceOK, Disciplined(prog), NEW b \in Nat
  PROVE  ~Is(prog, <<b, 1>>, "store") /\ ~Is(prog, Before(<<b, 1>>), "load")
<1>1. Before(<<b, 1>>) = <<b, 0>>
  BY DEF Before
<1>2. <<b, 0>> \notin Positions(prog)
  BY PositionsAre
<1>3. ~Is(prog, <<b, 0>>, "load") /\ ~IsCall(prog, <<b, 0>>, "malloc")
  BY <1>2 DEF Is, IsCall
<1>4. Is(prog, <<b, 1>>, "store") => Style(prog, <<b, 1>>)
  BY DEF Is, Disciplined
<1> QED  BY <1>1, <1>3, <1>4 DEF Style

LEMMA NextBlockStep ==
  ASSUME LoopOK, SourceOK, Disciplined(prog), NEW b \in Nat, NEW j \in Nat,
         <<b, j>> \notin Positions(prog),
         NEW l, NEW c, NEW mv, NEW ms, AllLinked(<<b, j>>, l, c, mv, ms)
  PROVE  AllLinked(<<b + 1, 1>>, l, c, mv, ms)
<1> DEFINE s == <<b, j>>
           t == <<b + 1, 1>>
<1>1. ~Is(prog, t, "store") /\ ~Is(prog, Before(t), "load")
  BY FirstOfBlock
<1>2. ~Is(prog, s, "store")
  BY DEF Is
<1>3. \A a : ~Pending(s, a) /\ ~Pending(t, a)
  BY <1>1, <1>2 DEF Pending
<1>4. \A u \in Positions(prog) : Earlier(u, s) => Earlier(u, t)
  <2>1. \A u \in Positions(prog) : u[1] \in Nat /\ u[2] \in Nat
    BY Around
  <2> QED  BY <2>1 DEF Earlier
<1> HIDE DEF s, t
<1>5. \A a : Behind(s, a) => Behind(t, a)
  BY <1>2, <1>4 DEF Behind
<1>6. \A id, a : Linked(s, l, c, id, a) => Linked(t, l, c, id, a)
  BY <1>3, <1>5 DEF Linked
<1> QED  BY <1>1, <1>6 DEF AllLinked, s, t

LEMMA FirstStep ==
  ASSUME LoopOK, SourceOK, Disciplined(prog),
         NEW c, c = [a \in Address |-> 0]
  PROVE  AllLinked(<<1, 1>>, 0, c, NoVars, NoStructs)
<1>1. ~Is(prog, <<1, 1>>, "store") /\ ~Is(prog, Before(<<1, 1>>), "load")
  BY FirstOfBlock
<1>2. ASSUME NEW a \in Address PROVE Linked(<<1, 1>>, 0, c, NoId, a)
  BY <1>1 DEF Linked, Pending, NoId
<1>3. /\ \A n \in Name : NoVars[n] = NoId
      /\ \A n \in Name, x \in Index : NoStructs[n][x] = NoId
  BY DEF NoVars, NoStructs
<1>4. \A o \in Operands(prog) : /\ At(o) \in Address /\ o.name \in Name
                          /\ \A x \in Index : <<o.place, x>> \in Address
  BY OperandTypes DEF Address
<1> QED  BY <1>1, <1>2, <1>3, <1>4 DEF AllLinked

-----------------------------------------------------------------------------
\* The numbers given out are the objects, NULL the ones released.
HeapOK ==
  /\ cell \in [Address -> Nat] /\ last \in Nat
  /\ objects = malloc_id /\ live \subseteq 1..objects
  /\ \A k \in 1..objects : mallocs[k] = "NULL" <=> k \notin live

Linking == AllLinked(Cur, last, cell, malloc_vars, malloc_structs)

LEMMA LinkingNext ==
  ASSUME UNCHANGED <<path, source>>,
         AllLinked(Cur', last', cell', malloc_vars', malloc_structs')
  PROVE  Linking'
BY AllLinkedNext DEF Linking

LEMMA LeftIsLeaks ==
  ASSUME TablesOK, HeapOK
  PROVE  Left <=> Leaks
<1>1. Len(mallocs) = objects
  BY DEF TablesOK, IdsAreIndices, HeapOK
<1> QED  BY <1>1 DEF HeapOK, Left, Leaks

\* The heap under each instruction.
LEMMA MallocHeap ==
  ASSUME TablesOK, HeapOK, NewId, DoMalloc
  PROVE  HeapOK' /\ last' = malloc_id + 1 /\ cell' = cell
<1>1. /\ objects = malloc_id /\ objects \in Nat /\ Len(mallocs) = objects
      /\ "call" \in Entry /\ mallocs \in Seq(Entry)
  BY DEF TablesOK, IdsAreIndices, HeapOK, Entry
<1>2. /\ objects' = objects + 1 /\ last' = objects + 1 /\ cell' = cell
      /\ live' = live \cup {objects + 1} /\ malloc_id' = malloc_id + 1
  BY DEF DoMalloc, NewId
<1>3. /\ \A k \in 1..Len(mallocs) : mallocs'[k] = mallocs[k]
      /\ mallocs'[Len(mallocs) + 1] = "call"
  BY <1>1, AppendProperties DEF NewId
<1>4. ASSUME NEW k \in 1..objects'
      PROVE  mallocs'[k] = "NULL" <=> k \notin live'
  <2>1. CASE k = objects + 1
    BY <1>1, <1>2, <1>3, <2>1
  <2>2. CASE k # objects + 1
    <3>1. k \in 1..objects
      BY <1>1, <1>2, <2>2
    <3> QED  BY <1>1, <1>2, <1>3, <2>2, <3>1 DEF HeapOK
  <2> QED  BY <2>1, <2>2
<1>5. live' \subseteq 1..objects' /\ last' \in Nat
  BY <1>1, <1>2 DEF HeapOK
<1> QED  BY <1>1, <1>2, <1>4, <1>5 DEF HeapOK

LEMMA FreeHeap ==
  ASSUME TablesOK, HeapOK, NEW id \in IdOrNone, id < malloc_id, Clear(id),
         last = id + 1, DoFree, malloc_id' = malloc_id
  PROVE  HeapOK'
<1>1. /\ objects = malloc_id /\ objects \in Nat /\ Len(mallocs) = objects
      /\ mallocs \in Seq(Entry)
  BY DEF TablesOK, IdsAreIndices, HeapOK
<1>2. UNCHANGED <<cell, last, objects>> /\ live' = live \ {last}
  BY DEF DoFree
<1>3. ASSUME NEW k \in 1..objects
      PROVE  mallocs'[k] = "NULL" <=> k \notin live'
  <2>1. mallocs[k] = "NULL" <=> k \notin live
    BY DEF HeapOK
  <2>2. CASE k = last
    <3>1. id # NoId /\ k = id + 1 /\ k \in 1..Len(mallocs)
      BY <1>1, <2>2 DEF NoId
    <3>2. mallocs'[k] = "NULL"
      BY <1>1, <3>1 DEF Clear
    <3> QED  BY <1>2, <2>2, <3>2
  <2>3. CASE k # last
    <3>1. mallocs'[k] = mallocs[k]
      BY <1>1, <2>3, ClearOne
    <3> QED  BY <1>2, <2>1, <2>3, <3>1
  <2> QED  BY <2>2, <2>3
<1>4. live' \subseteq 1..objects'
  BY <1>2 DEF HeapOK
<1> QED  BY <1>1, <1>2, <1>3, <1>4 DEF HeapOK

LEMMA OtherHeap ==
  ASSUME LoopOK, InBlock, HeapOK, UNCHANGED <<malloc_id, mallocs>>,
         DoLoad \/ DoStore \/ DoMemcpy \/ DoNothing
  PROVE  HeapOK'
<1>1. /\ At(Inst.ptr) \in Address /\ At(Inst.ptr)[1] = Inst.ptr.place
      /\ \A a \in Address : <<Inst.src.place, a[2]>> \in Address
  <2>1. Inst \in Instr
    BY Reading
  <2>2. Inst.ptr \in Operand /\ Inst.src \in Operand
    BY <2>1 DEF Instr
  <2> QED  BY <2>2 DEF Operand, At, Address
<1>2. UNCHANGED <<objects, live>>
  BY DEF DoLoad, DoStore, DoMemcpy, DoNothing, heap
<1>3. cell' \in [Address -> Nat] /\ last' \in Nat
  <2>1. cell \in [Address -> Nat] /\ last \in Nat
    BY DEF HeapOK
  <2>2. CASE DoLoad
    BY <1>1, <2>1, <2>2 DEF DoLoad
  <2>3. CASE DoStore
    BY <2>1, <2>3 DEF DoStore
  <2>4. CASE DoMemcpy
    BY <1>1, <2>1, <2>4 DEF DoMemcpy
  <2>5. CASE DoNothing
    BY <2>1, <2>5 DEF DoNothing, heap
  <2> QED  BY <2>2, <2>3, <2>4, <2>5
<1> QED  BY <1>2, <1>3 DEF HeapOK

LEMMA OnInst ==
  ASSUME LoopOK, SourceOK, Aligned, InBlock
  PROVE  /\ Cur \in Positions(prog) /\ Inst = Line(prog, Cur) /\ Inst \in Instr
         /\ \A op : Is(prog, Cur, op) <=> Inst.op = op
         /\ \A f : IsCall(prog, Cur, f) <=> Inst.op = "call" /\ Inst.callee = f
         /\ \A op : Is(prog, After(Cur), op) <=> i < Len(Body)
              /\ Following.op = op
         /\ i < Len(Body) => Following = Line(prog, After(Cur))
              /\ Following \in Instr
         /\ \A op : Is(prog, Before(Cur), op) =>
              HasPrevious /\ Previous.op = op
                /\ Previous = Line(prog, Before(Cur))
<1>1. /\ Cur \in Positions(prog) /\ Inst = Line(prog, Cur)
      /\ i < Len(Body) <=> After(Cur) \in Positions(prog)
      /\ i < Len(Body) => Following = Line(prog, After(Cur))
      /\ Before(Cur) \in Positions(prog) => HasPrevious
           /\ Previous = Line(prog, Before(Cur))
  BY Here
<1>2. Inst \in Instr /\ (i < Len(Body) => Following \in Instr)
  BY Reading
<1> HIDE DEF Cur
<1> QED  BY <1>1, <1>2 DEF Is, IsCall

\* Without a constant expression to expand the scan moves on and changes nothing.
LEMMA NothingExpanded ==
  ASSUME IInv, SourceOK, Disciplined(prog), Unexpanded(prog), Aligned, Step
  PROVE  Move /\ Stay
<1>1. InBlock
  BY DEF Step, TrackAlias, CopyStruct, TrackVar, TrackField, FreeVar, FreeField,
         ExpandCast, Pass, Loads, Calls, Allocates, Frees
<1>2. /\ Style(prog, Cur)
      /\ \A f : IsCall(prog, Cur, f) <=> Inst.op = "call" /\ Inst.callee = f
      /\ \A op : Is(prog, After(Cur), op) <=> i < Len(Body) /\ Following.op = op
      /\ i < Len(Body) => Following = Line(prog, After(Cur))
      /\ \A op : Is(prog, Before(Cur), op) =>
           HasPrevious /\ Previous.op = op /\ Previous = Line(prog, Before(Cur))
  BY <1>1, OnInst DEF IInv, Disciplined
<1>3. \A s : Is(prog, s, "load") \/ Is(prog, s, "store") =>
               Line(prog, s).ptr.kind = "plain"
  BY DEF Unexpanded, Is
<1> HIDE DEF Cur
<1>4. ASSUME NEW kind, Allocates(kind) PROVE kind = "plain"
  <2>1. Is(prog, After(Cur), "store") /\ Following = Line(prog, After(Cur))
    BY <1>2, <1>4 DEF Allocates
  <2> QED  BY <1>3, <1>4, <2>1 DEF Allocates
<1>5. ASSUME NEW kind, Frees(kind) PROVE kind = "plain"
  <2>1. IsCall(prog, Cur, "free")
    BY <1>2, <1>5 DEF Frees, Calls
  <2>2. Is(prog, Before(Cur), "load") /\ Previous = Line(prog, Before(Cur))
    BY <1>2, <2>1 DEF Style
  <2> QED  BY <1>3, <1>5, <2>2 DEF Frees
<1>6. ~TrackField /\ ~FreeField /\ ~ExpandCast
  BY <1>4, <1>5 DEF TrackField, FreeField, ExpandCast
<1> QED  BY <1>6 DEF Step, TrackAlias, CopyStruct, TrackVar, FreeVar, Pass

LEMMA StepAligned ==
  ASSUME IInv, SourceOK, Disciplined(prog), Aligned, Step, Execute
  PROVE  /\ InBlock /\ verdict' = verdict /\ UNCHANGED <<path, source>>
         /\ Aligned' /\ Cur' = After(Cur)
<1>1. UNCHANGED source
  BY DEF Execute, DoLoad, DoStore, DoMalloc, DoFree, DoMemcpy, DoNothing, heap
<1>2. InBlock /\ ((Move /\ Stay) \/ ExpandHere)
  BY DEF Step, TrackAlias, CopyStruct, TrackVar, TrackField, FreeVar, FreeField,
         ExpandCast, Pass, Loads, Calls, Allocates, Frees
<1>3. CASE Move /\ Stay
  BY <1>1, <1>2, <1>3, MoveAligned DEF IInv, Move
<1>4. CASE ExpandHere /\ NoBlockTwice(prog)
  BY <1>1, <1>2, <1>4, ExpandAligned DEF IInv, ExpandHere
<1>5. CASE Unexpanded(prog)
  BY <1>3, <1>5, NothingExpanded
<1> QED  BY <1>2, <1>3, <1>4, <1>5 DEF Disciplined

\* On a disciplined path every malloc and free is one the tables follow.
LEMMA Tracked ==
  ASSUME IInv, SourceOK, Disciplined(prog), Aligned, Step
  PROVE  /\ Calls("malloc") => /\ TrackVar \/ TrackField
                               /\ Is(prog, After(Cur), "store")
         /\ Calls("free") => FreeVar \/ FreeField
         /\ Calls("memcpy") => CopyStruct
         /\ TrackVar => Named(Line(prog, After(Cur)).ptr)
         /\ TrackField => IsField(Line(prog, After(Cur)).ptr)
<1>1. InBlock
  BY DEF Step, TrackAlias, CopyStruct, TrackVar, TrackField, FreeVar, FreeField,
         ExpandCast, Pass, Loads, Calls, Allocates, Frees
<1>2. /\ Inst = Line(prog, Cur) /\ Style(prog, Cur)
      /\ \A f : IsCall(prog, Cur, f) <=> Inst.op = "call" /\ Inst.callee = f
      /\ \A op : Is(prog, After(Cur), op) <=> i < Len(Body) /\ Following.op = op
      /\ i < Len(Body) => Following = Line(prog, After(Cur))
      /\ \A op : Is(prog, Before(Cur), op) =>
           HasPrevious /\ Previous.op = op /\ Previous = Line(prog, Before(Cur))
  BY <1>1, OnInst DEF IInv, Disciplined
<1> HIDE DEF Cur
<1>3. ASSUME Calls("malloc")
      PROVE  /\ Is(prog, After(Cur), "store") /\ i < Len(Body)
                  /\ Following.op = "store"
             /\ Named(Following.ptr) \/ IsField(Following.ptr)
  <2>1. IsCall(prog, Cur, "malloc")
    BY <1>2, <1>3 DEF Calls
  <2>2. Is(prog, After(Cur), "store")
    BY <1>2, <2>1 DEF Style
  <2> QED  BY <1>2, <2>1, <2>2 DEF Style
<1>4. \A o : /\ Named(o) => o.kind = "plain"
             /\ IsField(o) => o.kind = "gep"
             /\ o.kind = "gep" => IsField(o)
  BY DEF Named, Key, IsField
<1>5. ASSUME Calls("malloc") PROVE TrackVar \/ TrackField
  <2>1. Inst.op = "call" /\ Inst.callee = "malloc"
    BY <1>5 DEF Calls
  <2>2. Following.ptr.kind = "plain" \/ Following.ptr.kind = "gep"
    BY <1>3, <1>4, <1>5
  <2>3. Allocates("plain") \/ Allocates("gep")
    BY <1>3, <1>5, <2>2 DEF Allocates
  <2>4. ~Allocates("cast")
    BY <2>2 DEF Allocates
  <2> QED  BY <2>1, <2>3, <2>4 DEF Step, TrackAlias, CopyStruct, FreeVar,
        FreeField,
             ExpandCast, Pass, Loads, Calls, Frees
<1>6. ASSUME TrackVar \/ TrackField
      PROVE  Named(Following.ptr) \/ IsField(Following.ptr)
  BY <1>3, <1>6 DEF TrackVar, TrackField, Allocates
<1>7. TrackVar => Named(Line(prog, After(Cur)).ptr)
  BY <1>2, <1>4, <1>6 DEF TrackVar, Allocates
<1>8. TrackField => IsField(Line(prog, After(Cur)).ptr)
  BY <1>2, <1>4, <1>6 DEF TrackField, Allocates
<1>9. ASSUME Calls("free") PROVE FreeVar \/ FreeField
  <2>1. Inst.op = "call" /\ Inst.callee = "free"
    BY <1>9 DEF Calls
  <2>2. /\ HasPrevious /\ Previous.op = "load"
        /\ Previous.ptr.kind = "plain" \/ Previous.ptr.kind = "gep"
    <3>1. IsCall(prog, Cur, "free")
      BY <1>2, <2>1
    <3>2. Is(prog, Before(Cur), "load")
      BY <1>2, <3>1 DEF Style
    <3>3. Named(Line(prog, Before(Cur)).ptr)
            \/ IsField(Line(prog, Before(Cur)).ptr)
      BY <1>2, <3>1 DEF Style
    <3> QED  BY <1>2, <1>4, <3>2, <3>3
  <2> QED  BY <2>1, <2>2 DEF Step, TrackAlias, CopyStruct, TrackVar, TrackField,
             ExpandCast, Pass, Loads, Calls, Allocates, Frees
<1>10. ASSUME Calls("memcpy") PROVE CopyStruct
  <2>1. Inst.op = "call" /\ Inst.callee = "memcpy"
    BY <1>10 DEF Calls
  <2>2. Inst.ptr.kind = "cast" /\ Inst.src.kind = "cast"
    BY <1>2, <2>1 DEF Style
  <2> QED  BY <2>1, <2>2 DEF Step, TrackAlias, TrackVar, TrackField, FreeVar,
             FreeField, ExpandCast, Pass, Loads, Calls, Allocates, Frees
<1> QED  BY <1>3, <1>5, <1>7, <1>8, <1>9, <1>10

\* What the steps of a scan have in common on a disciplined path.
Ready ==
  /\ IInv /\ SourceOK /\ Disciplined(prog) /\ Aligned /\ HeapOK /\ Linking
  /\ Step /\ Execute

LEMMA OnReady ==
  ASSUME Ready
  PROVE  /\ LoopOK /\ TablesOK /\ InBlock /\ Cur \in Positions(prog)
              /\ Cur' = After(Cur)
         /\ UNCHANGED <<path, source>> /\ Style(prog, Cur)
         /\ AllLinked(Cur, last, cell, malloc_vars, malloc_structs)
BY StepAligned, OnInst DEF Ready, IInv, Linking, Disciplined

\* It is enough to link the tables at the next position.
LEMMA LinkAfter ==
  ASSUME Ready, AllLinked(After(Cur), last', cell', malloc_vars', malloc_structs')
  PROVE  Linking'
<1>1. UNCHANGED <<path, source>> /\ Cur' = After(Cur)
  BY OnReady
<1> QED  BY <1>1, LinkingNext

\* The entry of what the next store writes is free.
LEMMA InsertedIsNew ==
  ASSUME Ready, Is(prog, After(Cur), "store"), ~Is(prog, Cur, "store")
  PROVE  LET q == Line(prog, After(Cur)).ptr IN
         /\ q.name \in Name /\ q.idx \in Index
         /\ Named(q) => malloc_vars[q.name] = NoId
         /\ IsField(q) => malloc_structs[q.name][q.idx] = NoId
<1> DEFINE q == Line(prog, After(Cur)).ptr
<1>1. /\ LoopOK /\ SourceOK /\ Disciplined(prog) /\ Cur \in Positions(prog)
      /\ AllLinked(Cur, last, cell, malloc_vars, malloc_structs)
  BY OnReady DEF Ready
<1>2. q \in Operands(prog) /\ q.name \in Name /\ q.idx \in Index
        /\ At(q) \in Address
  BY <1>1, OperandTypes
<1>3. Pending(After(Cur), At(q)) /\ At(q) = <<q.place, q.idx>>
  BY DEF Pending, At
<1> HIDE DEF q, Cur
<1>4. ASSUME NEW id, Linked(Cur, last, cell, id, At(q)) PROVE id = NoId
  BY <1>1, <1>2, <1>3, <1>4, Fresh
<1>5. Named(q) => malloc_vars[q.name] = NoId
  BY <1>1, <1>2, <1>4 DEF AllLinked
<1>6. IsField(q) => malloc_structs[q.name][q.idx] = NoId
  BY <1>1, <1>2, <1>3, <1>4, Kinds DEF AllLinked
<1> QED  BY <1>2, <1>5, <1>6 DEF q

LEMMA ReadyVar ==
  ASSUME Ready, TrackVar
  PROVE  HeapOK' /\ Linking'
<1> DEFINE t == After(Cur)
           q == Line(prog, t).ptr
<1>1. /\ Inst.op = "call" /\ Inst.callee = "malloc" /\ Calls("malloc") /\ NewId
      /\ i < Len(Body)
  BY DEF TrackVar, Allocates, Calls
<1>2. DoMalloc
  BY <1>1 DEF Ready, Execute, DoLoad, DoStore, DoFree, DoMemcpy, DoNothing
<1>3. HeapOK' /\ last' = malloc_id + 1 /\ cell' = cell
  BY <1>1, <1>2, MallocHeap, OnReady DEF Ready
<1>4. /\ LoopOK /\ TablesOK /\ SourceOK /\ Disciplined(prog)
           /\ Cur \in Positions(prog)
      /\ AllLinked(Cur, last, cell, malloc_vars, malloc_structs)
      /\ malloc_id \in Nat /\ malloc_vars \in [Name -> IdOrNone]
  BY OnReady DEF Ready, TablesOK
<1>5. ~Is(prog, Cur, "store") /\ ~Is(prog, Cur, "load")
        /\ Following = Line(prog, t)
  BY <1>1, OnReady, OnInst DEF Ready
<1>6. Is(prog, t, "store") /\ Named(q)
  BY <1>1, Tracked DEF Ready
<1>7. malloc_vars[q.name] = NoId
  BY <1>5, <1>6, InsertedIsNew
<1>8. malloc_vars' = [malloc_vars EXCEPT ![q.name] = malloc_id]
        /\ malloc_structs' = malloc_structs
  BY <1>5, <1>7 DEF TrackVar, Inserted
<1> HIDE DEF Cur
<1>9. AllLinked(t, malloc_id + 1, cell, malloc_vars', malloc_structs)
  BY <1>4, <1>5, <1>6, <1>8, MallocVarStep
<1> QED  BY <1>3, <1>8, <1>9, LinkAfter

LEMMA ReadyField ==
  ASSUME Ready, TrackField
  PROVE  HeapOK' /\ Linking'
<1> DEFINE t == After(Cur)
           q == Line(prog, t).ptr
           m == [malloc_structs[q.name] EXCEPT ![q.idx] = malloc_id]
<1>1. /\ Inst.op = "call" /\ Inst.callee = "malloc" /\ Calls("malloc") /\ NewId
      /\ i < Len(Body)
  BY DEF TrackField, Allocates, Calls
<1>2. DoMalloc
  BY <1>1 DEF Ready, Execute, DoLoad, DoStore, DoFree, DoMemcpy, DoNothing
<1>3. HeapOK' /\ last' = malloc_id + 1 /\ cell' = cell
  BY <1>1, <1>2, MallocHeap, OnReady DEF Ready
<1>4. /\ LoopOK /\ TablesOK /\ SourceOK /\ Disciplined(prog)
           /\ Cur \in Positions(prog)
      /\ AllLinked(Cur, last, cell, malloc_vars, malloc_structs)
      /\ malloc_id \in Nat /\ malloc_structs \in [Name -> [Index -> IdOrNone]]
  BY OnReady DEF Ready, TablesOK
<1>5. ~Is(prog, Cur, "store") /\ ~Is(prog, Cur, "load")
        /\ Following = Line(prog, t)
  BY <1>1, OnReady, OnInst DEF Ready
<1>6. Is(prog, t, "store") /\ IsField(q)
  BY <1>1, Tracked DEF Ready
<1>7. malloc_structs[q.name][q.idx] = NoId /\ q.name \in Name
  BY <1>5, <1>6, InsertedIsNew
<1>8. malloc_structs' = [malloc_structs EXCEPT ![q.name] = Inserted(malloc_structs[q.name], q.idx)]
      /\ malloc_vars' = malloc_vars
  BY <1>5 DEF TrackField
<1>9. malloc_structs' = [malloc_structs EXCEPT ![q.name] = m]
  BY <1>7, <1>8 DEF Inserted
<1> HIDE DEF Cur
<1>10. AllLinked(t, malloc_id + 1, cell, malloc_vars, malloc_structs')
  BY <1>4, <1>5, <1>6, <1>9, MallocFieldStep
<1> QED  BY <1>3, <1>8, <1>10, LinkAfter

\* A free releases the object whose entry the scan sets to NULL.
LEMMA ReadyFree ==
  ASSUME Ready, FreeVar \/ FreeField
  PROVE  HeapOK' /\ Linking'
<1> DEFINE o == Line(prog, Before(Cur)).ptr
<1>1. /\ Inst.op = "call" /\ Inst.callee = "free"
      /\ malloc_id' = malloc_id /\ malloc_vars' = malloc_vars
      /\ malloc_structs' = malloc_structs
  BY DEF FreeVar, FreeField, Frees, Calls
<1>2. DoFree
  BY <1>1 DEF Ready, Execute, DoLoad, DoStore, DoMalloc, DoMemcpy, DoNothing
<1>3. /\ LoopOK /\ TablesOK /\ SourceOK /\ Disciplined(prog)
           /\ Cur \in Positions(prog) /\ Style(prog, Cur)
      /\ AllLinked(Cur, last, cell, malloc_vars, malloc_structs) /\ HeapOK
  BY OnReady DEF Ready
<1>4. /\ ~Is(prog, Cur, "store") /\ ~Is(prog, Cur, "load")
           /\ IsCall(prog, Cur, "free") /\ ~IsCall(prog, Cur, "malloc")
      /\ \A op : Is(prog, Before(Cur), op) => Previous = Line(prog, Before(Cur))
  BY <1>1, OnReady, OnInst DEF Ready
<1> HIDE DEF Cur
<1>5. Is(prog, Before(Cur), "load") /\ (Named(o) \/ IsField(o))
        /\ Previous.ptr = o
  BY <1>3, <1>4 DEF Style
<1>6. last = cell[At(o)] /\ o \in Operands(prog) /\ At(o) = <<o.place, o.idx>>
        /\ o.idx \in Index
  BY <1>3, <1>5, OperandTypes DEF AllLinked, At
<1>7. \A a : ~Pending(Cur, a)
  BY <1>4 DEF Pending
<1>8. /\ Named(o) => malloc_vars[o.name] + 1 = last
      /\ IsField(o) => malloc_structs[o.name][o.idx] + 1 = last
  <2>1. Named(o) => Linked(Cur, last, cell, malloc_vars[o.name], At(o))
    BY <1>3, <1>6 DEF AllLinked
  <2>2. IsField(o) => Linked(Cur, last, cell, malloc_structs[o.name][o.idx], At(o))
    BY <1>3, <1>6, Kinds DEF AllLinked
  <2> QED  BY <1>6, <1>7, <2>1, <2>2 DEF Linked
<1>9. PICK id \in IdOrNone : id < malloc_id /\ Clear(id) /\ last = id + 1
  <2>1. CASE FreeVar
    <3>1. Named(o)
      BY <1>5, <2>1, Kinds DEF FreeVar, Frees
    <3> QED  BY <1>3, <1>5, <1>8, <2>1, <3>1, FreedIds
  <2>2. CASE FreeField
    <3>1. IsField(o)
      BY <2>2, <1>5 DEF FreeField, Frees, IsField
    <3> QED  BY <1>3, <1>5, <1>8, <2>2, <3>1, FreedIds
  <2> QED  BY <2>1, <2>2
<1>10. HeapOK'
  BY <1>1, <1>2, <1>3, <1>9, FreeHeap
<1>11. ~Is(prog, After(Cur), "store")
  BY <1>3, <1>4, StoreComes
<1>12. AllLinked(After(Cur), last, cell, malloc_vars, malloc_structs)
  BY <1>3, <1>4, <1>11, QuietStep
<1>13. last' = last /\ cell' = cell
  BY <1>2 DEF DoFree
<1> QED  BY <1>1, <1>10, <1>12, <1>13, LinkAfter

LEMMA ReadyCopy ==
  ASSUME Ready, CopyStruct
  PROVE  HeapOK' /\ Linking'
<1>1. /\ Inst.op = "call" /\ Inst.callee = "memcpy"
      /\ UNCHANGED <<malloc_id, mallocs, malloc_vars>>
      /\ malloc_structs' = [malloc_structs EXCEPT ![Inst.ptr.name] = malloc_structs[Inst.src.name]]
  BY DEF CopyStruct, Calls
<1>2. DoMemcpy
  BY <1>1 DEF Ready, Execute, DoLoad, DoStore, DoMalloc, DoFree, DoNothing
<1>3. /\ LoopOK /\ InBlock /\ SourceOK /\ Disciplined(prog)
           /\ Cur \in Positions(prog)
      /\ AllLinked(Cur, last, cell, malloc_vars, malloc_structs) /\ HeapOK
      /\ malloc_structs \in [Name -> [Index -> IdOrNone]]
  BY OnReady DEF Ready, TablesOK
<1>4. IsCall(prog, Cur, "memcpy") /\ Inst = Line(prog, Cur)
  BY <1>1, OnReady, OnInst DEF Ready
<1>5. HeapOK'
  BY <1>1, <1>2, <1>3, OtherHeap
<1>6. /\ cell' = [a \in Address |->
                    IF a[1] = Line(prog, Cur).ptr.place THEN cell[<<Line(prog, Cur).src.place, a[2]>>]
                    ELSE cell[a]]
      /\ last' = last
      /\ malloc_structs' = [malloc_structs EXCEPT ![Line(prog, Cur).ptr.name] =
                                                 malloc_structs[Line(prog, Cur).src.name]]
  BY <1>1, <1>2, <1>4 DEF DoMemcpy
<1> HIDE DEF Cur
<1>7. AllLinked(After(Cur), last, cell', malloc_vars, malloc_structs')
  BY <1>3, <1>4, <1>6, CopyStep
<1> QED  BY <1>1, <1>5, <1>6, <1>7, LinkAfter

LEMMA ReadyLoad ==
  ASSUME Ready, TrackAlias \/ (Pass /\ Inst.op = "load")
  PROVE  HeapOK' /\ Linking'
<1> DEFINE s == Cur
           t == After(Cur)
           r == Line(prog, s).ptr
           q == Line(prog, t).ptr
<1>1. /\ Inst.op = "load" /\ InBlock
      /\ UNCHANGED <<malloc_id, mallocs, malloc_structs>>
  BY DEF TrackAlias, Pass, Loads, tables, Calls
<1>2. DoLoad
  BY <1>1 DEF Ready, Execute, DoStore, DoMalloc, DoFree, DoMemcpy, DoNothing
<1>3. /\ LoopOK /\ SourceOK /\ Disciplined(prog) /\ s \in Positions(prog)
           /\ Style(prog, s)
      /\ AllLinked(s, last, cell, malloc_vars, malloc_structs) /\ HeapOK
      /\ malloc_vars \in [Name -> IdOrNone]
  BY OnReady DEF Ready, TablesOK
<1>4. /\ Is(prog, s, "load") /\ ~Is(prog, s, "store") /\ Inst = Line(prog, s)
      /\ Is(prog, t, "store") <=> i < Len(Body) /\ Following.op = "store"
      /\ i < Len(Body) => Following = Line(prog, t)
  BY <1>1, OnReady, OnInst DEF Ready
<1>5. HeapOK'
  BY <1>1, <1>2, <1>3, OtherHeap
<1>6. last' = cell[At(r)] /\ cell' = cell
  BY <1>2, <1>4 DEF DoLoad
<1>7. CASE Is(prog, t, "store")
  <2>1. Named(r) /\ Named(q)
    BY <1>3, <1>4, <1>7 DEF Style
  <2>2. Key(r) = r.name /\ Key(q) = q.name
    BY <2>1, Kinds
  <2>3. TrackAlias => malloc_vars[r.name] # NoId /\
          malloc_vars' = [malloc_vars EXCEPT ![q.name] = malloc_vars[r.name]]
    BY <1>4, <1>7, <2>2 DEF TrackAlias, Copying
  <2>4. Pass => ~Copying /\ malloc_vars' = malloc_vars
    BY <1>1 DEF Pass, tables, Calls
  <2>5. Copying <=> malloc_vars[r.name] # NoId
    BY <1>4, <1>7, <2>2 DEF Copying
  <2>6. malloc_vars' = IF malloc_vars[r.name] # NoId
                       THEN [malloc_vars EXCEPT ![q.name] = malloc_vars[r.name]]
                       ELSE malloc_vars
    BY <2>3, <2>4, <2>5
  <2> HIDE DEF Cur
  <2>7. AllLinked(t, cell[At(r)], cell, malloc_vars', malloc_structs)
    BY <1>3, <1>4, <1>7, <2>6, LoadStep
  <2> QED  BY <1>1, <1>5, <1>6, <2>7, LinkAfter
<1>8. CASE ~Is(prog, t, "store")
  <2>1. malloc_vars' = malloc_vars
    BY <1>4, <1>8 DEF TrackAlias, Copying, Pass, tables
  <2> HIDE DEF Cur
  <2>2. AllLinked(t, cell[At(r)], cell, malloc_vars, malloc_structs)
    BY <1>3, <1>4, <1>8, QuietStep
  <2> QED  BY <1>1, <1>5, <1>6, <2>1, <2>2, LinkAfter
<1> QED  BY <1>7, <1>8

LEMMA ReadyStore ==
  ASSUME Ready, Pass, Inst.op = "store"
  PROVE  HeapOK' /\ Linking'
<1>1. UNCHANGED tables
  BY DEF Pass
<1>2. DoStore
  BY DEF Ready, Execute, DoLoad, DoMalloc, DoFree, DoMemcpy, DoNothing
<1>3. /\ LoopOK /\ InBlock /\ SourceOK /\ Disciplined(prog)
           /\ Cur \in Positions(prog) /\ Style(prog, Cur)
      /\ AllLinked(Cur, last, cell, malloc_vars, malloc_structs) /\ HeapOK
  BY OnReady DEF Ready
<1>4. Is(prog, Cur, "store") /\ Inst = Line(prog, Cur)
  BY OnReady, OnInst DEF Ready
<1>5. HeapOK'
  BY <1>1, <1>2, <1>3, OtherHeap DEF tables
<1>6. Inst.val = "last"
  BY <1>3, <1>4 DEF Style
<1>7. cell' = [cell EXCEPT ![At(Line(prog, Cur).ptr)] = last] /\ last' = last
  BY <1>2, <1>4, <1>6 DEF DoStore
<1>8. cell \in [Address -> Nat]
  BY <1>3 DEF HeapOK
<1> HIDE DEF Cur
<1>9. AllLinked(After(Cur), last, [cell EXCEPT ![At(Line(prog, Cur).ptr)] = last],
                malloc_vars, malloc_structs)
  BY <1>3, <1>4, <1>8, StoreStep
<1> QED  BY <1>1, <1>5, <1>7, <1>9, LinkAfter DEF tables

LEMMA ReadyOther ==
  ASSUME Ready, Pass,
         Inst.op \in {"address", "other"}
           \/ (Inst.op = "call" /\ Inst.callee = "else")
  PROVE  HeapOK' /\ Linking'
<1>1. UNCHANGED tables
  BY DEF Pass
<1>2. DoNothing
  BY DEF Ready, Execute, DoLoad, DoStore, DoMalloc, DoFree, DoMemcpy
<1>3. /\ LoopOK /\ InBlock /\ SourceOK /\ Disciplined(prog)
           /\ Cur \in Positions(prog)
      /\ AllLinked(Cur, last, cell, malloc_vars, malloc_structs) /\ HeapOK
  BY OnReady DEF Ready
<1>4. ~Is(prog, Cur, "store") /\ ~Is(prog, Cur, "load")
        /\ ~IsCall(prog, Cur, "malloc")
  BY OnReady, OnInst DEF Ready
<1>5. HeapOK'
  BY <1>1, <1>2, <1>3, OtherHeap DEF tables
<1> HIDE DEF Cur
<1>6. ~Is(prog, After(Cur), "store")
  BY <1>3, <1>4, StoreComes
<1>7. AllLinked(After(Cur), last, cell, malloc_vars, malloc_structs)
  BY <1>3, <1>4, <1>6, QuietStep
<1> QED  BY <1>1, <1>2, <1>5, <1>7, LinkAfter DEF tables, DoNothing, heap

LEMMA ReadyStep ==
  ASSUME Ready
  PROVE  HeapOK' /\ Linking'
<1>1. /\ Calls("malloc") => TrackVar \/ TrackField
      /\ Calls("free") => FreeVar \/ FreeField
      /\ Calls("memcpy") => CopyStruct
  BY Tracked DEF Ready
<1>2. ASSUME ExpandCast PROVE Calls("malloc") \/ Calls("free")
  BY <1>2 DEF ExpandCast, Allocates, Frees
<1>3. ASSUME Pass
      PROVE  \/ Inst.op \in {"load", "store", "address", "other"}
             \/ Inst.op = "call" /\ Inst.callee = "else"
             \/ Calls("malloc") \/ Calls("free") \/ Calls("memcpy")
  BY <1>3 DEF Pass, Loads, Calls
<1>4. \/ TrackVar \/ TrackField \/ FreeVar \/ FreeField \/ CopyStruct
           \/ TrackAlias
      \/ Pass /\ \/ Inst.op \in {"load", "store", "address", "other"}
                 \/ Inst.op = "call" /\ Inst.callee = "else"
  BY <1>1, <1>2, <1>3 DEF Ready, Step
<1> QED
  BY <1>4, ReadyVar, ReadyField, ReadyFree, ReadyCopy, ReadyLoad, ReadyStore,
     ReadyOther

-----------------------------------------------------------------------------
\* While it is read, the scan is where the program is and the tables are
\* linked to memory; the verdict then says what is left in mallocs.
XInv ==
  /\ SourceOK
  /\ Disciplined(prog) =>
       /\ HeapOK
       /\ verdict = "scanning" => Aligned /\ Linking
       /\ verdict \in {"leak", "clean"} => (verdict = "leak" <=> Left)

LEMMA InitXInv == Init => XInv
<1> SUFFICES ASSUME Init PROVE XInv  OBVIOUS
<1>1. LoopOK  BY InitIInv DEF IInv
<1>2. Aligned /\ SourceOK /\ Cur = <<1, 1>>  BY InitAligned
<1>3. /\ verdict = "scanning" /\ malloc_id = 0
      /\ malloc_vars = NoVars /\ malloc_structs = NoStructs
      /\ cell = [a \in Address |-> 0] /\ last = 0 /\ objects = 0 /\ live = {}
  BY DEF Init, Start
<1>4. HeapOK  BY <1>3 DEF HeapOK
<1>5. ASSUME Disciplined(prog) PROVE Linking
  <2>1. AllLinked(<<1, 1>>, 0, cell, NoVars, NoStructs)
    BY <1>1, <1>2, <1>3, <1>5, FirstStep
  <2> QED  BY <1>2, <1>3, <2>1 DEF Linking
<1> QED  BY <1>2, <1>3, <1>4, <1>5 DEF XInv

LEMMA StepXInv == IInv /\ XInv /\ [Next]_vars => XInv'
<1> SUFFICES ASSUME IInv, XInv, [Next]_vars PROVE XInv'  OBVIOUS
<1>1. LoopOK /\ TablesOK /\ SourceOK  BY DEF IInv, XInv
<1>2. UNCHANGED <<path, source>>
  BY DEF Next, Step, TrackAlias, CopyStruct, TrackVar, TrackField, FreeVar,
     FreeField,
         ExpandCast, Pass, Move, ExpandHere, Crash, NextBlock, Finish, Execute,
         DoLoad,
         DoStore, DoMalloc, DoFree, DoMemcpy, DoNothing, heap, vars, scanVars
<1>3. SourceOK'  BY <1>1, <1>2 DEF SourceOK
<1>4. SUFFICES ASSUME Disciplined(prog)
               PROVE  /\ HeapOK'
                      /\ verdict' = "scanning" => Aligned' /\ Linking'
                      /\ verdict' \in {"leak", "clean"} =>
                           (verdict' = "leak" <=> Left')
  BY <1>2, <1>3, SameDiscipline DEF XInv
<1>5. /\ HeapOK
      /\ verdict = "scanning" => Aligned /\ Linking
      /\ verdict \in {"leak", "clean"} => (verdict = "leak" <=> Left)
  BY <1>4 DEF XInv
<1>6. UNCHANGED <<heap, malloc_id, mallocs>> => HeapOK' /\ (Left' <=> Left)
  BY <1>5 DEF HeapOK, heap, Left
<1>7. CASE Step /\ Execute
  <2>1. verdict = "scanning"
    BY <1>7 DEF Step, TrackAlias, CopyStruct, TrackVar, TrackField, FreeVar,
       FreeField,
         ExpandCast, Pass, Loads, Calls, Allocates, Frees, InBlock
  <2>2. Ready  BY <1>1, <1>4, <1>5, <1>7, <2>1 DEF Ready, IInv
  <2>3. verdict' = verdict /\ Aligned'  BY <2>2, StepAligned DEF Ready
  <2> QED  BY <2>1, <2>2, <2>3, ReadyStep
<1>8. CASE Crash /\ UNCHANGED heap
  BY <1>6, <1>8 DEF Crash, tables
<1>9. CASE NextBlock /\ UNCHANGED heap
  <2>1. /\ verdict = "scanning" /\ verdict' = verdict /\ i > Len(Body)
        /\ UNCHANGED tables
    BY <1>9 DEF NextBlock
  <2>2. Aligned' /\ Cur' = <<bb + 1, 1>>
    BY <1>1, <1>5, <1>9, <2>1, NextBlockAligned DEF heap
  <2>3. bb \in Nat /\ i - Ahead \in Nat /\ Cur \notin Positions(prog)
    <3> DEFINE b == path[bb]
               N == Len(source[b])
    <3>1. b \in Block /\ bb \in 1..Len(path)
      BY <1>1, ElementOfSeq DEF LoopOK
    <3>2. N \in Nat /\ Len(Body) \in Nat /\ Ahead = Len(Body) - N
      BY <1>1, <3>1 DEF SourceOK, LoopOK, Body, Ahead
    <3>3. Ahead \in Nat /\ i - Ahead \in 1..N + 1
      BY <1>5, <2>1 DEF Aligned
    <3>4. i - Ahead \notin 1..N
      BY <1>1, <2>1, <3>2, <3>3 DEF LoopOK
    <3> QED  BY <1>1, <3>1, <3>2, <3>3, <3>4, PositionsAre DEF Cur
  <2>4. AllLinked(<<bb, i - Ahead>>, last, cell, malloc_vars, malloc_structs)
    BY <1>5, <2>1 DEF Linking, Cur
  <2>5. AllLinked(<<bb + 1, 1>>, last, cell, malloc_vars, malloc_structs)
    BY <1>1, <1>4, <2>3, <2>4, NextBlockStep DEF Cur
  <2>6. Linking'
    BY <1>2, <1>9, <2>1, <2>2, <2>5, LinkingNext DEF heap, tables
  <2> QED  BY <1>6, <1>9, <2>1, <2>2, <2>6 DEF tables
<1>10. CASE Finish /\ UNCHANGED heap
  BY <1>6, <1>10 DEF Finish, tables
<1>11. CASE UNCHANGED vars
  <2>1. UNCHANGED <<code, path, bb, i, malloc_id, mallocs, malloc_vars, malloc_structs>>
        /\ verdict' = verdict /\ UNCHANGED heap
    BY <1>11 DEF vars, scanVars, tables
  <2>2. verdict = "scanning" => Aligned' /\ Cur' = Cur
    BY <1>2, <1>5, <2>1, StillAligned
  <2>3. verdict = "scanning" =>
          AllLinked(Cur', last', cell', malloc_vars', malloc_structs')
    BY <1>5, <2>1, <2>2 DEF Linking, heap
  <2>4. verdict = "scanning" => Linking'
    BY <1>2, <2>3, LinkingNext
  <2> QED  BY <1>5, <1>6, <2>1, <2>2, <2>4
<1> QED  BY <1>7, <1>8, <1>9, <1>10, <1>11 DEF Next

LEMMA InvIsExact == IInv /\ XInv => ExactWhenDisciplined
BY LeftIsLeaks DEF IInv, XInv, ExactWhenDisciplined

\* On every disciplined path of every program the verdict is right: reported
\* exactly when an object allocated on it is not released on it.
THEOREM VerdictExact == Spec => []ExactWhenDisciplined
BY InvIsExact, InitIInv, StepIInv, InitXInv, StepXInv, PTL DEF Spec
=============================================================================
