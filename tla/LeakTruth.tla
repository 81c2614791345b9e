----------------------------- MODULE LeakTruth -----------------------------
(***************************************************************************)
(* MemoryLeakDetection next to what the program itself does on the path:   *)
(* LeakScan's steps read an instruction, and the heap of the program       *)
(* evolves by that instruction's meaning in LLVM IR.  The two meet in the  *)
(* properties, which compare the verdict with the heap.                    *)
(***************************************************************************)
EXTENDS LeakScan, FiniteSets

CONSTANTS
  Programs    \* pairs of code and a path through it

VARIABLES
  source,   \* the code before the pass touched it
  cell,     \* memory: the object an address points to, 0 for none
  last,     \* the value of the latest load or malloc
  objects,  \* number of objects allocated so far
  live,     \* the objects allocated and not released
  frees     \* number of calls of free

heap == <<source, cell, last, objects, live, frees>>
vars == <<scanVars, heap>>

\* A program has no "address" before the pass reads it.
ASSUME ProgramsAssumption ==
  \A p \in Programs :
    /\ p \in ProgramType /\ p.path # <<>>
    /\ \A b \in Block : \A n \in 1..Len(p.code[b]) :
         p.code[b][n].op # "address"

Init ==
  /\ \E p \in Programs : code = p.code /\ Start(p.path)
  /\ source = code
  /\ cell = [a \in Address |-> 0]
  /\ last = 0 /\ objects = 0 /\ live = {} /\ frees = 0

DoLoad ==
  /\ Inst.op = "load"
  /\ last' = cell[At(Inst.ptr)]
  /\ UNCHANGED <<source, cell, objects, live, frees>>

DoStore ==
  /\ Inst.op = "store"
  /\ cell' = [cell EXCEPT ![At(Inst.ptr)] =
                IF Inst.val = "last" THEN last ELSE 0]
  /\ UNCHANGED <<source, last, objects, live, frees>>

DoMalloc ==
  /\ Inst.op = "call" /\ Inst.callee = "malloc"
  /\ objects' = objects + 1
  /\ last' = objects + 1
  /\ live' = live \cup {objects + 1}
  /\ UNCHANGED <<source, cell, frees>>

DoFree ==
  /\ Inst.op = "call" /\ Inst.callee = "free"
  /\ live' = live \ {last}
  /\ frees' = frees + 1
  /\ UNCHANGED <<source, cell, last, objects>>

DoMemcpy ==
  /\ Inst.op = "call" /\ Inst.callee = "memcpy"
  /\ cell' = [a \in Address |->
                IF a[1] = Inst.ptr.place THEN cell[<<Inst.src.place, a[2]>>]
                ELSE cell[a]]
  /\ UNCHANGED <<source, last, objects, live, frees>>

DoNothing ==
  /\ Inst.op \in {"address", "other"} \/ (Inst.op = "call" /\ Inst.callee = "else")
  /\ UNCHANGED heap

Execute == DoLoad \/ DoStore \/ DoMalloc \/ DoFree \/ DoMemcpy \/ DoNothing

\* The instruction is read and executed; a crash of the pass stops both.
Next ==
  \/ Step /\ Execute
  \/ (Crash \/ NextBlock \/ Finish) /\ UNCHANGED heap

Spec == Init /\ [][Next]_vars /\ WF_vars(Next)

-----------------------------------------------------------------------------
\* What the verdict should say.
Leaks == live # {}

\* One call of free never settles more than one allocation: however aliases
\* and copied structs make names share numbers, a path with fewer calls of
\* free than tracked allocations is reported.
Cleared == {k \in 1..Len(mallocs) : mallocs[k] = "NULL"}

ClearedAtMostFrees == Cardinality(Cleared) <= frees

\* The instructions of a block that getAsInstruction did not make.
Kept(b) == {n \in 1..Len(code[b]) : code[b][n].op # "address"}

\* The kept instructions up to position n: how far the program is, there.
KeptTo(b, n) == {m \in Kept(b) : m <= n}

\* Whatever the scan inserts, the instructions the program was made of stay,
\* in their order: none is lost, changed, doubled or overtaken.
ProgramKept ==
  \A b \in Block :
    /\ Cardinality(Kept(b)) = Len(source[b])
    /\ \A n \in Kept(b) : source[b][Cardinality(KeptTo(b, n))] = code[b][n]

\* The scan comes to an end, with a verdict or with a crash of the pass.
ScanEnds == <>(verdict # "scanning")

\* The program as it was, and the path that is scanned.
prog == [code |-> source, path |-> path]

\* On a path the tables can follow the verdict is right both ways: reported
\* exactly when an object allocated on it is not released on it.
ExactWhenDisciplined ==
  verdict \in {"leak", "clean"} /\ Disciplined(prog) => (verdict = "leak" <=> Leaks)

\* README.md line 11: the pass "tracks heap allocation and release along each
\* path, and reports leaks".  No path is reported on which all is released.
NoFalseReport == verdict = "leak" => Leaks
=============================================================================
