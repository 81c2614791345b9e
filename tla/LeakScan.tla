------------------------------ MODULE LeakScan ------------------------------
(***************************************************************************)
(* MemoryLeakDetection of proj2/LeakDetector.cpp: one pass over the        *)
(* instructions of one path, with the tables it keeps about heap           *)
(* allocations, and its effect on the code it reads: in LLVM 14            *)
(* CE->getAsInstruction(&i) inserts the new instruction before i.          *)
(*                                                                         *)
(* An absent key of a std::map is mapped to NoId; an absent inner map of   *)
(* malloc_structs is the same as an empty one.                             *)
(***************************************************************************)
EXTENDS LeakProgram, SequencesExt

NoId == -1
IdOrNone == Nat \cup {NoId}

VARIABLES
  code,            \* the instructions of each block
  path,            \* the path under analysis
  bb,              \* position in path of the block being read
  i,               \* position in the block of the instruction being read
  malloc_id,       \* the next number to give out
  mallocs,         \* for each number, the call it was given to, or NULL
  malloc_vars,     \* name of a variable -> number
  malloc_structs,  \* name of a struct -> field index -> number
  verdict          \* "scanning", the value returned, or "crash"

tables == <<malloc_id, mallocs, malloc_vars, malloc_structs>>
scanVars == <<code, path, bb, i, tables, verdict>>

Body == code[path[bb]]
Inst == Body[i]

InBlock   == verdict = "scanning" /\ i <= Len(Body)
Following == Body[i + 1]
HasPrevious == i > 1
Previous  == Body[i - 1]

Move == i' = i + 1 /\ UNCHANGED <<path, bb, verdict>>

Stay == UNCHANGED code

\* The instruction that getAsInstruction makes of a constant expression: an
\* address computation nobody uses.
Expanded(in) == [in EXCEPT !.op = "address"]

\* Mutant: the new instruction takes the place of the old.
ExpandInPlace ==
  /\ code' = [code EXCEPT ![path[bb]][i] = Expanded(Inst)]
  /\ i' = i + 1
  /\ UNCHANGED <<path, bb, verdict>>

\* CE->getAsInstruction(&i); the loop is now one position further.
ExpandHere ==
  /\ code' = [code EXCEPT ![path[bb]] = InsertAt(Body, i, Expanded(Inst))]
  /\ i' = i + 2
  /\ UNCHANGED <<path, bb, verdict>>

\* The tables of a scan are its locals: nothing survives from another scan.
NoVars    == [n \in Name |-> NoId]
NoStructs == [n \in Name |-> [x \in Index |-> NoId]]

Start(p) ==
  /\ path = p /\ bb = 1 /\ i = 1
  /\ malloc_id = 0 /\ mallocs = <<>>
  /\ malloc_vars = NoVars /\ malloc_structs = NoStructs
  /\ verdict = "scanning"

\* Mutant: mallocs is a global, as paths is.
CallKeepsMallocs(p) ==
  /\ path' = p /\ bb' = 1 /\ i' = 1
  /\ malloc_vars' = NoVars /\ malloc_structs' = NoStructs
  /\ verdict' = "scanning"
  /\ UNCHANGED <<code, malloc_id, mallocs>>

\* The call, in a program that makes several.
Call(p) ==
  /\ path' = p /\ bb' = 1 /\ i' = 1
  /\ malloc_id' = 0 /\ mallocs' = <<>>
  /\ malloc_vars' = NoVars /\ malloc_structs' = NoStructs
  /\ verdict' = "scanning"
  /\ UNCHANGED code

Loads  == InBlock /\ Inst.op = "load"
Calls(c) == InBlock /\ Inst.op = "call" /\ Inst.callee = c

-----------------------------------------------------------------------------
\* A load directly before a store, from a variable with a number: the variable
\* stored to gets the same number, whatever value the store stores.
Copying ==
  /\ i < Len(Body)
  /\ Following.op = "store"
  /\ malloc_vars[Key(Inst.ptr)] # NoId

\* Mutant: the variable loaded gets the number of the one stored to.
TrackAliasSwapped ==
  /\ Loads
  /\ Copying
  /\ malloc_vars' = [malloc_vars EXCEPT ![Key(Inst.ptr)] =
                       malloc_vars[Key(Following.ptr)]]
  /\ Move /\ Stay
  /\ UNCHANGED <<malloc_id, mallocs, malloc_structs>>

TrackAlias ==
  /\ Loads
  /\ Copying
  /\ malloc_vars' = [malloc_vars EXCEPT ![Key(Following.ptr)] =
                       malloc_vars[Key(Inst.ptr)]]
  /\ Move /\ Stay
  /\ UNCHANGED <<malloc_id, mallocs, malloc_structs>>

\* memcpy between two bitcast globals copies the whole inner map.
CopyStruct ==
  /\ Calls("memcpy")
  /\ Inst.ptr.kind = "cast" /\ Inst.src.kind = "cast"
  /\ malloc_structs' = [malloc_structs EXCEPT ![Inst.ptr.name] =
                          malloc_structs[Inst.src.name]]
  /\ Move /\ Stay
  /\ UNCHANGED <<malloc_id, mallocs, malloc_vars>>

\* A malloc is tracked only when its result is stored by the next instruction.
Allocates(kind) ==
  /\ Calls("malloc")
  /\ i < Len(Body)
  /\ Following.op = "store"
  /\ Following.ptr.kind = kind

\* Mutant: the number is taken, and the call not pushed.
NewIdNotPushed ==
  /\ malloc_id' = malloc_id + 1
  /\ UNCHANGED mallocs

NewId ==
  /\ mallocs' = Append(mallocs, "call")
  /\ malloc_id' = malloc_id + 1

\* std::map::insert leaves a key that is present as it is.
Inserted(m, k) == IF m[k] = NoId THEN [m EXCEPT ![k] = malloc_id] ELSE m

TrackVar ==
  /\ Allocates("plain")
  /\ NewId
  /\ malloc_vars' = Inserted(malloc_vars, Following.ptr.name)
  /\ Move /\ Stay
  /\ UNCHANGED malloc_structs

TrackField ==
  /\ Allocates("gep")
  /\ NewId
  /\ malloc_structs' = [malloc_structs EXCEPT ![Following.ptr.name] =
                          Inserted(@, Following.ptr.idx)]
  /\ ExpandHere
  /\ UNCHANGED malloc_vars

\* A free is matched with the load directly before it.
Frees(kind) ==
  /\ Calls("free")
  /\ HasPrevious
  /\ Previous.op = "load"
  /\ Previous.ptr.kind = kind

\* Mutant: the older entries are set to NULL too.
ClearUpTo(id) ==
  mallocs' = [k \in 1..Len(mallocs) |-> IF k > id + 1 THEN mallocs[k] ELSE "NULL"]

\* mallocs[id] = NULL, when the lookup found an id.
Clear(id) ==
  mallocs' = IF id = NoId THEN mallocs ELSE [mallocs EXCEPT ![id + 1] = "NULL"]

FreeVar ==
  /\ Frees("plain")
  /\ Clear(malloc_vars[Previous.ptr.name])
  /\ Move /\ Stay
  /\ UNCHANGED <<malloc_id, malloc_vars, malloc_structs>>

FreeField ==
  /\ Frees("gep")
  /\ Clear(malloc_structs[Previous.ptr.name][Previous.ptr.idx])
  /\ ExpandHere
  /\ UNCHANGED <<malloc_id, malloc_vars, malloc_structs>>

\* For a bitcast the cast instruction is made, and nothing else is done.
ExpandCast ==
  /\ Allocates("cast") \/ Frees("cast")
  /\ ExpandHere
  /\ UNCHANGED tables

\* The getName() of a null getCalledFunction(), and dyn_cast of the null
\* instruction before the first of a block.
Crash ==
  /\ \/ InBlock /\ Inst.op = "icall"
     \/ Calls("free") /\ ~HasPrevious
  /\ verdict' = "crash"
  /\ UNCHANGED <<code, path, bb, i, tables>>

\* Any other instruction leaves no mark.
Pass ==
  /\ \/ Loads /\ ~Copying
     \/ InBlock /\ Inst.op \in {"store", "address", "other"}
     \/ Calls("else")
     \/ Calls("memcpy") /\ ~(Inst.ptr.kind = "cast" /\ Inst.src.kind = "cast")
     \/ Calls("malloc") /\ ~(\E k \in {"plain", "gep", "cast"} : Allocates(k))
     \/ Calls("free") /\ HasPrevious /\ Previous.op # "load"
  /\ Move /\ Stay
  /\ UNCHANGED tables

Step == \/ TrackAlias \/ CopyStruct \/ TrackVar \/ TrackField
        \/ FreeVar \/ FreeField \/ ExpandCast \/ Pass

\* Mutant: the loop over the path goes one too far.
NextBlockPastEnd ==
  /\ verdict = "scanning" /\ i > Len(Body) /\ bb <= Len(path)
  /\ bb' = bb + 1 /\ i' = 1
  /\ UNCHANGED <<code, path, tables, verdict>>

NextBlock ==
  /\ verdict = "scanning" /\ i > Len(Body) /\ bb < Len(path)
  /\ bb' = bb + 1 /\ i' = 1
  /\ UNCHANGED <<code, path, tables, verdict>>

\* An entry of mallocs that is not NULL.
Left == \E k \in 1..Len(mallocs) : mallocs[k] # "NULL"

\* Mutant: nothing is returned when no entry is left.
FinishOnLeak ==
  /\ verdict = "scanning" /\ i > Len(Body) /\ bb = Len(path)
  /\ Left
  /\ verdict' = "leak"
  /\ UNCHANGED <<code, path, bb, i, tables>>

\* The path is read: true is returned when an entry is left.
Finish ==
  /\ verdict = "scanning" /\ i > Len(Body) /\ bb = Len(path)
  /\ verdict' = IF Left THEN "leak" ELSE "clean"
  /\ UNCHANGED <<code, path, bb, i, tables>>

ScanNext == Step \/ Crash \/ NextBlock \/ Finish

-----------------------------------------------------------------------------
TypeOK ==
  /\ code \in [Block -> Seq(Instr)]
  /\ path \in Seq(Block)
  /\ bb \in 1..Len(path)
  /\ i \in Nat \ {0}
  /\ malloc_id \in Nat
  /\ mallocs \in Seq({"call", "NULL"})
  /\ malloc_vars \in [Name -> IdOrNone]
  /\ malloc_structs \in [Name -> [Index -> IdOrNone]]
  /\ verdict \in {"scanning", "leak", "clean", "crash"}

\* The tables agree: the numbers given out are exactly the positions of
\* mallocs, and no entry, alias or copied struct holds a number that was not
\* given out, so that mallocs[id] = NULL never writes outside the vector.
IdsAreIndices ==
  /\ Len(mallocs) = malloc_id
  /\ \A n \in Name : malloc_vars[n] < malloc_id
  /\ \A n \in Name, x \in Index : malloc_structs[n][x] < malloc_id
=============================================================================
