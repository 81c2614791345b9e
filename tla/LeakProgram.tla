---------------------------- MODULE LeakProgram ----------------------------
(***************************************************************************)
(* The programs that proj2/LeakDetector.cpp reads, as far as it looks at   *)
(* them: instructions of LLVM IR and the path through their blocks, what   *)
(* they do to memory, and which of them the pass can follow.               *)
(*                                                                         *)
(* Callees are classed by the one needle (memcpy, malloc, free) their name *)
(* contains.                                                               *)
(***************************************************************************)
EXTENDS Integers, Sequences

CONSTANTS
  Block,    \* basic blocks
  Name,     \* names of values in the IR
  NoName,   \* getName() of an unnamed value or of a constant expression
  Index,    \* field indices, the third operand of a getelementptr
  Place     \* the memory an operand denotes, which the code never looks at

ASSUME NoNameAssumption == NoName \in Name

\* A pointer operand: a plain value, or a constant expression, which is a
\* getelementptr into the global name or a bitcast of it.
Operand == [kind : {"plain", "gep", "cast"}, name : Name, idx : Index,
            place : Place]

\* A load reads and a store writes ptr; memcpy copies src to ptr.  "address"
\* stands for the instructions that getAsInstruction makes.
Instr == [op     : {"load", "store", "call", "icall", "address", "other"},
          callee : {"memcpy", "malloc", "free", "else"},
          ptr    : Operand,
          src    : Operand,
          val    : {"last", "null"}]

\* The code of a function and a path through it.
ProgramType == [code : [Block -> Seq(Instr)], path : Seq(Block)]

\* getName() of a pointer operand.
Key(o) == IF o.kind = "plain" THEN o.name ELSE NoName

Address == Place \X Index
At(o)   == <<o.place, o.idx>>

-----------------------------------------------------------------------------
\* What an instruction does: cell is memory, which maps an address to the
\* object it points to, last the value of the latest load or malloc.
Empty == [cell |-> [a \in Address |-> 0], last |-> 0, objects |-> 0,
          live |-> {}, frees |-> 0]

Run(m, in) ==
  CASE in.op = "load" -> [m EXCEPT !.last = m.cell[At(in.ptr)]]
    [] in.op = "store" ->
         [m EXCEPT !.cell[At(in.ptr)] = IF in.val = "last" THEN m.last ELSE 0]
    [] in.op = "call" /\ in.callee = "malloc" ->
         [m EXCEPT !.objects = @ + 1, !.last = m.objects + 1,
                   !.live = @ \cup {m.objects + 1}]
    [] in.op = "call" /\ in.callee = "free" ->
         [m EXCEPT !.live = @ \ {m.last}, !.frees = @ + 1]
    [] in.op = "call" /\ in.callee = "memcpy" ->
         [m EXCEPT !.cell = [a \in Address |->
            IF a[1] = in.ptr.place THEN m.cell[<<in.src.place, a[2]>>]
            ELSE m.cell[a]]]
    [] OTHER -> m

\* Memory after each of the first instructions of a block that is entered with
\* m, and after each of the first blocks of a program.
InBody(m, body) ==
  LET after[n \in 0..Len(body)] ==
        IF n = 0 THEN m ELSE Run(after[n - 1], body[n])
  IN  after

OnPath(g) ==
  LET after[k \in 0..Len(g.path)] ==
        IF k = 0 THEN Empty
        ELSE LET body == g.code[g.path[k]]
             IN  InBody(after[k - 1], body)[Len(body)]
  IN  after

\* An object allocated on the path is not released on it.
LeaksOn(g) == OnPath(g)[Len(g.path)].live # {}

-----------------------------------------------------------------------------
\* The positions of a program, and the instruction at one.
Positions(g) == UNION {{k} \X (1..Len(g.code[g.path[k]])) : k \in 1..Len(g.path)}
Line(g, s)   == g.code[g.path[s[1]]][s[2]]
After(s)     == <<s[1], s[2] + 1>>
Before(s)    == <<s[1], s[2] - 1>>

Writes(in, a) ==
  \/ in.op = "store" /\ At(in.ptr) = a
  \/ in.op = "call" /\ in.callee = "memcpy" /\ in.ptr.place = a[1]

Is(g, s, op)    == s \in Positions(g) /\ Line(g, s).op = op
IsCall(g, s, f) == Is(g, s, "call") /\ Line(g, s).callee = f

\* A variable with a name, a field of a struct, and an operand in a struct.
Named(o)    == Key(o) # NoName
IsField(o)  == o.kind = "gep"
InStruct(o) == o.kind # "plain"

Operands(g) ==
  {Line(g, s).ptr : s \in {t \in Positions(g) : Is(g, t, "load") \/ Is(g, t, "store")}}
  \cup UNION {{Line(g, s).ptr, Line(g, s).src} :
                s \in {t \in Positions(g) : IsCall(g, t, "memcpy")}}

\* No block comes twice, so that the scan does not come back to a block it
\* inserted instructions into ...
NoBlockTwice(g) == \A j, k \in 1..Len(g.path) : g.path[j] = g.path[k] => j = k

\* ... or there is no constant expression that it would insert one for.
Unexpanded(g) ==
  \A s \in Positions(g) :
    Is(g, s, "load") \/ Is(g, s, "store") => Line(g, s).ptr.kind = "plain"

\* Names stand for memory: variables of different names are different memory,
\* so are structs, and no variable is in a struct.
NamesIdentify(g) ==
  \A o, p \in Operands(g) :
    /\ Named(o) /\ Named(p) => (o.name = p.name <=> At(o) = At(p))
    /\ InStruct(o) /\ InStruct(p) => (o.name = p.name <=> o.place = p.place)
    /\ Named(o) /\ InStruct(p) => o.place # p.place

WrittenOnce(g) ==
  \A s, t \in Positions(g), a \in Address :
    Writes(Line(g, s), a) /\ Writes(Line(g, t), a) => s = t

\* A load feeds a store only from one named variable to another; what is stored
\* is the pointer just loaded or allocated; malloc stores to a variable or a
\* field at once; the pointer to release is loaded from one just before; memcpy
\* copies structs.
Style(g, s) ==
  /\ Is(g, s, "load") /\ Is(g, After(s), "store") =>
       Named(Line(g, s).ptr) /\ Named(Line(g, After(s)).ptr)
  /\ Is(g, s, "store") =>
       /\ Line(g, s).val = "last"
       /\ Is(g, Before(s), "load") \/ IsCall(g, Before(s), "malloc")
  /\ IsCall(g, s, "malloc") =>
       /\ Is(g, After(s), "store")
       /\ Named(Line(g, After(s)).ptr) \/ IsField(Line(g, After(s)).ptr)
  /\ IsCall(g, s, "free") =>
       /\ Is(g, Before(s), "load")
       /\ Named(Line(g, Before(s)).ptr) \/ IsField(Line(g, Before(s)).ptr)
  /\ IsCall(g, s, "memcpy") =>
       Line(g, s).ptr.kind = "cast" /\ Line(g, s).src.kind = "cast"

\* The programs the tables can follow: what the scan reads is what the program
\* does, and no address is written twice.
Disciplined(g) ==
  /\ NoBlockTwice(g) \/ Unexpanded(g)
  /\ NamesIdentify(g) /\ WrittenOnce(g)
  /\ \A s \in Positions(g) : Style(g, s)
=============================================================================
