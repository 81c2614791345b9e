--------------------------- MODULE MCLeakDetector ---------------------------
(***************************************************************************)
(* Modules of a declaration, a function of four blocks (an if-else that    *)
(* joins, or a loop with a body and an exit) and a function of one block,  *)
(* over a global g and a struct s.                                         *)
(***************************************************************************)
EXTENDS LeakDetector

CONSTANTS b1, b2, b3, b4, b5, g, s

MCBlock == {b1, b2, b3, b4, b5}

Var(x)      == [kind |-> "plain", name |-> x, idx |-> 0, place |-> x]
Field(x, k) == [kind |-> "gep", name |-> x, idx |-> k, place |-> x]

Make(op, callee, ptr) ==
  [op |-> op, callee |-> callee, ptr |-> ptr, src |-> ptr, val |-> "last"]
Terminator   == Make("other", "else", Var(g))
MallocTo(o)  == <<Make("call", "malloc", Var(g)), Make("store", "else", o)>>
Release(o)   == <<Make("load", "else", o), Make("call", "free", Var(g))>>

Br(x)    == [br |-> TRUE, succ |-> x]
Ret      == [br |-> FALSE, succ |-> <<>>]

Diamond == (b1 :> Br(<<b2, b3>>)) @@ (b2 :> Br(<<b4>>)) @@ (b3 :> Br(<<b4>>))
           @@ (b4 :> Ret) @@ (b5 :> Ret)
Loop    == (b1 :> Br(<<b2>>)) @@ (b2 :> Br(<<b3, b4>>)) @@ (b3 :> Br(<<b2>>))
           @@ (b4 :> Ret) @@ (b5 :> Ret)

Module(graph, body) ==
  [node |-> graph, entries |-> <<NoBlock, b1, b5>>,
   code |-> [x \in MCBlock |-> body[x] \o <<Terminator>>]]

Bodies(o) == [{b1, b2, b3, b4} -> {<<>>, MallocTo(o), Release(o)}]

MCModules ==
  {Module(graph, body @@ (b5 :> last)) :
     graph \in {Diamond, Loop},
     body \in Bodies(Var(g)) \cup Bodies(Field(s, 0)),
     last \in {<<>>, MallocTo(Var(g))}}

\* if (...) ... ; s.p = malloc(n); free(s.p);
MCFieldModules ==
  {Module(Diamond, (b1 :> <<>>) @@ (b2 :> <<>>) @@ (b3 :> <<>>)
                   @@ (b4 :> MallocTo(Field(s, 0)) \o Release(Field(s, 0)))
                   @@ (b5 :> <<>>))}

\* A leak in the first of two functions.
MCTwoFunctions ==
  {Module(Diamond, (b1 :> MallocTo(Var(g))) @@ (b2 :> <<>>)
                   @@ (b3 :> Release(Var(g))) @@ (b4 :> <<>>) @@ (b5 :> <<>>))}
=============================================================================
