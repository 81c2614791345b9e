---------------------------- MODULE MCLeakTruth ----------------------------
(***************************************************************************)
(* Programs as clang -O0 compiles them: every C statement over the globals *)
(* g and h, the structs s and t, and the unnamed locals u and v becomes    *)
(* one to three instructions of the only block.                            *)
(***************************************************************************)
EXTENDS LeakTruth

CONSTANTS block, g, h, s, t, u, v

MCName  == {g, h, s, t, NoName}
MCPlace == {g, h, s, t, u, v}

Var(x)      == [kind |-> "plain", name |-> x, idx |-> 0, place |-> x]
Local(x)    == [kind |-> "plain", name |-> NoName, idx |-> 0, place |-> x]
Field(x, k) == [kind |-> "gep", name |-> x, idx |-> k, place |-> x]
Cast(x)     == [kind |-> "cast", name |-> x, idx |-> 0, place |-> x]

Make(op, callee, ptr, src, val) ==
  [op |-> op, callee |-> callee, ptr |-> ptr, src |-> src, val |-> val]
Load(o)     == Make("load", "else", o, o, "last")
Store(o)    == Make("store", "else", o, o, "last")
Clean(o)    == Make("store", "else", o, o, "null")
CallOf(f)   == Make("call", f, Local(u), Local(u), "last")
Memcpy(l,r) == Make("call", "memcpy", l, r, "last")
Indirect    == Make("icall", "else", Local(u), Local(u), "last")
Other       == Make("other", "else", Local(u), Local(u), "last")

MallocTo(o)     == <<CallOf("malloc"), Store(o)>>
CastMallocTo(o) == <<CallOf("malloc"), Other, Store(o)>>
Assign(o, p)    == <<Load(p), Store(o)>>
Release(o)      == <<Load(o), CallOf("free")>>
ReleaseCast(o)  == <<Load(o), Other, CallOf("free")>>

Plain  == {Var(g), Var(h)}
Fields == {Field(s, 0), Field(t, 0)}

\* Statements the tables can follow.
Simple ==
  {MallocTo(o) : o \in Plain \cup Fields}
  \cup {Release(o) : o \in Plain \cup Fields}
  \cup {Assign(Var(g), Var(h)), Assign(Var(h), Var(g)),
        <<Memcpy(Cast(s), Cast(t))>>, <<Memcpy(Cast(t), Cast(s))>>}

\* And statements they lose track of.
Wild ==
  {MallocTo(Var(g)), MallocTo(Field(s, 0)), MallocTo(Field(s, 1)),
   MallocTo(Local(u)), MallocTo(Cast(h)), CastMallocTo(Var(g)),
   Release(Var(g)), Release(Field(s, 0)), Release(Local(v)), Release(Cast(h)),
   ReleaseCast(Var(h)),
   Assign(Local(v), Local(u)), Assign(Field(s, 1), Var(g)),
   Assign(Var(h), Field(s, 0)), Assign(Local(u), Var(g)),
   <<Clean(Var(g))>>, <<Memcpy(Local(u), Cast(s))>>,
   <<CallOf("free")>>, <<CallOf("else")>>, <<Indirect>>}

\* A block of statements, and its terminator.
BlockOf(ss) == [x \in {block} |-> FlattenSeq(ss) \o <<Other>>]

\* The first statement allocates: before that there is nothing to follow.
MCSimple ==
  {[code |-> BlockOf(<<MallocTo(o)>> \o ss), path |-> <<block>>] :
     o \in Plain \cup Fields, ss \in [1..3 -> Simple]}

MCWild ==
  {[code |-> BlockOf(ss), path |-> p] :
     ss \in [1..3 -> Wild], p \in {<<block>>, <<block, block>>}}

MCAll == MCSimple \cup MCWild

\* proj2/testcases/test6.c: x = malloc; s1.p = malloc; y = s1.p; free(x); free(y)
MCTest6 ==
  {[code |-> BlockOf(<<MallocTo(Var(g)), MallocTo(Field(s, 0)),
                       Assign(Var(h), Field(s, 0)),
                       Release(Var(g)), Release(Var(h))>>),
    path |-> <<block>>]}
=============================================================================
