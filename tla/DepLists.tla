------------------------------ MODULE DepLists ------------------------------
(***************************************************************************)
(* The dependency tables of proj1 depAnalysis.c as the lists the code      *)
(* keeps: var_deps and reg_deps are lists of nodes that are searched from  *)
(* the front, and every list of reads has an order and is merged without   *)
(* repeats.  The callbacks come in any order.  DepTrack, which has sets of *)
(* reads and the first temporary only, is the abstract specification.      *)
(***************************************************************************)
EXTENDS Integers, Sequences, SequencesExt

CONSTANTS
  Tmp, Reg, Addr, NoTmp,
  Width,                \* the sizes of system-call buffers, in bytes
  Ops, Qops,            \* operand lists of a Unop, Binop or Triop, and of a Qop
  MaxReads, MaxWrites,  \* bounds on the calls of read and write
  MaxNodes              \* a bound on the length of var_deps

\* A dep_val is tagged: no temporary is a register.
ASSUME KeysAssumption == NoTmp \notin Tmp /\ Tmp \cap Reg = {}
ASSUME OperandsAssumption == Ops \cup Qops \subseteq Seq(Tmp)
\* Addresses are numbered without a gap.
ASSUME AddrAssumption == Addr \subseteq Int /\ \A a, b \in Addr : a..b \subseteq Addr
ASSUME WidthAssumption == Width \subseteq Nat \ {0}

VARIABLES
  var_deps,     \* list of nodes for temporaries
  reg_deps,     \* list of nodes for registers
  shadow_mem,   \* byte -> list of reads, <<>> for NULL
  write_deps,   \* the list of reads of each write
  read_n,
  write_n,
  dangling      \* does var_deps point to a node that was freed?

vars == <<var_deps, reg_deps, shadow_mem, write_deps, read_n, write_n, dangling>>

Node(k, l) == [key |-> k, deps |-> l]

Init ==
  /\ var_deps = <<>> /\ reg_deps = <<>>
  /\ shadow_mem = [a \in Addr |-> <<>>]
  /\ write_deps = <<>> /\ read_n = 0 /\ write_n = 0
  /\ dangling = FALSE

-----------------------------------------------------------------------------
\* Mutant: the value is not looked for.
MergeRepeats(h, l) == h \o l

\* int_node_merge: the values of l that h lacks go to its end.
int_node_merge(h, l) ==
  LET m[n \in 0..Len(l)] ==
        IF n = 0 THEN h
        ELSE IF Contains(m[n - 1], l[n]) THEN m[n - 1] ELSE Append(m[n - 1], l[n])
  IN  m[Len(l)]

\* The positions of the nodes for k.
Matches(list, k) == {n \in DOMAIN list : list[n].key = k}

\* Mutant: the search goes on to the last match.
FindLast(list, k) ==
  LET m == Matches(list, k)
  IN  IF m = {} THEN <<>> ELSE list[Max(m)].deps

\* find_read_dep_tmp and find_read_dep_reg: the first match.
Find(list, k) ==
  LET m == Matches(list, k)
  IN  IF m = {} THEN <<>> ELSE list[Min(m)].deps

\* Lists merged from left to right, and the lists of the operands.
MergeAll(ls) ==
  LET m[n \in 0..Len(ls)] == IF n = 0 THEN <<>> ELSE int_node_merge(m[n - 1], ls[n])
  IN  m[Len(ls)]

OperandDeps(ops) == MergeAll([n \in 1..Len(ops) |-> Find(var_deps, ops[n])])

\* The nodes that are not for k, in order.
Without(list, k) ==
  LET w[n \in 0..Len(list)] ==
        IF n = 0 THEN <<>>
        ELSE IF list[n].key = k THEN w[n - 1] ELSE Append(w[n - 1], list[n])
  IN  w[Len(list)]

\* Mutant: nothing is erased.
ErasedNothing(r) == reg_deps

\* read_dep_node_erase_reg
ErasedReg(r) == Without(reg_deps, r)

\* read_dep_node_erase_tmp, and then var_deps is set to new.  When the first
\* node goes, the rest of the list is hung into reg_deps; var_deps still points
\* to the freed node, and what is linked to it then is undefined.
EraseTmpThen(t, new) ==
  IF var_deps # <<>> /\ Head(var_deps).key = t
  THEN /\ reg_deps' = Without(var_deps, t)
       /\ dangling' = TRUE
       /\ UNCHANGED var_deps
  ELSE /\ var_deps' = new
       /\ UNCHANGED <<reg_deps, dangling>>

Appended(list, k, l) == Append(list, Node(k, l))

\* Mutant: the new node goes to the end.
PrependedLast(list, k, l) == Append(list, Node(k, l))

Prepended(list, k, l) == <<Node(k, l)>> \o list

NoTmpChange == UNCHANGED <<var_deps, reg_deps, dangling>>
RestOfTmp   == UNCHANGED <<shadow_mem, write_deps, read_n, write_n>>
RestOfShadow == UNCHANGED <<var_deps, reg_deps, write_deps, read_n, write_n, dangling>>
RestOfReg   == UNCHANGED <<var_deps, shadow_mem, write_deps, read_n, write_n, dangling>>

-----------------------------------------------------------------------------
instrument_assgn_tmp_load(t, a) ==
  /\ RestOfTmp
  /\ IF shadow_mem[a] = <<>> THEN NoTmpChange
     ELSE EraseTmpThen(t, Appended(Without(var_deps, t), t, shadow_mem[a]))

\* unop, binop and triop.
instrument_assgn_tmp_op(t, ops) ==
  /\ RestOfTmp
  /\ LET l == OperandDeps(ops) IN
     IF l = <<>> THEN NoTmpChange
     ELSE EraseTmpThen(t, Prepended(Without(var_deps, t), t, l))

instrument_assgn_tmp_qop(t, ops) ==
  /\ RestOfTmp
  /\ LET l == OperandDeps(ops) IN
     IF l = <<>> THEN NoTmpChange
     ELSE EraseTmpThen(t, Appended(Without(var_deps, t), t, l))

instrument_assgn_tmp_const(t) ==
  /\ RestOfTmp
  /\ EraseTmpThen(t, Without(var_deps, t))

\* Mutant: a node is made for a register without an entry, too.
GetAlways(t, r) ==
  /\ var_deps' = Prepended(var_deps, t, Find(reg_deps, r))
  /\ UNCHANGED <<reg_deps, dangling>>
  /\ RestOfTmp

instrument_assgn_tmp_get(t, r) ==
  /\ RestOfTmp
  /\ IF Find(reg_deps, r) = <<>> THEN NoTmpChange
     ELSE /\ var_deps' = Prepended(var_deps, t, Find(reg_deps, r))
          /\ UNCHANGED <<reg_deps, dangling>>

instrument_store_tmp(a, t) ==
  /\ shadow_mem' = IF Find(var_deps, t) = <<>> THEN shadow_mem
                   ELSE [shadow_mem EXCEPT ![a] = Find(var_deps, t)]
  /\ RestOfShadow

instrument_store_const(a) ==
  /\ shadow_mem' = [shadow_mem EXCEPT ![a] = <<>>]
  /\ RestOfShadow

instrument_put_tmp(r, t) ==
  /\ reg_deps' = IF Find(var_deps, t) = <<>> THEN reg_deps
                 ELSE Prepended(ErasedReg(r), r, Find(var_deps, t))
  /\ RestOfReg

instrument_put_cnst(r) ==
  /\ reg_deps' = ErasedReg(r)
  /\ RestOfReg

instrument_exit ==
  /\ var_deps' = <<>>
  /\ UNCHANGED <<reg_deps, dangling>> /\ RestOfTmp

\* ta_pre_call, for read and for write.
ta_pre_read(a, n) ==
  /\ read_n' = read_n + 1
  /\ shadow_mem' = [b \in Addr |-> IF b \in a..a + n - 1 THEN <<read_n + 1>>
                                   ELSE shadow_mem[b]]
  /\ UNCHANGED <<var_deps, reg_deps, write_deps, write_n, dangling>>

find_read_dep_by_mem_addrs(a, n) ==
  MergeAll([k \in 1..n |-> shadow_mem[a + k - 1]])

ta_pre_write(a, n) ==
  /\ write_n' = write_n + 1
  /\ write_deps' = Append(write_deps, find_read_dep_by_mem_addrs(a, n))
  /\ UNCHANGED <<var_deps, reg_deps, shadow_mem, read_n, dangling>>

Assignment(t) ==
  \/ instrument_assgn_tmp_const(t)
  \/ \E a \in Addr : instrument_assgn_tmp_load(t, a)
  \/ \E r \in Reg : instrument_assgn_tmp_get(t, r)
  \/ \E ops \in Ops : instrument_assgn_tmp_op(t, ops)
  \/ \E ops \in Qops : instrument_assgn_tmp_qop(t, ops)

Syscall(a, n) ==
  /\ a + n - 1 \in Addr
  /\ \/ read_n < MaxReads /\ ta_pre_read(a, n)
     \/ write_n < MaxWrites /\ ta_pre_write(a, n)

\* After a node was freed under var_deps anything may happen.
Next ==
  /\ ~dangling
  /\ \/ \E t \in Tmp : Assignment(t)
     \/ \E a \in Addr, t \in Tmp : instrument_store_tmp(a, t)
     \/ \E a \in Addr : instrument_store_const(a)
     \/ \E r \in Reg, t \in Tmp : instrument_put_tmp(r, t)
     \/ \E r \in Reg : instrument_put_cnst(r)
     \/ \E a \in Addr, n \in Width : Syscall(a, n)
     \/ instrument_exit
  /\ Len(var_deps') <= MaxNodes

Spec == Init /\ [][Next]_vars

-----------------------------------------------------------------------------
ReadList == Seq(Nat \ {0})
NodeOf(K) == [key : K, deps : ReadList \ {<<>>}]

\* Every variable has its type; a node is made only for a list of some reads.
TypeOK ==
  /\ var_deps \in Seq(NodeOf(Tmp))
  /\ reg_deps \in Seq(NodeOf(Reg)) \/ dangling
  /\ shadow_mem \in [Addr -> ReadList]
  /\ write_deps \in Seq(ReadList)
  /\ read_n \in Nat /\ write_n \in Nat /\ dangling \in BOOLEAN

Lists ==
  {var_deps[n].deps : n \in DOMAIN var_deps}
  \cup {reg_deps[n].deps : n \in DOMAIN reg_deps}
  \cup {shadow_mem[a] : a \in Addr}
  \cup {write_deps[n] : n \in DOMAIN write_deps}

\* Through copies and merges, no list names a read twice, so that no line of
\* the trace does.
NoRepeats == \A l \in Lists : IsInjective(l)

\* PUT keeps at most one node for a register, where GET piles up nodes for a
\* temporary: what is found for a register is what was put last.
OneNodePerReg ==
  \A m, n \in DOMAIN reg_deps :
    ~dangling /\ reg_deps[m].key = reg_deps[n].key => m = n

\* da_fini prints the list reg_deps under "Printing registers": no temporary is
\* among its nodes.
RegistersOnly == \A n \in DOMAIN reg_deps : reg_deps[n].key \in Reg

Track == INSTANCE DepTrack WITH
  var        <- [t \in Tmp |-> ToSet(Find(var_deps, t))],
  head       <- IF var_deps = <<>> THEN NoTmp ELSE Head(var_deps).key,
  reg        <- [r \in Reg |-> ToSet(Find(reg_deps, r))],
  shadow     <- [a \in Addr |-> ToSet(shadow_mem[a])],
  write_deps <- [n \in DOMAIN write_deps |-> ToSet(write_deps[n])],
  corrupt    <- dangling

\* DepTrack, with any callback at any time, allows whatever the lists do,
\* whatever older nodes GET has left and in whatever order the reads stand.
Implements == Track!ToolSpec

Agree ==
  /\ \A t \in Tmp :
       /\ instrument_assgn_tmp_const(t) => Track!instrument_assgn_tmp_const(t)
       /\ \A a \in Addr :
            /\ instrument_assgn_tmp_load(t, a) => Track!instrument_assgn_tmp_load(t, a)
            /\ instrument_store_tmp(a, t) => Track!instrument_store_tmp(a, t)
       /\ \A r \in Reg :
            /\ instrument_assgn_tmp_get(t, r) => Track!instrument_assgn_tmp_get(t, r)
            /\ instrument_put_tmp(r, t) => Track!instrument_put_tmp(r, t)
       /\ \A ops \in Ops :
            instrument_assgn_tmp_op(t, ops) => Track!instrument_assgn_tmp_op(t, ToSet(ops))
       /\ \A ops \in Qops :
            instrument_assgn_tmp_qop(t, ops) => Track!instrument_assgn_tmp_qop(t, ToSet(ops))
  /\ \A a \in Addr : instrument_store_const(a) => Track!instrument_store_const(a)
  /\ \A r \in Reg : instrument_put_cnst(r) => Track!instrument_put_cnst(r)
  /\ \A a \in Addr, n \in Width : a + n - 1 \in Addr =>
       /\ ta_pre_read(a, n) => Track!ta_pre_read(a, n)
       /\ ta_pre_write(a, n) => Track!ta_pre_write(a, n)
  /\ instrument_exit => Track!instrument_exit

\* Each callback on the lists is, on the sets, the callback of that name.
CallbacksAgree == [][Agree]_vars
=============================================================================
