------------------------------ MODULE DepTrack ------------------------------
(***************************************************************************)
(* The run-time half of proj1 depAnalysis.c: what the callbacks that       *)
(* da_instrument inserts, and the hook before a system call, do to the     *)
(* dependency tables.  A table entry is a set of read() numbers; a list    *)
(* that was never made and an empty one are the same.                      *)
(*                                                                         *)
(* Of the order of the list var_deps only its head matters, because        *)
(* read_dep_node_erase_tmp unlinks a head from the wrong list: var_deps is *)
(* left pointing to freed memory and reg_deps to the tail of the           *)
(* temporaries, so that no register has an entry.  From there on the       *)
(* tables are undefined: corrupt.  DepLists has the lists themselves, and  *)
(* ShadowMem the two-level table behind shadow.                            *)
(***************************************************************************)
EXTENDS Integers, Sequences, FiniteSets

CONSTANTS
  Tmp,       \* the temporaries of a superblock
  Reg,       \* guest registers, as offsets into the guest state
  Addr,      \* guest addresses, a range of integers
  NoTmp,     \* the head of an empty list
  Width      \* the sizes of memory accesses and buffers, in bytes

ASSUME NoTmpAssumption == NoTmp \notin Tmp
ASSUME AddrAssumption == Addr \subseteq Int
ASSUME WidthAssumption == Width \subseteq Nat \ {0}

VARIABLES
  var,          \* var_deps: temporary -> reads, {} where the list has no node
  head,         \* the temporary of the first node of var_deps
  reg,          \* reg_deps
  shadow,       \* shadow_mem, one entry per byte
  write_deps,   \* the deps recorded for each write, in order
  read_n,       \* calls of read so far
  write_n,      \* calls of write so far
  corrupt       \* has a head been erased?

toolVars == <<var, head, reg, shadow, write_deps, read_n, write_n, corrupt>>

Reads == Nat \ {0}

ToolInit ==
  /\ var = [t \in Tmp |-> {}]
  /\ head = NoTmp
  /\ reg = [r \in Reg |-> {}]
  /\ shadow = [a \in Addr |-> {}]
  /\ write_deps = <<>>
  /\ read_n = 0
  /\ write_n = 0
  /\ corrupt = FALSE

\* The bytes of an access.
Span(a, n) == {b \in Addr : a <= b /\ b < a + n}

\* Mutants: the search matches any node; the merge keeps what is in all lists.
TmpDepsAny(S)    == UNION {var[s] : s \in Tmp}
TmpDepsCommon(S) == {n \in UNION {var[s] : s \in S} : \A s \in S : n \in var[s]}

\* find_read_dep_tmp and int_node_merge over several operands.
TmpDeps(S) == UNION {var[s] : s \in S}

-----------------------------------------------------------------------------
\* A new first node; the nodes behind it are as they were.
Prepend(t, deps) ==
  /\ var' = [var EXCEPT ![t] = deps]
  /\ head' = t

\* Mutant: a first node is not made the head.
AppendLost(t, deps) ==
  /\ var' = [var EXCEPT ![t] = deps]
  /\ UNCHANGED head

\* A new last node.
AppendTo(t, deps) ==
  /\ var' = [var EXCEPT ![t] = deps]
  /\ head' = IF head = NoTmp THEN t ELSE head

\* read_dep_node_erase_tmp, then the update.
EraseThen(t, Update) ==
  IF t = head
  THEN /\ corrupt' = TRUE
       /\ reg' = [r \in Reg |-> {}]
       /\ UNCHANGED <<var, head>>
  ELSE Update /\ UNCHANGED <<reg, corrupt>>

NoTmpChange == UNCHANGED <<var, head, reg, corrupt>>

RestOfTmp == UNCHANGED <<shadow, write_deps, read_n, write_n>>

instrument_assgn_tmp_load(t, a) ==
  /\ IF shadow[a] = {} THEN NoTmpChange
     ELSE EraseThen(t, AppendTo(t, shadow[a]))
  /\ RestOfTmp

\* unop, binop and triop, which differ in the number of operands only.
instrument_assgn_tmp_op(t, S) ==
  /\ IF TmpDeps(S) = {} THEN NoTmpChange
     ELSE EraseThen(t, Prepend(t, TmpDeps(S)))
  /\ RestOfTmp

instrument_assgn_tmp_qop(t, S) ==
  /\ IF TmpDeps(S) = {} THEN NoTmpChange
     ELSE EraseThen(t, AppendTo(t, TmpDeps(S)))
  /\ RestOfTmp

instrument_assgn_tmp_const(t) ==
  /\ EraseThen(t, var' = [var EXCEPT ![t] = {}] /\ UNCHANGED head)
  /\ RestOfTmp

\* Nothing is erased: an older node for t stays behind the new one, unseen.
instrument_assgn_tmp_get(t, r) ==
  /\ IF reg[r] = {} THEN NoTmpChange
     ELSE Prepend(t, reg[r]) /\ UNCHANGED <<reg, corrupt>>
  /\ RestOfTmp

instrument_store_tmp(a, t) ==
  /\ shadow' = IF var[t] = {} THEN shadow ELSE [shadow EXCEPT ![a] = var[t]]
  /\ UNCHANGED <<var, head, reg, write_deps, read_n, write_n, corrupt>>

instrument_store_const(a) ==
  /\ shadow' = [shadow EXCEPT ![a] = {}]
  /\ UNCHANGED <<var, head, reg, write_deps, read_n, write_n, corrupt>>

\* Mutant: the temporary is stored, and not the reads it depends on.
instrument_put_tmp_itself(r, t) ==
  /\ reg' = IF var[t] = {} THEN reg ELSE [reg EXCEPT ![r] = {t}]
  /\ UNCHANGED <<var, head, shadow, write_deps, read_n, write_n, corrupt>>

\* Mutant: without the early return, a PUT of a temporary with no entry erases.
instrument_put_tmp_erases(r, t) ==
  /\ reg' = [reg EXCEPT ![r] = var[t]]
  /\ UNCHANGED <<var, head, shadow, write_deps, read_n, write_n, corrupt>>

instrument_put_tmp(r, t) ==
  /\ reg' = IF var[t] = {} THEN reg ELSE [reg EXCEPT ![r] = var[t]]
  /\ UNCHANGED <<var, head, shadow, write_deps, read_n, write_n, corrupt>>

instrument_put_cnst(r) ==
  /\ reg' = [reg EXCEPT ![r] = {}]
  /\ UNCHANGED <<var, head, shadow, write_deps, read_n, write_n, corrupt>>

\* Before every Ist_Exit, whether the exit is then taken or not.
instrument_exit ==
  /\ var' = [t \in Tmp |-> {}]
  /\ head' = NoTmp
  /\ UNCHANGED <<reg, shadow, write_deps, read_n, write_n, corrupt>>

\* Mutant: the buffer is marked before the read is counted.
ta_pre_read_early(a, n) ==
  /\ read_n' = read_n + 1
  /\ shadow' = [b \in Addr |-> IF b \in Span(a, n) THEN {read_n}
                               ELSE shadow[b]]
  /\ UNCHANGED <<var, head, reg, write_deps, write_n, corrupt>>

\* ta_pre_call: the whole buffer is marked before the call is made.
ta_pre_read(a, n) ==
  /\ read_n' = read_n + 1
  /\ shadow' = [b \in Addr |-> IF b \in Span(a, n) THEN {read_n + 1}
                               ELSE shadow[b]]
  /\ UNCHANGED <<var, head, reg, write_deps, write_n, corrupt>>

\* Mutant: only the first byte is looked up.
MemDepsFirst(a, n) == shadow[a]

MemDeps(a, n) == UNION {shadow[b] : b \in Span(a, n)}

\* Mutant: the write is not counted.
ta_pre_write_uncounted(a, n) ==
  /\ write_deps' = Append(write_deps, MemDeps(a, n))
  /\ UNCHANGED <<var, head, reg, shadow, read_n, write_n, corrupt>>

ta_pre_write(a, n) ==
  /\ write_n' = write_n + 1
  /\ write_deps' = Append(write_deps, MemDeps(a, n))
  /\ UNCHANGED <<var, head, reg, shadow, read_n, corrupt>>

-----------------------------------------------------------------------------
\* Any callback.
ToolNext ==
  \/ \E t \in Tmp :
       \/ instrument_assgn_tmp_const(t)
       \/ \E a \in Addr : \/ instrument_assgn_tmp_load(t, a)
                         \/ instrument_store_tmp(a, t)
       \/ \E r \in Reg : \/ instrument_assgn_tmp_get(t, r)
                        \/ instrument_put_tmp(r, t)
       \/ \E S \in SUBSET Tmp : \/ instrument_assgn_tmp_op(t, S)
                               \/ instrument_assgn_tmp_qop(t, S)
  \/ \E a \in Addr : instrument_store_const(a)
  \/ \E r \in Reg : instrument_put_cnst(r)
  \/ \E a \in Addr, n \in Width : ta_pre_read(a, n) \/ ta_pre_write(a, n)
  \/ instrument_exit

ToolSpec == ToolInit /\ [][ToolNext]_toolVars
=============================================================================
