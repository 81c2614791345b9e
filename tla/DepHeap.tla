------------------------------ MODULE DepHeap ------------------------------
(***************************************************************************)
(* Who owns the lists of proj1 depAnalysis.c: every callback copies the    *)
(* lists it looks up, merges copies, hands the result to a node or to the  *)
(* shadow memory, and frees what it erases or replaces.  What is in a list *)
(* does not matter here; a list is a number, and none is empty.  A         *)
(* callback that finds nothing to record returns early and is no step.     *)
(***************************************************************************)
EXTENDS ShadowMem, Sequences

CONSTANTS
  Tmp, Reg,
  Sizes,      \* the sizes of system-call buffers, in bytes
  MaxLists,   \* a bound on the lists made
  MaxNodes    \* a bound on the nodes of var_deps, and on those of write_deps

\* Addresses are numbered without a gap, and no buffer is longer than a range,
\* 2^32 bytes: ta_pre_call counts its bytes with an int.
ASSUME RangeAssumption == \A a, b \in Addresses : a..b \subseteq Addresses
ASSUME SizesAssumption == Sizes \subseteq 0..Levels * Levels
ASSUME BoundsAssumption == MaxLists \in Nat

VARIABLES
  var_deps, reg_deps, write_deps,  \* lists of nodes, each with its list
  lists,       \* the number of lists made so far
  allocated,   \* the lists not freed
  dropped,     \* the lists the Qop callback makes and keeps no pointer to
  state        \* "running", "freed" after da_fini, "undefined" after an access
               \* outside an array, to a freed node, or a second free of a list

table == <<shadow_mem, latest>>
nodes == <<var_deps, reg_deps, write_deps>>
vars == <<table, nodes, lists, allocated, dropped, state>>

Node(k, l) == [key |-> k, list |-> l]

Init ==
  /\ init_shadow_mem
  /\ var_deps = <<>> /\ reg_deps = <<>> /\ write_deps = <<>>
  /\ lists = 0 /\ allocated = {} /\ dropped = {}
  /\ state = "running"

Running == state = "running"

\* So many lists are made, and those are freed.
Heap(made, freed) ==
  /\ lists + made <= MaxLists
  /\ lists' = lists + made
  /\ allocated' = (allocated \cup (lists + 1..lists + made)) \ freed

New == lists + 1

\* The positions of the nodes for k, and the list without these nodes.
Matches(list, k) == {i \in DOMAIN list : list[i].key = k}

Before(K, i) == {h \in K : h < i}
Nth(K, n)    == CHOOSE i \in K : Cardinality(Before(K, i)) = n - 1

Without(list, k) ==
  LET others == DOMAIN list \ Matches(list, k)
  IN  [n \in 1..Cardinality(others) |-> list[Nth(others, n)]]

ListsAt(list, K) == {list[i].list : i \in K} \ {NULL}
ListsOf(list)    == ListsAt(list, DOMAIN list)

\* The lists of the nodes for k.
FreedFor(list, k) == ListsAt(list, Matches(list, k))

Undefined ==
  /\ state' = "undefined"
  /\ UNCHANGED <<table, nodes, lists, allocated, dropped>>

\* read_dep_node_erase_tmp, then var_deps is set to new.  When the node in
\* front is erased, var_deps still points to it.
EraseTmpThen(t, new, made, lost) ==
  IF var_deps # <<>> /\ Head(var_deps).key = t THEN Undefined
  ELSE /\ var_deps' = new /\ Len(new) <= MaxNodes
       /\ Heap(made, FreedFor(var_deps, t))
       /\ dropped' = dropped \cup lost
       /\ UNCHANGED <<table, reg_deps, write_deps, state>>

-----------------------------------------------------------------------------
instrument_assgn_tmp_load(t, a) ==
  /\ Running /\ Covered(a) /\ get_shadow_mem(a) # NULL
  /\ EraseTmpThen(t, Append(Without(var_deps, t), Node(t, New)), 1, {})

\* unop, binop and triop: the operands' lists are copied, and each merge leaves
\* one list of two.
instrument_assgn_tmp_op(t, S) ==
  /\ Running /\ \E s \in S : Matches(var_deps, s) # {}
  /\ EraseTmpThen(t, <<Node(t, New)>> \o Without(var_deps, t), 1, {})

\* The merged list is copied once more, and the copy goes into the node.
instrument_assgn_tmp_qop(t, S) ==
  /\ Running /\ \E s \in S : Matches(var_deps, s) # {}
  /\ EraseTmpThen(t, Append(Without(var_deps, t), Node(t, New + 1)), 2, {New})

instrument_assgn_tmp_const(t) ==
  /\ Running /\ Matches(var_deps, t) # {}
  /\ EraseTmpThen(t, Without(var_deps, t), 0, {})

\* The older nodes of t stay behind the new one.
instrument_assgn_tmp_get(t, r) ==
  /\ Running /\ Matches(reg_deps, r) # {} /\ Len(var_deps) < MaxNodes
  /\ var_deps' = <<Node(t, New)>> \o var_deps
  /\ Heap(1, {})
  /\ UNCHANGED <<table, reg_deps, write_deps, dropped, state>>

instrument_put_tmp(r, t) ==
  /\ Running /\ Matches(var_deps, t) # {}
  /\ reg_deps' = <<Node(r, New)>> \o Without(reg_deps, r)
  /\ Heap(1, FreedFor(reg_deps, r))
  /\ UNCHANGED <<table, var_deps, write_deps, dropped, state>>

instrument_put_cnst(r) ==
  /\ Running /\ Matches(reg_deps, r) # {}
  /\ reg_deps' = Without(reg_deps, r)
  /\ Heap(0, FreedFor(reg_deps, r))
  /\ UNCHANGED <<table, var_deps, write_deps, dropped, state>>

instrument_exit ==
  /\ Running /\ var_deps # <<>>
  /\ var_deps' = <<>>
  /\ Heap(0, ListsOf(var_deps))
  /\ UNCHANGED <<table, reg_deps, write_deps, dropped, state>>

\* Mutant: the temporary's own list is handed over.
StoreShared(a, t) ==
  /\ Running /\ Covered(a) /\ Matches(var_deps, t) # {}
  /\ set_shadow_mem({a}, [b \in {a} |-> var_deps[Nth(Matches(var_deps, t), 1)].list])
  /\ Heap(0, Replaced({a}))
  /\ UNCHANGED <<nodes, dropped, state>>

instrument_store_tmp(a, t) ==
  /\ Running /\ Covered(a) /\ Matches(var_deps, t) # {}
  /\ set_shadow_mem({a}, [b \in {a} |-> New])
  /\ Heap(1, Replaced({a}))
  /\ UNCHANGED <<nodes, dropped, state>>

instrument_store_const(a) ==
  /\ Running /\ Covered(a)
  /\ set_shadow_mem({a}, [b \in {a} |-> NULL])
  /\ Heap(0, Replaced({a}))
  /\ UNCHANGED <<nodes, dropped, state>>

\* A callback for a byte whose index is one past the end of an array: what is
\* read or overwritten there is not the table's.
Outside(a) ==
  /\ Running /\ ~Covered(a)
  /\ Undefined

Buffer(a, n) == {b \in Addresses : a <= b /\ b < a + n}

\* ta_pre_call for read: a list of its own for each byte.
ta_pre_read(a, n) ==
  /\ Running /\ \A b \in Buffer(a, n) : Covered(b)
  /\ set_shadow_mem(Buffer(a, n), [b \in Buffer(a, n) |-> New + b - a])
  /\ Heap(Cardinality(Buffer(a, n)), Replaced(Buffer(a, n)))
  /\ UNCHANGED <<nodes, dropped, state>>

\* ta_pre_call for write: the bytes' lists are copied and merged into one,
\* which is NULL when no byte has any.
ta_pre_write(a, n) ==
  /\ Running /\ \A b \in Buffer(a, n) : Covered(b)
  /\ Len(write_deps) < MaxNodes
  /\ IF Replaced(Buffer(a, n)) = {}
     THEN write_deps' = Append(write_deps, Node("write", NULL)) /\ Heap(0, {})
     ELSE write_deps' = Append(write_deps, Node("write", New)) /\ Heap(1, {})
  /\ UNCHANGED <<table, var_deps, reg_deps, dropped, state>>

\* All pointers to a list, and the lists there are pointers to.
AllNodes == var_deps \o reg_deps \o write_deps
Pointers(l) ==
  Cardinality(Slots(l)) + Cardinality({i \in DOMAIN AllNodes : AllNodes[i].list = l})
Reached == Held \cup ListsOf(AllNodes)

\* Mutant: the registers' nodes are forgotten.
FiniButRegisters ==
  /\ Running
  /\ state' = IF \E l \in Reached : Pointers(l) > 1 \/ l \notin allocated
              THEN "undefined" ELSE "freed"
  /\ allocated' = allocated \ (Held \cup ListsOf(var_deps \o write_deps))
  /\ UNCHANGED <<table, nodes, lists, dropped>>

\* What da_fini frees, after it has printed the tables.
da_fini ==
  /\ Running
  /\ state' = IF \E l \in Reached : Pointers(l) > 1 \/ l \notin allocated
              THEN "undefined" ELSE "freed"
  /\ allocated' = allocated \ Reached
  /\ UNCHANGED <<table, nodes, lists, dropped>>

TmpCallback(t) ==
  \/ \E a \in Addresses :
       instrument_assgn_tmp_load(t, a) \/ instrument_store_tmp(a, t)
  \/ \E S \in SUBSET Tmp :
       instrument_assgn_tmp_op(t, S) \/ instrument_assgn_tmp_qop(t, S)
  \/ instrument_assgn_tmp_const(t)
  \/ \E r \in Reg : instrument_assgn_tmp_get(t, r) \/ instrument_put_tmp(r, t)

Next ==
  \/ \E t \in Tmp : TmpCallback(t)
  \/ \E r \in Reg : instrument_put_cnst(r)
  \/ \E a \in Addresses : instrument_store_const(a) \/ Outside(a)
  \/ \E a \in Addresses, n \in Sizes : ta_pre_read(a, n) \/ ta_pre_write(a, n)
  \/ instrument_exit
  \/ da_fini

Spec == Init /\ [][Next]_vars

-----------------------------------------------------------------------------
\* Every variable has its type; every list in use is one that was made.
TypeOK ==
  /\ shadow_mem \in [Inside -> {Unallocated} \cup [Inside -> 0..lists]]
  /\ latest \in [Addresses -> 0..lists]
  /\ var_deps \in Seq([key : Tmp, list : 1..lists])
  /\ reg_deps \in Seq([key : Reg, list : 1..lists])
  /\ write_deps \in Seq([key : {"write"}, list : 0..lists])
  /\ lists \in 0..MaxLists
  /\ allocated \subseteq 1..lists /\ dropped \subseteq 1..lists
  /\ state \in {"running", "freed", "undefined"}

\* Each list has one pointer to it: whatever is erased, replaced or merged, a
\* list is freed once, none in use is freed, and none is left behind but those
\* the Qop callback drops.
OwnedOnce ==
  Running =>
    /\ allocated = Reached \cup dropped /\ Reached \cap dropped = {}
    /\ \A l \in Reached : Pointers(l) = 1

\* When da_fini is through, which it is only in a run that stayed defined, no
\* other list is allocated.
AllFreed == state = "freed" => allocated = dropped
=============================================================================
