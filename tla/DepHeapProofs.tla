--------------------------- MODULE DepHeapProofs ---------------------------
(***************************************************************************)
(* For arrays of any size and any addresses of one range, the two-level    *)
(* table is a map from addresses to lists, whatever the callbacks of       *)
(* DepHeap set in it and in which order its arrays come to be allocated.   *)
(* Every list that is allocated hangs in one place, and when da_fini is    *)
(* through, none is left but those known to be dropped.                    *)
(***************************************************************************)
EXTENDS DepHeap, SequenceTheorems, FunctionTheorems, FiniteSetTheorems, TLAPS

Unset == UNCHANGED table

\* The shape of the table, whatever its entries are.
Shaped ==
  /\ DOMAIN shadow_mem = Inside /\ shadow_mem = [up \in Inside |-> shadow_mem[up]]
  /\ \A up \in Inside :
       shadow_mem[up] = Unallocated \/ DOMAIN shadow_mem[up] = Inside
  /\ latest = [a \in Addresses |-> latest[a]]

IInv == Shaped /\ EntryPerByte

\* An array that is allocated is not the empty slot of one that is not.
LEMMA AllocatedIsNot == ASSUME NEW g, DOMAIN g = Inside PROVE g # Unallocated
<1>1. 0 \in Inside
  BY EntriesAssumption DEF Inside
<1>2. DOMAIN Unallocated = {}
  BY DEF Unallocated
<1> QED BY <1>1, <1>2

LEMMA InitTable == Init => IInv
<1> SUFFICES ASSUME Init PROVE IInv
  OBVIOUS
<1>1. shadow_mem = [up \in Inside |-> Unallocated] /\ latest = [a \in Addresses |-> NULL]
  BY DEF Init, init_shadow_mem
<1>2. Shaped
  BY <1>1 DEF Shaped
<1>3. \A a \in Addresses : Covered(a) => get_shadow_mem(a) = latest[a]
  BY <1>1 DEF get_shadow_mem, Covered
<1> QED BY <1>2, <1>3 DEF IInv, EntryPerByte

\* Setting covered addresses keeps the shape, and ...
LEMMA ShapeKept ==
  ASSUME Shaped, NEW S, NEW list, set_shadow_mem(S, list)
  PROVE  Shaped'
<1>1. shadow_mem' = [up \in Inside |->
        IF \A a \in S : Up(a) # up THEN shadow_mem[up]
        ELSE [low \in Inside |->
               LET here == {a \in S : Up(a) = up /\ Low(a) = low}
               IN  IF here = {} THEN Array(up)[low] ELSE list[CHOOSE a \in here : TRUE]]]
  BY DEF set_shadow_mem, Stored
<1>2. \A up \in Inside :
        shadow_mem'[up] = Unallocated \/ DOMAIN (shadow_mem'[up]) = Inside
  <2> SUFFICES ASSUME NEW up \in Inside
               PROVE  shadow_mem'[up] = Unallocated \/ DOMAIN (shadow_mem'[up]) = Inside
    OBVIOUS
  <2>1. CASE \A a \in S : Up(a) # up
    BY <1>1, <2>1 DEF Shaped
  <2>2. CASE ~\A a \in S : Up(a) # up
    BY <1>1, <2>2
  <2> QED BY <2>1, <2>2
<1>3. latest' = [a \in Addresses |-> latest'[a]]
  BY DEF set_shadow_mem
<1> QED BY <1>1, <1>2, <1>3 DEF Shaped

\* ... gives their entries what is set, and leaves all others as they were.
LEMMA EntriesKept ==
  ASSUME IInv, NEW S \in SUBSET Addresses, \A a \in S : Covered(a),
         NEW list, set_shadow_mem(S, list)
  PROVE  EntryPerByte'
<1> SUFFICES ASSUME InOneRange, NEW b \in Addresses, Covered(b)
             PROVE  get_shadow_mem(b)' = latest'[b]
  BY DEF EntryPerByte, InOneRange, Covered
<1> DEFINE up == Up(b)
           low == Low(b)
           here == {a \in S : Up(a) = up /\ Low(a) = low}
<1>1. up \in Inside /\ low \in Inside
  BY DEF Covered
<1>2. shadow_mem'[up] =
        IF \A a \in S : Up(a) # up THEN shadow_mem[up]
        ELSE [l \in Inside |->
               LET h == {a \in S : Up(a) = up /\ Low(a) = l}
               IN  IF h = {} THEN Array(up)[l] ELSE list[CHOOSE a \in h : TRUE]]
  BY <1>1 DEF set_shadow_mem, Stored
<1>3. get_shadow_mem(b)' = IF shadow_mem'[up] = Unallocated THEN NULL
                           ELSE shadow_mem'[up][low]
  BY DEF get_shadow_mem
<1>4. latest'[b] = IF b \in S THEN list[b] ELSE latest[b]
  BY DEF set_shadow_mem
<1>5. get_shadow_mem(b) = latest[b]
  BY DEF IInv, EntryPerByte
<1>6. CASE \A a \in S : Up(a) # up
  BY <1>2, <1>3, <1>4, <1>5, <1>6 DEF get_shadow_mem
<1>7. CASE ~\A a \in S : Up(a) # up
  <2>1. DOMAIN (shadow_mem'[up]) = Inside
    BY <1>2, <1>7
  <2>2. get_shadow_mem(b)' = shadow_mem'[up][low]
    BY <2>1, <1>3, AllocatedIsNot
  <2>3. shadow_mem'[up][low] =
          IF here = {} THEN Array(up)[low] ELSE list[CHOOSE a \in here : TRUE]
    BY <1>1, <1>2, <1>7
  <2>4. CASE b \in S
    <3>1. here = {b}
      BY <2>4 DEF InOneRange
    <3>2. (CHOOSE a \in here : TRUE) = b
      BY <3>1
    <3> QED BY <2>2, <2>3, <2>4, <3>1, <3>2, <1>4
  <2>5. CASE b \notin S
    <3>1. here = {}
      BY <2>5 DEF InOneRange
    <3>2. Array(up)[low] = get_shadow_mem(b)
      BY <1>1 DEF Array, Fresh, get_shadow_mem
    <3> QED BY <2>2, <2>3, <2>5, <3>1, <3>2, <1>4, <1>5
  <2> QED BY <2>4, <2>5
<1> QED BY <1>6, <1>7

LEMMA SetKeeps ==
  ASSUME IInv, NEW S \in SUBSET Addresses, \A a \in S : Covered(a),
         NEW list, set_shadow_mem(S, list)
  PROVE  IInv'
BY ShapeKept, EntriesKept DEF IInv

LEMMA UnsetKeeps == IInv /\ Unset => IInv'
BY DEF IInv, Unset, table, Shaped, EntryPerByte, InOneRange, Covered, get_shadow_mem

\* A callback that erases a temporary does not touch the table.
LEMMA EraseUnset ==
  ASSUME NEW t, NEW new, NEW made, NEW lost, EraseTmpThen(t, new, made, lost)
  PROVE  Unset
BY DEF EraseTmpThen, Undefined, Unset

LEMMA TmpStep == ASSUME IInv, NEW t \in Tmp, TmpCallback(t) PROVE IInv'
<1>1. ASSUME NEW a \in Addresses, instrument_assgn_tmp_load(t, a) PROVE IInv'
  BY <1>1, EraseUnset, UnsetKeeps DEF instrument_assgn_tmp_load
<1>2. ASSUME NEW a \in Addresses, instrument_store_tmp(a, t) PROVE IInv'
  <2>1. set_shadow_mem({a}, [b \in {a} |-> New]) /\ Covered(a)
    BY <1>2 DEF instrument_store_tmp
  <2> QED BY <2>1, SetKeeps
<1>3. ASSUME NEW S \in SUBSET Tmp, instrument_assgn_tmp_op(t, S) PROVE IInv'
  BY <1>3, EraseUnset, UnsetKeeps DEF instrument_assgn_tmp_op
<1>4. ASSUME NEW S \in SUBSET Tmp, instrument_assgn_tmp_qop(t, S) PROVE IInv'
  BY <1>4, EraseUnset, UnsetKeeps DEF instrument_assgn_tmp_qop
<1>5. CASE instrument_assgn_tmp_const(t)
  BY <1>5, EraseUnset, UnsetKeeps DEF instrument_assgn_tmp_const
<1>6. ASSUME NEW r \in Reg, instrument_assgn_tmp_get(t, r) PROVE IInv'
  BY <1>6, UnsetKeeps DEF instrument_assgn_tmp_get, Unset
<1>7. ASSUME NEW r \in Reg, instrument_put_tmp(r, t) PROVE IInv'
  BY <1>7, UnsetKeeps DEF instrument_put_tmp, Unset
<1> QED BY <1>1, <1>2, <1>3, <1>4, <1>5, <1>6, <1>7 DEF TmpCallback

LEMMA StepTable == IInv /\ [Next]_vars => IInv'
<1> SUFFICES ASSUME IInv, [Next]_vars PROVE IInv'
  OBVIOUS
<1>1. ASSUME NEW r \in Reg, instrument_put_cnst(r) PROVE IInv'
  BY <1>1, UnsetKeeps DEF instrument_put_cnst, Unset
<1>2. ASSUME NEW a \in Addresses, instrument_store_const(a) PROVE IInv'
  <2>1. set_shadow_mem({a}, [b \in {a} |-> NULL]) /\ Covered(a)
    BY <1>2 DEF instrument_store_const
  <2> QED BY <2>1, SetKeeps
<1>3. ASSUME NEW a \in Addresses, Outside(a) PROVE IInv'
  BY <1>3, UnsetKeeps DEF Outside, Undefined, Unset
<1>4. ASSUME NEW a \in Addresses, NEW n \in Sizes, ta_pre_read(a, n) PROVE IInv'
  <2>1. Buffer(a, n) \in SUBSET Addresses
    BY DEF Buffer
  <2>2. \A b \in Buffer(a, n) : Covered(b)
    BY <1>4 DEF ta_pre_read
  <2>3. set_shadow_mem(Buffer(a, n), [b \in Buffer(a, n) |-> New + b - a])
    BY <1>4 DEF ta_pre_read
  <2> QED BY <2>1, <2>2, <2>3, SetKeeps
<1>5. ASSUME NEW a \in Addresses, NEW n \in Sizes, ta_pre_write(a, n) PROVE IInv'
  BY <1>5, UnsetKeeps DEF ta_pre_write, Unset
<1>6. CASE instrument_exit
  BY <1>6, UnsetKeeps DEF instrument_exit, Unset
<1>7. CASE da_fini
  BY <1>7, UnsetKeeps DEF da_fini, Unset
<1>8. CASE UNCHANGED vars
  BY <1>8, UnsetKeeps DEF vars, Unset
<1> QED BY <1>1, <1>2, <1>3, <1>4, <1>5, <1>6, <1>7, <1>8, TmpStep DEF Next

\* What is looked up at a byte is what was set there last.
THEOREM TableIsMap == Spec => []EntryPerByte
<1>1. IInv => EntryPerByte
  BY DEF IInv
<1> QED BY <1>1, InitTable, StepTable, PTL DEF Spec
-----------------------------------------------------------------------------
\* The nodes of a list that are not erased, in their order: Nth enumerates a
\* finite set of positions, each once.
LEMMA RankGrows ==
  ASSUME NEW K \in SUBSET Int, IsFiniteSet(K), NEW i \in K
  PROVE  /\ Cardinality(Before(K, i)) \in 0..Cardinality(K) - 1
         /\ \A j \in K : i < j =>
              Cardinality(Before(K, i)) < Cardinality(Before(K, j))
<1>1. \A j \in K : Before(K, j) \subseteq K /\ IsFiniteSet(Before(K, j))
  BY FS_Subset DEF Before
<1>2. Cardinality(K) \in Nat /\ \A j \in K : Cardinality(Before(K, j)) \in Nat
  BY <1>1, FS_CardinalityType
<1>3. i \notin Before(K, i)  BY DEF Before
<1> DEFINE B == Before(K, i) \cup {i}
<1>4. IsFiniteSet(B) /\ Cardinality(B) = Cardinality(Before(K, i)) + 1
  BY <1>1, <1>3, FS_AddElement
<1>5. Cardinality(B) <= Cardinality(K)
  <2>1. B \subseteq K  BY <1>1
  <2> QED  BY <2>1, FS_Subset
<1>6. ASSUME NEW j \in K, i < j
      PROVE  Cardinality(Before(K, i)) < Cardinality(Before(K, j))
  <2>1. B \subseteq Before(K, j)
    <3> SUFFICES ASSUME NEW h \in B PROVE h \in K /\ h < j  BY DEF Before
    <3>1. CASE h = i  BY <1>6, <3>1
    <3>2. CASE h \in K /\ h < i
      <4>1. h \in Int /\ i \in Int /\ j \in Int  BY <3>2
      <4> QED  BY <1>6, <3>2, <4>1
    <3> QED  BY <3>1, <3>2 DEF Before
  <2>2. Cardinality(B) <= Cardinality(Before(K, j))  BY <1>1, <2>1, FS_Subset
  <2> QED  BY <1>2, <1>4, <2>2
<1> QED  BY <1>2, <1>4, <1>5, <1>6

LEMMA NthEnumerates ==
  ASSUME NEW K \in SUBSET Int, IsFiniteSet(K)
  PROVE  /\ Cardinality(K) \in Nat
         /\ \A n \in 1..Cardinality(K) : Nth(K, n) \in K
         /\ \A m, n \in 1..Cardinality(K) : Nth(K, m) = Nth(K, n) => m = n
         /\ \A i \in K : \E n \in 1..Cardinality(K) : Nth(K, n) = i
<1> DEFINE c == Cardinality(K)
           r == [i \in K |-> Cardinality(Before(K, i))]
<1>1. c \in Nat  BY FS_CardinalityType
<1>2. r \in [K -> 0..c - 1]  BY RankGrows
<1>3. ASSUME NEW i \in K, NEW j \in K, r[i] = r[j] PROVE i = j
  <2>1. i < j => r[i] < r[j]  BY RankGrows
  <2>2. j < i => r[j] < r[i]  BY RankGrows
  <2>3. r[i] \in Int /\ r[j] \in Int  BY <1>1, <1>2
  <2> QED  BY <1>3, <2>1, <2>2, <2>3
<1>4. \A n \in 0..c - 1 : \E i \in K : r[i] = n
  <2>1. IsFiniteSet(0..c - 1) /\ Cardinality(0..c - 1) = c
    BY <1>1, FS_Interval
  <2>2. r \in Injection(K, 0..c - 1)  BY <1>2, <1>3, Fun_IsInj
  <2>3. r \in Surjection(K, 0..c - 1)  BY <2>1, <2>2, FS_Injection
  <2> QED  BY <2>3 DEF Surjection
<1>5. ASSUME NEW n \in 1..c PROVE Nth(K, n) \in K /\ r[Nth(K, n)] = n - 1
  <2>1. n - 1 \in 0..c - 1  BY <1>1
  <2>2. \E i \in K : Cardinality(Before(K, i)) = n - 1  BY <1>4, <2>1
  <2> QED  BY <2>2 DEF Nth
<1>6. ASSUME NEW i \in K PROVE \E n \in 1..c : Nth(K, n) = i
  <2>1. r[i] + 1 \in 1..c /\ (r[i] + 1) - 1 = r[i]  BY <1>1, <1>2
  <2>2. Nth(K, r[i] + 1) \in K /\ r[Nth(K, r[i] + 1)] = r[i]  BY <1>5, <2>1
  <2> QED  BY <1>3, <2>1, <2>2
<1>7. ASSUME NEW m \in 1..c, NEW n \in 1..c, Nth(K, m) = Nth(K, n) PROVE m = n
  <2>1. m - 1 = n - 1  BY <1>5, <1>7
  <2> QED  BY <1>1, <2>1
<1> QED  BY <1>1, <1>5, <1>6, <1>7

\* No list is that of two nodes.
Once(list) ==
  \A i, j \in DOMAIN list :
    list[i].list = list[j].list /\ list[i].list # NULL => i = j

LEMMA WithoutKeeps ==
  ASSUME NEW S, NEW list \in Seq(S), NEW k
  PROVE  /\ Without(list, k) \in Seq(S)
         /\ FreedFor(list, k) \subseteq ListsOf(list)
         /\ Once(list) =>
              /\ Once(Without(list, k))
              /\ ListsOf(Without(list, k)) = ListsOf(list) \ FreedFor(list, k)
<1> DEFINE K == DOMAIN list \ Matches(list, k)
           c == Cardinality(K)
           new == Without(list, k)
<1>1. K \in SUBSET Int /\ IsFiniteSet(K)
  <2>1. DOMAIN list = 1..Len(list) /\ Len(list) \in Nat  OBVIOUS
  <2>2. IsFiniteSet(1..Len(list))  BY <2>1, FS_Interval
  <2> QED  BY <2>1, <2>2, FS_Subset
<1>2. new = [n \in 1..c |-> list[Nth(K, n)]]  BY DEF Without
<1> HIDE DEF new
<1>3. /\ c \in Nat
      /\ \A n \in 1..c : Nth(K, n) \in K
      /\ \A m, n \in 1..c : Nth(K, m) = Nth(K, n) => m = n
      /\ \A i \in K : \E n \in 1..c : Nth(K, n) = i
  BY <1>1, NthEnumerates
<1>4. Matches(list, k) \subseteq DOMAIN list  BY DEF Matches
<1> HIDE DEF K, c
<1>5. K \subseteq DOMAIN list  BY DEF K
<1>6. new \in Seq(S)
  <2>1. \A n \in 1..c : new[n] \in S  BY <1>2, <1>3, <1>5, ElementOfSeq
  <2> QED  BY <1>2, <1>3, <2>1
<1>7. FreedFor(list, k) \subseteq ListsOf(list)
  BY <1>4 DEF FreedFor, ListsOf, ListsAt
<1>8. ASSUME Once(list) PROVE Once(new)
  BY <1>2, <1>3, <1>5, <1>8 DEF Once
<1>9. ListsOf(new) = ListsAt(list, K)
  BY <1>2, <1>3 DEF ListsOf, ListsAt
<1>10. ASSUME Once(list) PROVE ListsAt(list, K) = ListsOf(list) \ FreedFor(list, k)
  BY <1>4, <1>10 DEF K, Once, ListsOf, FreedFor, ListsAt
<1> QED  BY <1>6, <1>7, <1>8, <1>9, <1>10 DEF new

\* A node added in front or at the end, and two lists of nodes joined.
LEMMA Joined ==
  ASSUME NEW S, NEW p \in Seq(S), NEW q \in Seq(S),
         Once(p), Once(q), ListsOf(p) \cap ListsOf(q) = {}
  PROVE  /\ p \o q \in Seq(S) /\ Once(p \o q)
         /\ ListsOf(p \o q) = ListsOf(p) \cup ListsOf(q)
<1> DEFINE pq == p \o q
<1>1. /\ pq \in Seq(S) /\ Len(pq) = Len(p) + Len(q)
      /\ \A i \in 1..Len(p) + Len(q) :
           pq[i] = IF i <= Len(p) THEN p[i] ELSE q[i - Len(p)]
  BY ConcatProperties
<1>2. /\ Len(p) \in Nat /\ Len(q) \in Nat
      /\ DOMAIN p = 1..Len(p) /\ DOMAIN q = 1..Len(q)
      /\ DOMAIN pq = 1..Len(p) + Len(q)
  BY <1>1
<1> HIDE DEF pq
<1>3. \A i \in DOMAIN pq :
        \/ i \in DOMAIN p /\ pq[i] = p[i]
        \/ i - Len(p) \in DOMAIN q /\ pq[i] = q[i - Len(p)]
  BY <1>1, <1>2
<1>4. \A i \in DOMAIN p : i \in DOMAIN pq /\ pq[i] = p[i]
  BY <1>1, <1>2
<1>5. \A i \in DOMAIN q : i + Len(p) \in DOMAIN pq /\ pq[i + Len(p)] = q[i]
  <2> TAKE i \in DOMAIN q
  <2>1. i + Len(p) \in 1..Len(p) + Len(q) /\ ~(i + Len(p) <= Len(p))
        /\ (i + Len(p)) - Len(p) = i
    BY <1>2
  <2> QED  BY <1>1, <1>2, <2>1
<1>6. ListsOf(pq) = ListsOf(p) \cup ListsOf(q)
  BY <1>3, <1>4, <1>5 DEF ListsOf, ListsAt
<1>7. ASSUME NEW i \in DOMAIN p, p[i].list # NULL
      PROVE  p[i].list \in ListsOf(p) /\ p[i].list \notin ListsOf(q)
  BY <1>7 DEF ListsOf, ListsAt
<1>8. ASSUME NEW i \in DOMAIN q, q[i].list # NULL
      PROVE  q[i].list \in ListsOf(q)
  BY <1>8 DEF ListsOf, ListsAt
<1>9. Once(pq)
  <2> SUFFICES ASSUME NEW i \in DOMAIN pq, NEW j \in DOMAIN pq,
                      pq[i].list = pq[j].list, pq[i].list # NULL
               PROVE  i = j
    BY DEF Once
  <2>1. CASE /\ i \in DOMAIN p /\ pq[i] = p[i]
             /\ j \in DOMAIN p /\ pq[j] = p[j]
    BY <2>1 DEF Once
  <2>2. CASE /\ i - Len(p) \in DOMAIN q /\ pq[i] = q[i - Len(p)]
             /\ j - Len(p) \in DOMAIN q /\ pq[j] = q[j - Len(p)]
    <3>1. i - Len(p) = j - Len(p)  BY <2>2 DEF Once
    <3> QED  BY <1>2, <3>1
  <2>3. CASE /\ i \in DOMAIN p /\ pq[i] = p[i]
             /\ j - Len(p) \in DOMAIN q /\ pq[j] = q[j - Len(p)]
    <3>1. p[i].list \notin ListsOf(q)  BY <1>7, <2>3
    <3>2. q[j - Len(p)].list \in ListsOf(q)  BY <1>8, <2>3
    <3> QED  BY <2>3, <3>1, <3>2
  <2>4. CASE /\ j \in DOMAIN p /\ pq[j] = p[j]
             /\ i - Len(p) \in DOMAIN q /\ pq[i] = q[i - Len(p)]
    <3>1. p[j].list \notin ListsOf(q)  BY <1>7, <2>4
    <3>2. q[i - Len(p)].list \in ListsOf(q)  BY <1>8, <2>4
    <3> QED  BY <2>4, <3>1, <3>2
  <2> QED  BY <1>3, <2>1, <2>2, <2>3, <2>4
<1> QED  BY <1>1, <1>6, <1>9 DEF pq

LEMMA OneNode ==
  ASSUME NEW S, NEW n \in S
  PROVE  /\ <<n>> \in Seq(S) /\ Once(<<n>>)
         /\ ListsOf(<<n>>) = {n.list} \ {NULL}
<1>1. <<n>> \in Seq(S) /\ DOMAIN <<n>> = {1} /\ <<n>>[1] = n  OBVIOUS
<1> QED  BY <1>1 DEF Once, ListsOf, ListsAt

LEMMA NodeBehind ==
  ASSUME NEW S, NEW list \in Seq(S), NEW n \in S, Once(list),
         n.list \notin ListsOf(list)
  PROVE  /\ Append(list, n) \in Seq(S) /\ Once(Append(list, n))
         /\ ListsOf(Append(list, n)) = ListsOf(list) \cup ({n.list} \ {NULL})
<1>1. PICK one \in Seq(S) : one = <<n>> /\ Once(one) /\ ListsOf(one) = {n.list} \ {NULL}
  BY OneNode
<1>2. ListsOf(list) \cap ListsOf(one) = {}  BY <1>1
<1>3. Append(list, n) = list \o one  BY <1>1
<1>4. /\ list \o one \in Seq(S) /\ Once(list \o one)
      /\ ListsOf(list \o one) = ListsOf(list) \cup ListsOf(one)
  BY <1>1, <1>2, Joined
<1> QED  BY <1>1, <1>3, <1>4

LEMMA NodeInFront ==
  ASSUME NEW S, NEW list \in Seq(S), NEW n \in S, Once(list),
         n.list \notin ListsOf(list)
  PROVE  /\ <<n>> \o list \in Seq(S) /\ Once(<<n>> \o list)
         /\ ListsOf(<<n>> \o list) = ListsOf(list) \cup ({n.list} \ {NULL})
<1>1. PICK one \in Seq(S) : one = <<n>> /\ Once(one) /\ ListsOf(one) = {n.list} \ {NULL}
  BY OneNode
<1>2. ListsOf(one) \cap ListsOf(list) = {}  BY <1>1
<1>3. /\ one \o list \in Seq(S) /\ Once(one \o list)
      /\ ListsOf(one \o list) = ListsOf(one) \cup ListsOf(list)
  BY <1>1, <1>2, Joined
<1> QED  BY <1>1, <1>3

-----------------------------------------------------------------------------
\* The table as one entry per pair of indices, allocated or not.
Look(u, l) == IF shadow_mem[u] = Unallocated THEN NULL ELSE shadow_mem[u][l]

TableOK ==
  /\ shadow_mem \in [Inside -> {Unallocated} \cup [Inside -> 0..lists]]
  /\ latest \in [Addresses -> 0..lists]

\* No list is that of two entries.
HeldOnce ==
  \A u, l, v, m \in Inside :
    Look(u, l) = Look(v, m) /\ Look(u, l) # NULL => u = v /\ l = m

LEMMA HeldLooks == Held = {Look(u, l) : u \in Inside, l \in Inside} \ {NULL}
<1>1. \A s \in AllSlots : /\ s[1] \in Inside /\ s[2] \in Inside
                          /\ shadow_mem[s[1]][s[2]] = Look(s[1], s[2])
  BY DEF AllSlots, Look
<1>2. ASSUME NEW u \in Inside, NEW l \in Inside, Look(u, l) # NULL
      PROVE  <<u, l>> \in AllSlots /\ shadow_mem[u][l] = Look(u, l)
  BY <1>2 DEF AllSlots, Look
<1>3. Held \subseteq {Look(u, l) : u \in Inside, l \in Inside} \ {NULL}
  BY <1>1 DEF Held
<1>4. ASSUME NEW u \in Inside, NEW l \in Inside, Look(u, l) # NULL
      PROVE  Look(u, l) \in Held
  <2>1. <<u, l>> \in AllSlots /\ shadow_mem[u][l] = Look(u, l)
    BY <1>2, <1>4
  <2>2. <<u, l>>[1] = u /\ <<u, l>>[2] = l  OBVIOUS
  <2> QED  BY <1>4, <2>1, <2>2 DEF Held
<1> QED  BY <1>3, <1>4

\* After set_shadow_mem: what is set where it is set, what was there elsewhere.
LEMMA SetLooks ==
  ASSUME NEW S, NEW list, set_shadow_mem(S, list),
         \A a, b \in S : Up(a) = Up(b) /\ Low(a) = Low(b) => a = b
  PROVE  /\ \A a \in S : Up(a) \in Inside /\ Low(a) \in Inside =>
              Look(Up(a), Low(a))' = list[a]
         /\ \A u, l \in Inside :
              (\A a \in S : ~(Up(a) = u /\ Low(a) = l)) =>
                 Look(u, l)' = Look(u, l)
<1> DEFINE At(u, l) == {a \in S : Up(a) = u /\ Low(a) = l}
<1>1. \A u \in Inside : shadow_mem'[u] =
        IF \A a \in S : Up(a) # u THEN shadow_mem[u]
        ELSE [l \in Inside |-> IF At(u, l) = {} THEN Array(u)[l]
                               ELSE list[CHOOSE a \in At(u, l) : TRUE]]
  BY DEF set_shadow_mem, Stored
<1>2. \A u, l : Look(u, l)' = IF shadow_mem'[u] = Unallocated THEN NULL
                              ELSE shadow_mem'[u][l]
  BY DEF Look
<1>3. ASSUME NEW u \in Inside, NEW l \in Inside, ~\A a \in S : Up(a) # u
      PROVE  Look(u, l)' = IF At(u, l) = {} THEN Look(u, l)
                           ELSE list[CHOOSE a \in At(u, l) : TRUE]
  <2>0. shadow_mem'[u] = [m \in Inside |-> IF At(u, m) = {} THEN Array(u)[m]
                                          ELSE list[CHOOSE a \in At(u, m) : TRUE]]
    BY <1>1, <1>3
  <2>1. DOMAIN (shadow_mem'[u]) = Inside  BY <2>0
  <2>2. shadow_mem'[u] # Unallocated  BY <2>1, AllocatedIsNot
  <2>3. Look(u, l)' = IF At(u, l) = {} THEN Array(u)[l]
                      ELSE list[CHOOSE a \in At(u, l) : TRUE]
    BY <1>2, <2>0, <2>2
  <2>4. Array(u)[l] = Look(u, l)  BY DEF Array, Fresh, Look
  <2> QED  BY <2>3, <2>4
<1>4. ASSUME NEW a \in S, Up(a) \in Inside, Low(a) \in Inside
      PROVE  Look(Up(a), Low(a))' = list[a]
  <2>1. At(Up(a), Low(a)) = {a}  OBVIOUS
  <2>2. (CHOOSE b \in At(Up(a), Low(a)) : TRUE) = a  BY <2>1
  <2> QED  BY <1>3, <1>4, <2>1, <2>2
<1>5. ASSUME NEW u \in Inside, NEW l \in Inside,
             \A a \in S : ~(Up(a) = u /\ Low(a) = l)
      PROVE  Look(u, l)' = Look(u, l)
  <2>1. At(u, l) = {}  BY <1>5
  <2>2. CASE \A a \in S : Up(a) # u
    BY <1>1, <1>2, <2>2 DEF Look
  <2> QED  BY <1>3, <2>1, <2>2
<1> QED  BY <1>4, <1>5

\* What is set is owned once when it is new, and what it replaces is freed.
LEMMA SetHeld ==
  ASSUME HeldOnce, NEW S, NEW list, set_shadow_mem(S, list),
         \A a \in S : Covered(a),
         \A a, b \in S : Up(a) = Up(b) /\ Low(a) = Low(b) => a = b,
         \A a \in S : list[a] \notin Held,
         \A a, b \in S : list[a] = list[b] /\ list[a] # NULL => a = b
  PROVE  /\ HeldOnce'
         /\ Replaced(S) \subseteq Held
         /\ Held' = (Held \ Replaced(S)) \cup ({list[a] : a \in S} \ {NULL})
<1>1. \A a \in S : Up(a) \in Inside /\ Low(a) \in Inside  BY DEF Covered
<1>2. /\ \A a \in S : Look(Up(a), Low(a))' = list[a]
      /\ \A u, l \in Inside :
           (\A a \in S : ~(Up(a) = u /\ Low(a) = l)) => Look(u, l)' = Look(u, l)
  BY <1>1, SetLooks
<1>3. \A u, l \in Inside : Look(u, l) # NULL => Look(u, l) \in Held
  BY HeldLooks
<1>4. HeldOnce'
  <2> SUFFICES ASSUME NEW u \in Inside, NEW l \in Inside,
                      NEW v \in Inside, NEW m \in Inside,
                      Look(u, l)' = Look(v, m)', Look(u, l)' # NULL
               PROVE  u = v /\ l = m
    BY DEF HeldOnce, Inside
  <2>1. CASE \E a \in S : Up(a) = u /\ Low(a) = l
    <3>1. PICK a \in S : Up(a) = u /\ Low(a) = l  BY <2>1
    <3>2. Look(u, l)' = list[a]  BY <1>2, <3>1
    <3>3. CASE \E b \in S : Up(b) = v /\ Low(b) = m
      <4>1. PICK b \in S : Up(b) = v /\ Low(b) = m  BY <3>3
      <4>2. Look(v, m)' = list[b]  BY <1>2, <4>1
      <4> QED  BY <3>1, <3>2, <4>1, <4>2
    <3>4. CASE \A b \in S : ~(Up(b) = v /\ Low(b) = m)
      <4>1. Look(v, m)' = Look(v, m)  BY <1>2, <3>4
      <4>2. Look(v, m) \in Held  BY <1>3, <4>1
      <4> QED  BY <3>2, <4>1, <4>2
    <3> QED  BY <3>3, <3>4
  <2>2. CASE \A a \in S : ~(Up(a) = u /\ Low(a) = l)
    <3>1. Look(u, l)' = Look(u, l)  BY <1>2, <2>2
    <3>2. Look(u, l) \in Held  BY <1>3, <3>1
    <3>3. CASE \E b \in S : Up(b) = v /\ Low(b) = m
      <4>1. PICK b \in S : Up(b) = v /\ Low(b) = m  BY <3>3
      <4>2. Look(v, m)' = list[b]  BY <1>2, <4>1
      <4> QED  BY <3>1, <3>2, <4>2
    <3>4. CASE \A b \in S : ~(Up(b) = v /\ Low(b) = m)
      <4>1. Look(v, m)' = Look(v, m)  BY <1>2, <3>4
      <4>2. Look(u, l) = Look(v, m) /\ Look(u, l) # NULL  BY <3>1, <4>1
      <4> QED  BY <4>2 DEF HeldOnce
    <3> QED  BY <3>3, <3>4
  <2> QED  BY <2>1, <2>2
<1>5. Replaced(S) = {Look(Up(a), Low(a)) : a \in S} \ {NULL}
  BY DEF Replaced, get_shadow_mem, Look
<1>6. Replaced(S) \subseteq Held  BY <1>1, <1>3, <1>5
<1>7. Held' = {Look(u, l)' : u \in Inside, l \in Inside} \ {NULL}
  <2>1. (Held = {Look(u, l) : u \in Inside, l \in Inside} \ {NULL})'
    BY HeldLooks, PTL
  <2> QED  BY <2>1 DEF Inside, NULL
<1>8. ASSUME NEW x \in Held'
      PROVE  x \in (Held \ Replaced(S)) \cup ({list[a] : a \in S} \ {NULL})
  <2>1. PICK u \in Inside, l \in Inside : x = Look(u, l)' /\ x # NULL
    BY <1>7
  <2>2. CASE \E a \in S : Up(a) = u /\ Low(a) = l
    BY <1>2, <2>1, <2>2
  <2>3. CASE \A a \in S : ~(Up(a) = u /\ Low(a) = l)
    <3>1. x = Look(u, l)  BY <1>2, <2>1, <2>3
    <3>2. x \in Held  BY <1>3, <2>1, <3>1
    <3>3. x \notin Replaced(S)
      <4>1. ASSUME NEW a \in S, x = Look(Up(a), Low(a)) PROVE FALSE
        <5>1. Up(a) = u /\ Low(a) = l
          BY <1>1, <2>1, <3>1, <4>1 DEF HeldOnce
        <5> QED  BY <2>3, <5>1
      <4> QED  BY <1>5, <4>1
    <3> QED  BY <3>2, <3>3
  <2> QED  BY <2>2, <2>3
<1>9. ASSUME NEW a \in S, list[a] # NULL PROVE list[a] \in Held'
  BY <1>1, <1>2, <1>7, <1>9
<1>10. ASSUME NEW x \in Held, x \notin Replaced(S) PROVE x \in Held'
  <2>1. PICK u \in Inside, l \in Inside : x = Look(u, l) /\ x # NULL
    BY HeldLooks
  <2>2. \A a \in S : ~(Up(a) = u /\ Low(a) = l)
    BY <1>5, <1>10, <2>1
  <2>3. x = Look(u, l)'  BY <1>2, <2>1, <2>2
  <2> QED  BY <1>7, <2>1, <2>3
<1> QED  BY <1>4, <1>6, <1>8, <1>9, <1>10

LEMMA SetTypes ==
  ASSUME TableOK, lists \in Nat, lists' \in Nat, lists <= lists',
         NEW S \in SUBSET Addresses, NEW list, set_shadow_mem(S, list),
         \A a \in S : list[a] \in 0..lists'
  PROVE  TableOK'
<1> DEFINE Old == 0..lists
           New1 == 0..lists'
<1>1. Old \subseteq New1  OBVIOUS
<1>2. NULL \in Old  BY DEF NULL
<1>3. latest' \in [Addresses -> New1]
  BY <1>1 DEF TableOK, set_shadow_mem
<1>4. \A u \in Inside : shadow_mem[u] = Unallocated \/ shadow_mem[u] \in [Inside -> Old]
  BY DEF TableOK
<1>5. \A u \in Inside : Array(u) \in [Inside -> Old]
  BY <1>2, <1>4 DEF Array, Fresh
<1> HIDE DEF Old, New1
<1>6. ASSUME NEW u \in Inside
      PROVE  shadow_mem'[u] \in {Unallocated} \cup [Inside -> New1]
  <2>1. shadow_mem'[u] =
          IF \A a \in S : Up(a) # u THEN shadow_mem[u]
          ELSE [low \in Inside |->
                 LET here == {a \in S : Up(a) = u /\ Low(a) = low}
                 IN  IF here = {} THEN Array(u)[low]
                     ELSE list[CHOOSE a \in here : TRUE]]
    BY DEF set_shadow_mem, Stored
  <2>2. CASE \A a \in S : Up(a) # u
    <3>1. shadow_mem'[u] = shadow_mem[u]  BY <2>1, <2>2
    <3> QED  BY <1>1, <1>4, <3>1
  <2>3. CASE ~\A a \in S : Up(a) # u
    <3>1. ASSUME NEW low \in Inside, NEW here,
                 here = {a \in S : Up(a) = u /\ Low(a) = low}
          PROVE  (IF here = {} THEN Array(u)[low]
                  ELSE list[CHOOSE a \in here : TRUE]) \in New1
      <4>1. CASE here = {}  BY <1>1, <1>5, <4>1
      <4>2. CASE here # {}
        <5>1. (CHOOSE a \in here : TRUE) \in S  BY <3>1, <4>2
        <5> QED  BY <4>2, <5>1 DEF New1
      <4> QED  BY <4>1, <4>2
    <3> QED  BY <2>1, <2>3, <3>1
  <2> QED  BY <2>2, <2>3
<1>7. shadow_mem' = [u \in Inside |-> shadow_mem'[u]]
  BY DEF set_shadow_mem, Stored
<1> QED  BY <1>3, <1>6, <1>7 DEF TableOK, New1
-----------------------------------------------------------------------------
\* Two bytes less than a range apart are not in one entry.
LEMMA Euclid ==
  ASSUME NEW x \in Nat, NEW L \in Nat \ {0}
  PROVE  x \div L \in Nat /\ x % L \in Nat /\ x = L * (x \div L) + (x % L)
OBVIOUS

LEMMA Cancel ==
  ASSUME NEW M \in Nat \ {0}, NEW d \in Int, 0 <= M * d, M * d < M
  PROVE  d = 0
<1>1. CASE d >= 1
  <2>1. M * d >= M  BY <1>1
  <2> QED BY <2>1
<1>2. CASE d <= -1
  <2>1. M * d <= -M  BY <1>2
  <2> QED BY <2>1
<1> QED BY <1>1, <1>2

LEMMA RangeSlots ==
  ASSUME NEW x \in Nat, NEW y \in Nat, NEW L \in Nat \ {0},
   x <= y, y < x + L * L, x % L = y % L, (x \div L) % L = (y \div L) % L
  PROVE x = y
<1> DEFINE q1 == x \div L
           q2 == y \div L
           r  == x % L
           p1 == q1 \div L
           p2 == q2 \div L
           s  == q1 % L
<1>1. q1 \in Nat /\ r \in Nat /\ x = L * q1 + r  BY Euclid
<1>2. q2 \in Nat /\ y = L * q2 + r  BY Euclid
<1>3. p1 \in Nat /\ s \in Nat /\ q1 = L * p1 + s  BY <1>1, Euclid
<1>4. p2 \in Nat /\ q2 = L * p2 + s  BY <1>2, Euclid
<1> HIDE DEF q1, q2, r, p1, p2, s
<1>5. y - x = (L * L) * (p2 - p1)
  <2>1. y - x = L * q2 - L * q1  BY <1>1, <1>2
  <2>2. y - x = L * (q2 - q1)  BY <1>1, <1>2, <2>1
  <2>3. q2 - q1 = L * (p2 - p1)  BY <1>3, <1>4
  <2>4. y - x = L * (L * (p2 - p1))  BY <2>2, <2>3
  <2> QED  BY <1>3, <1>4, <2>4
<1>6. L * L \in Nat \ {0} /\ p2 - p1 \in Int
  BY <1>3, <1>4
<1>7. p2 - p1 = 0
  <2> DEFINE M == L * L
             d == p2 - p1
  <2>1. y - x = M * d /\ M \in Nat \ {0} /\ d \in Int /\ 0 <= y - x /\ y - x < M
    BY <1>5, <1>6
  <2> HIDE DEF M, d
  <2>2. d = 0 BY <2>1, Cancel
  <2> QED BY <2>2 DEF d
<1> QED BY <1>1, <1>2, <1>3, <1>4, <1>7

LEMMA BufferSlots ==
  ASSUME NEW a \in Addresses, NEW n \in Sizes,
         NEW x \in Buffer(a, n), NEW y \in Buffer(a, n),
         Up(x) = Up(y), Low(x) = Low(y)
  PROVE  x = y
<1>1. x \in Nat /\ y \in Nat /\ a \in Nat  BY AddressesAssumption DEF Buffer
<1>2. Levels \in Nat \ {0}  BY EntriesAssumption DEF Levels
<1> DEFINE M == Levels * Levels
<1>3. M \in Nat /\ n \in 0..M  BY <1>2, SizesAssumption
<1>4. a <= x /\ x < a + n /\ a <= y /\ y < a + n  BY DEF Buffer
<1> HIDE DEF M
<1>5. y < x + M /\ x < y + M  BY <1>1, <1>3, <1>4
<1>6. x <= y => x = y  BY <1>1, <1>2, <1>5, RangeSlots DEF M, Up, Low
<1>7. y <= x => x = y  BY <1>1, <1>2, <1>5, RangeSlots DEF M, Up, Low
<1> QED  BY <1>1, <1>6, <1>7

\* The lists of a buffer's bytes are those made for it, each for one byte.
LEMMA BufferLists ==
  ASSUME NEW a \in Addresses, NEW n \in Sizes, lists \in Nat
  PROVE  LET B == Buffer(a, n)
             c == Cardinality(B)
         IN  /\ c \in Nat
             /\ {New + b - a : b \in B} = lists + 1..lists + c
             /\ \A x, y \in B : New + x - a = New + y - a => x = y
<1> DEFINE B == Buffer(a, n)
           c == Cardinality(B)
           g == [b \in B |-> New + b - a]
<1>1. a \in Nat /\ B \in SUBSET Nat /\ n \in Nat
  <2>1. a \in Nat /\ B \in SUBSET Nat  BY AddressesAssumption DEF Buffer
  <2>2. Levels * Levels \in Nat  BY EntriesAssumption DEF Levels
  <2> QED  BY <2>1, <2>2, SizesAssumption
<1>2. IsFiniteSet(B) /\ c \in Nat
  <2>1. B \subseteq a..a + n  BY <1>1 DEF Buffer
  <2>2. IsFiniteSet(a..a + n)  BY <1>1, FS_Interval
  <2> QED  BY <2>1, <2>2, FS_Subset, FS_CardinalityType
<1>3. ASSUME NEW b \in B PROVE g[b] \in lists + 1..lists + c
  <2>1. a..b \subseteq B
    <3>1. b \in Addresses /\ a <= b /\ b < a + n  BY DEF Buffer
    <3>2. a..b \subseteq Addresses  BY <3>1, RangeAssumption
    <3> QED  BY <1>1, <3>1, <3>2 DEF Buffer
  <2>2. b \in Nat /\ a <= b  BY <1>1 DEF Buffer
  <2>3. Cardinality(a..b) = b - a + 1  BY <1>1, <2>2, FS_Interval
  <2>4. b - a + 1 <= c  BY <1>2, <2>1, <2>3, FS_Subset
  <2> QED  BY <1>1, <1>2, <2>2, <2>4 DEF New
<1> HIDE DEF c
<1>4. ASSUME NEW x \in B, NEW y \in B, New + x - a = New + y - a PROVE x = y
  <2>1. x \in Nat /\ y \in Nat /\ a \in Nat  BY <1>1
  <2> QED  BY <1>4, <2>1 DEF New
<1>5. g \in [B -> lists + 1..lists + c]  BY <1>3
<1>6. g \in Injection(B, lists + 1..lists + c)
  <2>1. \A x, y \in B : g[x] = g[y] => x = y  BY <1>4
  <2> QED  BY <1>5, <2>1, Fun_IsInj
<1>7. /\ IsFiniteSet(lists + 1..lists + c)
      /\ Cardinality(lists + 1..lists + c) = c
  <2>1. (lists + c) - (lists + 1) + 1 = c  BY <1>2
  <2>2. lists + 1 <= lists + c \/ c = 0  BY <1>2
  <2> QED  BY <1>2, <2>1, <2>2, FS_Interval
<1>8. g \in Surjection(B, lists + 1..lists + c)
  BY <1>6, <1>7, FS_Injection DEF c
<1>9. \A m \in lists + 1..lists + c : \E b \in B : g[b] = m
  BY <1>8 DEF Surjection
<1> QED  BY <1>2, <1>4, <1>5, <1>9 DEF c
-----------------------------------------------------------------------------
\* Who owns what: the lists allocated are divided among the table, the three
\* lists of nodes, and those dropped.
Split(A, H, V, R, W, D) ==
  /\ A = H \cup V \cup R \cup W \cup D
  /\ H \cap (V \cup R \cup W \cup D) = {}
  /\ V \cap (R \cup W \cup D) = {}
  /\ R \cap (W \cup D) = {}
  /\ W \cap D = {}

Divided == Split(allocated, Held, ListsOf(var_deps), ListsOf(reg_deps),
                 ListsOf(write_deps), dropped)

Owned == Divided /\ HeldOnce /\ Once(var_deps) /\ Once(reg_deps) /\ Once(write_deps)

OInv == TypeOK /\ (Running => Owned) /\ AllFreed

LEMMA SplitKept ==
  ASSUME NEW A, NEW H, NEW V, NEW R, NEW W, NEW D, Split(A, H, V, R, W, D),
         NEW N, NEW h, NEW v, NEW r, NEW w, NEW d, Split(N, h, v, r, w, d),
         N \cap A = {}, NEW F \in SUBSET A
  PROVE  Split((A \cup N) \ F, (H \ F) \cup h, (V \ F) \cup v, (R \ F) \cup r,
               (W \ F) \cup w, (D \ F) \cup d)
<1>1. /\ A = H \cup V \cup R \cup W \cup D /\ N = h \cup v \cup r \cup w \cup d
      /\ N \cap A = {} /\ F \cap N = {}
  BY DEF Split
<1>2. (A \cup N) \ F = ((H \ F) \cup h) \cup ((V \ F) \cup v) \cup ((R \ F) \cup r)
                       \cup ((W \ F) \cup w) \cup ((D \ F) \cup d)
  BY <1>1
<1>3. ((H \ F) \cup h) \cap (((V \ F) \cup v) \cup ((R \ F) \cup r)
                       \cup ((W \ F) \cup w) \cup ((D \ F) \cup d)) = {}
  BY <1>1 DEF Split
<1>4. ((V \ F) \cup v) \cap (((R \ F) \cup r) \cup ((W \ F) \cup w)
                             \cup ((D \ F) \cup d)) = {}
  BY <1>1 DEF Split
<1>5. ((R \ F) \cup r) \cap (((W \ F) \cup w) \cup ((D \ F) \cup d)) = {}
  BY <1>1 DEF Split
<1>6. ((W \ F) \cup w) \cap ((D \ F) \cup d) = {}
  BY <1>1 DEF Split
<1> QED  BY <1>2, <1>3, <1>4, <1>5, <1>6 DEF Split

\* A list of nodes keeps its type when there are more lists.
LEMMA SeqWider ==
  ASSUME NEW S, NEW T, S \subseteq T, NEW list \in Seq(S)
  PROVE  list \in Seq(T)
<1>1. \A i \in 1..Len(list) : list[i] \in T  BY ElementOfSeq
<1> QED  BY <1>1

LEMMA Wider ==
  ASSUME NEW m \in Nat, NEW n \in Nat, m <= n, NEW lo \in Nat, NEW K,
         NEW list \in Seq([key : K, list : lo..m])
  PROVE  list \in Seq([key : K, list : lo..n])
<1>1. [key : K, list : lo..m] \subseteq [key : K, list : lo..n]  OBVIOUS
<1> QED  BY <1>1, SeqWider

VarNode == [key : Tmp, list : 1..lists]
RegNode == [key : Reg, list : 1..lists]
WriteNode == [key : {"write"}, list : 0..lists]

LEMMA ListsMade ==
  ASSUME TypeOK, NEW made \in Nat, NEW freed, Heap(made, freed)
  PROVE  /\ lists \in Nat /\ lists' \in Nat /\ lists' = lists + made
         /\ lists <= lists' /\ lists' \in 0..MaxLists
         /\ allocated' = (allocated \cup (lists + 1..lists')) \ freed
         /\ allocated' \subseteq 1..lists'
         /\ (lists + 1..lists') \cap allocated = {}
         /\ lists + 1..lists' \subseteq 1..lists'
         /\ dropped \subseteq 1..lists'
         /\ var_deps \in Seq(VarNode') /\ reg_deps \in Seq(RegNode')
         /\ write_deps \in Seq(WriteNode')
<1>1. lists \in Nat /\ lists \in 0..MaxLists  BY BoundsAssumption DEF TypeOK
<1>2. lists' = lists + made /\ lists + made <= MaxLists  BY DEF Heap
<1>3. allocated \subseteq 1..lists /\ dropped \subseteq 1..lists  BY DEF TypeOK
<1>4. lists' \in Nat /\ lists <= lists' /\ lists' \in 0..MaxLists
  BY <1>1, <1>2, BoundsAssumption
<1>5. allocated' = (allocated \cup (lists + 1..lists')) \ freed
  BY <1>2 DEF Heap
<1>6. var_deps \in Seq(VarNode')  BY <1>1, <1>4, Wider DEF TypeOK, VarNode
<1>7. reg_deps \in Seq(RegNode')  BY <1>1, <1>4, Wider DEF TypeOK, RegNode
<1>8. write_deps \in Seq(WriteNode')  BY <1>1, <1>4, Wider DEF TypeOK, WriteNode
<1>9. 1..lists \subseteq 1..lists' /\ lists + 1..lists' \subseteq 1..lists'
      /\ (lists + 1..lists') \cap (1..lists) = {}
  BY <1>1, <1>4
<1>10. allocated' \subseteq 1..lists'  BY <1>3, <1>5, <1>9
<1> QED  BY <1>1, <1>2, <1>3, <1>4, <1>5, <1>6, <1>7, <1>8, <1>9, <1>10

\* A callback that frees some lists, makes some and says where they go keeps
\* the invariant.
LEMMA Accounts ==
  ASSUME OInv, Running, state' = state,
         NEW made \in Nat, NEW freed \in SUBSET allocated, Heap(made, freed),
         NEW h, NEW v, NEW r, NEW w, NEW d,
         Split(lists + 1..lists', h, v, r, w, d),
         Held' = (Held \ freed) \cup h,
         ListsOf(var_deps') = (ListsOf(var_deps) \ freed) \cup v,
         ListsOf(reg_deps') = (ListsOf(reg_deps) \ freed) \cup r,
         ListsOf(write_deps') = (ListsOf(write_deps) \ freed) \cup w,
         dropped' = (dropped \ freed) \cup d,
         TableOK', HeldOnce',
         var_deps' \in Seq(VarNode'), reg_deps' \in Seq(RegNode'),
         write_deps' \in Seq(WriteNode'),
         Once(var_deps'), Once(reg_deps'), Once(write_deps')
  PROVE  OInv'
<1>1. TypeOK /\ Owned  BY DEF OInv
<1>2. /\ lists' \in 0..MaxLists
      /\ allocated' = (allocated \cup (lists + 1..lists')) \ freed
      /\ allocated' \subseteq 1..lists'
      /\ (lists + 1..lists') \cap allocated = {}
      /\ lists + 1..lists' \subseteq 1..lists'
      /\ dropped \subseteq 1..lists'
  BY <1>1, ListsMade
<1>3. Split(allocated', Held', ListsOf(var_deps'), ListsOf(reg_deps'),
            ListsOf(write_deps'), dropped')
  <2>1. Split(allocated, Held, ListsOf(var_deps), ListsOf(reg_deps),
              ListsOf(write_deps), dropped)
    BY <1>1 DEF Owned, Divided
  <2> DEFINE N == lists + 1..lists'
  <2>2. Split(N, h, v, r, w, d) /\ N \cap allocated = {}  BY <1>2
  <2> HIDE DEF N
  <2>3. Split((allocated \cup N) \ freed, (Held \ freed) \cup h,
              (ListsOf(var_deps) \ freed) \cup v, (ListsOf(reg_deps) \ freed) \cup r,
              (ListsOf(write_deps) \ freed) \cup w, (dropped \ freed) \cup d)
    BY <2>1, <2>2, SplitKept, Zenon
  <2> QED  BY <1>2, <2>3 DEF N
<1>4. dropped' \subseteq 1..lists'  BY <1>2, <1>3 DEF Split
<1>5. state' \in {"running", "freed", "undefined"}  BY DEF Running
<1>6. TypeOK'
  BY <1>2, <1>4, <1>5 DEF TypeOK, TableOK, VarNode, RegNode, WriteNode
<1>7. Divided'
  BY <1>3 DEF Divided, Split, ListsOf, ListsAt, NULL
<1>8. Once(var_deps)' /\ Once(reg_deps)' /\ Once(write_deps)'
  BY DEF Once, NULL
<1>9. Owned'  BY <1>7, <1>8 DEF Owned
<1> QED  BY <1>6, <1>9 DEF OInv, Running, AllFreed

\* Where the table stays, so do the lists in it.
LEMMA TableSame ==
  ASSUME TypeOK, HeldOnce, Unset, NEW made \in Nat, NEW freed, Heap(made, freed)
  PROVE  TableOK' /\ HeldOnce' /\ Held' = Held
<1>1. lists \in Nat /\ lists' \in Nat /\ lists <= lists'
  BY ListsMade
<1>2. 0..lists \subseteq 0..lists'  BY <1>1
<1>3. shadow_mem' = shadow_mem /\ latest' = latest  BY DEF Unset, table
<1>4. TableOK  BY DEF TypeOK, TableOK
<1> DEFINE Old == 0..lists
           Wide == 0..lists'
<1>5. /\ shadow_mem \in [Inside -> {Unallocated} \cup [Inside -> Old]]
      /\ latest \in [Addresses -> Old] /\ Old \subseteq Wide
  BY <1>2, <1>4 DEF TableOK
<1> HIDE DEF Old, Wide
<1>6. \A u \in Inside : shadow_mem[u] \in {Unallocated} \cup [Inside -> Wide]
  BY <1>5
<1>7. shadow_mem \in [Inside -> {Unallocated} \cup [Inside -> Wide]]
  BY <1>5, <1>6
<1>8. latest \in [Addresses -> Wide]  BY <1>5
<1>9. TableOK'  BY <1>3, <1>7, <1>8 DEF TableOK, Wide
<1>10. HeldOnce' /\ Held' = Held
  BY <1>3 DEF HeldOnce, Look, Held, AllSlots
<1> QED  BY <1>9, <1>10
\* What is in one part is in no other, and no new list is in any.
LEMMA Apart ==
  ASSUME OInv, Running
  PROVE  /\ \A F \in SUBSET ListsOf(var_deps) :
              /\ F \in SUBSET allocated /\ Held \ F = Held
              /\ ListsOf(reg_deps) \ F = ListsOf(reg_deps)
              /\ ListsOf(write_deps) \ F = ListsOf(write_deps)
              /\ dropped \ F = dropped
         /\ \A F \in SUBSET ListsOf(reg_deps) :
              /\ F \in SUBSET allocated /\ Held \ F = Held
              /\ ListsOf(var_deps) \ F = ListsOf(var_deps)
              /\ ListsOf(write_deps) \ F = ListsOf(write_deps)
              /\ dropped \ F = dropped
         /\ \A F \in SUBSET Held :
              /\ F \in SUBSET allocated
              /\ ListsOf(var_deps) \ F = ListsOf(var_deps)
              /\ ListsOf(reg_deps) \ F = ListsOf(reg_deps)
              /\ ListsOf(write_deps) \ F = ListsOf(write_deps)
              /\ dropped \ F = dropped
         /\ \A m \in Nat : m > lists =>
              /\ m \notin Held /\ m \notin ListsOf(var_deps)
              /\ m \notin ListsOf(reg_deps) /\ m \notin ListsOf(write_deps)
<1>1. Split(allocated, Held, ListsOf(var_deps), ListsOf(reg_deps),
            ListsOf(write_deps), dropped)
  BY DEF OInv, Owned, Divided
<1>2. lists \in Nat /\ allocated \subseteq 1..lists
  BY BoundsAssumption DEF OInv, TypeOK
<1>3. \A m \in Nat : m > lists => m \notin allocated  BY <1>2
<1> QED  BY <1>1, <1>3 DEF Split

LEMMA UndefinedKeeps ==
  ASSUME OInv, Undefined
  PROVE  OInv'
BY DEF OInv, Undefined, TypeOK, table, nodes, Running, AllFreed

\* The temporary's nodes are erased, and lists made for it.
LEMMA EraseOwned ==
  ASSUME OInv, Running, NEW t \in Tmp, NEW made \in Nat, NEW new,
         NEW lost \in SUBSET (lists + 1..lists + made),
         EraseTmpThen(t, new, made, lost),
         new \in Seq([key : Tmp, list : 1..lists + made]), Once(new),
         ListsOf(new) = (ListsOf(var_deps) \ FreedFor(var_deps, t))
                        \cup ((lists + 1..lists + made) \ lost)
  PROVE  OInv'
<1>1. CASE Undefined  BY <1>1, UndefinedKeeps
<1>2. CASE ~(var_deps # <<>> /\ Head(var_deps).key = t)
  <2> DEFINE F == FreedFor(var_deps, t)
  <2>1. /\ var_deps' = new /\ Heap(made, F) /\ dropped' = dropped \cup lost
        /\ UNCHANGED <<table, reg_deps, write_deps, state>>
    BY <1>2 DEF EraseTmpThen
  <2>2. TypeOK /\ Owned /\ Unset /\ HeldOnce
    BY <2>1 DEF OInv, Owned, Unset
  <2>3. F \in SUBSET ListsOf(var_deps)
    BY <2>2, WithoutKeeps DEF TypeOK
  <2>4. /\ F \in SUBSET allocated /\ Held \ F = Held
        /\ ListsOf(reg_deps) \ F = ListsOf(reg_deps)
        /\ ListsOf(write_deps) \ F = ListsOf(write_deps)
        /\ dropped \ F = dropped
    BY <2>3, Apart
  <2> HIDE DEF F
  <2>5. /\ lists' = lists + made
        /\ reg_deps \in Seq(RegNode') /\ write_deps \in Seq(WriteNode')
    BY <2>1, <2>2, ListsMade
  <2>6. TableOK' /\ HeldOnce' /\ Held' = Held
    BY <2>1, <2>2, TableSame
  <2>7. Split(lists + 1..lists', {}, (lists + 1..lists') \ lost, {}, {}, lost)
    BY <2>5 DEF Split
  <2>8. /\ Held' = (Held \ F) \cup {}
        /\ ListsOf(var_deps') = (ListsOf(var_deps) \ F) \cup ((lists + 1..lists') \ lost)
        /\ ListsOf(reg_deps') = (ListsOf(reg_deps) \ F) \cup {}
        /\ ListsOf(write_deps') = (ListsOf(write_deps) \ F) \cup {}
        /\ dropped' = (dropped \ F) \cup lost
    BY <2>1, <2>4, <2>5, <2>6 DEF F
  <2>9. /\ var_deps' \in Seq(VarNode') /\ reg_deps' \in Seq(RegNode')
        /\ write_deps' \in Seq(WriteNode')
        /\ Once(var_deps') /\ Once(reg_deps') /\ Once(write_deps')
    BY <2>1, <2>2, <2>5 DEF VarNode, Owned
  <2> QED  BY <2>1, <2>4, <2>6, <2>7, <2>8, <2>9, Accounts, Zenon
<1> QED  BY <1>1, <1>2 DEF EraseTmpThen

\* The lists of nodes without the erased ones, and with a new one.
LEMMA Renewed ==
  ASSUME OInv, Running, NEW t \in Tmp, NEW made \in {1, 2}, NEW new,
         NEW n, n = Node(t, lists + made),
         new \in {Append(Without(var_deps, t), n), <<n>> \o Without(var_deps, t)}
  PROVE  /\ new \in Seq([key : Tmp, list : 1..lists + made]) /\ Once(new)
         /\ ListsOf(new) = (ListsOf(var_deps) \ FreedFor(var_deps, t))
                           \cup {lists + made}
<1> DEFINE S == [key : Tmp, list : 1..lists + made]
           rest == Without(var_deps, t)
<1>1. /\ lists \in Nat /\ var_deps \in Seq([key : Tmp, list : 1..lists])
      /\ Once(var_deps)
  BY BoundsAssumption DEF OInv, TypeOK, Owned
<1>2. var_deps \in Seq(S)
  <2>1. lists + made \in Nat /\ lists <= lists + made  BY <1>1
  <2> QED  BY <1>1, <2>1, Wider
<1>3. n \in S /\ n.list = lists + made /\ n.list # NULL
  BY <1>1 DEF Node, NULL
<1> HIDE DEF S
<1>4. /\ rest \in Seq(S) /\ Once(rest)
      /\ ListsOf(rest) = ListsOf(var_deps) \ FreedFor(var_deps, t)
  BY <1>1, <1>2, WithoutKeeps
<1>5. n.list \notin ListsOf(rest)
  <2>1. lists + made > lists /\ lists + made \in Nat  BY <1>1
  <2>2. n.list \notin ListsOf(var_deps)  BY <1>3, <2>1, Apart
  <2> QED  BY <1>4, <2>2
<1> HIDE DEF rest
<1>6. /\ Append(rest, n) \in Seq(S) /\ <<n>> \o rest \in Seq(S)
      /\ Once(Append(rest, n)) /\ Once(<<n>> \o rest)
      /\ ListsOf(Append(rest, n)) = ListsOf(rest) \cup ({n.list} \ {NULL})
      /\ ListsOf(<<n>> \o rest) = ListsOf(rest) \cup ({n.list} \ {NULL})
  BY <1>3, <1>4, <1>5, NodeBehind, NodeInFront
<1>7. new = Append(rest, n) \/ new = <<n>> \o rest  BY DEF rest
<1> QED  BY <1>3, <1>4, <1>6, <1>7 DEF S

LEMMA LoadOwned ==
  ASSUME OInv, NEW t \in Tmp, NEW a, instrument_assgn_tmp_load(t, a)
  PROVE  OInv'
<1> DEFINE new == Append(Without(var_deps, t), Node(t, New))
<1>1. Running /\ EraseTmpThen(t, new, 1, {})
  BY DEF instrument_assgn_tmp_load
<1>2. lists \in Nat  BY BoundsAssumption DEF OInv, TypeOK
<1>3. (lists + 1..lists + 1) \ {} = {lists + 1}  BY <1>2
<1>4. /\ new \in Seq([key : Tmp, list : 1..lists + 1]) /\ Once(new)
      /\ ListsOf(new) = (ListsOf(var_deps) \ FreedFor(var_deps, t)) \cup {lists + 1}
  BY <1>1, Renewed DEF New
<1> HIDE DEF new
<1> QED  BY <1>1, <1>3, <1>4, EraseOwned

LEMMA OpOwned ==
  ASSUME OInv, NEW t \in Tmp, NEW S, instrument_assgn_tmp_op(t, S)
  PROVE  OInv'
<1> DEFINE new == <<Node(t, New)>> \o Without(var_deps, t)
<1>1. Running /\ EraseTmpThen(t, new, 1, {})
  BY DEF instrument_assgn_tmp_op
<1>2. lists \in Nat  BY BoundsAssumption DEF OInv, TypeOK
<1>3. (lists + 1..lists + 1) \ {} = {lists + 1}  BY <1>2
<1>4. /\ new \in Seq([key : Tmp, list : 1..lists + 1]) /\ Once(new)
      /\ ListsOf(new) = (ListsOf(var_deps) \ FreedFor(var_deps, t)) \cup {lists + 1}
  BY <1>1, Renewed DEF New
<1> HIDE DEF new
<1> QED  BY <1>1, <1>3, <1>4, EraseOwned

\* One of the two lists made goes into the node, the other nowhere.
LEMMA QopOwned ==
  ASSUME OInv, NEW t \in Tmp, NEW S, instrument_assgn_tmp_qop(t, S)
  PROVE  OInv'
<1> DEFINE new == Append(Without(var_deps, t), Node(t, New + 1))
<1>1. Running /\ EraseTmpThen(t, new, 2, {New})
  BY DEF instrument_assgn_tmp_qop
<1>2. lists \in Nat  BY BoundsAssumption DEF OInv, TypeOK
<1>3. (lists + 1..lists + 2) \ {New} = {lists + 2} /\ New \in lists + 1..lists + 2
      /\ New + 1 = lists + 2
  BY <1>2 DEF New
<1>4. /\ new \in Seq([key : Tmp, list : 1..lists + 2]) /\ Once(new)
      /\ ListsOf(new) = (ListsOf(var_deps) \ FreedFor(var_deps, t)) \cup {lists + 2}
  BY <1>1, <1>3, Renewed
<1> HIDE DEF new
<1> QED  BY <1>1, <1>3, <1>4, EraseOwned

LEMMA ConstOwned ==
  ASSUME OInv, NEW t \in Tmp, instrument_assgn_tmp_const(t)
  PROVE  OInv'
<1> DEFINE new == Without(var_deps, t)
<1>1. Running /\ EraseTmpThen(t, new, 0, {})
  BY DEF instrument_assgn_tmp_const
<1>2. /\ lists \in Nat /\ var_deps \in Seq([key : Tmp, list : 1..lists])
      /\ Once(var_deps)
  BY <1>1, BoundsAssumption DEF OInv, TypeOK, Owned
<1>3. (lists + 1..lists + 0) \ {} = {} /\ lists + 0 = lists  BY <1>2
<1>4. /\ new \in Seq([key : Tmp, list : 1..lists + 0]) /\ Once(new)
      /\ ListsOf(new) = (ListsOf(var_deps) \ FreedFor(var_deps, t)) \cup {}
  BY <1>2, <1>3, WithoutKeeps
<1> HIDE DEF new
<1> QED  BY <1>1, <1>3, <1>4, EraseOwned
\* A register's older list is freed, and a new one made or none.
LEMMA RegOwned ==
  ASSUME OInv, Running, NEW r \in Reg, NEW made \in {0, 1}, NEW n,
         n = Node(r, lists + made),
         reg_deps' = IF made = 0 THEN Without(reg_deps, r)
                     ELSE <<n>> \o Without(reg_deps, r),
         Heap(made, FreedFor(reg_deps, r)),
         UNCHANGED <<table, var_deps, write_deps, dropped, state>>
  PROVE  OInv'
<1> DEFINE F == FreedFor(reg_deps, r)
           rest == Without(reg_deps, r)
<1>1. TypeOK /\ Owned /\ Unset /\ HeldOnce /\ lists \in Nat
  BY BoundsAssumption DEF OInv, Owned, Unset, TypeOK
<1>2. /\ lists' = lists + made /\ lists' \in Nat
      /\ var_deps \in Seq(VarNode') /\ reg_deps \in Seq(RegNode')
      /\ write_deps \in Seq(WriteNode')
  BY <1>1, ListsMade
<1>3. TableOK' /\ HeldOnce' /\ Held' = Held  BY <1>1, TableSame
<1>4. /\ rest \in Seq(RegNode') /\ F \in SUBSET ListsOf(reg_deps) /\ Once(rest)
      /\ ListsOf(rest) = ListsOf(reg_deps) \ F
  BY <1>1, <1>2, WithoutKeeps DEF Owned
<1>5. /\ F \in SUBSET allocated /\ Held \ F = Held
      /\ ListsOf(var_deps) \ F = ListsOf(var_deps)
      /\ ListsOf(write_deps) \ F = ListsOf(write_deps)
      /\ dropped \ F = dropped
  BY <1>4, Apart
<1> DEFINE made1 == lists + 1..lists'
<1>6. /\ reg_deps' \in Seq(RegNode') /\ Once(reg_deps')
      /\ ListsOf(reg_deps') = (ListsOf(reg_deps) \ F) \cup made1
  <2>1. CASE made = 0
    <3>1. made1 = {} /\ reg_deps' = rest  BY <1>1, <1>2, <2>1
    <3> QED  BY <1>4, <3>1
  <2>2. CASE made = 1
    <3>1. made1 = {lists + 1} /\ n.list = lists + 1  BY <1>1, <1>2, <2>2 DEF Node
    <3>2. n \in RegNode' /\ n.list # NULL
      BY <1>1, <1>2, <2>2, <3>1 DEF Node, RegNode, NULL
    <3>3. n.list \notin ListsOf(rest)
      <4>1. lists + 1 \in Nat /\ lists + 1 > lists  BY <1>1
      <4> QED  BY <1>4, <3>1, <4>1, Apart
    <3> HIDE DEF rest
    <3>4. /\ <<n>> \o rest \in Seq(RegNode') /\ Once(<<n>> \o rest)
          /\ ListsOf(<<n>> \o rest) = ListsOf(rest) \cup ({n.list} \ {NULL})
      BY <1>4, <3>2, <3>3, NodeInFront
    <3>5. reg_deps' = <<n>> \o rest  BY <2>2 DEF rest
    <3> QED  BY <1>4, <3>1, <3>2, <3>4, <3>5
  <2> QED  BY <2>1, <2>2
<1> HIDE DEF F, made1, rest
<1>7. Split(made1, {}, {}, made1, {}, {})  BY DEF Split
<1>8. /\ Held' = (Held \ F) \cup {}
      /\ ListsOf(var_deps') = (ListsOf(var_deps) \ F) \cup {}
      /\ ListsOf(write_deps') = (ListsOf(write_deps) \ F) \cup {}
      /\ dropped' = (dropped \ F) \cup {}
  BY <1>3, <1>5
<1>9. /\ var_deps' \in Seq(VarNode') /\ write_deps' \in Seq(WriteNode')
      /\ Once(var_deps') /\ Once(write_deps')
  BY <1>1, <1>2 DEF Owned
<1>10. Split(lists + 1..lists', {}, {}, made1, {}, {}) /\ Heap(made, F) /\ state' = state
       /\ made \in Nat
  BY <1>7 DEF made1, F
<1> QED  BY <1>3, <1>5, <1>6, <1>8, <1>9, <1>10, Accounts, Zenon

LEMMA PutOwned ==
  ASSUME OInv, NEW r \in Reg,
         instrument_put_cnst(r) \/ \E t \in Tmp : instrument_put_tmp(r, t)
  PROVE  OInv'
<1>1. CASE instrument_put_cnst(r)
  <2>1. PICK n : n = Node(r, lists + 0)  OBVIOUS
  <2> QED  BY <1>1, <2>1, RegOwned DEF instrument_put_cnst
<1>2. CASE \E t \in Tmp : instrument_put_tmp(r, t)
  <2>1. PICK n : n = Node(r, lists + 1)  OBVIOUS
  <2>2. reg_deps' = <<n>> \o Without(reg_deps, r)
    BY <1>2, <2>1 DEF instrument_put_tmp, New
  <2> QED  BY <1>2, <2>1, <2>2, RegOwned DEF instrument_put_tmp
<1> QED  BY <1>1, <1>2

\* The node in front is new, the older nodes keep their lists.
LEMMA GetOwned ==
  ASSUME OInv, NEW t \in Tmp, NEW r, instrument_assgn_tmp_get(t, r)
  PROVE  OInv'
<1>1. PICK n : n = Node(t, New)  OBVIOUS
<1>2. /\ Running /\ var_deps' = <<n>> \o var_deps /\ Heap(1, {})
      /\ UNCHANGED <<table, reg_deps, write_deps, dropped, state>>
  BY <1>1 DEF instrument_assgn_tmp_get
<1>3. TypeOK /\ Owned /\ Unset /\ HeldOnce /\ lists \in Nat
  BY <1>2, BoundsAssumption DEF OInv, Owned, Unset, TypeOK
<1>4. /\ lists' = lists + 1
      /\ var_deps \in Seq(VarNode') /\ reg_deps \in Seq(RegNode')
      /\ write_deps \in Seq(WriteNode')
  BY <1>2, <1>3, ListsMade
<1>5. TableOK' /\ HeldOnce' /\ Held' = Held  BY <1>2, <1>3, TableSame
<1>6. n \in VarNode' /\ n.list = lists + 1 /\ n.list # NULL
  BY <1>1, <1>3, <1>4 DEF Node, New, VarNode, NULL
<1>7. n.list \notin ListsOf(var_deps)
  <2>1. lists + 1 \in Nat /\ lists + 1 > lists  BY <1>3
  <2> QED  BY <1>2, <1>6, <2>1, Apart
<1>8. /\ <<n>> \o var_deps \in Seq(VarNode') /\ Once(<<n>> \o var_deps)
      /\ ListsOf(<<n>> \o var_deps) = ListsOf(var_deps) \cup ({n.list} \ {NULL})
  BY <1>3, <1>4, <1>6, <1>7, NodeInFront DEF Owned
<1>9. lists + 1..lists' = {lists + 1}  BY <1>3, <1>4
<1>10. Split(lists + 1..lists', {}, {lists + 1}, {}, {}, {})
  BY <1>9 DEF Split
<1>11. /\ Held' = (Held \ {}) \cup {}
       /\ ListsOf(var_deps') = (ListsOf(var_deps) \ {}) \cup {lists + 1}
       /\ ListsOf(reg_deps') = (ListsOf(reg_deps) \ {}) \cup {}
       /\ ListsOf(write_deps') = (ListsOf(write_deps) \ {}) \cup {}
       /\ dropped' = (dropped \ {}) \cup {}
  BY <1>2, <1>5, <1>6, <1>8
<1>12. /\ var_deps' \in Seq(VarNode') /\ reg_deps' \in Seq(RegNode')
       /\ write_deps' \in Seq(WriteNode')
       /\ Once(var_deps') /\ Once(reg_deps') /\ Once(write_deps')
  BY <1>2, <1>3, <1>4, <1>8 DEF Owned
<1>13. {} \in SUBSET allocated /\ 1 \in Nat /\ state' = state  BY <1>2
<1> QED  BY <1>2, <1>5, <1>10, <1>11, <1>12, <1>13, Accounts, Zenon

LEMMA ExitOwned ==
  ASSUME OInv, instrument_exit
  PROVE  OInv'
<1> DEFINE F == ListsOf(var_deps)
<1>1. /\ Running /\ var_deps' = <<>> /\ Heap(0, F)
      /\ UNCHANGED <<table, reg_deps, write_deps, dropped, state>>
  BY DEF instrument_exit
<1>2. TypeOK /\ Owned /\ Unset /\ HeldOnce /\ lists \in Nat
  BY <1>1, BoundsAssumption DEF OInv, Owned, Unset, TypeOK
<1>3. /\ lists' = lists + 0
      /\ reg_deps \in Seq(RegNode') /\ write_deps \in Seq(WriteNode')
  BY <1>1, <1>2, ListsMade
<1>4. TableOK' /\ HeldOnce' /\ Held' = Held  BY <1>1, <1>2, TableSame
<1>5. /\ F \in SUBSET allocated /\ Held \ F = Held
      /\ ListsOf(reg_deps) \ F = ListsOf(reg_deps)
      /\ ListsOf(write_deps) \ F = ListsOf(write_deps)
      /\ dropped \ F = dropped
  BY <1>1, Apart
<1>6. lists + 1..lists' = {}  BY <1>2, <1>3
<1>7. Split(lists + 1..lists', {}, {}, {}, {}, {})  BY <1>6 DEF Split
<1>8. var_deps' \in Seq(VarNode') /\ Once(var_deps') /\ ListsOf(var_deps') = {}
  BY <1>1 DEF Once, ListsOf, ListsAt
<1> HIDE DEF F
<1>9. /\ Held' = (Held \ F) \cup {}
      /\ ListsOf(var_deps') = (ListsOf(var_deps) \ F) \cup {}
      /\ ListsOf(reg_deps') = (ListsOf(reg_deps) \ F) \cup {}
      /\ ListsOf(write_deps') = (ListsOf(write_deps) \ F) \cup {}
      /\ dropped' = (dropped \ F) \cup {}
  BY <1>1, <1>4, <1>5, <1>8 DEF F
<1>10. /\ reg_deps' \in Seq(RegNode') /\ write_deps' \in Seq(WriteNode')
       /\ Once(reg_deps') /\ Once(write_deps') /\ 0 \in Nat /\ state' = state
  BY <1>1, <1>2, <1>3 DEF Owned
<1> QED  BY <1>1, <1>4, <1>5, <1>7, <1>8, <1>9, <1>10, Accounts, Zenon
\* Lists set in the table: made, each for one byte, or none.
LEMMA SetOwned ==
  ASSUME OInv, Running, NEW S \in SUBSET Addresses, NEW list, NEW made \in Nat,
         set_shadow_mem(S, list), Heap(made, Replaced(S)),
         \A a \in S : Covered(a),
         \A a, b \in S : Up(a) = Up(b) /\ Low(a) = Low(b) => a = b,
         \A a, b \in S : list[a] = list[b] /\ list[a] # NULL => a = b,
         {list[a] : a \in S} \ {NULL} = lists + 1..lists + made,
         UNCHANGED <<nodes, dropped, state>>
  PROVE  OInv'
<1> DEFINE F == Replaced(S)
           N == lists + 1..lists'
<1>1. TypeOK /\ Owned /\ HeldOnce /\ TableOK /\ lists \in Nat
  BY BoundsAssumption DEF OInv, Owned, TypeOK, TableOK
<1>2. /\ lists' = lists + made /\ lists' \in Nat /\ lists <= lists'
      /\ var_deps \in Seq(VarNode') /\ reg_deps \in Seq(RegNode')
      /\ write_deps \in Seq(WriteNode')
  BY <1>1, ListsMade
<1>3. \A a \in S : list[a] # NULL => list[a] \in N
  BY <1>2
<1>4. \A a \in S : list[a] \notin Held
  <2> SUFFICES ASSUME NEW a \in S PROVE list[a] \notin Held  OBVIOUS
  <2>1. CASE list[a] = NULL  BY <2>1 DEF Held
  <2>2. CASE list[a] # NULL
    <3>1. list[a] \in Nat /\ list[a] > lists  BY <1>1, <1>2, <1>3, <2>2
    <3> QED  BY <3>1, Apart
  <2> QED  BY <2>1, <2>2
<1>5. /\ HeldOnce' /\ F \subseteq Held
      /\ Held' = (Held \ F) \cup ({list[a] : a \in S} \ {NULL})
  BY <1>1, <1>4, SetHeld
<1>6. Held' = (Held \ F) \cup N  BY <1>2, <1>5
<1>7. \A a \in S : list[a] \in 0..lists'
  BY <1>1, <1>2, <1>3 DEF NULL
<1>8. TableOK'  BY <1>1, <1>2, <1>7, SetTypes
<1>9. /\ F \in SUBSET allocated
      /\ ListsOf(var_deps) \ F = ListsOf(var_deps)
      /\ ListsOf(reg_deps) \ F = ListsOf(reg_deps)
      /\ ListsOf(write_deps) \ F = ListsOf(write_deps)
      /\ dropped \ F = dropped
  BY <1>5, Apart
<1> HIDE DEF F, N
<1>10. Split(N, N, {}, {}, {}, {})  BY DEF Split
<1>11. /\ ListsOf(var_deps') = (ListsOf(var_deps) \ F) \cup {}
       /\ ListsOf(reg_deps') = (ListsOf(reg_deps) \ F) \cup {}
       /\ ListsOf(write_deps') = (ListsOf(write_deps) \ F) \cup {}
       /\ dropped' = (dropped \ F) \cup {}
  BY <1>9 DEF nodes
<1>12. /\ var_deps' \in Seq(VarNode') /\ reg_deps' \in Seq(RegNode')
       /\ write_deps' \in Seq(WriteNode')
       /\ Once(var_deps') /\ Once(reg_deps') /\ Once(write_deps')
  BY <1>1, <1>2 DEF Owned, nodes
<1>13. /\ Split(lists + 1..lists', N, {}, {}, {}, {}) /\ Heap(made, F)
       /\ state' = state /\ F \in SUBSET allocated /\ made \in Nat
       /\ HeldOnce' /\ TableOK' /\ Held' = (Held \ F) \cup N
  BY <1>5, <1>6, <1>8, <1>9, <1>10 DEF N, F
<1> QED  BY <1>11, <1>12, <1>13, Accounts, Zenon

LEMMA StoreOwned ==
  ASSUME OInv, NEW a \in Addresses,
         instrument_store_const(a) \/ \E t \in Tmp : instrument_store_tmp(a, t)
  PROVE  OInv'
<1>1. lists \in Nat  BY BoundsAssumption DEF OInv, TypeOK
<1> DEFINE S == {a}
<1>2. CASE instrument_store_const(a)
  <2> DEFINE list == [b \in S |-> NULL]
  <2>1. /\ Running /\ Covered(a) /\ set_shadow_mem(S, list) /\ Heap(0, Replaced(S))
        /\ UNCHANGED <<nodes, dropped, state>>
    BY <1>2 DEF instrument_store_const
  <2>2. {list[b] : b \in S} \ {NULL} = lists + 1..lists + 0  BY <1>1
  <2>3. /\ \A b, c \in S : Up(b) = Up(c) /\ Low(b) = Low(c) => b = c
        /\ \A b, c \in S : list[b] = list[c] /\ list[b] # NULL => b = c
    OBVIOUS
  <2>4. S \in SUBSET Addresses /\ \A b \in S : Covered(b)  BY <2>1
  <2> HIDE DEF S, list
  <2> QED  BY <2>1, <2>2, <2>3, <2>4, SetOwned
<1>3. CASE \E t \in Tmp : instrument_store_tmp(a, t)
  <2> DEFINE list == [b \in S |-> New]
  <2>1. /\ Running /\ Covered(a) /\ set_shadow_mem(S, list) /\ Heap(1, Replaced(S))
        /\ UNCHANGED <<nodes, dropped, state>>
    BY <1>3 DEF instrument_store_tmp
  <2>2. {list[b] : b \in S} \ {NULL} = lists + 1..lists + 1
    <3>1. lists + 1..lists + 1 = {lists + 1} /\ lists + 1 # 0  BY <1>1
    <3> QED  BY <3>1 DEF New, NULL
  <2>3. /\ \A b, c \in S : Up(b) = Up(c) /\ Low(b) = Low(c) => b = c
        /\ \A b, c \in S : list[b] = list[c] /\ list[b] # NULL => b = c
    OBVIOUS
  <2>4. S \in SUBSET Addresses /\ \A b \in S : Covered(b)  BY <2>1
  <2> HIDE DEF S, list
  <2> QED  BY <2>1, <2>2, <2>3, <2>4, SetOwned
<1> QED  BY <1>2, <1>3

LEMMA ReadOwned ==
  ASSUME OInv, NEW a \in Addresses, NEW n \in Sizes, ta_pre_read(a, n)
  PROVE  OInv'
<1> DEFINE S == Buffer(a, n)
           list == [b \in S |-> New + b - a]
           c == Cardinality(S)
<1>1. lists \in Nat  BY BoundsAssumption DEF OInv, TypeOK
<1>2. /\ Running /\ \A b \in S : Covered(b)
      /\ set_shadow_mem(S, list) /\ Heap(c, Replaced(S))
      /\ UNCHANGED <<nodes, dropped, state>>
  BY DEF ta_pre_read
<1>3. S \in SUBSET Addresses  BY DEF Buffer
<1>4. /\ c \in Nat /\ {New + b - a : b \in S} = lists + 1..lists + c
      /\ \A x, y \in S : New + x - a = New + y - a => x = y
  BY <1>1, BufferLists
<1>5. {list[b] : b \in S} \ {NULL} = lists + 1..lists + c
  <2>1. {list[b] : b \in S} = {New + b - a : b \in S}  OBVIOUS
  <2>2. NULL \notin lists + 1..lists + c  BY <1>1 DEF NULL
  <2> QED  BY <1>4, <2>1, <2>2
<1>6. \A x, y \in S : Up(x) = Up(y) /\ Low(x) = Low(y) => x = y
  BY BufferSlots
<1>7. \A x, y \in S : list[x] = list[y] => x = y  BY <1>4
<1> HIDE DEF S, list, c
<1> QED  BY <1>2, <1>3, <1>4, <1>5, <1>6, <1>7, SetOwned

\* The bytes' lists are copied into one, which write_deps owns.
LEMMA WriteOwned ==
  ASSUME OInv, NEW a, NEW n, ta_pre_write(a, n)
  PROVE  OInv'
<1>1. PICK made, x :
        /\ made \in {0, 1} /\ x = Node("write", IF made = 0 THEN NULL ELSE New)
        /\ write_deps' = Append(write_deps, x) /\ Heap(made, {})
  <2>1. CASE Replaced(Buffer(a, n)) = {}
    <3>1. PICK made \in {0, 1} : made = 0  OBVIOUS
    <3> QED  BY <2>1, <3>1 DEF ta_pre_write
  <2>2. CASE Replaced(Buffer(a, n)) # {}
    <3>1. PICK made \in {0, 1} : made = 1  OBVIOUS
    <3> QED  BY <2>2, <3>1 DEF ta_pre_write
  <2> QED  BY <2>1, <2>2
<1>2. Running /\ UNCHANGED <<table, var_deps, reg_deps, dropped, state>>
  BY DEF ta_pre_write
<1>3. TypeOK /\ Owned /\ Unset /\ HeldOnce /\ lists \in Nat
  BY <1>2, BoundsAssumption DEF OInv, Owned, Unset, TypeOK
<1>4. /\ lists' = lists + made /\ lists' \in Nat
      /\ var_deps \in Seq(VarNode') /\ reg_deps \in Seq(RegNode')
      /\ write_deps \in Seq(WriteNode')
  BY <1>1, <1>3, ListsMade
<1>5. TableOK' /\ HeldOnce' /\ Held' = Held  BY <1>1, <1>3, TableSame
<1> DEFINE N == lists + 1..lists'
<1>6. x \in WriteNode' /\ {x.list} \ {NULL} = N
  <2>1. CASE made = 0
    <3>1. N = {} /\ x = Node("write", NULL)  BY <1>1, <1>3, <1>4, <2>1
    <3> QED  BY <1>4, <3>1 DEF Node, NULL, WriteNode
  <2>2. CASE made = 1
    <3>1. N = {lists + 1} /\ x = Node("write", New)  BY <1>1, <1>3, <1>4, <2>2
    <3>2. lists + 1 \in 0..lists' /\ lists + 1 # 0  BY <1>3, <1>4, <2>2
    <3> QED  BY <3>1, <3>2 DEF Node, New, NULL, WriteNode
  <2> QED  BY <1>1, <2>1, <2>2
<1>7. x.list \notin ListsOf(write_deps)
  <2>1. CASE x.list = NULL  BY <2>1 DEF ListsOf, ListsAt
  <2>2. CASE x.list # NULL
    <3>1. x.list \in N  BY <1>6, <2>2
    <3>2. x.list \in Nat /\ x.list > lists  BY <1>3, <3>1
    <3> QED  BY <1>2, <3>2, Apart
  <2> QED  BY <2>1, <2>2
<1>8. /\ Append(write_deps, x) \in Seq(WriteNode') /\ Once(Append(write_deps, x))
      /\ ListsOf(Append(write_deps, x)) = ListsOf(write_deps) \cup ({x.list} \ {NULL})
  <2>1. Once(write_deps)  BY <1>3 DEF Owned
  <2>2. /\ Append(write_deps, x) \in Seq(WriteNode') /\ Once(Append(write_deps, x))
        /\ ListsOf(Append(write_deps, x)) = ListsOf(write_deps) \cup ({x.list} \ {NULL})
    BY <1>4, <1>6, <1>7, <2>1, NodeBehind
  <2> QED  BY <2>2
<1>9. Split(N, {}, {}, {}, N, {})  BY DEF Split
<1>10. /\ Held' = (Held \ {}) \cup {}
       /\ ListsOf(var_deps') = (ListsOf(var_deps) \ {}) \cup {}
       /\ ListsOf(reg_deps') = (ListsOf(reg_deps) \ {}) \cup {}
       /\ ListsOf(write_deps') = (ListsOf(write_deps) \ {}) \cup N
       /\ dropped' = (dropped \ {}) \cup {}
  BY <1>1, <1>2, <1>5, <1>6, <1>8
<1>11. /\ var_deps' \in Seq(VarNode') /\ reg_deps' \in Seq(RegNode')
       /\ write_deps' \in Seq(WriteNode')
       /\ Once(var_deps') /\ Once(reg_deps') /\ Once(write_deps')
  BY <1>1, <1>2, <1>3, <1>4, <1>8 DEF Owned
<1>12. Split(lists + 1..lists', {}, {}, {}, N, {})  BY <1>9
<1>13. {} \in SUBSET allocated /\ made \in Nat /\ state' = state  BY <1>1, <1>2
<1> HIDE DEF N
<1> QED  BY <1>1, <1>2, <1>5, <1>10, <1>11, <1>12, <1>13, Accounts, Zenon
\* What da_fini frees: each list once.
LEMMA OnePointer ==
  ASSUME TypeOK, Owned
  PROVE  /\ Reached = Held \cup ListsOf(var_deps) \cup ListsOf(reg_deps)
                      \cup ListsOf(write_deps)
         /\ \A l \in Reached : Pointers(l) = 1
<1> DEFINE S == [key : Tmp \cup Reg \cup {"write"}, list : Nat]
           vr == var_deps \o reg_deps
<1>1. lists \in Nat  BY BoundsAssumption DEF TypeOK
<1>2. var_deps \in Seq(S) /\ reg_deps \in Seq(S) /\ write_deps \in Seq(S)
  <2>1. /\ [key : Tmp, list : 1..lists] \subseteq S
        /\ [key : Reg, list : 1..lists] \subseteq S
        /\ [key : {"write"}, list : 0..lists] \subseteq S
    BY <1>1
  <2> HIDE DEF S
  <2> QED  BY <2>1, SeqWider DEF TypeOK
<1> HIDE DEF S
<1>3. /\ Once(var_deps) /\ Once(reg_deps) /\ Once(write_deps) /\ HeldOnce
      /\ ListsOf(var_deps) \cap ListsOf(reg_deps) = {}
      /\ (ListsOf(var_deps) \cup ListsOf(reg_deps)) \cap ListsOf(write_deps) = {}
      /\ Held \cap (ListsOf(var_deps) \cup ListsOf(reg_deps) \cup ListsOf(write_deps)) = {}
  BY DEF Owned, Divided, Split
<1>4. /\ vr \in Seq(S) /\ Once(vr)
      /\ ListsOf(vr) = ListsOf(var_deps) \cup ListsOf(reg_deps)
  BY <1>2, <1>3, Joined
<1>5. AllNodes = vr \o write_deps  BY DEF AllNodes
<1> HIDE DEF vr
<1>6. /\ AllNodes \in Seq(S) /\ Once(AllNodes)
      /\ ListsOf(AllNodes) = ListsOf(vr) \cup ListsOf(write_deps)
  BY <1>2, <1>3, <1>4, <1>5, Joined
<1>7. Held \cap ListsOf(AllNodes) = {}  BY <1>3, <1>4, <1>6
<1>8. \A l \in Reached : l # NULL  BY DEF Reached, Held, ListsOf, ListsAt
<1> DEFINE Ns(l) == {i \in DOMAIN AllNodes : AllNodes[i].list = l}
<1>9. ASSUME NEW l \in Held PROVE Pointers(l) = 1
  <2>1. l # NULL /\ l \notin ListsOf(AllNodes)  BY <1>7 DEF Held
  <2>2. Ns(l) = {}  BY <2>1 DEF ListsOf, ListsAt
  <2>3. PICK s \in AllSlots : shadow_mem[s[1]][s[2]] = l  BY DEF Held
  <2>4. Slots(l) = {s}
    <3>1. s \in Slots(l)  BY <2>3 DEF Slots
    <3>2. ASSUME NEW z \in Slots(l) PROVE z = s
      <4>1. z \in AllSlots /\ shadow_mem[z[1]][z[2]] = l  BY DEF Slots
      <4>2. /\ z[1] \in Inside /\ z[2] \in Inside /\ s[1] \in Inside /\ s[2] \in Inside
            /\ Look(z[1], z[2]) = l /\ Look(s[1], s[2]) = l
        BY <2>3, <4>1 DEF AllSlots, Look
      <4>3. z[1] = s[1] /\ z[2] = s[2]  BY <1>3, <2>1, <4>2 DEF HeldOnce
      <4>4. z = <<z[1], z[2]>> /\ s = <<s[1], s[2]>>  BY <4>1 DEF AllSlots
      <4> QED  BY <4>3, <4>4
    <3> QED  BY <3>1, <3>2
  <2>5. Cardinality(Slots(l)) = 1 /\ Cardinality(Ns(l)) = 0
    BY <2>2, <2>4, FS_Singleton, FS_EmptySet
  <2> QED  BY <2>5 DEF Pointers
<1>10. ASSUME NEW l \in ListsOf(AllNodes) PROVE Pointers(l) = 1
  <2>1. l # NULL /\ l \notin Held  BY <1>7 DEF ListsOf, ListsAt
  <2>2. Slots(l) = {}  BY <2>1 DEF Slots, Held
  <2>3. PICK i \in DOMAIN AllNodes : AllNodes[i].list = l
    BY DEF ListsOf, ListsAt
  <2>4. Ns(l) = {i}  BY <1>6, <2>1, <2>3 DEF Once
  <2>5. Cardinality(Slots(l)) = 0 /\ Cardinality(Ns(l)) = 1
    BY <2>2, <2>4, FS_Singleton, FS_EmptySet
  <2> QED  BY <2>5 DEF Pointers
<1> QED  BY <1>4, <1>6, <1>9, <1>10 DEF Reached

LEMMA OwnedIsOnce == TypeOK /\ (Running => Owned) => OwnedOnce
<1> SUFFICES ASSUME TypeOK, Running, Owned PROVE OwnedOnce
  BY DEF OwnedOnce
<1>1. /\ Reached = Held \cup ListsOf(var_deps) \cup ListsOf(reg_deps)
                   \cup ListsOf(write_deps)
      /\ \A l \in Reached : Pointers(l) = 1
  BY OnePointer
<1>2. allocated = Reached \cup dropped /\ Reached \cap dropped = {}
  BY <1>1 DEF Owned, Divided, Split
<1> QED  BY <1>1, <1>2 DEF OwnedOnce

\* No list is freed twice at the end, and what is left are the dropped ones.
LEMMA FiniOwned ==
  ASSUME OInv, da_fini
  PROVE  OInv'
<1>1. /\ Running /\ allocated' = allocated \ Reached
      /\ state' = IF \E l \in Reached : Pointers(l) > 1 \/ l \notin allocated
                  THEN "undefined" ELSE "freed"
      /\ UNCHANGED <<table, nodes, lists, dropped>>
  BY DEF da_fini
<1>2. OwnedOnce  BY OwnedIsOnce DEF OInv
<1>3. allocated' = dropped'  BY <1>1, <1>2 DEF OwnedOnce
<1>4. state' \in {"undefined", "freed"}  BY <1>1
<1>5. TypeOK'
  BY <1>1, <1>4 DEF OInv, TypeOK, table, nodes
<1> QED  BY <1>3, <1>4, <1>5 DEF OInv, Running, AllFreed

LEMMA InitOwned == Init => OInv
<1> SUFFICES ASSUME Init PROVE OInv  OBVIOUS
<1>1. /\ shadow_mem = [u \in Inside |-> Unallocated]
      /\ latest = [a \in Addresses |-> NULL]
      /\ var_deps = <<>> /\ reg_deps = <<>> /\ write_deps = <<>>
      /\ lists = 0 /\ allocated = {} /\ dropped = {} /\ state = "running"
  BY DEF Init, init_shadow_mem
<1>2. TypeOK
  <2>1. 0 \in 0..MaxLists  BY BoundsAssumption
  <2>2. latest \in [Addresses -> 0..lists]  BY <1>1 DEF NULL
  <2>3. shadow_mem \in [Inside -> {Unallocated} \cup [Inside -> 0..lists]]
    BY <1>1
  <2> QED  BY <1>1, <2>1, <2>2, <2>3 DEF TypeOK
<1>3. \A u, l \in Inside : Look(u, l) = NULL  BY <1>1 DEF Look
<1>4. Held = {} /\ HeldOnce  BY <1>3, HeldLooks DEF HeldOnce
<1>5. Owned
  BY <1>1, <1>4 DEF Owned, Divided, Split, Once, ListsOf, ListsAt
<1> QED  BY <1>1, <1>2, <1>5 DEF OInv, AllFreed

LEMMA StepOwned == OInv /\ [Next]_vars => OInv'
<1> SUFFICES ASSUME OInv, [Next]_vars PROVE OInv'
  OBVIOUS
<1>1. ASSUME NEW t \in Tmp, TmpCallback(t) PROVE OInv'
  <2>1. ASSUME NEW a \in Addresses, instrument_assgn_tmp_load(t, a) PROVE OInv'
    BY <2>1, LoadOwned
  <2>2. ASSUME NEW a \in Addresses, instrument_store_tmp(a, t) PROVE OInv'
    BY <2>2, StoreOwned
  <2>3. ASSUME NEW S \in SUBSET Tmp, instrument_assgn_tmp_op(t, S) PROVE OInv'
    BY <2>3, OpOwned
  <2>4. ASSUME NEW S \in SUBSET Tmp, instrument_assgn_tmp_qop(t, S) PROVE OInv'
    BY <2>4, QopOwned
  <2>5. CASE instrument_assgn_tmp_const(t)  BY <2>5, ConstOwned
  <2>6. ASSUME NEW r \in Reg, instrument_assgn_tmp_get(t, r) PROVE OInv'
    BY <2>6, GetOwned
  <2>7. ASSUME NEW r \in Reg, instrument_put_tmp(r, t) PROVE OInv'
    BY <2>7, PutOwned
  <2> QED  BY <1>1, <2>1, <2>2, <2>3, <2>4, <2>5, <2>6, <2>7 DEF TmpCallback
<1>2. ASSUME NEW r \in Reg, instrument_put_cnst(r) PROVE OInv'
  BY <1>2, PutOwned
<1>3. ASSUME NEW a \in Addresses, instrument_store_const(a) PROVE OInv'
  BY <1>3, StoreOwned
<1>4. ASSUME NEW a \in Addresses, Outside(a) PROVE OInv'
  BY <1>4, UndefinedKeeps DEF Outside
<1>5. ASSUME NEW a \in Addresses, NEW n \in Sizes, ta_pre_read(a, n) PROVE OInv'
  BY <1>5, ReadOwned
<1>6. ASSUME NEW a \in Addresses, NEW n \in Sizes, ta_pre_write(a, n) PROVE OInv'
  BY <1>6, WriteOwned
<1>7. CASE instrument_exit  BY <1>7, ExitOwned
<1>8. CASE da_fini  BY <1>8, FiniOwned
<1>9. CASE UNCHANGED vars
  <2>1. TypeOK'  BY <1>9 DEF OInv, TypeOK, vars, table, nodes
  <2>2. Owned => Owned'
    <3>1. Held' = Held /\ HeldOnce' = HeldOnce
      BY <1>9 DEF Held, AllSlots, HeldOnce, Look, vars, table
    <3>2. /\ ListsOf(var_deps)' = ListsOf(var_deps) /\ Once(var_deps)' = Once(var_deps)
          /\ ListsOf(reg_deps)' = ListsOf(reg_deps) /\ Once(reg_deps)' = Once(reg_deps)
          /\ ListsOf(write_deps)' = ListsOf(write_deps)
          /\ Once(write_deps)' = Once(write_deps)
      BY <1>9 DEF vars, nodes, ListsOf, ListsAt, Once
    <3>3. Divided' = Divided  BY <1>9, <3>1, <3>2 DEF Divided, Split, vars
    <3> QED  BY <3>1, <3>2, <3>3 DEF Owned
  <2>3. Running' = Running /\ AllFreed' = AllFreed
    BY <1>9 DEF Running, AllFreed, vars
  <2> QED  BY <2>1, <2>2, <2>3 DEF OInv
<1> QED  BY <1>1, <1>2, <1>3, <1>4, <1>5, <1>6, <1>7, <1>8, <1>9 DEF Next

\* The table, the nodes and the counts keep their types, and no pointer is to
\* a list that was never made.
THEOREM TypeCorrect == Spec => []TypeOK
<1>1. OInv => TypeOK  BY DEF OInv
<1> QED  BY <1>1, InitOwned, StepOwned, PTL DEF Spec

\* Whatever the callbacks copy, merge, erase and replace, and in whatever order
\* they come, each allocated list has one pointer to it, in the table or in a
\* node, or is one of those the Qop callback drops.
THEOREM OneOwnerEach == Spec => []OwnedOnce
<1>1. OInv => OwnedOnce  BY OwnedIsOnce DEF OInv
<1> QED  BY <1>1, InitOwned, StepOwned, PTL DEF Spec

\* When da_fini is through in a run that stayed defined (no head erased, no
\* index past the end of an array), no list is allocated but those the Qop
\* callback dropped.
THEOREM NothingLeft == Spec => []AllFreed
<1>1. OInv => AllFreed  BY DEF OInv
<1> QED  BY <1>1, InitOwned, StepOwned, PTL DEF Spec
=============================================================================
