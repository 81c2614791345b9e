--------------------------- MODULE DepListsProofs ---------------------------
(***************************************************************************)
(* For any sets of temporaries, registers and addresses, and lists of any  *)
(* length: the lists of DepLists repeat nothing, a register has one node,  *)
(* and each callback on the lists is a callback of DepTrack on the sets.   *)
(***************************************************************************)
EXTENDS DepLists, SequenceTheorems, WellFoundedInduction, TLAPS

\* Induction over the natural numbers, for a set of them: the least number
\* outside of the set is neither 0 nor the successor of another.
LEMMA LeastNat ==
  ASSUME NEW T \in SUBSET Nat, T # {}
  PROVE  \E n \in T : \A m \in T : n <= m
<1> DEFINE R == OpToRel(<, Nat)
<1>1. IsWellFoundedOn(R, Nat)
  BY NatLessThanWellFounded
<1>2. \A x, y \in Nat : <<x, y>> \in R <=> x < y
  BY DEF OpToRel
<1> HIDE DEF R
<1>3. PICK n \in T : \A m \in T : ~(<<m, n>> \in R)
  BY <1>1, WFMin
<1>4. ASSUME NEW m \in T PROVE n <= m
  <2>1. ~(m < n)
    BY <1>2, <1>3
  <2> QED  BY <2>1
<1> QED  BY <1>4

LEMMA Reaches ==
  ASSUME NEW N \in Nat, NEW T, 0 \in T, \A n \in 0..N - 1 : n \in T => n + 1 \in T
  PROVE  N \in T
<1> SUFFICES ASSUME N \notin T PROVE FALSE
  OBVIOUS
<1> DEFINE U == {n \in 0..N : n \notin T}
<1>1. U \in SUBSET Nat /\ U # {}
  OBVIOUS
<1>2. PICK n \in U : \A m \in U : n <= m
  BY <1>1, LeastNat
<1>3. n # 0 /\ n - 1 \in 0..N - 1 /\ n - 1 \notin U
  BY <1>2
<1>4. n - 1 \in T
  BY <1>3
<1>5. (n - 1) + 1 \in T
  BY <1>3, <1>4
<1> QED  BY <1>2, <1>5

-----------------------------------------------------------------------------
\* A list without repeats, and a node with a list of some reads.
Distinct == {l \in ReadList : IsInjective(l)}
Nodes(K) == [key : K, deps : Distinct \ {<<>>}]

\* What is found is the list of the first match.
LEMMA FindFirst ==
  ASSUME NEW S, NEW list \in Seq(S), NEW k, NEW i \in DOMAIN list,
         list[i].key = k, \A h \in 1..i - 1 : list[h].key # k
  PROVE  Find(list, k) = list[i].deps
<1> DEFINE M == Matches(list, k)
<1>1. i \in M /\ M \subseteq Nat /\ i \in Nat
  BY DEF Matches
<1>2. \A h \in M : i <= h
  BY <1>1 DEF Matches
<1>3. Min(M) \in M /\ \A h \in M : Min(M) <= h
  BY <1>1, <1>2 DEF Min
<1>4. Min(M) = i
  BY <1>1, <1>2, <1>3
<1> QED  BY <1>1, <1>4 DEF Find

LEMMA HasFirst ==
  ASSUME NEW S, NEW list \in Seq(S), NEW k, Matches(list, k) # {}
  PROVE  \E i \in DOMAIN list :
           list[i].key = k /\ \A h \in 1..i - 1 : list[h].key # k
<1>1. Matches(list, k) \in SUBSET Nat
  BY DEF Matches
<1>2. PICK i \in Matches(list, k) : \A h \in Matches(list, k) : i <= h
  BY <1>1, LeastNat
<1>3. \A h \in 1..i - 1 : h \notin Matches(list, k)
  BY <1>1, <1>2
<1> QED  BY <1>2, <1>3 DEF Matches

\* The list found is empty when there is no node for k, and only then.
LEMMA FindTypes ==
  ASSUME NEW K, NEW list \in Seq(Nodes(K)), NEW k
  PROVE  /\ Find(list, k) \in Distinct
         /\ Find(list, k) = <<>> <=> Matches(list, k) = {}
         /\ k \notin K => Find(list, k) = <<>>
<1>1. <<>> \in Distinct
  BY DEF Distinct, ReadList, IsInjective
<1>2. CASE Matches(list, k) = {}
  BY <1>1, <1>2 DEF Find
<1>3. CASE Matches(list, k) # {}
  <2>1. PICK i \in DOMAIN list :
          list[i].key = k /\ \A h \in 1..i - 1 : list[h].key # k
    BY <1>3, HasFirst
  <2>2. Find(list, k) = list[i].deps
    BY <2>1, FindFirst
  <2>3. list[i] \in Nodes(K)
    BY ElementOfSeq
  <2>4. list[i].deps \in Distinct \ {<<>>} /\ k \in K
    BY <2>1, <2>3 DEF Nodes
  <2> QED  BY <1>3, <2>2, <2>4
<1> QED  BY <1>2, <1>3

\* A node at the end is found when no node is in front of it; ...
LEMMA FindAppended ==
  ASSUME NEW K, NEW list \in Seq(Nodes(K)), NEW x \in Nodes(K), NEW j
  PROVE  /\ Append(list, x) \in Seq(Nodes(K))
         /\ Find(Append(list, x), j) =
              IF Matches(list, j) # {} THEN Find(list, j)
              ELSE IF x.key = j THEN x.deps ELSE <<>>
         /\ Matches(Append(list, x), j) = {} <=>
              Matches(list, j) = {} /\ x.key # j
<1> DEFINE new == Append(list, x)
<1>1. /\ new \in Seq(Nodes(K)) /\ Len(new) = Len(list) + 1 /\ Len(list) \in Nat
      /\ \A i \in 1..Len(list) : new[i] = list[i]
      /\ new[Len(list) + 1] = x
  BY AppendProperties, LenProperties
<1>2. DOMAIN new = 1..Len(list) + 1 /\ DOMAIN list = 1..Len(list)
  BY <1>1, LenProperties
<1> HIDE DEF new
<1>3. CASE Matches(list, j) # {}
  <2>1. PICK i \in DOMAIN list :
          list[i].key = j /\ \A h \in 1..i - 1 : list[h].key # j
    BY <1>3, HasFirst
  <2>2. i \in DOMAIN new /\ new[i] = list[i] /\ \A h \in 1..i - 1 : new[h] = list[h]
    BY <1>1, <1>2
  <2>3. new[i].key = j /\ \A h \in 1..i - 1 : new[h].key # j
    BY <2>1, <2>2
  <2>4. Find(new, j) = new[i].deps
    BY <1>1, <2>2, <2>3, FindFirst
  <2>5. Find(list, j) = list[i].deps
    BY <2>1, FindFirst
  <2>6. i \in Matches(new, j)
    BY <2>2, <2>3 DEF Matches
  <2> QED  BY <1>1, <1>3, <2>2, <2>4, <2>5, <2>6 DEF new
<1>4. CASE Matches(list, j) = {} /\ x.key = j
  <2>1. \A h \in 1..(Len(list) + 1) - 1 : new[h].key # j
    BY <1>1, <1>2, <1>4 DEF Matches
  <2>2. Len(list) + 1 \in DOMAIN new /\ new[Len(list) + 1].key = j
    BY <1>1, <1>2, <1>4
  <2>3. Find(new, j) = x.deps
    BY <1>1, <2>1, <2>2, FindFirst
  <2>4. Matches(new, j) # {}
    BY <2>2 DEF Matches
  <2> QED  BY <1>1, <1>4, <2>3, <2>4 DEF new
<1>5. CASE Matches(list, j) = {} /\ x.key # j
  <2>1. Matches(new, j) = {}
    BY <1>1, <1>2, <1>5 DEF Matches
  <2> QED  BY <1>1, <1>5, <2>1 DEF new, Find
<1> QED  BY <1>3, <1>4, <1>5

\* ... a node in front is found.
LEMMA FindPrepended ==
  ASSUME NEW K, NEW list \in Seq(Nodes(K)), NEW x \in Nodes(K), NEW j
  PROVE  /\ <<x>> \o list \in Seq(Nodes(K))
         /\ Find(<<x>> \o list, j) = IF x.key = j THEN x.deps ELSE Find(list, j)
         /\ Head(<<x>> \o list) = x /\ <<x>> \o list # <<>>
<1> DEFINE new == <<x>> \o list
<1>1. /\ new \in Seq(Nodes(K)) /\ Len(new) = 1 + Len(list) /\ Len(list) \in Nat
      /\ new[1] = x
      /\ \A i \in 1..Len(list) : new[i + 1] = list[i]
  <2>1. <<x>> \in Seq(Nodes(K)) /\ Len(<<x>>) = 1 /\ <<x>>[1] = x
    OBVIOUS
  <2>2. Len(list) \in Nat
    BY LenProperties
  <2>3. \A i \in 1..(1 + Len(list)) : new[i] = IF i <= 1 THEN <<x>>[i] ELSE list[i - 1]
    BY <2>1, ConcatProperties
  <2> QED  BY <2>1, <2>2, <2>3, ConcatProperties
<1>2. DOMAIN new = 1..1 + Len(list) /\ DOMAIN list = 1..Len(list)
  BY <1>1, LenProperties
<1>3. Head(new) = x /\ new # <<>>
  BY <1>1, <1>2
<1> HIDE DEF new
<1>4. CASE x.key = j
  <2>1. Find(new, j) = x.deps
    BY <1>1, <1>2, <1>4, FindFirst
  <2> QED  BY <1>1, <1>3, <1>4, <2>1 DEF new
<1>5. CASE x.key # j /\ Matches(list, j) # {}
  <2>1. PICK i \in DOMAIN list :
          list[i].key = j /\ \A h \in 1..i - 1 : list[h].key # j
    BY <1>5, HasFirst
  <2>2. i + 1 \in DOMAIN new /\ new[i + 1] = list[i]
    BY <1>1, <1>2
  <2>3. ASSUME NEW h \in 1..(i + 1) - 1 PROVE new[h].key # j
    <3>1. CASE h = 1
      BY <1>1, <1>5, <3>1
    <3>2. CASE h # 1
      <4>1. h - 1 \in 1..i - 1 /\ h - 1 \in 1..Len(list) /\ (h - 1) + 1 = h
        BY <1>2, <3>2
      <4>2. new[h] = list[h - 1]
        BY <1>1, <4>1
      <4> QED  BY <2>1, <4>1, <4>2
    <3> QED  BY <3>1, <3>2
  <2>4. new[i + 1].key = j
    BY <2>1, <2>2
  <2>5. Find(new, j) = new[i + 1].deps
    BY <1>1, <2>2, <2>3, <2>4, FindFirst
  <2>6. Find(list, j) = list[i].deps
    BY <2>1, FindFirst
  <2> QED  BY <1>1, <1>3, <1>5, <2>2, <2>5, <2>6 DEF new
<1>6. CASE x.key # j /\ Matches(list, j) = {}
  <2>1. ASSUME NEW h \in DOMAIN new PROVE new[h].key # j
    <3>1. CASE h = 1
      BY <1>1, <1>6, <3>1
    <3>2. CASE h # 1
      <4>1. h - 1 \in DOMAIN list /\ (h - 1) + 1 = h
        BY <1>2, <3>2
      <4>2. new[h] = list[h - 1] /\ list[h - 1].key # j
        BY <1>1, <1>2, <1>6, <4>1 DEF Matches
      <4> QED  BY <4>2
    <3> QED  BY <3>1, <3>2
  <2>2. Matches(new, j) = {}
    BY <2>1 DEF Matches
  <2> QED  BY <1>1, <1>3, <1>6, <2>2 DEF new, Find
<1> QED  BY <1>4, <1>5, <1>6

-----------------------------------------------------------------------------
\* The functions that Without, int_node_merge and MergeAll define exist, so
\* that they are what their definitions say.
LEMMA WithoutIs ==
  ASSUME NEW list, Len(list) \in Nat, NEW k
  PROVE  \E w : /\ w[0] = <<>>
                /\ \A n \in 1..Len(list) :
                     w[n] = IF list[n].key = k THEN w[n - 1] ELSE Append(w[n - 1], list[n])
                /\ Without(list, k) = w[Len(list)]
<1> DEFINE Is(w, N) ==
             w = [n \in 0..N |-> IF n = 0 THEN <<>>
                                 ELSE IF list[n].key = k THEN w[n - 1] ELSE Append(w[n - 1], list[n])]
           T == {N \in Nat : \E w : Is(w, N)}
<1>1. 0 \in T
  <2>1. Is([n \in 0..0 |-> <<>>], 0)
    OBVIOUS
  <2> QED  BY <2>1
<1>2. ASSUME NEW N \in 0..Len(list) - 1, N \in T PROVE N + 1 \in T
  <2>1. PICK w : Is(w, N)
    BY <1>2
  <2>2. \A n \in 0..N : w[n] = IF n = 0 THEN <<>>
                               ELSE IF list[n].key = k THEN w[n - 1] ELSE Append(w[n - 1], list[n])
    BY <2>1
  <2> DEFINE last == IF list[N + 1].key = k THEN w[N] ELSE Append(w[N], list[N + 1])
             v == [n \in 0..N + 1 |-> IF n = N + 1 THEN last ELSE w[n]]
  <2>3. ASSUME NEW n \in 0..N + 1
        PROVE  v[n] = IF n = 0 THEN <<>>
                      ELSE IF list[n].key = k THEN v[n - 1] ELSE Append(v[n - 1], list[n])
    <3>1. CASE n = N + 1
      <4>1. v[n - 1] = w[N] /\ n # 0
        BY <3>1
      <4> QED  BY <3>1, <4>1
    <3>2. CASE n \in 1..N
      <4>1. n - 1 \in 0..N /\ n - 1 # N + 1 /\ n # N + 1 /\ n \in 0..N
        BY <3>2
      <4>2. v[n - 1] = w[n - 1] /\ v[n] = w[n]
        BY <4>1
      <4>3. w[n] = IF n = 0 THEN <<>>
                   ELSE IF list[n].key = k THEN w[n - 1] ELSE Append(w[n - 1], list[n])
        BY <2>2, <4>1
      <4> HIDE DEF v
      <4> QED  BY <3>2, <4>2, <4>3
    <3>3. CASE n = 0
      <4>1. v[0] = w[0] /\ w[0] = <<>>
        BY <2>2
      <4> QED  BY <3>3, <4>1
    <3> QED  BY <3>1, <3>2, <3>3
  <2>4. Is(v, N + 1) /\ N + 1 \in Nat
    BY <2>3
  <2> HIDE DEF v, last, Is
  <2> QED  BY <2>4
<1>3. Len(list) \in T
  <2> HIDE DEF T
  <2> QED  BY <1>1, <1>2, Reaches
<1> DEFINE f == CHOOSE w : Is(w, Len(list))
<1>4. Is(f, Len(list))
  BY <1>3
<1>5. Without(list, k) = f[Len(list)]
  BY DEF Without
<1> HIDE DEF f
<1>6. \A n \in 0..Len(list) : f[n] = IF n = 0 THEN <<>>
                                    ELSE IF list[n].key = k THEN f[n - 1] ELSE Append(f[n - 1], list[n])
  BY <1>4
<1>7. 0 \in 0..Len(list) /\ \A n \in 1..Len(list) : n \in 0..Len(list) /\ n # 0
  OBVIOUS
<1>8. f[0] = <<>>
  BY <1>6, <1>7
<1>9. \A n \in 1..Len(list) : f[n] = IF list[n].key = k THEN f[n - 1] ELSE Append(f[n - 1], list[n])
  BY <1>6, <1>7
<1> QED  BY <1>5, <1>8, <1>9

LEMMA MergeIs ==
  ASSUME NEW h, NEW l, Len(l) \in Nat
  PROVE  \E w : /\ w[0] = h
                /\ \A n \in 1..Len(l) :
                     w[n] = IF Contains(w[n - 1], l[n]) THEN w[n - 1] ELSE Append(w[n - 1], l[n])
                /\ int_node_merge(h, l) = w[Len(l)]
<1> DEFINE Is(w, N) ==
             w = [n \in 0..N |-> IF n = 0 THEN h
                                 ELSE IF Contains(w[n - 1], l[n]) THEN w[n - 1] ELSE Append(w[n - 1], l[n])]
           T == {N \in Nat : \E w : Is(w, N)}
<1>1. 0 \in T
  <2>1. Is([n \in 0..0 |-> h], 0)
    OBVIOUS
  <2> QED  BY <2>1
<1>2. ASSUME NEW N \in 0..Len(l) - 1, N \in T PROVE N + 1 \in T
  <2>1. PICK w : Is(w, N)
    BY <1>2
  <2>2. \A n \in 0..N : w[n] = IF n = 0 THEN h
                               ELSE IF Contains(w[n - 1], l[n]) THEN w[n - 1] ELSE Append(w[n - 1], l[n])
    BY <2>1
  <2> DEFINE last == IF Contains(w[N], l[N + 1]) THEN w[N] ELSE Append(w[N], l[N + 1])
             v == [n \in 0..N + 1 |-> IF n = N + 1 THEN last ELSE w[n]]
  <2>3. ASSUME NEW n \in 0..N + 1
        PROVE  v[n] = IF n = 0 THEN h
                      ELSE IF Contains(v[n - 1], l[n]) THEN v[n - 1] ELSE Append(v[n - 1], l[n])
    <3>1. CASE n = N + 1
      <4>1. v[n - 1] = w[N] /\ n # 0
        BY <3>1
      <4> QED  BY <3>1, <4>1
    <3>2. CASE n \in 1..N
      <4>1. n - 1 \in 0..N /\ n - 1 # N + 1 /\ n # N + 1 /\ n \in 0..N
        BY <3>2
      <4>2. v[n - 1] = w[n - 1] /\ v[n] = w[n]
        BY <4>1
      <4>3. w[n] = IF n = 0 THEN h
                   ELSE IF Contains(w[n - 1], l[n]) THEN w[n - 1] ELSE Append(w[n - 1], l[n])
        BY <2>2, <4>1
      <4> HIDE DEF v
      <4> QED  BY <3>2, <4>2, <4>3
    <3>3. CASE n = 0
      <4>1. v[0] = w[0] /\ w[0] = h
        BY <2>2
      <4> QED  BY <3>3, <4>1
    <3> QED  BY <3>1, <3>2, <3>3
  <2>4. Is(v, N + 1) /\ N + 1 \in Nat
    BY <2>3
  <2> HIDE DEF v, last, Is
  <2> QED  BY <2>4
<1>3. Len(l) \in T
  <2> HIDE DEF T
  <2> QED  BY <1>1, <1>2, Reaches
<1> DEFINE f == CHOOSE w : Is(w, Len(l))
<1>4. Is(f, Len(l))
  BY <1>3
<1>5. int_node_merge(h, l) = f[Len(l)]
  BY DEF int_node_merge
<1> HIDE DEF f
<1>6. \A n \in 0..Len(l) : f[n] = IF n = 0 THEN h
                                    ELSE IF Contains(f[n - 1], l[n]) THEN f[n - 1] ELSE Append(f[n - 1], l[n])
  BY <1>4
<1>7. 0 \in 0..Len(l) /\ \A n \in 1..Len(l) : n \in 0..Len(l) /\ n # 0
  OBVIOUS
<1>8. f[0] = h
  BY <1>6, <1>7
<1>9. \A n \in 1..Len(l) : f[n] = IF Contains(f[n - 1], l[n]) THEN f[n - 1] ELSE Append(f[n - 1], l[n])
  BY <1>6, <1>7
<1> QED  BY <1>5, <1>8, <1>9

LEMMA MergeAllIs ==
  ASSUME NEW ls, Len(ls) \in Nat
  PROVE  \E w : /\ w[0] = <<>>
                /\ \A n \in 1..Len(ls) :
                     w[n] = int_node_merge(w[n - 1], ls[n])
                /\ MergeAll(ls) = w[Len(ls)]
<1> DEFINE Is(w, N) ==
             w = [n \in 0..N |-> IF n = 0 THEN <<>>
                                 ELSE int_node_merge(w[n - 1], ls[n])]
           T == {N \in Nat : \E w : Is(w, N)}
<1>1. 0 \in T
  <2>1. Is([n \in 0..0 |-> <<>>], 0)
    OBVIOUS
  <2> QED  BY <2>1
<1>2. ASSUME NEW N \in 0..Len(ls) - 1, N \in T PROVE N + 1 \in T
  <2>1. PICK w : Is(w, N)
    BY <1>2
  <2>2. \A n \in 0..N : w[n] = IF n = 0 THEN <<>>
                               ELSE int_node_merge(w[n - 1], ls[n])
    BY <2>1
  <2> DEFINE last == int_node_merge(w[N], ls[N + 1])
             v == [n \in 0..N + 1 |-> IF n = N + 1 THEN last ELSE w[n]]
  <2>3. ASSUME NEW n \in 0..N + 1
        PROVE  v[n] = IF n = 0 THEN <<>>
                      ELSE int_node_merge(v[n - 1], ls[n])
    <3>1. CASE n = N + 1
      <4>1. v[n - 1] = w[N] /\ n # 0
        BY <3>1
      <4> QED  BY <3>1, <4>1
    <3>2. CASE n \in 1..N
      <4>1. n - 1 \in 0..N /\ n - 1 # N + 1 /\ n # N + 1 /\ n \in 0..N
        BY <3>2
      <4>2. v[n - 1] = w[n - 1] /\ v[n] = w[n]
        BY <4>1
      <4>3. w[n] = IF n = 0 THEN <<>>
                   ELSE int_node_merge(w[n - 1], ls[n])
        BY <2>2, <4>1
      <4> HIDE DEF v
      <4> QED  BY <3>2, <4>2, <4>3
    <3>3. CASE n = 0
      <4>1. v[0] = w[0] /\ w[0] = <<>>
        BY <2>2
      <4> QED  BY <3>3, <4>1
    <3> QED  BY <3>1, <3>2, <3>3
  <2>4. Is(v, N + 1) /\ N + 1 \in Nat
    BY <2>3
  <2> HIDE DEF v, last, Is
  <2> QED  BY <2>4
<1>3. Len(ls) \in T
  <2> HIDE DEF T
  <2> QED  BY <1>1, <1>2, Reaches
<1> DEFINE f == CHOOSE w : Is(w, Len(ls))
<1>4. Is(f, Len(ls))
  BY <1>3
<1>5. MergeAll(ls) = f[Len(ls)]
  BY DEF MergeAll
<1> HIDE DEF f
<1>6. \A n \in 0..Len(ls) : f[n] = IF n = 0 THEN <<>>
                                    ELSE int_node_merge(f[n - 1], ls[n])
  BY <1>4
<1>7. 0 \in 0..Len(ls) /\ \A n \in 1..Len(ls) : n \in 0..Len(ls) /\ n # 0
  OBVIOUS
<1>8. f[0] = <<>>
  BY <1>6, <1>7
<1>9. \A n \in 1..Len(ls) : f[n] = int_node_merge(f[n - 1], ls[n])
  BY <1>6, <1>7
<1> QED  BY <1>5, <1>8, <1>9

-----------------------------------------------------------------------------
\* A merge keeps every read, adds those of the other list, and repeats none.
LEMMA OneMore ==
  ASSUME NEW s \in Distinct, NEW x \in Nat \ {0}
  PROVE  /\ Contains(s, x) <=> x \in ToSet(s)
         /\ x \notin ToSet(s) => Append(s, x) \in Distinct
         /\ ToSet(Append(s, x)) = ToSet(s) \cup {x}
<1> DEFINE new == Append(s, x)
<1>1. s \in Seq(Nat \ {0}) /\ IsInjective(s)
  BY DEF Distinct, ReadList
<1>2. /\ new \in Seq(Nat \ {0}) /\ Len(new) = Len(s) + 1 /\ Len(s) \in Nat
      /\ \A i \in 1..Len(s) : new[i] = s[i]
      /\ new[Len(s) + 1] = x
  BY <1>1, AppendProperties, LenProperties
<1>3. DOMAIN new = 1..Len(s) + 1 /\ DOMAIN s = 1..Len(s)
  BY <1>1, <1>2, LenProperties
<1> HIDE DEF new
<1>4. ToSet(new) = ToSet(s) \cup {x}
  <2>1. ASSUME NEW i \in DOMAIN new PROVE new[i] \in ToSet(s) \cup {x}
    <3>1. CASE i \in 1..Len(s)
      BY <1>2, <1>3, <3>1 DEF ToSet
    <3>2. CASE i = Len(s) + 1
      BY <1>2, <3>2
    <3> QED  BY <1>3, <3>1, <3>2
  <2>2. ASSUME NEW i \in DOMAIN s PROVE s[i] \in ToSet(new)
    <3>1. i \in DOMAIN new /\ new[i] = s[i]
      BY <1>2, <1>3
    <3> QED  BY <3>1 DEF ToSet
  <2>3. Len(s) + 1 \in DOMAIN new
    BY <1>2, <1>3
  <2>4. x \in ToSet(new)
    BY <1>2, <2>3 DEF ToSet
  <2> QED  BY <2>1, <2>2, <2>4 DEF ToSet
<1>5. ASSUME x \notin ToSet(s) PROVE IsInjective(new)
  <2> SUFFICES ASSUME NEW i \in DOMAIN new, NEW j \in DOMAIN new, new[i] = new[j]
               PROVE  i = j
    BY DEF IsInjective
  <2>1. \A n \in 1..Len(s) : s[n] # x
    BY <1>3, <1>5 DEF ToSet
  <2>2. CASE i \in 1..Len(s) /\ j \in 1..Len(s)
    BY <1>1, <1>2, <1>3, <2>2 DEF IsInjective
  <2>3. CASE i = Len(s) + 1 \/ j = Len(s) + 1
    BY <1>2, <1>3, <2>1, <2>3
  <2> QED  BY <1>2, <1>3, <2>2, <2>3
<1>6. Contains(s, x) <=> x \in ToSet(s)
  BY <1>3 DEF Contains, ToSet
<1> QED  BY <1>2, <1>4, <1>5, <1>6 DEF new, Distinct, ReadList

LEMMA MergeTypes ==
  ASSUME NEW h \in Distinct, NEW l \in Distinct
  PROVE  /\ int_node_merge(h, l) \in Distinct
         /\ ToSet(int_node_merge(h, l)) = ToSet(h) \cup ToSet(l)
<1>1. Len(l) \in Nat /\ DOMAIN l = 1..Len(l) /\ \A n \in 1..Len(l) : l[n] \in Nat \ {0}
  <2>1. l \in Seq(Nat \ {0})
    BY DEF Distinct, ReadList
  <2> QED  BY <2>1, LenProperties, ElementOfSeq
<1>2. PICK m : /\ m[0] = h
               /\ \A n \in 1..Len(l) :
                    m[n] = IF Contains(m[n - 1], l[n]) THEN m[n - 1] ELSE Append(m[n - 1], l[n])
               /\ int_node_merge(h, l) = m[Len(l)]
  BY <1>1, MergeIs
<1> DEFINE Seen(n) == {l[i] : i \in 1..n}
           T == {n \in Nat : m[n] \in Distinct /\ ToSet(m[n]) = ToSet(h) \cup Seen(n)}
<1>3. 0 \in T
  BY <1>2
<1>4. ASSUME NEW n \in 0..Len(l) - 1, n \in T PROVE n + 1 \in T
  <2>1. n + 1 \in 1..Len(l) /\ (n + 1) - 1 = n
    BY <1>1
  <2>2. m[n + 1] = IF Contains(m[n], l[n + 1]) THEN m[n] ELSE Append(m[n], l[n + 1])
    BY <1>2, <2>1
  <2>3. m[n] \in Distinct /\ ToSet(m[n]) = ToSet(h) \cup Seen(n) /\ l[n + 1] \in Nat \ {0}
    BY <1>1, <1>4, <2>1
  <2>4. 1..n + 1 = 1..n \cup {n + 1}
    BY <1>1
  <2>5. Seen(n + 1) = Seen(n) \cup {l[n + 1]}
    BY <2>4
  <2> HIDE DEF Seen
  <2>6. m[n + 1] \in Distinct /\ ToSet(m[n + 1]) = ToSet(m[n]) \cup {l[n + 1]}
    BY <2>2, <2>3, OneMore
  <2> QED  BY <2>3, <2>5, <2>6
<1>5. Len(l) \in T
  <2> HIDE DEF T
  <2> QED  BY <1>1, <1>3, <1>4, Reaches
<1>6. Seen(Len(l)) = ToSet(l)
  BY <1>1 DEF ToSet
<1> QED  BY <1>2, <1>5, <1>6

LEMMA MergeAllTypes ==
  ASSUME NEW ls \in Seq(Distinct)
  PROVE  /\ MergeAll(ls) \in Distinct
         /\ ToSet(MergeAll(ls)) = UNION {ToSet(ls[i]) : i \in 1..Len(ls)}
<1>1. Len(ls) \in Nat /\ \A n \in 1..Len(ls) : ls[n] \in Distinct
  BY LenProperties, ElementOfSeq
<1>2. PICK m : /\ m[0] = <<>>
               /\ \A n \in 1..Len(ls) : m[n] = int_node_merge(m[n - 1], ls[n])
               /\ MergeAll(ls) = m[Len(ls)]
  BY <1>1, MergeAllIs
<1> DEFINE Seen(n) == UNION {ToSet(ls[i]) : i \in 1..n}
           T == {n \in Nat : m[n] \in Distinct /\ ToSet(m[n]) = Seen(n)}
<1>3. 0 \in T
  <2>1. <<>> \in Distinct /\ ToSet(<<>>) = {} /\ Seen(0) = {}
    BY DEF Distinct, ReadList, IsInjective, ToSet
  <2> QED  BY <1>2, <2>1
<1>4. ASSUME NEW n \in 0..Len(ls) - 1, n \in T PROVE n + 1 \in T
  <2>1. n + 1 \in 1..Len(ls) /\ (n + 1) - 1 = n /\ n + 1 \in Nat
    BY <1>1
  <2>2. m[n + 1] = int_node_merge(m[n], ls[n + 1])
    BY <1>2, <2>1
  <2>3. m[n] \in Distinct /\ ToSet(m[n]) = Seen(n) /\ ls[n + 1] \in Distinct
    BY <1>1, <1>4, <2>1
  <2>4. 1..n + 1 = 1..n \cup {n + 1}
    BY <1>1
  <2>5. Seen(n + 1) = Seen(n) \cup ToSet(ls[n + 1])
    BY <2>4
  <2> HIDE DEF Seen
  <2>6. m[n + 1] \in Distinct /\ ToSet(m[n + 1]) = ToSet(m[n]) \cup ToSet(ls[n + 1])
    BY <2>2, <2>3, MergeTypes
  <2> QED  BY <2>1, <2>3, <2>5, <2>6
<1>5. Len(ls) \in T
  <2> HIDE DEF T
  <2> QED  BY <1>1, <1>3, <1>4, Reaches
<1> QED  BY <1>2, <1>5

-----------------------------------------------------------------------------
\* Erasing the nodes for k leaves the others and their order.
OneEach(list) == \A m, n \in DOMAIN list : list[m].key = list[n].key => m = n

LEMMA AppendedAlike ==
  ASSUME NEW K, NEW p \in Seq(Nodes(K)), NEW q \in Seq(Nodes(K)), NEW x \in Nodes(K),
         NEW j, Find(p, j) = Find(q, j), Matches(p, j) = {} <=> Matches(q, j) = {}
  PROVE  /\ Find(Append(p, x), j) = Find(Append(q, x), j)
         /\ Matches(Append(p, x), j) = {} <=> Matches(Append(q, x), j) = {}
         /\ x.key # j =>
              /\ Find(Append(q, x), j) = Find(q, j)
              /\ Matches(Append(q, x), j) = {} <=> Matches(q, j) = {}
<1>1. /\ Find(Append(p, x), j) = IF Matches(p, j) # {} THEN Find(p, j)
                                 ELSE IF x.key = j THEN x.deps ELSE <<>>
      /\ Matches(Append(p, x), j) = {} <=> Matches(p, j) = {} /\ x.key # j
  BY FindAppended
<1>2. /\ Find(Append(q, x), j) = IF Matches(q, j) # {} THEN Find(q, j)
                                 ELSE IF x.key = j THEN x.deps ELSE <<>>
      /\ Matches(Append(q, x), j) = {} <=> Matches(q, j) = {} /\ x.key # j
  BY FindAppended
<1>3. Matches(q, j) = {} => Find(q, j) = <<>>
  BY FindTypes
<1> QED  BY <1>1, <1>2, <1>3

LEMMA WithoutKeeps ==
  ASSUME NEW K, NEW list \in Seq(Nodes(K)), NEW k
  PROVE  /\ Without(list, k) \in Seq(Nodes(K))
         /\ Matches(Without(list, k), k) = {}
         /\ \A j : j # k => Find(Without(list, k), j) = Find(list, j)
         /\ list = <<>> => Without(list, k) = <<>>
         /\ list # <<>> /\ Head(list).key # k =>
              Without(list, k) # <<>> /\ Head(Without(list, k)) = Head(list)
         /\ OneEach(list) => OneEach(Without(list, k))
<1>1. Len(list) \in Nat /\ DOMAIN list = 1..Len(list)
  BY LenProperties
<1>2. PICK w : /\ w[0] = <<>>
               /\ \A n \in 1..Len(list) :
                    w[n] = IF list[n].key = k THEN w[n - 1] ELSE Append(w[n - 1], list[n])
               /\ Without(list, k) = w[Len(list)]
  BY <1>1, WithoutIs
\* What is kept of the first n nodes.
<1> DEFINE F(n) == SubSeq(list, 1, n)
           Same(n) == \A j : j # k =>
                        /\ Find(w[n], j) = Find(F(n), j)
                        /\ Matches(w[n], j) = {} <=> Matches(F(n), j) = {}
           From(n) == \A i \in DOMAIN w[n] : \E h \in 1..n : w[n][i] = list[h]
           Begins(n) == n > 0 /\ list[1].key # k => w[n] # <<>> /\ w[n][1] = list[1]
           P(n) == /\ w[n] \in Seq(Nodes(K)) /\ Matches(w[n], k) = {}
                   /\ Same(n) /\ From(n) /\ Begins(n)
                   /\ OneEach(list) => OneEach(w[n])
           T == {n \in Nat : P(n)}
<1>3. 0 \in T
  <2>1. F(0) = <<>>
    BY SubSeqEmpty
  <2>2. Matches(<<>>, k) = {} /\ OneEach(<<>>) /\ From(0) /\ Begins(0)
    BY <1>2 DEF Matches, OneEach
  <2> HIDE DEF F
  <2>3. Same(0)
    BY <1>2, <2>1
  <2>4. P(0)
    BY <1>2, <2>2, <2>3
  <2> QED  BY <2>4
<1>4. ASSUME NEW n \in 0..Len(list) - 1, n \in T PROVE n + 1 \in T
  <2> DEFINE x == list[n + 1]
  <2>1. /\ n + 1 \in 1..Len(list) /\ (n + 1) - 1 = n /\ n \in Nat /\ n + 1 \in Nat
        /\ n + 1 > 0
    BY <1>1
  <2>2. w[n + 1] = IF x.key = k THEN w[n] ELSE Append(w[n], x)
    BY <1>2, <2>1
  <2>3. P(n)
    BY <1>4
  <2>4. x \in Nodes(K)
    BY <1>1, <2>1, ElementOfSeq
  <2>5. F(n + 1) = Append(F(n), x) /\ F(n) \in Seq(Nodes(K))
    <3>1. SubSeq(list, 1, n + 1) = Append(SubSeq(list, 1, (n + 1) - 1), list[n + 1])
      BY <1>1, <2>1, SubSeqRecursiveSecond
    <3>2. SubSeq(list, 1, n) \in Seq(Nodes(K))
      BY <1>1, <2>1, SubSeqProperties
    <3> QED  BY <2>1, <3>1, <3>2
  <2> HIDE DEF x, F
  <2>6. /\ w[n] \in Seq(Nodes(K)) /\ Matches(w[n], k) = {}
        /\ Same(n) /\ From(n) /\ Begins(n)
        /\ OneEach(list) => OneEach(w[n])
    BY <2>3
  <2>7. CASE x.key = k
    <3>1. w[n + 1] = w[n]
      BY <2>2, <2>7
    <3>2. ASSUME NEW j, j # k
          PROVE  /\ Find(F(n + 1), j) = Find(F(n), j)
                 /\ Matches(F(n + 1), j) = {} <=> Matches(F(n), j) = {}
      <4>1. F(n) \in Seq(Nodes(K))
        BY <2>5
      <4>2. /\ Find(Append(F(n), x), j) = Find(F(n), j)
            /\ Matches(Append(F(n), x), j) = {} <=> Matches(F(n), j) = {}
        BY <2>4, <2>7, <3>2, <4>1, AppendedAlike
      <4> QED  BY <2>5, <4>2
    <3>3. Same(n + 1)
      BY <2>6, <3>1, <3>2
    <3>4. From(n + 1)
      BY <2>1, <2>6, <3>1
    <3>5. Begins(n + 1)
      <4>1. n = 0 => list[1] = x
        BY DEF x
      <4> QED  BY <2>1, <2>6, <2>7, <3>1, <4>1
    <3> QED  BY <2>1, <2>6, <3>1, <3>3, <3>4, <3>5
  <2>8. CASE x.key # k
    <3>1. w[n + 1] = Append(w[n], x)
      BY <2>2, <2>8
    <3>2. ASSUME NEW j, j # k
          PROVE  /\ Find(w[n + 1], j) = Find(F(n + 1), j)
                 /\ Matches(w[n + 1], j) = {} <=> Matches(F(n + 1), j) = {}
      <4>1. w[n] \in Seq(Nodes(K)) /\ F(n) \in Seq(Nodes(K))
        BY <2>5, <2>6
      <4>2. Find(w[n], j) = Find(F(n), j) /\ (Matches(w[n], j) = {} <=> Matches(F(n), j) = {})
        BY <2>6, <3>2
      <4>3. /\ Find(Append(w[n], x), j) = Find(Append(F(n), x), j)
            /\ Matches(Append(w[n], x), j) = {} <=> Matches(Append(F(n), x), j) = {}
        BY <2>4, <4>1, <4>2, AppendedAlike
      <4> QED  BY <2>5, <3>1, <4>3
    <3>3. w[n + 1] \in Seq(Nodes(K)) /\ Matches(w[n + 1], k) = {}
      BY <2>4, <2>6, <2>8, <3>1, FindAppended
    <3>4. /\ Len(w[n + 1]) = Len(w[n]) + 1 /\ Len(w[n]) \in Nat
          /\ \A i \in 1..Len(w[n]) : w[n + 1][i] = w[n][i]
          /\ w[n + 1][Len(w[n]) + 1] = x
          /\ DOMAIN w[n + 1] = 1..Len(w[n]) + 1 /\ DOMAIN w[n] = 1..Len(w[n])
      BY <2>4, <2>6, <3>1, <3>3, AppendProperties, LenProperties
    <3>5. From(n + 1)
      <4> SUFFICES ASSUME NEW i \in DOMAIN w[n + 1]
                   PROVE  \E h \in 1..n + 1 : w[n + 1][i] = list[h]
        OBVIOUS
      <4>1. CASE i \in 1..Len(w[n])
        BY <2>1, <2>6, <3>4, <4>1
      <4>2. CASE i = Len(w[n]) + 1
        BY <2>1, <3>4, <4>2 DEF x
      <4> QED  BY <3>4, <4>1, <4>2
    <3>6. Begins(n + 1)
      <4>1. CASE n = 0
        <5>1. w[n] = <<>> /\ list[1] = x
          BY <1>2, <4>1 DEF x
        <5> QED  BY <3>1, <3>4, <5>1
      <4>2. CASE n # 0
        <5>1. SUFFICES ASSUME list[1].key # k PROVE w[n + 1] # <<>> /\ w[n + 1][1] = list[1]
          OBVIOUS
        <5>2. w[n] # <<>> /\ w[n][1] = list[1] /\ Len(w[n]) # 0
          BY <2>1, <2>6, <4>2, <5>1
        <5> QED  BY <3>4, <5>2
      <4> QED  BY <4>1, <4>2
    <3>7. ASSUME OneEach(list) PROVE OneEach(w[n + 1])
      <4>1. \A h \in 1..n : list[h].key # x.key
        BY <1>1, <2>1, <3>7 DEF OneEach, x
      <4>2. ASSUME NEW i \in 1..Len(w[n]) PROVE w[n][i].key # x.key
        <5>1. PICK h \in 1..n : w[n][i] = list[h]
          BY <2>6, <3>4
        <5> QED  BY <4>1, <5>1
      <4>5. OneEach(w[n])
        BY <2>6, <3>7
      <4> SUFFICES ASSUME NEW p \in DOMAIN w[n + 1], NEW q \in DOMAIN w[n + 1],
                          w[n + 1][p].key = w[n + 1][q].key
                   PROVE  p = q
        BY DEF OneEach
      <4>3. CASE p \in 1..Len(w[n]) /\ q \in 1..Len(w[n])
        <5>1. w[n + 1][p] = w[n][p] /\ w[n + 1][q] = w[n][q]
          BY <3>4, <4>3
        <5>2. w[n][p].key = w[n][q].key
          BY <5>1
        <5> QED  BY <3>4, <4>3, <4>5, <5>2 DEF OneEach
      <4>4. CASE p = Len(w[n]) + 1 \/ q = Len(w[n]) + 1
        <5>1. ASSUME NEW i \in 1..Len(w[n]) PROVE w[n + 1][i].key # x.key
          BY <3>4, <4>2
        <5>2. Len(w[n]) + 1 \notin 1..Len(w[n]) /\ w[n + 1][Len(w[n]) + 1].key = x.key
          BY <3>4
        <5>3. ~(p \in 1..Len(w[n])) <=> p = Len(w[n]) + 1
          BY <3>4
        <5>4. ~(q \in 1..Len(w[n])) <=> q = Len(w[n]) + 1
          BY <3>4
        <5> QED  BY <4>4, <5>1, <5>2, <5>3, <5>4
      <4>6. p \in 1..Len(w[n]) + 1 /\ q \in 1..Len(w[n]) + 1
        BY <3>4
      <4> QED  BY <3>4, <4>3, <4>4, <4>6
    <3>8. Same(n + 1)
      BY <3>2
    <3> QED  BY <2>1, <3>3, <3>5, <3>6, <3>7, <3>8
  <2> QED  BY <2>7, <2>8
<1>5. P(Len(list))
  <2>1. Len(list) \in T
    <3> HIDE DEF T
    <3> QED  BY <1>1, <1>3, <1>4, Reaches
  <2> QED  BY <2>1
<1>6. F(Len(list)) = list
  BY SubSeqFull
<1>7. list # <<>> => Len(list) > 0 /\ Head(list) = list[1]
  BY <1>1
<1>8. \A s \in Seq(Nodes(K)) : s # <<>> => Head(s) = s[1]
  OBVIOUS
<1>9. list = <<>> => Len(list) = 0
  OBVIOUS
<1> HIDE DEF F
<1> QED  BY <1>2, <1>5, <1>6, <1>7, <1>8, <1>9

-----------------------------------------------------------------------------
\* The state of DepTrack, as it is read off the lists.
Var(list)    == [t \in Tmp |-> ToSet(Find(list, t))]
First(list)  == IF list = <<>> THEN NoTmp ELSE Head(list).key
Regs(list)   == [r \in Reg |-> ToSet(Find(list, r))]
Shadow(mem)  == [a \in Addr |-> ToSet(mem[a])]

LEMMA EmptySets ==
  ASSUME NEW l \in Distinct
  PROVE  l = <<>> <=> ToSet(l) = {}
<1>1. Len(l) \in Nat /\ DOMAIN l = 1..Len(l) /\ l \in Seq(Nat \ {0})
  <2>1. l \in Seq(Nat \ {0})
    BY DEF Distinct, ReadList
  <2> QED  BY <2>1, LenProperties
<1>2. CASE l = <<>>
  BY <1>2 DEF ToSet
<1>3. CASE l # <<>>
  <2>1. 1 \in DOMAIN l
    BY <1>1, <1>3
  <2> QED  BY <1>3, <2>1 DEF ToSet
<1> QED  BY <1>2, <1>3

LEMMA FirstTypes ==
  ASSUME NEW list \in Seq(Nodes(Tmp))
  PROVE  /\ First(list) = NoTmp <=> list = <<>>
         /\ \A t \in Tmp : First(list) = t <=> list # <<>> /\ Head(list).key = t
<1>1. list # <<>> => Head(list) \in Nodes(Tmp)
  BY HeadTailProperties
<1> QED  BY <1>1, KeysAssumption DEF First, Nodes

\* What the tables become in each of the ways they are changed.
LEMMA TmpErased ==
  ASSUME NEW list \in Seq(Nodes(Tmp)), NEW t \in Tmp, First(list) # t
  PROVE  /\ Without(list, t) \in Seq(Nodes(Tmp))
         /\ Var(Without(list, t)) = [Var(list) EXCEPT ![t] = {}]
         /\ First(Without(list, t)) = First(list)
<1> DEFINE new == Without(list, t)
<1>1. /\ new \in Seq(Nodes(Tmp)) /\ Matches(new, t) = {}
      /\ \A j : j # t => Find(new, j) = Find(list, j)
      /\ list = <<>> => new = <<>>
      /\ list # <<>> /\ Head(list).key # t => new # <<>> /\ Head(new) = Head(list)
  BY WithoutKeeps
<1> HIDE DEF new
<1>2. ToSet(Find(new, t)) = {}
  BY <1>1 DEF Find, ToSet
<1>3. Var(new) = [Var(list) EXCEPT ![t] = {}]
  BY <1>1, <1>2 DEF Var
<1>4. First(new) = First(list)
  BY <1>1 DEF First
<1> QED  BY <1>1, <1>3, <1>4 DEF new

LEMMA TmpAppended ==
  ASSUME NEW list \in Seq(Nodes(Tmp)), NEW t \in Tmp, First(list) # t,
         NEW l \in Distinct \ {<<>>}
  PROVE  /\ Appended(Without(list, t), t, l) \in Seq(Nodes(Tmp))
         /\ Var(Appended(Without(list, t), t, l)) = [Var(list) EXCEPT ![t] = ToSet(l)]
         /\ First(Appended(Without(list, t), t, l)) =
              IF First(list) = NoTmp THEN t ELSE First(list)
<1> DEFINE rest == Without(list, t)
           x == Node(t, l)
           new == Append(rest, x)
<1>1. /\ rest \in Seq(Nodes(Tmp)) /\ Matches(rest, t) = {}
      /\ \A j : j # t => Find(rest, j) = Find(list, j)
      /\ list = <<>> => rest = <<>>
      /\ list # <<>> /\ Head(list).key # t => rest # <<>> /\ Head(rest) = Head(list)
  BY WithoutKeeps
<1>2. x \in Nodes(Tmp) /\ x.key = t /\ x.deps = l
  BY DEF Node, Nodes
<1> HIDE DEF rest, x
<1>3. ASSUME NEW j PROVE Find(new, j) = IF j = t THEN l ELSE Find(list, j)
  <2>1. Find(new, j) = IF Matches(rest, j) # {} THEN Find(rest, j)
                       ELSE IF x.key = j THEN x.deps ELSE <<>>
    BY <1>1, <1>2, FindAppended
  <2>2. Matches(rest, j) = {} => Find(rest, j) = <<>>
    BY DEF Find
  <2> QED  BY <1>1, <1>2, <2>1, <2>2
<1>4. new \in Seq(Nodes(Tmp))
  BY <1>1, <1>2, FindAppended
<1>5. Var(new) = [Var(list) EXCEPT ![t] = ToSet(l)]
  BY <1>3 DEF Var
<1>6. First(new) = IF rest = <<>> THEN t ELSE Head(rest).key
  <2>1. new # <<>> /\ Head(new) = IF rest = <<>> THEN x ELSE Head(rest)
    BY <1>1, <1>2, HeadTailAppend, AppendProperties
  <2> QED  BY <1>2, <2>1 DEF First
<1>7. First(new) = IF First(list) = NoTmp THEN t ELSE First(list)
  BY <1>1, <1>6, FirstTypes DEF First
<1> QED  BY <1>4, <1>5, <1>7 DEF rest, x, Appended

LEMMA TmpPrepended ==
  ASSUME NEW list \in Seq(Nodes(Tmp)), NEW t \in Tmp, NEW l \in Distinct \ {<<>>}
  PROVE  /\ Prepended(list, t, l) \in Seq(Nodes(Tmp))
         /\ Var(Prepended(list, t, l)) = [Var(list) EXCEPT ![t] = ToSet(l)]
         /\ First(Prepended(list, t, l)) = t
<1> DEFINE x == Node(t, l)
           new == <<x>> \o list
<1>1. x \in Nodes(Tmp) /\ x.key = t /\ x.deps = l
  BY DEF Node, Nodes
<1> HIDE DEF x
<1>2. /\ new \in Seq(Nodes(Tmp)) /\ Head(new) = x /\ new # <<>>
      /\ \A j : Find(new, j) = IF x.key = j THEN x.deps ELSE Find(list, j)
  BY <1>1, FindPrepended
<1> HIDE DEF new
<1>3. Var(new) = [Var(list) EXCEPT ![t] = ToSet(l)]
  BY <1>1, <1>2 DEF Var
<1>4. First(new) = t
  BY <1>1, <1>2 DEF First
<1> QED  BY <1>2, <1>3, <1>4 DEF new, x, Prepended

LEMMA RegErased ==
  ASSUME NEW list \in Seq(Nodes(Reg)), NEW r \in Reg, OneEach(list)
  PROVE  /\ Without(list, r) \in Seq(Nodes(Reg)) /\ OneEach(Without(list, r))
         /\ Matches(Without(list, r), r) = {}
         /\ Regs(Without(list, r)) = [Regs(list) EXCEPT ![r] = {}]
<1> DEFINE new == Without(list, r)
<1>1. /\ new \in Seq(Nodes(Reg)) /\ Matches(new, r) = {} /\ OneEach(new)
      /\ \A j : j # r => Find(new, j) = Find(list, j)
  BY WithoutKeeps
<1> HIDE DEF new
<1>2. ToSet(Find(new, r)) = {}
  BY <1>1 DEF Find, ToSet
<1>3. Regs(new) = [Regs(list) EXCEPT ![r] = {}]
  BY <1>1, <1>2 DEF Regs
<1> QED  BY <1>1, <1>3 DEF new

LEMMA RegPrepended ==
  ASSUME NEW list \in Seq(Nodes(Reg)), NEW r \in Reg, OneEach(list),
         NEW l \in Distinct \ {<<>>}
  PROVE  /\ Prepended(Without(list, r), r, l) \in Seq(Nodes(Reg))
         /\ OneEach(Prepended(Without(list, r), r, l))
         /\ Regs(Prepended(Without(list, r), r, l)) = [Regs(list) EXCEPT ![r] = ToSet(l)]
<1> DEFINE rest == Without(list, r)
           x == Node(r, l)
           new == <<x>> \o rest
<1>1. /\ rest \in Seq(Nodes(Reg)) /\ OneEach(rest) /\ Matches(rest, r) = {}
      /\ \A j : j # r => Find(rest, j) = Find(list, j)
  BY RegErased, WithoutKeeps
<1>2. x \in Nodes(Reg) /\ x.key = r /\ x.deps = l
  BY DEF Node, Nodes
<1> HIDE DEF rest, x
<1>3. /\ new \in Seq(Nodes(Reg))
      /\ \A j : Find(new, j) = IF x.key = j THEN x.deps ELSE Find(rest, j)
  BY <1>1, <1>2, FindPrepended
<1>4. Regs(new) = [Regs(list) EXCEPT ![r] = ToSet(l)]
  <2> HIDE DEF new
  <2> QED  BY <1>1, <1>2, <1>3 DEF Regs
<1>5. OneEach(new)
  <2>1. /\ Len(new) = 1 + Len(rest) /\ Len(rest) \in Nat
        /\ new[1] = x
        /\ \A i \in 2..Len(new) : new[i] = rest[i - 1] /\ i - 1 \in DOMAIN rest
    <3>1. <<x>> \in Seq(Nodes(Reg)) /\ Len(<<x>>) = 1 /\ <<x>>[1] = x
      BY <1>2
    <3>2. Len(rest) \in Nat /\ DOMAIN rest = 1..Len(rest)
      BY <1>1, LenProperties
    <3>3. /\ Len(new) = Len(<<x>>) + Len(rest)
          /\ \A i \in 1..(Len(<<x>>) + Len(rest)) :
               new[i] = IF i <= Len(<<x>>) THEN <<x>>[i] ELSE rest[i - Len(<<x>>)]
      BY <1>1, <3>1, ConcatProperties
    <3> HIDE DEF new
    <3> QED  BY <3>1, <3>2, <3>3
  <2>2. DOMAIN new = 1..Len(new)
    BY <1>3, LenProperties
  <2>3. \A i \in DOMAIN rest : rest[i].key # r
    BY <1>1 DEF Matches
  <2> HIDE DEF new
  <2> SUFFICES ASSUME NEW p \in DOMAIN new, NEW q \in DOMAIN new, new[p].key = new[q].key
               PROVE  p = q
    BY DEF OneEach
  <2>4. CASE p = 1 \/ q = 1
    <3>1. \A i \in 2..Len(new) : new[i].key # r
      BY <2>1, <2>3
    <3>2. new[1].key = r
      BY <1>2, <2>1
    <3>3. p \in 1..Len(new) /\ q \in 1..Len(new) /\ Len(new) \in Nat
      BY <2>1, <2>2
    <3> QED  BY <2>4, <3>1, <3>2, <3>3
  <2>5. CASE p \in 2..Len(new) /\ q \in 2..Len(new)
    <3>1. /\ p - 1 \in DOMAIN rest /\ q - 1 \in DOMAIN rest
          /\ rest[p - 1].key = rest[q - 1].key
      BY <2>1, <2>5
    <3>2. p - 1 = q - 1
      BY <1>1, <3>1 DEF OneEach
    <3> QED  BY <2>5, <3>2
  <2> QED  BY <2>1, <2>2, <2>4, <2>5
<1> QED  BY <1>3, <1>4, <1>5 DEF rest, x, Prepended

\* Nodes of temporaries in the registers' list are found for no register.
LEMMA NoRegs ==
  ASSUME NEW list \in Seq(Nodes(Tmp))
  PROVE  Regs(list) = [r \in Reg |-> {}]
<1>1. ASSUME NEW r \in Reg PROVE ToSet(Find(list, r)) = {}
  <2>1. r \notin Tmp
    BY KeysAssumption
  <2>2. Find(list, r) = <<>>
    BY <2>1, FindTypes
  <2> QED  BY <2>2 DEF ToSet
<1> QED  BY <1>1 DEF Regs

-----------------------------------------------------------------------------
\* The inductive invariant.  Once var_deps dangles, the nodes of temporaries
\* hang in the registers' list.
LInv ==
  /\ var_deps \in Seq(Nodes(Tmp))
  /\ reg_deps \in Seq(Nodes(Reg)) \/ (dangling /\ reg_deps \in Seq(Nodes(Tmp)))
  /\ shadow_mem \in [Addr -> Distinct]
  /\ write_deps \in Seq(Distinct)
  /\ read_n \in Nat /\ write_n \in Nat /\ dangling \in BOOLEAN
  /\ ~dangling => OneEach(reg_deps)

\* The reads of all operands, and of all bytes of a buffer.
LEMMA OperandReads ==
  ASSUME LInv, NEW ops \in Seq(Tmp)
  PROVE  /\ OperandDeps(ops) \in Distinct
         /\ ToSet(OperandDeps(ops)) = UNION {Var(var_deps)[s] : s \in ToSet(ops)}
         /\ ToSet(ops) \in SUBSET Tmp
<1> DEFINE ls == [n \in 1..Len(ops) |-> Find(var_deps, ops[n])]
<1>1. Len(ops) \in Nat /\ DOMAIN ops = 1..Len(ops) /\ \A n \in 1..Len(ops) : ops[n] \in Tmp
  BY LenProperties, ElementOfSeq
<1>2. \A n \in 1..Len(ops) : Find(var_deps, ops[n]) \in Distinct
  BY FindTypes DEF LInv
<1>3. ls \in Seq(Distinct) /\ Len(ls) = Len(ops)
  BY <1>1, <1>2
<1>4. \A n \in 1..Len(ops) : ToSet(ls[n]) = Var(var_deps)[ops[n]]
  BY <1>1 DEF Var
<1> HIDE DEF ls
<1>5. /\ MergeAll(ls) \in Distinct
      /\ ToSet(MergeAll(ls)) = UNION {ToSet(ls[n]) : n \in 1..Len(ls)}
  BY <1>3, MergeAllTypes
<1>6. {ToSet(ls[n]) : n \in 1..Len(ls)} = {Var(var_deps)[s] : s \in ToSet(ops)}
  <2>1. ToSet(ops) = {ops[n] : n \in 1..Len(ops)}
    BY <1>1 DEF ToSet
  <2>2. {ToSet(ls[n]) : n \in 1..Len(ls)} = {Var(var_deps)[ops[n]] : n \in 1..Len(ops)}
    BY <1>3, <1>4
  <2> QED  BY <2>1, <2>2
<1>7. ToSet(ops) \in SUBSET Tmp
  BY <1>1 DEF ToSet
<1> QED  BY <1>5, <1>6, <1>7 DEF OperandDeps, ls

LEMMA SpanIs ==
  ASSUME NEW a \in Addr, NEW n \in Width, a + n - 1 \in Addr
  PROVE  Track!Span(a, n) = a..a + n - 1
<1>1. n \in Nat /\ a \in Int
  BY AddrAssumption, WidthAssumption
<1>2. a..a + n - 1 \subseteq Addr
  BY AddrAssumption
<1>3. Track!Span(a, n) = {b \in Addr : a <= b /\ b < a + n}
  BY DEF Track!Span
<1>4. ASSUME NEW b \in Addr, a <= b, b < a + n PROVE b \in a..a + n - 1
  <2>1. b \in Int
    BY AddrAssumption
  <2> QED  BY <1>1, <1>4, <2>1
<1>5. ASSUME NEW b \in a..a + n - 1 PROVE b \in Addr /\ a <= b /\ b < a + n
  BY <1>1, <1>2
<1> QED  BY <1>3, <1>4, <1>5

LEMMA BufferReads ==
  ASSUME LInv, NEW a \in Addr, NEW n \in Width, a + n - 1 \in Addr
  PROVE  /\ find_read_dep_by_mem_addrs(a, n) \in Distinct
         /\ ToSet(find_read_dep_by_mem_addrs(a, n)) =
              UNION {Shadow(shadow_mem)[b] : b \in Track!Span(a, n)}
<1> DEFINE ls == [k \in 1..n |-> shadow_mem[a + k - 1]]
<1>1. n \in Nat /\ a \in Int
  BY AddrAssumption, WidthAssumption
<1>2. a..a + n - 1 \subseteq Addr
  BY AddrAssumption
<1>3. \A k \in 1..n : a + k - 1 \in Addr
  <2>1. \A k \in 1..n : a + k - 1 \in a..a + n - 1
    BY <1>1
  <2> QED  BY <1>2, <2>1
<1>4. ls \in Seq(Distinct) /\ Len(ls) = n
  <2>1. \A k \in 1..n : shadow_mem[a + k - 1] \in Distinct
    BY <1>3 DEF LInv
  <2> QED  BY <1>1, <2>1
<1>5. \A k \in 1..n : ToSet(ls[k]) = Shadow(shadow_mem)[a + k - 1]
  BY <1>3 DEF Shadow
<1> HIDE DEF ls
<1>6. /\ MergeAll(ls) \in Distinct
      /\ ToSet(MergeAll(ls)) = UNION {ToSet(ls[k]) : k \in 1..Len(ls)}
  BY <1>4, MergeAllTypes
<1>7. Track!Span(a, n) = a..a + n - 1
  BY SpanIs
<1>8. {ToSet(ls[k]) : k \in 1..n} = {Shadow(shadow_mem)[b] : b \in a..a + n - 1}
  <2>1. ASSUME NEW b \in a..a + n - 1
        PROVE  \E k \in 1..n : ToSet(ls[k]) = Shadow(shadow_mem)[b]
    <3>1. b - a + 1 \in 1..n /\ a + (b - a + 1) - 1 = b
      BY <1>1
    <3> QED  BY <1>5, <3>1
  <2>2. \A k \in 1..n : a + k - 1 \in a..a + n - 1
    BY <1>1
  <2> QED  BY <1>5, <2>1, <2>2
<1> QED  BY <1>4, <1>6, <1>7, <1>8 DEF find_read_dep_by_mem_addrs, ls

-----------------------------------------------------------------------------
\* Each callback keeps the invariant and is the callback of that name.
LEMMA Erased ==
  ASSUME LInv, ~dangling, NEW t \in Tmp, NEW new, NEW NewVar, NEW NewFirst,
         EraseTmpThen(t, new), RestOfTmp,
         First(var_deps) # t =>
           new \in Seq(Nodes(Tmp)) /\ Var(new) = NewVar /\ First(new) = NewFirst
  PROVE  /\ LInv'
         /\ IF t = First(var_deps)
            THEN /\ dangling' = TRUE /\ Regs(reg_deps') = [r \in Reg |-> {}]
                 /\ Var(var_deps') = Var(var_deps) /\ First(var_deps') = First(var_deps)
            ELSE /\ Var(var_deps') = NewVar /\ First(var_deps') = NewFirst
                 /\ reg_deps' = reg_deps /\ dangling' = dangling
<1>1. First(var_deps) = t <=> var_deps # <<>> /\ Head(var_deps).key = t
  BY FirstTypes DEF LInv
<1>2. CASE First(var_deps) = t
  <2>1. reg_deps' = Without(var_deps, t) /\ dangling' = TRUE /\ var_deps' = var_deps
    BY <1>1, <1>2 DEF EraseTmpThen
  <2>2. Without(var_deps, t) \in Seq(Nodes(Tmp))
    BY WithoutKeeps DEF LInv
  <2>3. Regs(reg_deps') = [r \in Reg |-> {}]
    BY <2>1, <2>2, NoRegs
  <2>4. LInv'
    BY <2>1, <2>2 DEF LInv, RestOfTmp
  <2> QED  BY <1>2, <2>1, <2>3, <2>4
<1>3. CASE First(var_deps) # t
  <2>1. var_deps' = new /\ reg_deps' = reg_deps /\ dangling' = dangling
    BY <1>1, <1>3 DEF EraseTmpThen
  <2>2. LInv'
    BY <1>3, <2>1 DEF LInv, RestOfTmp
  <2> QED  BY <1>3, <2>1, <2>2
<1> QED  BY <1>2, <1>3

LEMMA LoadAgrees ==
  ASSUME LInv, ~dangling, NEW t \in Tmp, NEW a \in Addr,
         instrument_assgn_tmp_load(t, a)
  PROVE  LInv' /\ Track!instrument_assgn_tmp_load(t, a)
<1>1. shadow_mem[a] \in Distinct /\ RestOfTmp
  BY DEF LInv, instrument_assgn_tmp_load
<1>2. shadow_mem[a] = <<>> <=> ToSet(shadow_mem[a]) = {}
  BY <1>1, EmptySets
<1>3. CASE shadow_mem[a] = <<>>
  <2>1. NoTmpChange /\ RestOfTmp
    BY <1>3 DEF instrument_assgn_tmp_load
  <2>2. LInv'
    BY <2>1 DEF LInv, NoTmpChange, RestOfTmp
  <2>3. Track!instrument_assgn_tmp_load(t, a)
    BY <1>2, <1>3, <2>1 DEF Track!instrument_assgn_tmp_load, Track!NoTmpChange,
       Track!RestOfTmp, NoTmpChange, RestOfTmp
  <2> QED  BY <2>2, <2>3
<1>4. CASE shadow_mem[a] # <<>>
  <2> DEFINE new == Appended(Without(var_deps, t), t, shadow_mem[a])
             NewVar == [Var(var_deps) EXCEPT ![t] = ToSet(shadow_mem[a])]
             NewFirst == IF First(var_deps) = NoTmp THEN t ELSE First(var_deps)
  <2>1. EraseTmpThen(t, new)
    BY <1>4 DEF instrument_assgn_tmp_load
  <2>2. First(var_deps) # t =>
          new \in Seq(Nodes(Tmp)) /\ Var(new) = NewVar /\ First(new) = NewFirst
    BY <1>1, <1>4, TmpAppended DEF LInv
  <2> HIDE DEF new, NewVar, NewFirst
  <2>3. /\ LInv'
        /\ IF t = First(var_deps)
           THEN /\ dangling' = TRUE /\ Regs(reg_deps') = [r \in Reg |-> {}]
                /\ Var(var_deps') = Var(var_deps) /\ First(var_deps') = First(var_deps)
           ELSE /\ Var(var_deps') = NewVar /\ First(var_deps') = NewFirst
                /\ reg_deps' = reg_deps /\ dangling' = dangling
    BY <1>1, <2>1, <2>2, Erased
  <2>4. Track!instrument_assgn_tmp_load(t, a)
    BY <1>1, <1>2, <1>4, <2>3 DEF Track!instrument_assgn_tmp_load, Track!EraseThen,
       Track!AppendTo, Track!RestOfTmp, RestOfTmp, NewVar, NewFirst, Var, First, Regs
  <2> QED  BY <2>3, <2>4
<1> QED  BY <1>3, <1>4

LEMMA OpAgrees ==
  ASSUME LInv, ~dangling, NEW t \in Tmp, NEW ops \in Seq(Tmp),
         instrument_assgn_tmp_op(t, ops)
  PROVE  LInv' /\ Track!instrument_assgn_tmp_op(t, ToSet(ops))
<1> DEFINE l == OperandDeps(ops)
<1>1. l \in Distinct /\ RestOfTmp
  BY OperandReads DEF instrument_assgn_tmp_op
<1>2. Track!TmpDeps(ToSet(ops)) = ToSet(l)
  BY OperandReads DEF Track!TmpDeps, Var
<1>3. l = <<>> <=> ToSet(l) = {}
  BY <1>1, EmptySets
<1>4. CASE l = <<>>
  <2>1. NoTmpChange /\ RestOfTmp
    BY <1>4 DEF instrument_assgn_tmp_op
  <2>2. LInv'
    BY <2>1 DEF LInv, NoTmpChange, RestOfTmp
  <2>3. Track!instrument_assgn_tmp_op(t, ToSet(ops))
    BY <1>2, <1>3, <1>4, <2>1 DEF Track!instrument_assgn_tmp_op, Track!NoTmpChange,
       Track!RestOfTmp, NoTmpChange, RestOfTmp
  <2> QED  BY <2>2, <2>3
<1>5. CASE l # <<>>
  <2> DEFINE new == Prepended(Without(var_deps, t), t, l)
             NewVar == [Var(var_deps) EXCEPT ![t] = ToSet(l)]
  <2>1. EraseTmpThen(t, new)
    BY <1>5 DEF instrument_assgn_tmp_op
  <2> HIDE DEF l
  <2>2. ASSUME First(var_deps) # t
        PROVE  new \in Seq(Nodes(Tmp)) /\ Var(new) = NewVar /\ First(new) = t
    <3>1. /\ Without(var_deps, t) \in Seq(Nodes(Tmp))
          /\ Var(Without(var_deps, t)) = [Var(var_deps) EXCEPT ![t] = {}]
      BY <2>2, TmpErased DEF LInv
    <3>2. /\ new \in Seq(Nodes(Tmp)) /\ First(new) = t
          /\ Var(new) = [Var(Without(var_deps, t)) EXCEPT ![t] = ToSet(l)]
      BY <1>1, <1>5, <3>1, TmpPrepended
    <3>3. Var(new) = NewVar
      BY <3>1, <3>2
    <3> QED  BY <3>2, <3>3
  <2> HIDE DEF new, NewVar
  <2>3. /\ LInv'
        /\ IF t = First(var_deps)
           THEN /\ dangling' = TRUE /\ Regs(reg_deps') = [r \in Reg |-> {}]
                /\ Var(var_deps') = Var(var_deps) /\ First(var_deps') = First(var_deps)
           ELSE /\ Var(var_deps') = NewVar /\ First(var_deps') = t
                /\ reg_deps' = reg_deps /\ dangling' = dangling
    BY <1>1, <2>1, <2>2, Erased
  <2>4. Track!instrument_assgn_tmp_op(t, ToSet(ops))
    BY <1>1, <1>2, <1>3, <1>5, <2>3 DEF Track!instrument_assgn_tmp_op, Track!EraseThen,
       Track!Prepend, Track!RestOfTmp, RestOfTmp, NewVar, Var, First, Regs
  <2> QED  BY <2>3, <2>4
<1> QED  BY <1>4, <1>5

LEMMA QopAgrees ==
  ASSUME LInv, ~dangling, NEW t \in Tmp, NEW ops \in Seq(Tmp),
         instrument_assgn_tmp_qop(t, ops)
  PROVE  LInv' /\ Track!instrument_assgn_tmp_qop(t, ToSet(ops))
<1> DEFINE l == OperandDeps(ops)
<1>1. l \in Distinct /\ RestOfTmp
  BY OperandReads DEF instrument_assgn_tmp_qop
<1>2. Track!TmpDeps(ToSet(ops)) = ToSet(l)
  BY OperandReads DEF Track!TmpDeps, Var
<1>3. l = <<>> <=> ToSet(l) = {}
  BY <1>1, EmptySets
<1>4. CASE l = <<>>
  <2>1. NoTmpChange /\ RestOfTmp
    BY <1>4 DEF instrument_assgn_tmp_qop
  <2>2. LInv'
    BY <2>1 DEF LInv, NoTmpChange, RestOfTmp
  <2>3. Track!instrument_assgn_tmp_qop(t, ToSet(ops))
    BY <1>2, <1>3, <1>4, <2>1 DEF Track!instrument_assgn_tmp_qop, Track!NoTmpChange,
       Track!RestOfTmp, NoTmpChange, RestOfTmp
  <2> QED  BY <2>2, <2>3
<1>5. CASE l # <<>>
  <2> DEFINE new == Appended(Without(var_deps, t), t, l)
             NewVar == [Var(var_deps) EXCEPT ![t] = ToSet(l)]
             NewFirst == IF First(var_deps) = NoTmp THEN t ELSE First(var_deps)
  <2>1. EraseTmpThen(t, new)
    BY <1>5 DEF instrument_assgn_tmp_qop
  <2> HIDE DEF l
  <2>2. First(var_deps) # t =>
          new \in Seq(Nodes(Tmp)) /\ Var(new) = NewVar /\ First(new) = NewFirst
    BY <1>1, <1>5, TmpAppended DEF LInv
  <2> HIDE DEF new, NewVar, NewFirst
  <2>3. /\ LInv'
        /\ IF t = First(var_deps)
           THEN /\ dangling' = TRUE /\ Regs(reg_deps') = [r \in Reg |-> {}]
                /\ Var(var_deps') = Var(var_deps) /\ First(var_deps') = First(var_deps)
           ELSE /\ Var(var_deps') = NewVar /\ First(var_deps') = NewFirst
                /\ reg_deps' = reg_deps /\ dangling' = dangling
    BY <1>1, <2>1, <2>2, Erased
  <2>4. Track!instrument_assgn_tmp_qop(t, ToSet(ops))
    BY <1>1, <1>2, <1>3, <1>5, <2>3 DEF Track!instrument_assgn_tmp_qop, Track!EraseThen,
       Track!AppendTo, Track!RestOfTmp, RestOfTmp, NewVar, NewFirst, Var, First, Regs
  <2> QED  BY <2>3, <2>4
<1> QED  BY <1>4, <1>5

LEMMA ConstAgrees ==
  ASSUME LInv, ~dangling, NEW t \in Tmp, instrument_assgn_tmp_const(t)
  PROVE  LInv' /\ Track!instrument_assgn_tmp_const(t)
<1> DEFINE new == Without(var_deps, t)
           NewVar == [Var(var_deps) EXCEPT ![t] = {}]
<1>1. EraseTmpThen(t, new) /\ RestOfTmp
  BY DEF instrument_assgn_tmp_const
<1>2. First(var_deps) # t =>
        new \in Seq(Nodes(Tmp)) /\ Var(new) = NewVar /\ First(new) = First(var_deps)
  BY TmpErased DEF LInv
<1> HIDE DEF new, NewVar
<1>3. /\ LInv'
      /\ IF t = First(var_deps)
         THEN /\ dangling' = TRUE /\ Regs(reg_deps') = [r \in Reg |-> {}]
              /\ Var(var_deps') = Var(var_deps) /\ First(var_deps') = First(var_deps)
         ELSE /\ Var(var_deps') = NewVar /\ First(var_deps') = First(var_deps)
              /\ reg_deps' = reg_deps /\ dangling' = dangling
  BY <1>1, <1>2, Erased
<1>4. Track!instrument_assgn_tmp_const(t)
  BY <1>1, <1>3 DEF Track!instrument_assgn_tmp_const, Track!EraseThen,
     Track!RestOfTmp, RestOfTmp, NewVar, Var, First, Regs
<1> QED  BY <1>3, <1>4

LEMMA GetAgrees ==
  ASSUME LInv, ~dangling, NEW t \in Tmp, NEW r \in Reg, instrument_assgn_tmp_get(t, r)
  PROVE  LInv' /\ Track!instrument_assgn_tmp_get(t, r)
<1> DEFINE l == Find(reg_deps, r)
<1>1. l \in Distinct /\ RestOfTmp
  BY FindTypes DEF LInv, instrument_assgn_tmp_get
<1>2. l = <<>> <=> ToSet(l) = {}
  BY <1>1, EmptySets
<1>3. CASE l = <<>>
  <2>1. NoTmpChange /\ RestOfTmp
    BY <1>3 DEF instrument_assgn_tmp_get
  <2>2. LInv'
    BY <2>1 DEF LInv, NoTmpChange, RestOfTmp
  <2>3. Track!instrument_assgn_tmp_get(t, r)
    BY <1>2, <1>3, <2>1 DEF Track!instrument_assgn_tmp_get, Track!NoTmpChange,
       Track!RestOfTmp, NoTmpChange, RestOfTmp
  <2> QED  BY <2>2, <2>3
<1>4. CASE l # <<>>
  <2>1. var_deps' = Prepended(var_deps, t, l) /\ UNCHANGED <<reg_deps, dangling>>
    BY <1>4 DEF instrument_assgn_tmp_get
  <2>2. Regs(reg_deps)[r] = ToSet(l)
    BY DEF Regs
  <2> HIDE DEF l
  <2>3. /\ var_deps' \in Seq(Nodes(Tmp))
        /\ Var(var_deps') = [Var(var_deps) EXCEPT ![t] = ToSet(l)]
        /\ First(var_deps') = t
    BY <1>1, <1>4, <2>1, TmpPrepended DEF LInv
  <2>4. LInv'
    BY <1>1, <2>1, <2>3 DEF LInv, RestOfTmp
  <2>5. Track!instrument_assgn_tmp_get(t, r)
    BY <1>1, <1>2, <1>4, <2>1, <2>2, <2>3 DEF Track!instrument_assgn_tmp_get,
       Track!Prepend, Track!RestOfTmp, RestOfTmp, Var, First, Regs
  <2> QED  BY <2>4, <2>5
<1> QED  BY <1>3, <1>4

LEMMA StoreAgrees ==
  ASSUME LInv, NEW a \in Addr, NEW t \in Tmp, instrument_store_tmp(a, t)
  PROVE  LInv' /\ Track!instrument_store_tmp(a, t)
<1> DEFINE l == Find(var_deps, t)
<1>1. l \in Distinct
  BY FindTypes DEF LInv
<1>2. l = <<>> <=> ToSet(l) = {}
  BY <1>1, EmptySets
<1>3. shadow_mem' = IF l = <<>> THEN shadow_mem ELSE [shadow_mem EXCEPT ![a] = l]
  BY DEF instrument_store_tmp
<1>4. RestOfShadow
  BY DEF instrument_store_tmp
<1>5. Var(var_deps)[t] = ToSet(l)
  BY DEF Var
<1> HIDE DEF l
<1>6. LInv'
  BY <1>1, <1>3, <1>4 DEF LInv, RestOfShadow
<1>7. Shadow(shadow_mem') = IF ToSet(l) = {} THEN Shadow(shadow_mem)
                            ELSE [Shadow(shadow_mem) EXCEPT ![a] = ToSet(l)]
  BY <1>2, <1>3 DEF Shadow, LInv
<1>8. Track!instrument_store_tmp(a, t)
  BY <1>4, <1>5, <1>7 DEF Track!instrument_store_tmp, RestOfShadow, Var, Shadow
<1> QED  BY <1>6, <1>8

LEMMA StoreConstAgrees ==
  ASSUME LInv, NEW a \in Addr, instrument_store_const(a)
  PROVE  LInv' /\ Track!instrument_store_const(a)
<1>1. <<>> \in Distinct /\ ToSet(<<>>) = {}
  BY DEF Distinct, ReadList, IsInjective, ToSet
<1>2. shadow_mem' = [shadow_mem EXCEPT ![a] = <<>>] /\ RestOfShadow
  BY DEF instrument_store_const
<1>3. LInv'
  BY <1>1, <1>2 DEF LInv, RestOfShadow
<1>4. Shadow(shadow_mem') = [Shadow(shadow_mem) EXCEPT ![a] = {}]
  BY <1>1, <1>2 DEF Shadow, LInv
<1>5. Track!instrument_store_const(a)
  BY <1>2, <1>4 DEF Track!instrument_store_const, RestOfShadow, Shadow
<1> QED  BY <1>3, <1>5

LEMMA PutAgrees ==
  ASSUME LInv, ~dangling, NEW r \in Reg, NEW t \in Tmp, instrument_put_tmp(r, t)
  PROVE  LInv' /\ Track!instrument_put_tmp(r, t)
<1> DEFINE l == Find(var_deps, t)
<1>1. l \in Distinct /\ reg_deps \in Seq(Nodes(Reg)) /\ OneEach(reg_deps)
  BY FindTypes DEF LInv
<1>2. l = <<>> <=> ToSet(l) = {}
  BY <1>1, EmptySets
<1>3. reg_deps' = IF l = <<>> THEN reg_deps ELSE Prepended(Without(reg_deps, r), r, l)
  BY DEF instrument_put_tmp, ErasedReg
<1>4. RestOfReg
  BY DEF instrument_put_tmp
<1>5. Var(var_deps)[t] = ToSet(l)
  BY DEF Var
<1> HIDE DEF l
<1>6. l # <<>> =>
        /\ Prepended(Without(reg_deps, r), r, l) \in Seq(Nodes(Reg))
        /\ OneEach(Prepended(Without(reg_deps, r), r, l))
        /\ Regs(Prepended(Without(reg_deps, r), r, l)) =
             [Regs(reg_deps) EXCEPT ![r] = ToSet(l)]
  BY <1>1, RegPrepended
<1>7. LInv'
  BY <1>1, <1>3, <1>4, <1>6 DEF LInv, RestOfReg
<1>8. Regs(reg_deps') = IF ToSet(l) = {} THEN Regs(reg_deps)
                        ELSE [Regs(reg_deps) EXCEPT ![r] = ToSet(l)]
  BY <1>2, <1>3, <1>6
<1>9. Track!instrument_put_tmp(r, t)
  BY <1>4, <1>5, <1>8 DEF Track!instrument_put_tmp, RestOfReg, Var, Regs
<1> QED  BY <1>7, <1>9

LEMMA PutCnstAgrees ==
  ASSUME LInv, ~dangling, NEW r \in Reg, instrument_put_cnst(r)
  PROVE  LInv' /\ Track!instrument_put_cnst(r)
<1>1. reg_deps \in Seq(Nodes(Reg)) /\ OneEach(reg_deps)
  BY DEF LInv
<1>2. reg_deps' = Without(reg_deps, r) /\ RestOfReg
  BY DEF instrument_put_cnst, ErasedReg
<1>3. /\ Without(reg_deps, r) \in Seq(Nodes(Reg)) /\ OneEach(Without(reg_deps, r))
      /\ Regs(Without(reg_deps, r)) = [Regs(reg_deps) EXCEPT ![r] = {}]
  BY <1>1, RegErased
<1>4. LInv'
  BY <1>2, <1>3 DEF LInv, RestOfReg
<1>5. Track!instrument_put_cnst(r)
  BY <1>2, <1>3 DEF Track!instrument_put_cnst, RestOfReg, Regs
<1> QED  BY <1>4, <1>5

LEMMA ExitAgrees ==
  ASSUME LInv, instrument_exit
  PROVE  LInv' /\ Track!instrument_exit
<1>1. var_deps' = <<>> /\ UNCHANGED <<reg_deps, dangling>> /\ RestOfTmp
  BY DEF instrument_exit
<1>2. LInv'
  BY <1>1 DEF LInv, RestOfTmp
<1>3. \A t \in Tmp : ToSet(Find(<<>>, t)) = {}
  BY DEF Find, Matches, ToSet
<1>4. Track!instrument_exit
  BY <1>1, <1>3 DEF Track!instrument_exit, RestOfTmp
<1> QED  BY <1>2, <1>4

LEMMA ReadAgrees ==
  ASSUME LInv, NEW a \in Addr, NEW n \in Width, a + n - 1 \in Addr, ta_pre_read(a, n)
  PROVE  LInv' /\ Track!ta_pre_read(a, n)
<1> DEFINE one == <<read_n + 1>>
<1>1. one \in Distinct /\ ToSet(one) = {read_n + 1}
  <2>1. read_n + 1 \in Nat \ {0}
    BY DEF LInv
  <2>2. one \in Seq(Nat \ {0}) /\ DOMAIN one = {1} /\ one[1] = read_n + 1
    BY <2>1
  <2> HIDE DEF one
  <2> QED  BY <2>2 DEF Distinct, ReadList, IsInjective, ToSet
<1>2. /\ read_n' = read_n + 1
      /\ shadow_mem' = [b \in Addr |-> IF b \in a..a + n - 1 THEN one ELSE shadow_mem[b]]
      /\ UNCHANGED <<var_deps, reg_deps, write_deps, write_n, dangling>>
  BY DEF ta_pre_read
<1> HIDE DEF one
<1>3. LInv'
  BY <1>1, <1>2 DEF LInv
<1>4. Shadow(shadow_mem') =
        [b \in Addr |-> IF b \in Track!Span(a, n) THEN {read_n + 1}
                        ELSE Shadow(shadow_mem)[b]]
  BY <1>1, <1>2, SpanIs DEF Shadow
<1>5. Track!ta_pre_read(a, n)
  BY <1>2, <1>4 DEF Track!ta_pre_read, Shadow
<1> QED  BY <1>3, <1>5

LEMMA WriteAppended ==
  ASSUME NEW s \in Seq(Distinct), NEW l \in Distinct
  PROVE  /\ Append(s, l) \in Seq(Distinct)
         /\ [n \in DOMAIN Append(s, l) |-> ToSet(Append(s, l)[n])] =
              Append([n \in DOMAIN s |-> ToSet(s[n])], ToSet(l))
<1> DEFINE new == Append(s, l)
           q == [n \in 1..Len(s) |-> ToSet(s[n])]
           p == [n \in 1..Len(s) + 1 |-> ToSet(new[n])]
<1>1. /\ new \in Seq(Distinct) /\ Len(new) = Len(s) + 1 /\ Len(s) \in Nat
      /\ \A i \in 1..Len(s) : new[i] = s[i]
      /\ new[Len(s) + 1] = l
      /\ DOMAIN new = 1..Len(s) + 1 /\ DOMAIN s = 1..Len(s)
  BY AppendProperties, LenProperties
<1> HIDE DEF new
<1>2. q \in Seq({ToSet(x) : x \in Distinct}) /\ Len(q) = Len(s)
  <2>1. \A i \in 1..Len(s) : s[i] \in Distinct
    BY ElementOfSeq
  <2> QED  BY <1>1, <2>1
<1>3. /\ Append(q, ToSet(l)) \in Seq({ToSet(x) : x \in Distinct})
      /\ Len(Append(q, ToSet(l))) = Len(s) + 1
      /\ \A i \in 1..Len(s) : Append(q, ToSet(l))[i] = q[i]
      /\ Append(q, ToSet(l))[Len(s) + 1] = ToSet(l)
  <2> HIDE DEF q
  <2> QED  BY <1>2, AppendProperties
<1>4. p \in Seq({ToSet(x) : x \in Distinct}) /\ Len(p) = Len(s) + 1
  <2>1. \A i \in 1..Len(s) + 1 : new[i] \in Distinct
    BY <1>1, ElementOfSeq
  <2> QED  BY <1>1, <2>1
<1>5. \A i \in 1..Len(s) + 1 : p[i] = Append(q, ToSet(l))[i]
  <2>1. ASSUME NEW i \in 1..Len(s) + 1 PROVE p[i] = Append(q, ToSet(l))[i]
    <3>1. CASE i \in 1..Len(s)
      <4>1. p[i] = ToSet(s[i]) /\ q[i] = ToSet(s[i])
        BY <1>1, <3>1
      <4> QED  BY <1>3, <3>1, <4>1
    <3>2. CASE i = Len(s) + 1
      <4>1. p[i] = ToSet(l)
        BY <1>1, <3>2
      <4> QED  BY <1>3, <3>2, <4>1
    <3> QED  BY <1>1, <3>1, <3>2
  <2> QED  BY <2>1
<1>6. p = Append(q, ToSet(l))
  <2> HIDE DEF p, q
  <2> QED  BY <1>3, <1>4, <1>5, SeqEqual
<1> QED  BY <1>1, <1>6 DEF new

LEMMA WriteAgrees ==
  ASSUME LInv, NEW a \in Addr, NEW n \in Width, a + n - 1 \in Addr, ta_pre_write(a, n)
  PROVE  LInv' /\ Track!ta_pre_write(a, n)
<1> DEFINE l == find_read_dep_by_mem_addrs(a, n)
<1>1. /\ l \in Distinct
      /\ ToSet(l) = UNION {Shadow(shadow_mem)[b] : b \in Track!Span(a, n)}
  BY BufferReads
<1>2. /\ write_n' = write_n + 1
      /\ write_deps' = Append(write_deps, l)
      /\ UNCHANGED <<var_deps, reg_deps, shadow_mem, read_n, dangling>>
  BY DEF ta_pre_write
<1>3. ToSet(l) = Track!MemDeps(a, n)
  BY <1>1 DEF Track!MemDeps, Shadow
<1> HIDE DEF l
<1>4. /\ write_deps' \in Seq(Distinct)
      /\ [m \in DOMAIN write_deps' |-> ToSet(write_deps'[m])] =
           Append([m \in DOMAIN write_deps |-> ToSet(write_deps[m])], ToSet(l))
  BY <1>1, <1>2, WriteAppended DEF LInv
<1>5. LInv'
  BY <1>2, <1>4 DEF LInv
<1>6. Track!ta_pre_write(a, n)
  BY <1>2, <1>3, <1>4 DEF Track!ta_pre_write
<1> QED  BY <1>5, <1>6

-----------------------------------------------------------------------------
LEMMA InitLists == Init => LInv /\ Track!ToolInit
<1> SUFFICES ASSUME Init PROVE LInv /\ Track!ToolInit
  OBVIOUS
<1>1. /\ var_deps = <<>> /\ reg_deps = <<>> /\ shadow_mem = [a \in Addr |-> <<>>]
      /\ write_deps = <<>> /\ read_n = 0 /\ write_n = 0 /\ dangling = FALSE
  BY DEF Init
<1>2. <<>> \in Distinct /\ ToSet(<<>>) = {} /\ \A k : Find(<<>>, k) = <<>>
  BY DEF Distinct, ReadList, IsInjective, ToSet, Find, Matches
<1>3. LInv
  <2>1. <<>> \in Seq(Nodes(Tmp)) /\ <<>> \in Seq(Nodes(Reg)) /\ <<>> \in Seq(Distinct)
    OBVIOUS
  <2>2. shadow_mem \in [Addr -> Distinct]
    BY <1>1, <1>2
  <2>3. OneEach(reg_deps)
    BY <1>1 DEF OneEach
  <2> QED  BY <1>1, <2>1, <2>2, <2>3 DEF LInv
<1>4. Track!ToolInit
  BY <1>1, <1>2 DEF Track!ToolInit
<1> QED  BY <1>3, <1>4

\* Each step is a callback that DepTrack allows.
LEMMA StepLists ==
  ASSUME LInv, Next
  PROVE  LInv' /\ Track!ToolNext
<1>1. ~dangling /\ Ops \subseteq Seq(Tmp) /\ Qops \subseteq Seq(Tmp)
  BY OperandsAssumption DEF Next
<1>2. ASSUME NEW t \in Tmp, Assignment(t) PROVE LInv' /\ Track!ToolNext
  <2>1. CASE instrument_assgn_tmp_const(t)
    BY <1>1, <2>1, ConstAgrees DEF Track!ToolNext
  <2>2. ASSUME NEW a \in Addr, instrument_assgn_tmp_load(t, a)
        PROVE  LInv' /\ Track!ToolNext
    BY <1>1, <2>2, LoadAgrees DEF Track!ToolNext
  <2>3. ASSUME NEW r \in Reg, instrument_assgn_tmp_get(t, r)
        PROVE  LInv' /\ Track!ToolNext
    BY <1>1, <2>3, GetAgrees DEF Track!ToolNext
  <2>4. ASSUME NEW ops \in Ops, instrument_assgn_tmp_op(t, ops)
        PROVE  LInv' /\ Track!ToolNext
    <3>1. ops \in Seq(Tmp)
      BY <1>1
    <3>2. LInv' /\ Track!instrument_assgn_tmp_op(t, ToSet(ops))
      BY <1>1, <2>4, <3>1, OpAgrees
    <3>3. ToSet(ops) \in SUBSET Tmp
      BY <3>1, OperandReads
    <3> QED  BY <3>2, <3>3 DEF Track!ToolNext
  <2>5. ASSUME NEW ops \in Qops, instrument_assgn_tmp_qop(t, ops)
        PROVE  LInv' /\ Track!ToolNext
    <3>1. ops \in Seq(Tmp)
      BY <1>1
    <3>2. LInv' /\ Track!instrument_assgn_tmp_qop(t, ToSet(ops))
      BY <1>1, <2>5, <3>1, QopAgrees
    <3>3. ToSet(ops) \in SUBSET Tmp
      BY <3>1, OperandReads
    <3> QED  BY <3>2, <3>3 DEF Track!ToolNext
  <2> QED  BY <1>2, <2>1, <2>2, <2>3, <2>4, <2>5 DEF Assignment
<1>3. ASSUME NEW a \in Addr, NEW t \in Tmp, instrument_store_tmp(a, t)
      PROVE  LInv' /\ Track!ToolNext
  BY <1>3, StoreAgrees DEF Track!ToolNext
<1>4. ASSUME NEW a \in Addr, instrument_store_const(a) PROVE LInv' /\ Track!ToolNext
  BY <1>4, StoreConstAgrees DEF Track!ToolNext
<1>5. ASSUME NEW r \in Reg, NEW t \in Tmp, instrument_put_tmp(r, t)
      PROVE  LInv' /\ Track!ToolNext
  BY <1>1, <1>5, PutAgrees DEF Track!ToolNext
<1>6. ASSUME NEW r \in Reg, instrument_put_cnst(r) PROVE LInv' /\ Track!ToolNext
  BY <1>1, <1>6, PutCnstAgrees DEF Track!ToolNext
<1>7. ASSUME NEW a \in Addr, NEW n \in Width, Syscall(a, n)
      PROVE  LInv' /\ Track!ToolNext
  <2>1. a + n - 1 \in Addr /\ (ta_pre_read(a, n) \/ ta_pre_write(a, n))
    BY <1>7 DEF Syscall
  <2>2. CASE ta_pre_read(a, n)
    BY <2>1, <2>2, ReadAgrees DEF Track!ToolNext
  <2>3. CASE ta_pre_write(a, n)
    BY <2>1, <2>3, WriteAgrees DEF Track!ToolNext
  <2> QED  BY <2>1, <2>2, <2>3
<1>8. CASE instrument_exit
  BY <1>8, ExitAgrees DEF Track!ToolNext
<1> QED  BY <1>2, <1>3, <1>4, <1>5, <1>6, <1>7, <1>8 DEF Next

LEMMA ListsKept == Spec => []LInv
<1>1. ASSUME LInv, [Next]_vars PROVE LInv'
  <2>1. CASE Next
    BY <1>1, <2>1, StepLists
  <2>2. CASE UNCHANGED vars
    BY <1>1, <2>2 DEF LInv, vars
  <2> QED  BY <1>1, <2>1, <2>2
<1> QED  BY <1>1, InitLists, PTL DEF Spec

-----------------------------------------------------------------------------
LEMMA NodesWider ==
  ASSUME NEW K, NEW list \in Seq(Nodes(K))
  PROVE  /\ list \in Seq(NodeOf(K))
         /\ \A n \in DOMAIN list : IsInjective(list[n].deps)
<1>1. \A n \in DOMAIN list : list[n] \in Nodes(K)
  BY ElementOfSeq, LenProperties
<1>2. Nodes(K) \subseteq NodeOf(K) /\ \A x \in Nodes(K) : IsInjective(x.deps)
  BY DEF Nodes, NodeOf, Distinct
<1>3. list \in Seq(NodeOf(K))
  BY <1>2, SeqMonotonic
<1> QED  BY <1>1, <1>2, <1>3

LEMMA ListsTypes == LInv => TypeOK /\ NoRepeats /\ OneNodePerReg
<1> SUFFICES ASSUME LInv PROVE TypeOK /\ NoRepeats /\ OneNodePerReg
  OBVIOUS
<1>1. /\ var_deps \in Seq(NodeOf(Tmp))
      /\ \A n \in DOMAIN var_deps : IsInjective(var_deps[n].deps)
  BY NodesWider DEF LInv
<1>2. /\ reg_deps \in Seq(NodeOf(Reg)) \/ dangling
      /\ \A n \in DOMAIN reg_deps : IsInjective(reg_deps[n].deps)
  BY NodesWider DEF LInv
<1>3. Distinct \subseteq ReadList /\ \A l \in Distinct : IsInjective(l)
  BY DEF Distinct
<1>4. write_deps \in Seq(ReadList)
  BY <1>3, SeqMonotonic DEF LInv
<1>5. \A n \in DOMAIN write_deps : write_deps[n] \in Distinct
  BY ElementOfSeq, LenProperties DEF LInv
<1>6. TypeOK
  BY <1>1, <1>2, <1>3, <1>4 DEF LInv, TypeOK
<1>7. \A a \in Addr : shadow_mem[a] \in Distinct
  BY DEF LInv
<1>8. NoRepeats
  BY <1>1, <1>2, <1>3, <1>5, <1>7 DEF NoRepeats, Lists
<1>9. OneNodePerReg
  BY DEF LInv, OneEach, OneNodePerReg
<1> QED  BY <1>6, <1>8, <1>9

\* Every table has its type: among the rest, a node is made only for a list of
\* some reads, in whatever order the callbacks of the code come.
THEOREM TypeCorrect == Spec => []TypeOK
<1> QED  BY ListsKept, ListsTypes, PTL

\* No list of a node, a byte or a write ever names a read twice: the merges of
\* int_node_merge look for each value, and everything else copies.
THEOREM ReadsOnce == Spec => []NoRepeats
<1> QED  BY ListsKept, ListsTypes, PTL

\* As long as var_deps does not dangle, reg_deps has at most one node for a
\* register: read_dep_node_erase_reg removes the others before PUT adds one.
THEOREM OneEntryPerReg == Spec => []OneNodePerReg
<1> QED  BY ListsKept, ListsTypes, PTL

\* The lists, searched from the front, merged in order and with older nodes
\* left behind, implement the sets of DepTrack.
THEOREM ListsImplementSets == Spec => Implements
<1>1. ASSUME LInv, [Next]_vars PROVE [Track!ToolNext]_(Track!toolVars)
  <2>1. CASE Next
    BY <1>1, <2>1, StepLists
  <2>2. CASE UNCHANGED vars
    BY <2>2 DEF vars, Track!toolVars
  <2> QED  BY <1>1, <2>1, <2>2
<1> QED  BY <1>1, InitLists, ListsKept, PTL DEF Spec, Implements, Track!ToolSpec

\* Not only is each step some callback of DepTrack: it is the one of its name,
\* with the operands, address and register it had.
THEOREM SameCallbacks == Spec => CallbacksAgree
<1>1. ASSUME LInv, ~dangling PROVE Agree
  <2>1. ASSUME NEW t \in Tmp
        PROVE  /\ instrument_assgn_tmp_const(t) => Track!instrument_assgn_tmp_const(t)
               /\ \A a \in Addr :
                    /\ instrument_assgn_tmp_load(t, a) =>
                         Track!instrument_assgn_tmp_load(t, a)
                    /\ instrument_store_tmp(a, t) => Track!instrument_store_tmp(a, t)
               /\ \A r \in Reg :
                    /\ instrument_assgn_tmp_get(t, r) =>
                         Track!instrument_assgn_tmp_get(t, r)
                    /\ instrument_put_tmp(r, t) => Track!instrument_put_tmp(r, t)
    BY <1>1, ConstAgrees, LoadAgrees, StoreAgrees, GetAgrees, PutAgrees
  <2>2. ASSUME NEW t \in Tmp, NEW ops \in Ops, instrument_assgn_tmp_op(t, ops)
        PROVE  Track!instrument_assgn_tmp_op(t, ToSet(ops))
    <3>1. ops \in Seq(Tmp)
      BY OperandsAssumption
    <3> QED  BY <1>1, <2>2, <3>1, OpAgrees
  <2>3. ASSUME NEW t \in Tmp, NEW ops \in Qops, instrument_assgn_tmp_qop(t, ops)
        PROVE  Track!instrument_assgn_tmp_qop(t, ToSet(ops))
    <3>1. ops \in Seq(Tmp)
      BY OperandsAssumption
    <3> QED  BY <1>1, <2>3, <3>1, QopAgrees
  <2>4. ASSUME NEW a \in Addr, NEW n \in Width, a + n - 1 \in Addr
        PROVE  /\ ta_pre_read(a, n) => Track!ta_pre_read(a, n)
               /\ ta_pre_write(a, n) => Track!ta_pre_write(a, n)
    BY <1>1, <2>4, ReadAgrees, WriteAgrees
  <2>5. \A a \in Addr : instrument_store_const(a) => Track!instrument_store_const(a)
    BY <1>1, StoreConstAgrees
  <2>6. \A r \in Reg : instrument_put_cnst(r) => Track!instrument_put_cnst(r)
    BY <1>1, PutCnstAgrees
  <2>7. instrument_exit => Track!instrument_exit
    BY <1>1, ExitAgrees
  <2> QED  BY <2>1, <2>2, <2>3, <2>4, <2>5, <2>6, <2>7 DEF Agree
<1>2. ASSUME LInv, [Next]_vars PROVE [Agree]_vars
  BY <1>1, <1>2 DEF Next
<1> QED  BY <1>2, ListsKept, PTL DEF Spec, CallbacksAgree
=============================================================================
