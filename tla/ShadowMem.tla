----------------------------- MODULE ShadowMem -----------------------------
(***************************************************************************)
(* The two-level shadow memory of proj1 depAnalysis.c.  The first index is *)
(* (addr & 0xFFFF0000) >> 16, the second addr & 0xFFFF; both arrays are    *)
(* allocated with 0xFFFF entries.  Here a level has Entries + 1 indices,   *)
(* of which Entries are allocated, and an address may have bits above      *)
(* both.  A list is a number: what a slot holds is a pointer to it.  The   *)
(* callbacks that use the table are in DepHeap.                            *)
(***************************************************************************)
EXTENDS Integers, FiniteSets

CONSTANTS
  Entries,    \* entries of an array, 0xFFFF in the code
  Addresses   \* the addresses the guest uses

ASSUME EntriesAssumption == Entries \in Nat \ {0}
ASSUME AddressesAssumption == Addresses \subseteq Nat

VARIABLES
  shadow_mem,  \* first index -> the second-level array, or NULL
  latest       \* address -> the list set there last, NULL for none

Levels == Entries + 1
Up(addr)  == (addr \div Levels) % Levels
Low(addr) == addr % Levels

Inside == 0..Entries - 1

NULL == 0
Unallocated == <<>>

\* Mutant: the loop stops before the last entry, which keeps what was there.
FreshButLast == [low \in Inside |-> IF low = Entries - 1 THEN -1 ELSE NULL]

\* The on-demand allocation: every entry NULL.
Fresh == [low \in Inside |-> NULL]

init_shadow_mem ==
  /\ shadow_mem = [up \in Inside |-> Unallocated]
  /\ latest = [a \in Addresses |-> NULL]

\* Does an access to addr stay inside both arrays?
Covered(addr) == Up(addr) \in Inside /\ Low(addr) \in Inside

Array(up) == IF shadow_mem[up] = Unallocated THEN Fresh ELSE shadow_mem[up]

\* get_shadow_mem, for a covered address.
get_shadow_mem(addr) ==
  IF shadow_mem[Up(addr)] = Unallocated THEN NULL
  ELSE shadow_mem[Up(addr)][Low(addr)]

\* What calls of set_shadow_mem for the addresses in S free.
Replaced(S) == {get_shadow_mem(a) : a \in S} \ {NULL}

\* Mutant: a new array replaces the one there is.
StoredAfresh(S, list) ==
  shadow_mem' = [up \in Inside |->
    IF \A a \in S : Up(a) # up THEN shadow_mem[up]
    ELSE [low \in Inside |->
           LET here == {a \in S : Up(a) = up /\ Low(a) = low}
           IN  IF here = {} THEN NULL ELSE list[CHOOSE a \in here : TRUE]]]

\* set_shadow_mem(a, list[a]) for each address in S, no two of which are a
\* range apart.
Stored(S, list) ==
  shadow_mem' = [up \in Inside |->
    IF \A a \in S : Up(a) # up THEN shadow_mem[up]
    ELSE [low \in Inside |->
           LET here == {a \in S : Up(a) = up /\ Low(a) = low}
           IN  IF here = {} THEN Array(up)[low] ELSE list[CHOOSE a \in here : TRUE]]]

set_shadow_mem(S, list) ==
  /\ Stored(S, list)
  /\ latest' = [a \in Addresses |-> IF a \in S THEN list[a] ELSE latest[a]]

\* The slots there are, those that hold a list, and the lists in all slots,
\* which is what free_shadow_mem frees.
AllSlots == {u \in Inside : shadow_mem[u] # Unallocated} \X Inside
Slots(list) == {s \in AllSlots : shadow_mem[s[1]][s[2]] = list}
Held == {shadow_mem[s[1]][s[2]] : s \in AllSlots} \ {NULL}

-----------------------------------------------------------------------------
\* The addresses the guest uses lie in one range that both indices cover.
InOneRange ==
  \A a, b \in Addresses : Covered(a) /\ Covered(b)
    /\ Up(a) = Up(b) /\ Low(a) = Low(b) => a = b

\* The table is one entry per byte: what is looked up at an address is what
\* was set there last, on-demand allocation of neighbours or not.
EntryPerByte ==
  InOneRange =>
    \A a \in Addresses : Covered(a) => get_shadow_mem(a) = latest[a]
=============================================================================
