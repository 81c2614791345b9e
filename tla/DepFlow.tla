------------------------------ MODULE DepFlow ------------------------------
(***************************************************************************)
(* A traced guest program next to the tool: each action is one statement   *)
(* of the guest's VEX code, or one of its system calls, with the callback  *)
(* da_instrument puts in front of it.  The guest's own data flow is kept   *)
(* in history variables, and the properties compare the two.               *)
(*                                                                         *)
(* Memory and registers are bytes.  A value of several bytes is one datum: *)
(* what goes into it goes into each of its bytes.  The tool keeps one      *)
(* entry for a value, under the location of its first byte, and looks it   *)
(* up by location alone, whatever the size of the access: home tells for a *)
(* byte under which location the entry for its data is.  An access that    *)
(* starts elsewhere finds no entry for it, and one that starts there but   *)
(* is narrower displaces the entry of bytes it does not reach.             *)
(*                                                                         *)
(* What is assumed of VEX: in a superblock a temporary is assigned once    *)
(* and before it is used, its number means another temporary in the next   *)
(* one, and a system call or a change of thread comes between superblocks. *)
(***************************************************************************)
EXTENDS DepTrack

CONSTANTS
  Parked,      \* the guest's other threads
  ResultRegs,  \* the bytes of the register in which the kernel returns a result
  Size,        \* the sizes of GET and PUT, in bytes
  MaxOperands, \* of an expression, 3 in VEX for all but Qop
  MaxReads, MaxWrites   \* bounds on the calls of read and write

ASSUME RegAssumption == Reg \subseteq Int /\ ResultRegs \subseteq Reg
ASSUME SizeAssumption == Size \subseteq Nat \ {0}
ASSUME DisjointAssumption ==
  Tmp \cap Reg = {} /\ Tmp \cap Addr = {} /\ Reg \cap Addr = {}

VARIABLES
  assigned,   \* the temporaries assigned in the current superblock
  dropped,    \* those whose entry an exit that was not taken threw away
  flow,       \* the reads each location's value comes from
  home,       \* the location under which the tool keeps the entry for them
  bank,       \* the flow of the registers of the threads that do not run
  ever,       \* the reads whose data ever was in the location
  short,      \* the reads that failed, or filled less than their buffer
  gap,        \* has a read's data passed where the tool does not look?
  emitted     \* at each write: flow and ever of the bytes written, and gap

guestVars == <<assigned, dropped, flow, home, bank, ever, short, gap, emitted>>
vars == <<toolVars, guestVars>>

Loc == Tmp \cup Reg \cup Addr

\* The bytes of the guest state that a GET or PUT of n bytes at r touches.
Bytes(r, n) == {s \in Reg : r <= s /\ s < r + n}

FlowOf(S) == UNION {flow[l] : l \in S}
EverOf(S) == UNION {ever[l] : l \in S}

Init ==
  /\ ToolInit
  /\ assigned = {} /\ dropped = {}
  /\ flow = [l \in Loc |-> {}] /\ ever = [l \in Loc |-> {}]
  /\ home = [l \in Loc |-> l]
  /\ bank = [p \in Parked |-> [r \in Reg |-> {}]]
  /\ short = {} /\ gap = FALSE /\ emitted = <<>>

\* The statement copies or combines src into each location of dst.
Moves(dst, src) ==
  /\ flow' = [l \in Loc |-> IF l \in dst THEN FlowOf(src) ELSE flow[l]]
  /\ ever' = [l \in Loc |-> IF l \in dst THEN ever[l] \cup EverOf(src)
                            ELSE ever[l]]
  /\ UNCHANGED <<bank, short, emitted>>

\* The locations whose data has its entry in S.
AtHome(S) == {l \in Loc : home[l] \in S}

\* A value with the data of src, if there is any, gets its entry at l, the first
\* of its bytes W.
Settle(W, l, src) ==
  home' = [k \in Loc |-> IF k \notin W THEN home[k]
                        ELSE IF FlowOf(src) = {} THEN k ELSE l]

\* A statement brings together the data of blind, whose entries its callback
\* does not look at, looks for in vain or throws away, and that of seen, whose
\* entries go into the result.  A read may be missed if it is in blind only.
Overlooks(blind, seen) ==
  gap' = (gap \/ ~(FlowOf(blind) \subseteq FlowOf(seen)))

\* What of the bytes W the entry at l does not speak for; and what, outside of
\* W, it spoke for until now.
Beside(W, l) == Overlooks(W \ AtHome({l}), W \cap AtHome({l}))
Displaced(W, l) == AtHome({l}) \ W

\* Nothing is said of a run on which the tables are undefined.
Defined == ~corrupt

\* An assignment to t, and a statement that assigns to no temporary.
Assign(t) ==
  /\ Defined /\ t \notin assigned
  /\ assigned' = assigned \cup {t}
  /\ UNCHANGED dropped

SameTmps == Defined /\ UNCHANGED <<assigned, dropped>>

-----------------------------------------------------------------------------
\* t = LDle(a)
WrTmpLoad(t, a, n) ==
  /\ Assign(t)
  /\ instrument_assgn_tmp_load(t, a)
  /\ Moves({t}, Span(a, n)) /\ Beside(Span(a, n), a)
  /\ UNCHANGED home

\* t = GET(r)
WrTmpGet(t, r, n) ==
  /\ Assign(t)
  /\ instrument_assgn_tmp_get(t, r)
  /\ Moves({t}, Bytes(r, n)) /\ Beside(Bytes(r, n), r)
  /\ UNCHANGED home

\* t = s, Unop, Binop, Triop; a constant operand of a Binop is left out.
WrTmpOp(t, S) ==
  /\ Assign(t)
  /\ instrument_assgn_tmp_op(t, S)
  /\ Moves({t}, S) /\ Overlooks(S \cap dropped, S \ dropped)
  /\ UNCHANGED home

WrTmpQop(t, S) ==
  /\ Assign(t)
  /\ instrument_assgn_tmp_qop(t, S)
  /\ Moves({t}, S) /\ Overlooks(S \cap dropped, S \ dropped)
  /\ UNCHANGED home

\* Unop and Binop of constants.
WrTmpConst(t) ==
  /\ Assign(t)
  /\ instrument_assgn_tmp_const(t)
  /\ Moves({t}, {}) /\ Overlooks({}, {})
  /\ UNCHANGED home

\* A temporary goes into the bytes W, from l on.  The entry at l is replaced,
\* unless the callback returns early because the temporary has none.
Copies(W, l, t) ==
  /\ Moves(W, {t}) /\ Settle(W, l, {t})
  /\ Overlooks(({t} \cap dropped) \cup (IF var[t] = {} THEN {}
                                        ELSE Displaced(W, l)),
               {t} \ dropped)

\* A constant goes there: the entry at l is erased.
Clears(W, l) ==
  /\ Moves(W, {}) /\ Settle(W, l, {})
  /\ Overlooks(Displaced(W, l), {})

\* STle(a) = t
StoreTmp(a, n, t) ==
  /\ SameTmps
  /\ instrument_store_tmp(a, t)
  /\ Copies(Span(a, n), a, t)

StoreConst(a, n) ==
  /\ SameTmps
  /\ instrument_store_const(a)
  /\ Clears(Span(a, n), a)

\* PUT(r) = t
PutTmp(r, n, t) ==
  /\ SameTmps
  /\ instrument_put_tmp(r, t)
  /\ Copies(Bytes(r, n), r, t)

PutConst(r, n) ==
  /\ SameTmps
  /\ instrument_put_cnst(r)
  /\ Clears(Bytes(r, n), r)

\* The superblock is left, and the values of its temporaries with it.
Leave ==
  /\ assigned' = {} /\ dropped' = {}
  /\ flow' = [l \in Loc |-> IF l \in Tmp THEN {} ELSE flow[l]]
  /\ UNCHANGED <<home, bank, ever, short, gap, emitted>>

\* if (guard) goto ...: the callback runs first, either way.
ExitTaken == Defined /\ instrument_exit /\ Leave

ExitNotTaken ==
  /\ Defined
  /\ instrument_exit
  /\ dropped' = assigned
  /\ UNCHANGED <<assigned, flow, home, bank, ever, short, gap, emitted>>

\* The end of a superblock is not an Ist_Exit: nothing is called, and the
\* entries of its temporaries stay.
EndOfBlock ==
  /\ Defined /\ assigned # {}
  /\ Leave
  /\ UNCHANGED toolVars

\* Statements no callback is made for: CCall, ITE, GetI, a Triop with a
\* constant, a dirty helper; PutI; StoreG and CAS.
UnseenTmp(t, S) ==
  /\ Assign(t)
  /\ Moves({t}, S) /\ Overlooks(S, {})
  /\ UNCHANGED <<toolVars, home>>

UnseenWrite(W, S) ==
  /\ SameTmps
  /\ Moves(W, S) /\ Overlooks(S, {})
  /\ UNCHANGED <<toolVars, home>>

\* read(fd, a, n) fills the first m bytes, or fails (m = 0), and what is in
\* the others stays, though the hook has given them the entry of this read; the
\* result is put into a register without a statement of the guest.
Read(a, n, m) ==
  LET k == read_n + 1 IN
  /\ Defined /\ assigned = {} /\ read_n < MaxReads
  /\ ta_pre_read(a, n)
  /\ flow' = [l \in Loc |-> IF l \in Span(a, m) THEN {k}
                            ELSE IF l \in ResultRegs THEN {} ELSE flow[l]]
  /\ ever' = [l \in Loc |-> IF l \in Span(a, m) THEN ever[l] \cup {k}
                            ELSE ever[l]]
  /\ home' = [l \in Loc |-> IF l \in Span(a, m) THEN l ELSE home[l]]
  /\ short' = IF m < n THEN short \cup {k} ELSE short
  /\ Overlooks(AtHome(Span(a, n)) \ Span(a, m), {})
  /\ UNCHANGED <<assigned, dropped, bank, emitted>>

\* The line gathers the entries of all bytes, so that data is missed only if its
\* entry is outside of the buffer.
Write(a, n) ==
  LET W == Span(a, n)
      lost == ~(FlowOf(W \ AtHome(W)) \subseteq FlowOf(W \cap AtHome(W)))
  IN
  /\ Defined /\ assigned = {} /\ write_n < MaxWrites
  /\ ta_pre_write(a, n)
  /\ emitted' = Append(emitted, [flow |-> FlowOf(W), ever |-> EverOf(W),
                                 gap |-> gap \/ lost])
  /\ flow' = [l \in Loc |-> IF l \in ResultRegs THEN {} ELSE flow[l]]
  /\ UNCHANGED <<assigned, dropped, home, bank, ever, short, gap>>

\* Another thread runs on.  Its registers are its own, but reg has one entry
\* for a register of that number, and what is in it stays.
SwitchTo(p) ==
  /\ Defined /\ assigned = {}
  /\ flow' = [l \in Loc |-> IF l \in Reg THEN bank[p][l] ELSE flow[l]]
  /\ bank' = [bank EXCEPT ![p] = [r \in Reg |-> flow[r]]]
  /\ gap' = (gap \/ \E r \in Reg : bank[p][r] # {})
  /\ UNCHANGED <<toolVars, assigned, dropped, home, ever, short, emitted>>

Operands(k) == {S \in SUBSET assigned : S # {} /\ Cardinality(S) <= k}

WrTmp(t) ==
  \/ \E a \in Addr, n \in Width : WrTmpLoad(t, a, n)
  \/ \E r \in Reg, n \in Size : WrTmpGet(t, r, n)
  \/ \E S \in Operands(MaxOperands) : WrTmpOp(t, S)
  \/ \E S \in Operands(MaxOperands + 1) : WrTmpQop(t, S)
  \/ WrTmpConst(t)
  \/ \E S \in SUBSET (assigned \cup Reg) : UnseenTmp(t, S)

Store(a, n) ==
  \/ \E t \in assigned : StoreTmp(a, n, t)
  \/ StoreConst(a, n)

Put(r, n) ==
  \/ \E t \in assigned : PutTmp(r, n, t)
  \/ PutConst(r, n)

Unseen(S) ==
  \/ \E r \in Reg, n \in Size : UnseenWrite(Bytes(r, n), S)
  \/ \E a \in Addr, n \in Width : UnseenWrite(Span(a, n), S)

Syscall(a, n) ==
  \/ \E m \in 0..n : Read(a, n, m)
  \/ Write(a, n)

Next ==
  \/ \E t \in Tmp : WrTmp(t)
  \/ \E a \in Addr, n \in Width : Store(a, n) \/ Syscall(a, n)
  \/ \E r \in Reg, n \in Size : Put(r, n)
  \/ \E S \in Operands(1) \cup {{}} : Unseen(S)
  \/ ExitTaken
  \/ ExitNotTaken
  \/ EndOfBlock
  \/ \E p \in Parked : SwitchTo(p)

Spec == Init /\ [][Next]_vars

-----------------------------------------------------------------------------
ReadSet == SUBSET Nat

TypeOK ==
  /\ var \in [Tmp -> ReadSet] /\ head \in Tmp \cup {NoTmp}
  /\ reg \in [Reg -> ReadSet] /\ shadow \in [Addr -> ReadSet]
  /\ write_deps \in Seq(ReadSet)
  /\ read_n \in Nat /\ write_n \in Nat /\ corrupt \in BOOLEAN
  /\ assigned \subseteq Tmp /\ dropped \subseteq assigned
  /\ flow \in [Loc -> ReadSet] /\ ever \in [Loc -> ReadSet]
  /\ home \in [Loc -> Loc]
  /\ \A t \in Tmp : home[t] = t
  /\ \A r \in Reg : home[r] \in Reg
  /\ \A a \in Addr : home[a] \in Addr
  /\ short \in ReadSet
  /\ bank \in [Parked -> [Reg -> ReadSet]]
  /\ gap \in BOOLEAN
  /\ emitted \in Seq([flow : ReadSet, ever : ReadSet, gap : BOOLEAN])

\* What the tool believes of a location.
Deps(l) == IF l \in Tmp THEN var[l] ELSE IF l \in Reg THEN reg[l] ELSE shadow[l]

\* What tells whether an erasure corrupts: the head is NoTmp exactly when no
\* temporary has an entry, and otherwise names one that has.
HeadIsFirst ==
  /\ head = NoTmp => \A t \in Tmp : var[t] = {}
  /\ head # NoTmp => var[head] # {}

\* No invented dependency: of the reads that filled their buffers, an entry
\* names only those whose data was in the location, now or at some earlier time.
\* Nothing is said of reads that failed or were cut short: the hook gives their
\* whole buffers the entry before the call is made, and the marks stay.
NoPhantom == \A l \in Loc : Deps(l) \ short \subseteq ever[l]

\* No missed dependency: as long as no data of a read has gone where the tool
\* does not look, what a location's value comes from is in the entry the tool
\* keeps for it.  The stale entries the callbacks leave behind can only add to
\* it.  The data has gone there (gap) when an access starts behind the value's
\* first byte, or starts there and is narrower, so that the entry of the bytes it
\* leaves alone is displaced; when a statement has no callback; when a temporary
\* outlives an exit; when a read leaves part of its buffer alone; and when a
\* thread's registers come back.
Tracked == Reg \cup Addr \cup (assigned \ dropped)

NoMissed ==
  ~gap /\ ~corrupt => \A l \in Tracked : flow[l] \subseteq Deps(home[l])

\* The same of the lines of the trace: each write names every read its bytes
\* come from, with these provisos and one more, that the value's first byte is
\* within the buffer; and of the reads that filled their buffers, only those
\* whose data was in its bytes at some time.
WritesBounded ==
  /\ Len(write_deps) = write_n /\ Len(emitted) = write_n
  /\ \A k \in 1..write_n :
       /\ write_deps[k] \ short \subseteq emitted[k].ever
       /\ ~emitted[k].gap => emitted[k].flow \subseteq write_deps[k]
=============================================================================
