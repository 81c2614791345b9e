--------------------------- MODULE DepFlowProofs ---------------------------
(***************************************************************************)
(* Proofs about DepFlow: what the tables may wrongly contain and what they *)
(* may miss, for every program, every set of temporaries, registers and    *)
(* addresses and every sequence of reads and writes.                       *)
(***************************************************************************)
EXTENDS DepFlow, TLAPS

USE DEF ReadSet

\* An access touches its first byte, and only bytes of memory.
LEMMA SpanOf ==
  ASSUME NEW a \in Addr, NEW n \in Width
  PROVE  a \in Span(a, n) /\ Span(a, n) \subseteq Addr
BY AddrAssumption, WidthAssumption DEF Span

\* The same of the guest state.
LEMMA BytesOf ==
  ASSUME NEW r \in Reg, NEW n \in Size
  PROVE  r \in Bytes(r, n) /\ Bytes(r, n) \subseteq Reg
BY RegAssumption, SizeAssumption DEF Bytes

\* The same for the part of a buffer the kernel fills.
LEMMA PartOfSpan ==
  ASSUME NEW a \in Addr, NEW n \in Width, NEW m \in 0..n
  PROVE  Span(a, m) \subseteq Span(a, n)
<1>1. a \in Int /\ n \in Nat /\ m \in Nat /\ m <= n
  BY AddrAssumption, WidthAssumption
<1>2. ASSUME NEW b \in Addr, b < a + m PROVE b < a + n
  <2>1. b \in Int BY AddrAssumption
  <2> QED BY <1>1, <1>2, <2>1
<1> QED BY <1>2 DEF Span

\* The tables that belong to the tool.
ToolType ==
  /\ var \in [Tmp -> ReadSet] /\ head \in Tmp \cup {NoTmp}
  /\ reg \in [Reg -> ReadSet] /\ shadow \in [Addr -> ReadSet]
  /\ write_deps \in Seq(ReadSet)
  /\ read_n \in Nat /\ write_n \in Nat /\ corrupt \in BOOLEAN

\* The callbacks, and a statement without one.
Callback ==
  \/ \E t \in Tmp, a \in Addr : instrument_assgn_tmp_load(t, a)
  \/ \E t \in Tmp, r \in Reg : instrument_assgn_tmp_get(t, r)
  \/ \E t \in Tmp, S \in SUBSET Tmp : instrument_assgn_tmp_op(t, S)
  \/ \E t \in Tmp, S \in SUBSET Tmp : instrument_assgn_tmp_qop(t, S)
  \/ \E t \in Tmp : instrument_assgn_tmp_const(t)
  \/ \E a \in Addr, t \in Tmp : instrument_store_tmp(a, t)
  \/ \E a \in Addr : instrument_store_const(a)
  \/ \E r \in Reg, t \in Tmp : instrument_put_tmp(r, t)
  \/ \E r \in Reg : instrument_put_cnst(r)
  \/ instrument_exit
  \/ \E a, n : ta_pre_read(a, n)
  \/ \E a, n : ta_pre_write(a, n)
  \/ UNCHANGED toolVars

\* Each callback keeps them well typed.
LEMMA CallbackType == TypeOK /\ Callback => ToolType'
<1> SUFFICES ASSUME TypeOK, Callback PROVE ToolType'
  OBVIOUS
<1> USE DEF TypeOK, ToolType, RestOfTmp, NoTmpChange, EraseThen, Prepend,
            AppendTo
<1>1. ASSUME NEW t \in Tmp, NEW a \in Addr, instrument_assgn_tmp_load(t, a)
      PROVE  ToolType'
  BY <1>1 DEF instrument_assgn_tmp_load
<1>2. ASSUME NEW t \in Tmp, NEW r \in Reg, instrument_assgn_tmp_get(t, r)
      PROVE  ToolType'
  BY <1>2 DEF instrument_assgn_tmp_get
<1>3. ASSUME NEW t \in Tmp, NEW S \in SUBSET Tmp, instrument_assgn_tmp_op(t, S)
      PROVE  ToolType'
  <2>1. TmpDeps(S) \in ReadSet
    BY DEF TmpDeps
  <2> QED BY <1>3, <2>1 DEF instrument_assgn_tmp_op
<1>4. ASSUME NEW t \in Tmp, NEW S \in SUBSET Tmp, instrument_assgn_tmp_qop(t, S)
      PROVE  ToolType'
  <2>1. TmpDeps(S) \in ReadSet
    BY DEF TmpDeps
  <2> QED BY <1>4, <2>1 DEF instrument_assgn_tmp_qop
<1>5. ASSUME NEW t \in Tmp, instrument_assgn_tmp_const(t)
      PROVE  ToolType'
  BY <1>5 DEF instrument_assgn_tmp_const
<1>6. ASSUME NEW a \in Addr, NEW t \in Tmp, instrument_store_tmp(a, t)
      PROVE  ToolType'
  BY <1>6 DEF instrument_store_tmp
<1>7. ASSUME NEW a \in Addr, instrument_store_const(a)
      PROVE  ToolType'
  BY <1>7 DEF instrument_store_const
<1>8. ASSUME NEW r \in Reg, NEW t \in Tmp, instrument_put_tmp(r, t)
      PROVE  ToolType'
  BY <1>8 DEF instrument_put_tmp
<1>9. ASSUME NEW r \in Reg, instrument_put_cnst(r)
      PROVE  ToolType'
  BY <1>9 DEF instrument_put_cnst
<1>10. ASSUME instrument_exit
      PROVE  ToolType'
  BY <1>10 DEF instrument_exit
<1>11. ASSUME NEW a, NEW n, ta_pre_read(a, n)
      PROVE  ToolType'
  BY <1>11 DEF ta_pre_read
<1>12. ASSUME NEW a, NEW n, ta_pre_write(a, n)
      PROVE  ToolType'
  <2>1. MemDeps(a, n) \in ReadSet
    BY DEF MemDeps, Span
  <2> QED BY <1>12, <2>1 DEF ta_pre_write
<1>13. ASSUME UNCHANGED toolVars
      PROVE  ToolType'
  BY <1>13 DEF toolVars
<1> QED BY <1>1, <1>2, <1>3, <1>4, <1>5, <1>6, <1>7, <1>8,
           <1>9, <1>10, <1>11, <1>12, <1>13 DEF Callback

\* Entries are kept where the data is: in memory, in the registers, or with
\* the temporary itself.
HomeType ==
  /\ home \in [Loc -> Loc]
  /\ \A t \in Tmp : home[t] = t
  /\ \A r \in Reg : home[r] \in Reg
  /\ \A a \in Addr : home[a] \in Addr

LEMMA HomesKept == TypeOK /\ home' = home => HomeType'
BY DEF TypeOK, HomeType

LEMMA SettleType ==
  ASSUME TypeOK, NEW l, NEW W, NEW src,
         \/ l \in Reg /\ W \subseteq Reg
         \/ l \in Addr /\ W \subseteq Addr,
         Settle(W, l, src)
  PROVE  HomeType'
<1>1. \A k \in Loc : \/ home'[k] = home[k]
                     \/ k \in W /\ (home'[k] = k \/ home'[k] = l)
  BY DEF Settle
<1>2. DOMAIN home' = Loc /\ home' = [k \in Loc |-> home'[k]]
  BY DEF Settle
<1>3. \A t \in Tmp : home'[t] = t
  BY <1>1, DisjointAssumption DEF TypeOK, Loc
<1>4. \A r \in Reg : home'[r] \in Reg
  BY <1>1, DisjointAssumption DEF TypeOK, Loc
<1>5. \A a \in Addr : home'[a] \in Addr
  BY <1>1, DisjointAssumption DEF TypeOK, Loc
<1>6. \A k \in Loc : home'[k] \in Loc
  BY <1>3, <1>4, <1>5 DEF Loc
<1> QED BY <1>2, <1>3, <1>4, <1>5, <1>6 DEF HomeType

\* A statement that moves data keeps the history variables well typed.
LEMMA StatementType ==
  ASSUME TypeOK, ToolType', HomeType',
         NEW dst \in SUBSET Loc, NEW src \in SUBSET Loc, NEW blind, NEW seen,
         \/ \E t \in Tmp : Assign(t)
         \/ SameTmps,
         Moves(dst, src), Overlooks(blind, seen)
  PROVE  TypeOK'
<1>1. FlowOf(src) \in ReadSet /\ EverOf(src) \in ReadSet
  BY DEF TypeOK, FlowOf, EverOf
<1>2. flow' \in [Loc -> ReadSet] /\ ever' \in [Loc -> ReadSet]
  BY <1>1 DEF TypeOK, Moves
<1>3. gap' \in BOOLEAN
  BY DEF TypeOK, Overlooks
<1>4. assigned' \subseteq Tmp /\ dropped' \subseteq assigned'
  BY DEF TypeOK, Assign, SameTmps
<1>5. emitted' = emitted /\ bank' = bank /\ short' = short
  BY DEF Moves
<1> QED BY <1>2, <1>3, <1>4, <1>5 DEF TypeOK, ToolType, HomeType

\* The variables have their types.
THEOREM TypeCorrect == Spec => []TypeOK
<1>1. Init => TypeOK
  <2> SUFFICES ASSUME Init PROVE TypeOK
    OBVIOUS
  <2>1. /\ var \in [Tmp -> ReadSet] /\ head \in Tmp \cup {NoTmp}
        /\ reg \in [Reg -> ReadSet] /\ shadow \in [Addr -> ReadSet]
        /\ read_n \in Nat /\ write_n \in Nat
    BY DEF Init, ToolInit
  <2>2. /\ assigned \subseteq Tmp /\ dropped \subseteq assigned
        /\ flow \in [Loc -> ReadSet] /\ ever \in [Loc -> ReadSet]
        /\ bank \in [Parked -> [Reg -> ReadSet]]
        /\ short \in ReadSet
    BY DEF Init
  <2>3. write_deps = <<>> /\ emitted = <<>>
    BY DEF Init, ToolInit
  <2>4. /\ write_deps \in Seq(ReadSet)
        /\ emitted \in Seq([flow : ReadSet, ever : ReadSet, gap : BOOLEAN])
    BY <2>3
  <2>5. corrupt \in BOOLEAN /\ gap \in BOOLEAN
    BY Zenon DEF Init, ToolInit
  <2>6. /\ home \in [Loc -> Loc]
        /\ \A t \in Tmp : home[t] = t
        /\ \A r \in Reg : home[r] \in Reg
        /\ \A a \in Addr : home[a] \in Addr
    BY DEF Init, Loc
  <2> QED BY <2>1, <2>2, <2>4, <2>5, <2>6 DEF TypeOK
<1>2. TypeOK /\ [Next]_vars => TypeOK'
  <2> SUFFICES ASSUME TypeOK, [Next]_vars PROVE TypeOK'
    OBVIOUS
  <2>A. assigned \subseteq Tmp
    BY DEF TypeOK
  <2>1. ASSUME NEW t \in Tmp, NEW a \in Addr, NEW n \in Width,
               WrTmpLoad(t, a, n)
        PROVE  TypeOK'
    <3>1. ToolType'
      BY <2>1, <2>A, CallbackType DEF Callback, WrTmpLoad
    <3>2. Span(a, n) \in SUBSET Loc /\ {t} \in SUBSET Loc
      BY SpanOf DEF Loc
    <3>3. HomeType'
      BY <2>1, HomesKept DEF WrTmpLoad
    <3> QED BY <2>1, <3>1, <3>2, <3>3, StatementType DEF WrTmpLoad, Beside
  <2>2. ASSUME NEW t \in Tmp, NEW r \in Reg, NEW n \in Size,
               WrTmpGet(t, r, n)
        PROVE  TypeOK'
    <3>1. ToolType'
      BY <2>2, <2>A, CallbackType DEF Callback, WrTmpGet
    <3>2. Bytes(r, n) \in SUBSET Loc /\ {t} \in SUBSET Loc
      BY BytesOf DEF Loc
    <3>3. HomeType'
      BY <2>2, HomesKept DEF WrTmpGet
    <3> QED BY <2>2, <3>1, <3>2, <3>3, StatementType DEF WrTmpGet, Beside
  <2>3. ASSUME NEW t \in Tmp, NEW S \in SUBSET assigned,
               WrTmpOp(t, S)
        PROVE  TypeOK'
    <3>1. ToolType'
      BY <2>3, <2>A, CallbackType DEF Callback, WrTmpOp
    <3>2. S \in SUBSET Loc /\ {t} \in SUBSET Loc
      BY <2>A DEF Loc
    <3>3. HomeType'
      BY <2>3, HomesKept DEF WrTmpOp
    <3> QED BY <2>3, <3>1, <3>2, <3>3, StatementType DEF WrTmpOp
  <2>4. ASSUME NEW t \in Tmp, NEW S \in SUBSET assigned,
               WrTmpQop(t, S)
        PROVE  TypeOK'
    <3>1. ToolType'
      BY <2>4, <2>A, CallbackType DEF Callback, WrTmpQop
    <3>2. S \in SUBSET Loc /\ {t} \in SUBSET Loc
      BY <2>A DEF Loc
    <3>3. HomeType'
      BY <2>4, HomesKept DEF WrTmpQop
    <3> QED BY <2>4, <3>1, <3>2, <3>3, StatementType DEF WrTmpQop
  <2>5. ASSUME NEW t \in Tmp,
               WrTmpConst(t)
        PROVE  TypeOK'
    <3>1. ToolType'
      BY <2>5, <2>A, CallbackType DEF Callback, WrTmpConst
    <3>2. {} \in SUBSET Loc /\ {t} \in SUBSET Loc
      BY DEF Loc
    <3>3. HomeType'
      BY <2>5, HomesKept DEF WrTmpConst
    <3> QED BY <2>5, <3>1, <3>2, <3>3, StatementType DEF WrTmpConst
  <2>6. ASSUME NEW t \in Tmp, NEW S \in SUBSET (assigned \cup Reg),
               UnseenTmp(t, S)
        PROVE  TypeOK'
    <3>1. ToolType'
      BY <2>6, <2>A, CallbackType DEF Callback, UnseenTmp
    <3>2. S \in SUBSET Loc /\ {t} \in SUBSET Loc
      BY <2>A DEF Loc
    <3>3. HomeType'
      BY <2>6, HomesKept DEF UnseenTmp
    <3> QED BY <2>6, <3>1, <3>2, <3>3, StatementType DEF UnseenTmp
  <2>7. ASSUME NEW a \in Addr, NEW n \in Width, NEW t \in assigned,
               StoreTmp(a, n, t)
        PROVE  TypeOK'
    <3>1. ToolType'
      BY <2>7, <2>A, CallbackType DEF Callback, StoreTmp
    <3>2. Span(a, n) \in SUBSET Loc /\ {t} \in SUBSET Loc
      BY SpanOf, <2>A DEF Loc
    <3>3. HomeType'
      BY <2>7, SpanOf, SettleType DEF StoreTmp, Copies
    <3> QED BY <2>7, <3>1, <3>2, <3>3, StatementType DEF StoreTmp, Copies
  <2>8. ASSUME NEW a \in Addr, NEW n \in Width,
               StoreConst(a, n)
        PROVE  TypeOK'
    <3>1. ToolType'
      BY <2>8, <2>A, CallbackType DEF Callback, StoreConst
    <3>2. Span(a, n) \in SUBSET Loc /\ {} \in SUBSET Loc
      BY SpanOf DEF Loc
    <3>3. HomeType'
      BY <2>8, SpanOf, SettleType DEF StoreConst, Clears
    <3> QED BY <2>8, <3>1, <3>2, <3>3, StatementType DEF StoreConst, Clears
  <2>9. ASSUME NEW r \in Reg, NEW n \in Size, NEW t \in assigned,
               PutTmp(r, n, t)
        PROVE  TypeOK'
    <3>1. ToolType'
      BY <2>9, <2>A, CallbackType DEF Callback, PutTmp
    <3>2. Bytes(r, n) \in SUBSET Loc /\ {t} \in SUBSET Loc
      BY BytesOf, <2>A DEF Loc
    <3>3. HomeType'
      BY <2>9, BytesOf, SettleType DEF PutTmp, Copies
    <3> QED BY <2>9, <3>1, <3>2, <3>3, StatementType DEF PutTmp, Copies
  <2>10. ASSUME NEW r \in Reg, NEW n \in Size,
               PutConst(r, n)
        PROVE  TypeOK'
    <3>1. ToolType'
      BY <2>10, <2>A, CallbackType DEF Callback, PutConst
    <3>2. Bytes(r, n) \in SUBSET Loc /\ {} \in SUBSET Loc
      BY BytesOf DEF Loc
    <3>3. HomeType'
      BY <2>10, BytesOf, SettleType DEF PutConst, Clears
    <3> QED BY <2>10, <3>1, <3>2, <3>3, StatementType DEF PutConst, Clears
  <2>11. ASSUME NEW W \in SUBSET (Reg \cup Addr), NEW S \in SUBSET assigned,
               UnseenWrite(W, S)
        PROVE  TypeOK'
    <3>1. ToolType'
      BY <2>11, <2>A, CallbackType DEF Callback, UnseenWrite
    <3>2. W \in SUBSET Loc /\ S \in SUBSET Loc
      BY <2>A DEF Loc
    <3>3. HomeType'
      BY <2>11, HomesKept DEF UnseenWrite
    <3> QED BY <2>11, <3>1, <3>2, <3>3, StatementType DEF UnseenWrite
  <2>12. ASSUME ExitTaken \/ ExitNotTaken \/ EndOfBlock
        PROVE  TypeOK'
    <3>1. Callback
      BY <2>12 DEF Callback, ExitTaken, ExitNotTaken, EndOfBlock, toolVars
    <3>2. ToolType'
      BY <3>1, CallbackType
    <3>3. HomeType' /\ short' = short
      BY <2>12, HomesKept DEF ExitTaken, ExitNotTaken, EndOfBlock, Leave
    <3> QED BY <2>12, <3>2, <3>3
            DEF ExitTaken, ExitNotTaken, EndOfBlock, Leave, TypeOK, ToolType, HomeType
  <2>13. ASSUME NEW a \in Addr, NEW n \in Width, NEW m \in 0..n, Read(a, n, m)
        PROVE  TypeOK'
    <3>1. ToolType'
      BY <2>13, CallbackType DEF Callback, Read
    <3>2. flow' \in [Loc -> ReadSet] /\ ever' \in [Loc -> ReadSet]
      BY <2>13 DEF Read, TypeOK
    <3>3. gap' \in BOOLEAN /\ short' \in ReadSet
      BY <2>13 DEF Read, Overlooks, TypeOK
    <3>4. HomeType'
      <4>1. Span(a, m) \subseteq Addr
        BY PartOfSpan, SpanOf
      <4>2. \A l \in Loc : home'[l] = home[l] \/ (l \in Addr /\ home'[l] = l)
        BY <2>13, <4>1 DEF Read
      <4>3. home' \in [Loc -> Loc]
        BY <2>13 DEF Read, TypeOK
      <4> QED BY <4>2, <4>3, DisjointAssumption DEF TypeOK, HomeType, Loc
    <3> QED BY <2>13, <3>1, <3>2, <3>3, <3>4 DEF Read, TypeOK, ToolType, HomeType
  <2>14. ASSUME NEW a \in Addr, NEW n \in Width, Write(a, n)
        PROVE  TypeOK'
    <3>1. ToolType'
      BY <2>14, CallbackType DEF Callback, Write
    <3>2. Span(a, n) \subseteq Loc
      BY SpanOf DEF Loc
    <3>3. FlowOf(Span(a, n)) \in ReadSet /\ EverOf(Span(a, n)) \in ReadSet
      BY <3>2 DEF TypeOK, FlowOf, EverOf
    <3>4. flow' \in [Loc -> ReadSet]
      BY <2>14 DEF Write, TypeOK
    <3>6. HomeType'
      BY <2>14, HomesKept DEF Write
    <3>5. emitted' \in Seq([flow : ReadSet, ever : ReadSet, gap : BOOLEAN])
      <4>1. PICK g \in BOOLEAN :
              emitted' = Append(emitted, [flow |-> FlowOf(Span(a, n)),
                                          ever |-> EverOf(Span(a, n)), gap |-> g])
        BY <2>14 DEF Write, TypeOK
      <4>2. [flow |-> FlowOf(Span(a, n)), ever |-> EverOf(Span(a, n)), gap |-> g]
              \in [flow : ReadSet, ever : ReadSet, gap : BOOLEAN]
        BY <3>3
      <4> QED BY <4>1, <4>2 DEF TypeOK
    <3> QED BY <2>14, <3>1, <3>4, <3>5, <3>6 DEF Write, TypeOK, ToolType, HomeType
  <2>15. ASSUME NEW p \in Parked, SwitchTo(p)
         PROVE  TypeOK'
    <3>1. UNCHANGED <<toolVars, assigned, dropped, home, ever, short, emitted>>
      BY <2>15 DEF SwitchTo
    <3>2. flow' \in [Loc -> ReadSet]
      BY <2>15 DEF SwitchTo, TypeOK
    <3>3. Reg \subseteq Loc
      BY DEF Loc
    <3>4. [r \in Reg |-> flow[r]] \in [Reg -> ReadSet]
      BY <3>3 DEF TypeOK
    <3>5. bank' \in [Parked -> [Reg -> ReadSet]]
      BY <2>15, <3>4 DEF SwitchTo, TypeOK
    <3>6. gap' \in BOOLEAN
      BY <2>15 DEF SwitchTo, TypeOK
    <3> QED BY <3>1, <3>2, <3>5, <3>6 DEF TypeOK, toolVars
  <2>16. CASE UNCHANGED vars
    BY <2>16 DEF vars, toolVars, guestVars, TypeOK
  <2> QED
    BY <2>1, <2>2, <2>3, <2>4, <2>5, <2>6, <2>7, <2>8, <2>9, <2>10, <2>11, <2>12, <2>13, <2>14, <2>15, <2>16, SpanOf, BytesOf
       DEF Next, WrTmp, Store, Put, Syscall, Unseen, Operands
<1> QED BY <1>1, <1>2, PTL DEF Spec

-----------------------------------------------------------------------------
\* Deps, without its cases.
LEMMA DepsOf ==
  /\ \A t \in Tmp : Deps(t) = var[t] /\ Deps(t)' = var'[t]
  /\ \A r \in Reg : Deps(r) = reg[r] /\ Deps(r)' = reg'[r]
  /\ \A a \in Addr : Deps(a) = shadow[a] /\ Deps(a)' = shadow'[a]
BY DisjointAssumption DEF Deps

\* An entry is kept in memory, in the registers or in the list of temporaries,
\* wherever its data is.
LEMMA Homes ==
  ASSUME TypeOK
  PROVE  /\ \A t \in Tmp : home[t] = t
         /\ \A c \in Reg \cup Addr : home[c] \in Reg \cup Addr
         /\ \A l \in Loc : home[l] \in Loc
BY DEF TypeOK, Loc

\* Membership in what several locations contribute.
LEMMA Contributions ==
  ASSUME NEW S
  PROVE  /\ \A x : x \in FlowOf(S) <=> \E l \in S : x \in flow[l]
         /\ \A x : x \in EverOf(S) <=> \E l \in S : x \in ever[l]
         /\ \A x : x \in TmpDeps(S) <=> \E l \in S : x \in var[l]
BY DEF FlowOf, EverOf, TmpDeps

\* Where no data is overlooked, all that is left aside is in what is seen.
LEMMA NotOverlooked ==
  ASSUME ~gap', NEW blind, NEW seen, Overlooks(blind, seen)
  PROVE  /\ ~gap /\ FlowOf(blind) \subseteq FlowOf(seen)
         /\ seen = {} => FlowOf(blind) = {}
<1>1. ~gap /\ FlowOf(blind) \subseteq FlowOf(seen)
  BY DEF Overlooks
<1>2. FlowOf({}) = {}
  BY DEF FlowOf
<1> QED BY <1>1, <1>2

\* What a statement has to do right: nothing enters an entry but what was in it
\* or comes from the operands; what the operands contribute is in the entries of
\* the locations written, unless it was overlooked; and no other location's
\* entry loses anything.
LEMMA StatementTracks ==
  ASSUME NoPhantom, NEW dst \in SUBSET Loc, NEW src \in SUBSET Loc,
         Moves(dst, src),
         \A l \in Loc : Deps(l)' \subseteq
           Deps(l) \cup (IF l \in dst THEN EverOf(src) \cup short ELSE {}),
         ~gap' /\ ~corrupt' => \A l \in Tracked' :
           /\ l \in Loc
           /\ (IF l \in dst THEN FlowOf(src) ELSE flow[l])
                \subseteq Deps(home[l])'
  PROVE  NoPhantom' /\ NoMissed'
<1>1. NoPhantom'
  <2> SUFFICES ASSUME NEW l \in Loc PROVE Deps(l)' \ short' \subseteq ever'[l]
    BY DEF NoPhantom, Loc
  <2>1. ever'[l] = IF l \in dst THEN ever[l] \cup EverOf(src) ELSE ever[l]
    BY DEF Moves
  <2>2. short' = short
    BY DEF Moves
  <2>3. Deps(l) \ short \subseteq ever[l]
    BY DEF NoPhantom
  <2> QED BY <2>1, <2>2, <2>3
<1>2. NoMissed'
  <2> SUFFICES ASSUME ~gap', ~corrupt', NEW l \in Tracked'
               PROVE  flow'[l] \subseteq Deps(home[l])'
    BY DEF NoMissed
  <2>1. l \in Loc
    OBVIOUS
  <2>2. flow'[l] = IF l \in dst THEN FlowOf(src) ELSE flow[l]
    BY <2>1 DEF Moves
  <2> QED BY <2>2
<1> QED BY <1>1, <1>2

\* An assignment leaves the registers alone, unless it loses them all.
RegKept ==
  /\ \A r \in Reg : reg'[r] \subseteq reg[r]
  /\ ~corrupt' => reg' = reg

\* The same for an assignment to a temporary.
LEMMA AssignmentTracks ==
  ASSUME TypeOK, NoPhantom, NoMissed,
         NEW t \in Tmp, NEW src \in SUBSET Loc, NEW deps,
         Assign(t), Moves({t}, src), gap => gap',
         shadow' = shadow, RegKept, home' = home,
         var' = var \/ var' = [var EXCEPT ![t] = deps],
         deps \subseteq EverOf(src) \cup short,
         ~gap' /\ ~corrupt' => FlowOf(src) \subseteq var'[t]
  PROVE  NoPhantom' /\ NoMissed'
<1>1. {t} \in SUBSET Loc
  BY DEF Loc
<1>2. ~corrupt
  BY DEF Assign, Defined
<1>3. \A l \in Loc : Deps(l)' \subseteq
        Deps(l) \cup (IF l \in {t} THEN EverOf(src) \cup short ELSE {})
  <2> SUFFICES ASSUME NEW l \in Loc
               PROVE  Deps(l)' \subseteq
                 Deps(l) \cup (IF l \in {t} THEN EverOf(src) \cup short ELSE {})
    OBVIOUS
  <2>1. CASE l \in Tmp
    BY <2>1, DepsOf DEF TypeOK
  <2>2. CASE l \in Reg
    BY <2>2, DepsOf DEF RegKept
  <2>3. CASE l \in Addr
    BY <2>3, DepsOf
  <2> QED BY <2>1, <2>2, <2>3 DEF Loc
<1>4. ASSUME ~gap', ~corrupt', NEW l \in Tracked'
      PROVE  /\ l \in Loc
             /\ (IF l \in {t} THEN FlowOf(src) ELSE flow[l])
                  \subseteq Deps(home[l])'
  <2>1. l = t \/ (l \in Tracked /\ l # t)
    BY DEF Tracked, Assign
  <2>2. l \in Loc
    BY <2>1 DEF Tracked, Loc, TypeOK
  <2>3. CASE l = t
    BY <1>4, <2>2, <2>3, DepsOf, Homes
  <2>4. CASE l \in Tracked /\ l # t
    <3>1. flow[l] \subseteq Deps(home[l])
      BY <1>2, <1>4, <2>4 DEF NoMissed
    <3>2. CASE l \in Tmp
      <4>1. home[l] = l /\ home'[l] = l
        BY <3>2, Homes
      <4>2. var'[l] = var[l]
        BY <2>4, <3>2 DEF TypeOK
      <4> QED BY <2>2, <2>4, <3>1, <3>2, <4>1, <4>2, DepsOf
    <3>3. CASE l \in Reg \cup Addr
      <4>1. home[l] \in Reg \cup Addr
        BY <3>3, Homes
      <4>2. \A c \in Reg \cup Addr : Deps(c)' = Deps(c)
        BY <1>4, DepsOf DEF RegKept
      <4> QED BY <2>2, <2>4, <3>1, <4>1, <4>2
    <3> QED BY <2>2, <3>2, <3>3 DEF Loc
  <2> QED BY <2>1, <2>3, <2>4
<1> QED BY <1>1, <1>3, <1>4, StatementTracks

\* What the entry at l holds of the bytes of an access: all but what is beside.
LEMMA BesideFound ==
  ASSUME TypeOK, NoMissed, ~corrupt, ~gap',
         NEW W \in SUBSET (Reg \cup Addr), NEW l \in W, Beside(W, l)
  PROVE  FlowOf(W) \subseteq Deps(l)
<1>1. ~gap /\ FlowOf(W \ AtHome({l})) \subseteq FlowOf(W \cap AtHome({l}))
  BY DEF Beside, Overlooks
<1>2. \A b \in W \cap AtHome({l}) : flow[b] \subseteq Deps(l)
  BY <1>1 DEF NoMissed, Tracked, AtHome
<1>3. FlowOf(W \cap AtHome({l})) \subseteq Deps(l)
  BY <1>2, Contributions
<1>4. \A x \in FlowOf(W) : x \in FlowOf(W \ AtHome({l}))
                           \/ x \in FlowOf(W \cap AtHome({l}))
  BY Contributions
<1> QED BY <1>1, <1>3, <1>4

\* The operands of an expression that are not dropped are tracked.
LEMMA OperandsTracked ==
  ASSUME TypeOK, NoPhantom, NoMissed, ~corrupt,
         NEW S \in SUBSET assigned
  PROVE  /\ TmpDeps(S) \subseteq EverOf(S) \cup short
         /\ ~gap => FlowOf(S \ dropped) \subseteq TmpDeps(S)
<1>1. S \subseteq Tmp
  BY DEF TypeOK
<1>2. \A t \in S : var[t] \subseteq ever[t] \cup short
  BY <1>1, DepsOf DEF NoPhantom, Loc
<1>3. ASSUME ~gap, NEW t \in S \ dropped PROVE flow[t] \subseteq var[t]
  <2>1. t \in Tracked /\ t \in Tmp
    BY <1>1, <1>3 DEF Tracked
  <2>2. flow[t] \subseteq Deps(home[t])
    BY <1>3, <2>1 DEF NoMissed
  <2> QED BY <2>1, <2>2, DepsOf, Homes
<1>4. TmpDeps(S) \subseteq EverOf(S) \cup short
  BY <1>2, Contributions
<1>5. ASSUME ~gap PROVE FlowOf(S \ dropped) \subseteq TmpDeps(S)
  BY <1>3, <1>5, Contributions
<1> QED BY <1>4, <1>5

\* A statement that stores to memory or puts to a register: of the cells, only
\* the entry at l changes, to new.
CellSet(l, new) ==
  \A c \in Reg \cup Addr : Deps(c)' = IF c = l THEN new ELSE Deps(c)

\* A temporary goes there.
LEMMA CopyTracks ==
  ASSUME TypeOK, NoPhantom, NoMissed, NEW t \in assigned,
         NEW W \in SUBSET (Reg \cup Addr), NEW l \in W,
         SameTmps, Copies(W, l, t), UNCHANGED <<var, corrupt>>,
         CellSet(l, IF var[t] = {} THEN Deps(l) ELSE var[t])
  PROVE  NoPhantom' /\ NoMissed'
<1>1. /\ W \in SUBSET Loc /\ {t} \in SUBSET Loc /\ t \in Tmp
      /\ ~corrupt /\ Moves(W, {t})
  BY DEF Loc, TypeOK, SameTmps, Defined, Copies
<1>2. TmpDeps({t}) = var[t] /\ var[t] \subseteq EverOf({t}) \cup short
  <2>1. TmpDeps({t}) = var[t]
    BY DEF TmpDeps
  <2> QED BY <1>1, <2>1, OperandsTracked
<1>3. \A x \in Loc : Deps(x)' \subseteq
        Deps(x) \cup (IF x \in W THEN EverOf({t}) \cup short ELSE {})
  <2>1. \A x \in Tmp : Deps(x)' = Deps(x)
    BY DepsOf
  <2>2. \A x \in Reg \cup Addr : \/ Deps(x)' = Deps(x)
                               \/ (x = l /\ Deps(x)' = var[t])
    BY DEF CellSet
  <2> QED BY <1>2, <2>1, <2>2 DEF Loc
<1>4. ASSUME ~gap', NEW x \in Tracked'
      PROVE  /\ x \in Loc
             /\ (IF x \in W THEN FlowOf({t}) ELSE flow[x]) \subseteq Deps(home[x])'
  <2>1. x \in Tracked /\ x \in Loc
    BY DEF Tracked, SameTmps, Loc, TypeOK
  <2>2. /\ ~gap
        /\ FlowOf(({t} \cap dropped)
                    \cup (IF var[t] = {} THEN {} ELSE Displaced(W, l)))
             \subseteq FlowOf({t} \ dropped)
    BY <1>4 DEF Copies, Overlooks
  <2>3. FlowOf({t} \ dropped) \subseteq var[t]
    BY <1>1, <1>2, <2>2, OperandsTracked
  <2>4. FlowOf({t}) \subseteq var[t]
    <3>1. CASE t \in dropped
      BY <2>2, <2>3, <3>1, Contributions
    <3>2. CASE t \notin dropped
      <4>1. {t} \ dropped = {t}
        BY <3>2
      <4> QED BY <2>3, <4>1
    <3> QED BY <3>1, <3>2
  <2>5. flow[x] \subseteq Deps(home[x])
    BY <1>1, <2>1, <2>2 DEF NoMissed
  <2>6. home'[x] = IF x \notin W THEN home[x]
                   ELSE IF FlowOf({t}) = {} THEN x ELSE l
    BY <2>1 DEF Copies, Settle
  <2>7. CASE x \in W /\ FlowOf({t}) = {}
    BY <2>1, <2>7
  <2>8. CASE x \in W /\ FlowOf({t}) # {}
    <3>1. home'[x] = l /\ var[t] # {}
      BY <2>4, <2>6, <2>8
    <3>2. Deps(l)' = var[t]
      BY <3>1 DEF CellSet
    <3>3. Deps(home[x])' = Deps(l)'
      BY <3>1 DEF Deps
    <3> QED BY <2>1, <2>4, <2>8, <3>2, <3>3
  <2>9. CASE x \notin W
    <3>1. home'[x] = home[x]
      BY <2>6, <2>9
    <3>2. CASE x \in Tmp
      <4>1. home[x] = x
        BY <3>2, Homes
      <4> QED BY <2>1, <2>5, <2>9, <3>1, <3>2, <4>1, DepsOf
    <3>3. CASE x \in Reg \cup Addr
      <4>1. home[x] \in Reg \cup Addr
        BY <3>3, Homes
      <4>2. ASSUME home[x] = l, var[t] # {} PROVE flow[x] \subseteq var[t]
        <5>1. x \in Displaced(W, l)
          BY <2>1, <2>9, <4>2 DEF Displaced, AtHome
        <5> QED BY <2>2, <2>3, <4>2, <5>1, Contributions
      <4>3. Deps(home[x])' = IF home[x] = l /\ var[t] # {} THEN var[t]
                             ELSE Deps(home[x])
        BY <3>1, <4>1 DEF CellSet, Deps
      <4> QED BY <2>1, <2>5, <2>9, <4>2, <4>3
    <3> QED BY <2>1, <3>2, <3>3 DEF Loc
  <2> QED BY <2>7, <2>8, <2>9
<1> QED BY <1>1, <1>3, <1>4, StatementTracks

\* A constant goes there.
LEMMA ClearTracks ==
  ASSUME TypeOK, NoPhantom, NoMissed,
         NEW W \in SUBSET (Reg \cup Addr), NEW l \in W,
         SameTmps, Clears(W, l), UNCHANGED <<var, corrupt>>, CellSet(l, {})
  PROVE  NoPhantom' /\ NoMissed'
<1>1. /\ W \in SUBSET Loc /\ {} \in SUBSET Loc
      /\ ~corrupt /\ Moves(W, {})
  BY DEF Loc, SameTmps, Defined, Clears
<1>2. FlowOf({}) = {}
  BY Contributions
<1>3. \A x \in Loc : Deps(x)' \subseteq
        Deps(x) \cup (IF x \in W THEN EverOf({}) \cup short ELSE {})
  <2>1. \A x \in Tmp : Deps(x)' = Deps(x)
    BY DepsOf
  <2>2. \A x \in Reg \cup Addr : Deps(x)' = Deps(x) \/ Deps(x)' = {}
    BY DEF CellSet
  <2> QED BY <2>1, <2>2 DEF Loc
<1>4. ASSUME ~gap', NEW x \in Tracked'
      PROVE  /\ x \in Loc
             /\ (IF x \in W THEN FlowOf({}) ELSE flow[x]) \subseteq Deps(home[x])'
  <2>1. x \in Tracked /\ x \in Loc
    BY DEF Tracked, SameTmps, Loc, TypeOK
  <2>2. ~gap /\ FlowOf(Displaced(W, l)) = {}
    BY <1>2, <1>4 DEF Clears, Overlooks
  <2>3. flow[x] \subseteq Deps(home[x])
    BY <1>1, <2>1, <2>2 DEF NoMissed
  <2>4. CASE x \in W
    BY <1>2, <2>1, <2>4
  <2>5. CASE x \notin W
    <3>1. home'[x] = home[x]
      BY <2>1, <2>5 DEF Clears, Settle
    <3>2. CASE x \in Tmp
      <4>1. home[x] = x
        BY <3>2, Homes
      <4> QED BY <2>1, <2>3, <2>5, <3>1, <3>2, <4>1, DepsOf
    <3>3. CASE x \in Reg \cup Addr
      <4>1. home[x] \in Reg \cup Addr
        BY <3>3, Homes
      <4>2. ASSUME home[x] = l PROVE flow[x] = {}
        <5>1. x \in Displaced(W, l)
          BY <2>1, <2>5, <4>2 DEF Displaced, AtHome
        <5> QED BY <2>2, <5>1, Contributions
      <4>3. home[x] # l => Deps(home[x])' = Deps(home[x])
        BY <3>1, <4>1 DEF CellSet, Deps
      <4> QED BY <2>1, <2>3, <2>5, <4>2, <4>3
    <3> QED BY <2>1, <3>2, <3>3 DEF Loc
  <2> QED BY <2>4, <2>5
<1> QED BY <1>1, <1>3, <1>4, StatementTracks

\* A step that changes no entry of memory or registers and no home, and moves
\* no data of a read to another place.
LEMMA QuietTracks ==
  ASSUME TypeOK, NoPhantom, NoMissed,
         UNCHANGED <<reg, shadow, corrupt, home, ever, short>>,
         gap => gap',
         \A t \in Tmp : var'[t] \subseteq var[t],
         ~gap' => \A l \in Tracked' :
           l \in Tracked /\ flow'[l] \subseteq flow[l] /\ (l \in Tmp => var'[l] = var[l])
  PROVE  NoPhantom' /\ NoMissed'
<1>1. \A c \in Reg \cup Addr : Deps(c)' = Deps(c)
  BY DepsOf
<1>2. NoPhantom'
  <2>1. \A l \in Loc : Deps(l)' \subseteq Deps(l)
    BY <1>1, DepsOf DEF Loc
  <2> QED BY <2>1 DEF NoPhantom, Loc
<1>3. NoMissed'
  <2> SUFFICES ASSUME ~gap', ~corrupt', NEW l \in Tracked'
               PROVE  flow'[l] \subseteq Deps(home[l])'
    BY DEF NoMissed
  <2>1. l \in Tracked /\ l \in Loc /\ flow'[l] \subseteq flow[l]
    BY DEF Tracked, Loc, TypeOK
  <2>2. flow[l] \subseteq Deps(home[l])
    BY <2>1 DEF NoMissed
  <2>3. CASE l \in Tmp
    <3>1. home[l] = l /\ home'[l] = l /\ var'[l] = var[l]
      BY <2>3, Homes
    <3>2. Deps(home[l])' = var[l] /\ Deps(home[l]) = var[l]
      BY <2>3, <3>1, DepsOf DEF Deps
    <3> QED BY <2>1, <2>2, <3>2
  <2>4. CASE l \in Reg \cup Addr
    <3>1. home[l] \in Reg \cup Addr
      BY <2>4, Homes
    <3>2. Deps(home[l])' = Deps(home[l])
      BY <1>1, <3>1
    <3> QED BY <2>1, <2>2, <3>2
  <2> QED BY <2>1, <2>3, <2>4 DEF Loc
<1> QED BY <1>2, <1>3

\* NoPhantom and NoMissed are kept by every step.
LEMMA StepTracks == TypeOK /\ NoPhantom /\ NoMissed /\ [Next]_vars
                      => NoPhantom' /\ NoMissed'
<1> SUFFICES ASSUME TypeOK, NoPhantom, NoMissed, [Next]_vars
             PROVE  NoPhantom' /\ NoMissed'
  OBVIOUS
<1>A. assigned \subseteq Tmp /\ dropped \subseteq assigned
  BY DEF TypeOK
<1>B. \A l \in Reg \cup Addr : l \in Loc /\ Deps(l) \subseteq ever[l] \cup short
  BY DEF Loc, NoPhantom
<1>1. ASSUME NEW t \in Tmp, NEW a \in Addr, NEW n \in Width, WrTmpLoad(t, a, n)
      PROVE  NoPhantom' /\ NoMissed'
  <2>1. /\ a \in Span(a, n) /\ Span(a, n) \in SUBSET Loc
        /\ Span(a, n) \in SUBSET (Reg \cup Addr)
    BY SpanOf DEF Loc
  <2>2. shadow[a] \subseteq EverOf(Span(a, n)) \cup short
    BY <1>B, <2>1, DepsOf, Contributions
  <2>3. /\ var' = var \/ var' = [var EXCEPT ![t] = shadow[a]]
        /\ shadow' = shadow /\ RegKept
        /\ ~corrupt' => shadow[a] = {} \/ var' = [var EXCEPT ![t] = shadow[a]]
    BY <1>1 DEF WrTmpLoad, instrument_assgn_tmp_load, EraseThen, AppendTo,
                NoTmpChange, RestOfTmp, RegKept
  <2>4. ASSUME ~gap', ~corrupt' PROVE FlowOf(Span(a, n)) \subseteq var'[t]
    <3>1. ~corrupt /\ Beside(Span(a, n), a)
      BY <1>1 DEF WrTmpLoad, Assign, Defined
    <3>2. FlowOf(Span(a, n)) \subseteq shadow[a]
      BY <2>1, <2>4, <3>1, BesideFound, DepsOf
    <3> QED BY <2>3, <2>4, <3>2 DEF TypeOK
  <2>5. Assign(t) /\ Moves({t}, Span(a, n)) /\ home' = home /\ (gap => gap')
    BY <1>1 DEF WrTmpLoad, Beside, Overlooks
  <2> QED BY <2>1, <2>2, <2>3, <2>4, <2>5, AssignmentTracks
<1>2. ASSUME NEW t \in Tmp, NEW r \in Reg, NEW n \in Size, WrTmpGet(t, r, n)
      PROVE  NoPhantom' /\ NoMissed'
  <2>1. /\ r \in Bytes(r, n) /\ Bytes(r, n) \in SUBSET Loc
        /\ Bytes(r, n) \in SUBSET (Reg \cup Addr)
    BY BytesOf DEF Loc
  <2>2. reg[r] \subseteq EverOf(Bytes(r, n)) \cup short
    BY <1>B, <2>1, DepsOf, Contributions
  <2>3. /\ var' = var \/ var' = [var EXCEPT ![t] = reg[r]]
        /\ shadow' = shadow /\ RegKept
        /\ reg[r] = {} \/ var' = [var EXCEPT ![t] = reg[r]]
    BY <1>2 DEF WrTmpGet, instrument_assgn_tmp_get, Prepend, NoTmpChange,
                RestOfTmp, RegKept
  <2>4. ASSUME ~gap', ~corrupt' PROVE FlowOf(Bytes(r, n)) \subseteq var'[t]
    <3>1. ~corrupt /\ Beside(Bytes(r, n), r)
      BY <1>2 DEF WrTmpGet, Assign, Defined
    <3>2. FlowOf(Bytes(r, n)) \subseteq reg[r]
      BY <2>1, <2>4, <3>1, BesideFound, DepsOf
    <3> QED BY <2>3, <3>2 DEF TypeOK
  <2>5. Assign(t) /\ Moves({t}, Bytes(r, n)) /\ home' = home /\ (gap => gap')
    BY <1>2 DEF WrTmpGet, Beside, Overlooks
  <2> QED BY <2>1, <2>2, <2>3, <2>4, <2>5, AssignmentTracks
<1>3. ASSUME NEW t \in Tmp, NEW S \in SUBSET assigned,
             WrTmpOp(t, S) \/ WrTmpQop(t, S)
      PROVE  NoPhantom' /\ NoMissed'
  <2>1. S \in SUBSET Loc
    BY <1>A DEF Loc
  <2>2. ~corrupt
    BY <1>3 DEF WrTmpOp, WrTmpQop, Assign, Defined
  <2>3. /\ var' = var \/ var' = [var EXCEPT ![t] = TmpDeps(S)]
        /\ shadow' = shadow /\ RegKept
        /\ ~corrupt' => TmpDeps(S) = {} \/ var' = [var EXCEPT ![t] = TmpDeps(S)]
    BY <1>3 DEF WrTmpOp, WrTmpQop, instrument_assgn_tmp_op,
                instrument_assgn_tmp_qop, EraseThen, AppendTo, Prepend,
                NoTmpChange, RestOfTmp, RegKept
  <2>4. TmpDeps(S) \subseteq EverOf(S) \cup short
    BY <2>2, OperandsTracked
  <2>5. /\ Assign(t) /\ Moves({t}, S) /\ home' = home
        /\ Overlooks(S \cap dropped, S \ dropped)
    BY <1>3 DEF WrTmpOp, WrTmpQop
  <2>6. ASSUME ~gap', ~corrupt' PROVE FlowOf(S) \subseteq var'[t]
    <3>1. ~gap /\ FlowOf(S \cap dropped) \subseteq FlowOf(S \ dropped)
      BY <2>5, <2>6 DEF Overlooks
    <3>2. FlowOf(S \ dropped) \subseteq TmpDeps(S)
      BY <2>2, <3>1, OperandsTracked
    <3>3. \A x \in FlowOf(S) : x \in FlowOf(S \cap dropped) \/ x \in FlowOf(S \ dropped)
      BY Contributions
    <3>4. FlowOf(S) \subseteq TmpDeps(S)
      BY <3>1, <3>2, <3>3
    <3> QED BY <2>3, <2>6, <3>4 DEF TypeOK
  <2>7. gap => gap'
    BY <2>5 DEF Overlooks
  <2> QED BY <2>1, <2>3, <2>4, <2>5, <2>6, <2>7, AssignmentTracks
<1>4. ASSUME NEW t \in Tmp, WrTmpConst(t)
      PROVE  NoPhantom' /\ NoMissed'
  <2>1. /\ var' = var \/ var' = [var EXCEPT ![t] = {}]
        /\ shadow' = shadow /\ RegKept
    BY <1>4 DEF WrTmpConst, instrument_assgn_tmp_const, EraseThen, RestOfTmp, RegKept
  <2>2. FlowOf({}) = {}
    BY Contributions
  <2>3. Assign(t) /\ Moves({t}, {}) /\ home' = home /\ (gap => gap')
    BY <1>4 DEF WrTmpConst, Overlooks
  <2> QED BY <2>1, <2>2, <2>3, AssignmentTracks
<1>5. ASSUME NEW t \in Tmp, NEW S \in SUBSET (assigned \cup Reg), UnseenTmp(t, S)
      PROVE  NoPhantom' /\ NoMissed'
  <2>1. S \in SUBSET Loc
    BY <1>A DEF Loc
  <2>2. var' = var /\ shadow' = shadow /\ RegKept
    BY <1>5 DEF UnseenTmp, toolVars, RegKept
  <2>3. ~gap' => FlowOf(S) = {}
    BY <1>5, NotOverlooked DEF UnseenTmp
  <2>4. {} \subseteq EverOf(S) \cup short
    OBVIOUS
  <2>5. Assign(t) /\ Moves({t}, S) /\ home' = home /\ (gap => gap')
    BY <1>5 DEF UnseenTmp, Overlooks
  <2> QED BY <2>1, <2>2, <2>3, <2>4, <2>5, AssignmentTracks
<1>6. ASSUME NEW a \in Addr, NEW n \in Width, NEW t \in assigned,
             StoreTmp(a, n, t)
      PROVE  NoPhantom' /\ NoMissed'
  <2>1. a \in Span(a, n) /\ Span(a, n) \in SUBSET (Reg \cup Addr)
    BY SpanOf
  <2>2. /\ SameTmps /\ Copies(Span(a, n), a, t)
        /\ UNCHANGED <<var, reg, corrupt>>
        /\ shadow' = IF var[t] = {} THEN shadow
                     ELSE [shadow EXCEPT ![a] = var[t]]
    BY <1>6 DEF StoreTmp, instrument_store_tmp
  <2>3. CellSet(a, IF var[t] = {} THEN Deps(a) ELSE var[t])
    <3>1. \A b \in Addr : shadow'[b] = IF b = a /\ var[t] # {} THEN var[t]
                                       ELSE shadow[b]
      BY <2>2 DEF TypeOK
    <3> QED BY <2>2, <3>1, DepsOf, DisjointAssumption DEF CellSet
  <2> QED BY <2>1, <2>2, <2>3, CopyTracks
<1>7. ASSUME NEW a \in Addr, NEW n \in Width, StoreConst(a, n)
      PROVE  NoPhantom' /\ NoMissed'
  <2>1. a \in Span(a, n) /\ Span(a, n) \in SUBSET (Reg \cup Addr)
    BY SpanOf
  <2>2. /\ SameTmps /\ Clears(Span(a, n), a)
        /\ UNCHANGED <<var, reg, corrupt>>
        /\ shadow' = [shadow EXCEPT ![a] = {}]
    BY <1>7 DEF StoreConst, instrument_store_const
  <2>3. CellSet(a, {})
    <3>1. \A b \in Addr : shadow'[b] = IF b = a THEN {} ELSE shadow[b]
      BY <2>2 DEF TypeOK
    <3> QED BY <2>2, <3>1, DepsOf, DisjointAssumption DEF CellSet
  <2> QED BY <2>1, <2>2, <2>3, ClearTracks
<1>8. ASSUME NEW r \in Reg, NEW n \in Size, NEW t \in assigned, PutTmp(r, n, t)
      PROVE  NoPhantom' /\ NoMissed'
  <2>1. r \in Bytes(r, n) /\ Bytes(r, n) \in SUBSET (Reg \cup Addr)
    BY BytesOf
  <2>2. /\ SameTmps /\ Copies(Bytes(r, n), r, t)
        /\ UNCHANGED <<var, shadow, corrupt>>
        /\ reg' = IF var[t] = {} THEN reg ELSE [reg EXCEPT ![r] = var[t]]
    BY <1>8 DEF PutTmp, instrument_put_tmp
  <2>3. CellSet(r, IF var[t] = {} THEN Deps(r) ELSE var[t])
    <3>1. \A s \in Reg : reg'[s] = IF s = r /\ var[t] # {} THEN var[t] ELSE reg[s]
      BY <2>2 DEF TypeOK
    <3> QED BY <2>2, <3>1, DepsOf, DisjointAssumption DEF CellSet
  <2> QED BY <2>1, <2>2, <2>3, CopyTracks
<1>9. ASSUME NEW r \in Reg, NEW n \in Size, PutConst(r, n)
      PROVE  NoPhantom' /\ NoMissed'
  <2>1. r \in Bytes(r, n) /\ Bytes(r, n) \in SUBSET (Reg \cup Addr)
    BY BytesOf
  <2>2. /\ SameTmps /\ Clears(Bytes(r, n), r)
        /\ UNCHANGED <<var, shadow, corrupt>>
        /\ reg' = [reg EXCEPT ![r] = {}]
    BY <1>9 DEF PutConst, instrument_put_cnst
  <2>3. CellSet(r, {})
    <3>1. \A s \in Reg : reg'[s] = IF s = r THEN {} ELSE reg[s]
      BY <2>2 DEF TypeOK
    <3> QED BY <2>2, <3>1, DepsOf, DisjointAssumption DEF CellSet
  <2> QED BY <2>1, <2>2, <2>3, ClearTracks
<1>10. ASSUME NEW W \in SUBSET (Reg \cup Addr), NEW S \in SUBSET assigned,
              UnseenWrite(W, S)
       PROVE  NoPhantom' /\ NoMissed'
  <2>1. W \in SUBSET Loc /\ S \in SUBSET Loc
    BY <1>A DEF Loc
  <2>2. /\ SameTmps /\ Moves(W, S) /\ Overlooks(S, {}) /\ ~corrupt
        /\ UNCHANGED <<var, reg, shadow, corrupt, home>>
    BY <1>10 DEF UnseenWrite, toolVars, SameTmps, Defined
  <2>3. \A k \in Loc : Deps(k)' = Deps(k)
    BY <2>2, DepsOf DEF Loc
  <2>4. ASSUME ~gap', NEW l \in Tracked'
        PROVE  /\ l \in Loc
               /\ (IF l \in W THEN FlowOf(S) ELSE flow[l]) \subseteq Deps(home[l])'
    <3>1. l \in Tracked /\ l \in Loc
      BY <1>A, <2>2, <2>4 DEF Tracked, SameTmps, Loc
    <3>2. ~gap /\ FlowOf(S) = {}
      BY <2>2, <2>4, NotOverlooked
    <3>3. flow[l] \subseteq Deps(home[l])
      BY <2>2, <3>1, <3>2 DEF NoMissed
    <3>4. Deps(home[l])' = Deps(home[l])
      BY <2>2, <2>3, <3>1, Homes DEF Deps
    <3> QED BY <3>1, <3>2, <3>3, <3>4
  <2>5. \A l \in Loc : Deps(l)' \subseteq
          Deps(l) \cup (IF l \in W THEN EverOf(S) \cup short ELSE {})
    BY <2>3
  <2> QED BY <2>1, <2>2, <2>4, <2>5, StatementTracks
<1>11. ASSUME ExitTaken \/ ExitNotTaken \/ EndOfBlock
       PROVE  NoPhantom' /\ NoMissed'
  <2>1. /\ UNCHANGED <<reg, shadow, corrupt, home, ever, short, gap>>
        /\ \A l \in Reg \cup Addr : flow'[l] = flow[l]
        /\ assigned' \ dropped' = {}
        /\ var' = var \/ var' = [t \in Tmp |-> {}]
    BY <1>11, DisjointAssumption
       DEF ExitTaken, ExitNotTaken, EndOfBlock, Leave, Loc, instrument_exit, toolVars
  <2>2. \A t \in Tmp : var'[t] \subseteq var[t]
    BY <2>1
  <2>3. \A l \in Tracked' : l \in Tracked /\ l \notin Tmp /\ flow'[l] \subseteq flow[l]
    BY <2>1, DisjointAssumption DEF Tracked
  <2> QED BY <2>1, <2>2, <2>3, QuietTracks
<1>12. ASSUME NEW a \in Addr, NEW n \in Width, NEW m \in 0..n, Read(a, n, m)
       PROVE  NoPhantom' /\ NoMissed'
  <2> DEFINE k == read_n + 1
  <2>1. /\ Span(a, m) \subseteq Span(a, n) /\ Span(a, n) \subseteq Addr
        /\ \A b \in Addr : b \notin Reg /\ b \notin Tmp
    BY PartOfSpan, SpanOf, DisjointAssumption
  <2>2. /\ UNCHANGED <<var, reg, assigned, dropped, corrupt>>
        /\ assigned = {} /\ ~corrupt
        /\ \A b \in Addr : shadow'[b] = IF b \in Span(a, n) THEN {k} ELSE shadow[b]
    BY <1>12 DEF Read, ta_pre_read, Defined
  <2>3. /\ \A l \in Loc : ever'[l] = IF l \in Span(a, m) THEN ever[l] \cup {k}
                                     ELSE ever[l]
        /\ \A l \in Loc : flow'[l] = IF l \in Span(a, m) THEN {k}
                                     ELSE IF l \in ResultRegs THEN {} ELSE flow[l]
        /\ \A l \in Loc : home'[l] = IF l \in Span(a, m) THEN l ELSE home[l]
        /\ short' = IF m < n THEN short \cup {k} ELSE short
    BY <1>12 DEF Read
  <2>4. a \in Int /\ n \in Nat /\ m \in Nat /\ m <= n
    BY AddrAssumption, WidthAssumption
  <2>5. k \in short' \/ Span(a, m) = Span(a, n)
    <3>1. m = n \/ m < n
      BY <2>4
    <3> QED BY <2>3, <3>1
  <2> HIDE DEF k
  <2>6. NoPhantom'
    <3> SUFFICES ASSUME NEW l \in Loc, NEW x \in Deps(l)', x \notin short'
                 PROVE  x \in ever'[l]
      BY DEF NoPhantom, Loc
    <3>1. x \notin short /\ ever[l] \subseteq ever'[l]
      BY <2>3
    <3>2. CASE x \in Deps(l)
      BY <3>1, <3>2 DEF NoPhantom
    <3>3. CASE l \in Span(a, n)
      <4>1. l \in Addr /\ Deps(l)' = {k}
        BY <2>1, <2>2, <3>3, DepsOf
      <4> QED BY <2>3, <2>5, <3>3, <4>1
    <3>4. CASE l \notin Span(a, n)
      <4>1. Deps(l)' = Deps(l)
        BY <2>2, <3>4, DepsOf DEF Loc
      <4> QED BY <3>2, <4>1
    <3> QED BY <3>3, <3>4
  <2>7. NoMissed'
    <3> SUFFICES ASSUME ~gap', ~corrupt', NEW l \in Tracked'
                 PROVE  flow'[l] \subseteq Deps(home[l])'
      BY DEF NoMissed
    <3>1. ~gap /\ FlowOf(AtHome(Span(a, n)) \ Span(a, m)) = {}
      BY <1>12, NotOverlooked DEF Read
    <3>2. l \in Reg \cup Addr /\ l \in Tracked /\ l \in Loc
      BY <2>2 DEF Tracked, Loc
    <3>3. CASE l \in Span(a, m)
      <4>1. home'[l] = l /\ flow'[l] = {k}
        BY <2>3, <3>2, <3>3
      <4>2. shadow'[l] = {k} /\ l \in Addr
        BY <2>1, <2>2, <3>3
      <4>3. Deps(home[l])' = shadow'[l]
        BY <2>1, <4>1, <4>2 DEF Deps
      <4> QED BY <4>1, <4>2, <4>3
    <3>4. CASE l \notin Span(a, m)
      <4>1. home'[l] = home[l] /\ flow'[l] \subseteq flow[l]
        BY <2>3, <3>2, <3>4
      <4>2. flow[l] \subseteq Deps(home[l])
        BY <2>2, <3>1, <3>2 DEF NoMissed
      <4>3. CASE home[l] \in Span(a, n)
        <5>1. l \in AtHome(Span(a, n)) \ Span(a, m)
          BY <3>2, <3>4, <4>3 DEF AtHome
        <5>2. flow[l] = {}
          BY <3>1, <5>1, Contributions
        <5> QED BY <4>1, <5>2
      <4>4. CASE home[l] \notin Span(a, n)
        <5>1. home[l] \in Reg \cup Addr
          BY <3>2, Homes
        <5>2. Deps(home[l])' = Deps(home[l])
          BY <2>2, <4>1, <4>4, <5>1 DEF Deps
        <5> QED BY <4>1, <4>2, <5>2
      <4> QED BY <4>3, <4>4
    <3> QED BY <3>3, <3>4
  <2> QED BY <2>6, <2>7
<1>13. ASSUME NEW a \in Addr, NEW n \in Width, Write(a, n)
       PROVE  NoPhantom' /\ NoMissed'
  <2>1. /\ UNCHANGED <<var, reg, shadow, corrupt, home, ever, short, gap>>
        /\ UNCHANGED <<assigned, dropped>>
        /\ \A l \in Loc : flow'[l] = {} \/ flow'[l] = flow[l]
    BY <1>13 DEF Write, ta_pre_write, TypeOK
  <2>2. Tracked \subseteq Loc /\ Tracked' = Tracked
    BY <1>A, <2>1 DEF Tracked, Loc
  <2> QED BY <2>1, <2>2, QuietTracks
<1>14. ASSUME NEW p \in Parked, SwitchTo(p)
       PROVE  NoPhantom' /\ NoMissed'
  <2>1. /\ UNCHANGED <<var, reg, shadow, corrupt, home, ever, short>>
        /\ UNCHANGED <<assigned, dropped>>
        /\ \A l \in Loc : flow'[l] = IF l \in Reg THEN bank[p][l] ELSE flow[l]
        /\ ~gap' => ~gap /\ \A r \in Reg : bank[p][r] = {}
    BY <1>14 DEF SwitchTo, toolVars
  <2>2. Tracked \subseteq Loc /\ Tracked' = Tracked
    BY <1>A, <2>1 DEF Tracked, Loc
  <2>3. ~gap' => \A l \in Tracked' : l \in Tracked /\ flow'[l] \subseteq flow[l]
    BY <2>1, <2>2
  <2> QED BY <2>1, <2>3, QuietTracks
<1>15. CASE UNCHANGED vars
  <2>1. /\ UNCHANGED <<var, reg, shadow, corrupt, home, ever, short, gap>>
        /\ UNCHANGED <<assigned, dropped, flow>>
    BY <1>15 DEF vars, toolVars, guestVars
  <2>2. Tracked' = Tracked
    BY <2>1 DEF Tracked
  <2> QED BY <2>1, <2>2, QuietTracks
<1>16. ASSUME NEW S \in SUBSET assigned, Unseen(S)
       PROVE  NoPhantom' /\ NoMissed'
  <2>1. PICK W \in SUBSET (Reg \cup Addr) : UnseenWrite(W, S)
    BY <1>16, SpanOf, BytesOf DEF Unseen
  <2> QED BY <1>10, <2>1
<1> QED BY <1>1, <1>2, <1>3, <1>4, <1>5, <1>6, <1>7, <1>8, <1>9, <1>11,
           <1>12, <1>13, <1>14, <1>15, <1>16
        DEF Next, WrTmp, Store, Put, Syscall, Operands

LEMMA InitTracks == Init => NoPhantom /\ NoMissed
<1> SUFFICES ASSUME Init PROVE NoPhantom /\ NoMissed
  OBVIOUS
<1>1. \A l \in Loc : Deps(l) = {} /\ flow[l] = {}
  BY DepsOf DEF Init, ToolInit, Loc
<1>2. Tracked \subseteq Loc
  BY DEF Tracked, Loc, Init
<1> QED BY <1>1, <1>2 DEF NoPhantom, NoMissed

\* Of the reads that filled their buffers, an entry names only those whose data
\* was in its location at some time: stale entries, and the marks of failed and
\* short reads, apart, the tool invents nothing.
THEOREM NothingInvented == Spec => []NoPhantom
<1>1. TypeOK /\ NoPhantom /\ NoMissed /\ [Next]_vars => NoPhantom' /\ NoMissed'
  BY StepTracks
<1> QED BY <1>1, InitTracks, TypeCorrect, PTL DEF Spec

\* The entry kept for a location's value misses no read that value comes from,
\* while the tables are intact and no such data has gone where the tool does not
\* look: through a narrower or overlapping access, a statement without callback,
\* past an exit, into part of a buffer only, or to another thread.
THEOREM NothingMissed == Spec => []NoMissed
<1>1. TypeOK /\ NoPhantom /\ NoMissed /\ [Next]_vars => NoPhantom' /\ NoMissed'
  BY StepTracks
<1> QED BY <1>1, InitTracks, TypeCorrect, PTL DEF Spec

-----------------------------------------------------------------------------
\* Every action but Write leaves the trace alone, and no read is taken for one
\* that filled its buffer that was not before.
LEMMA TraceKept ==
  ASSUME Next, \A a \in Addr, n \in Width : ~Write(a, n)
  PROVE  UNCHANGED <<write_deps, write_n, emitted>> /\ short \subseteq short'
<1> USE DEF RestOfTmp, Moves
<1>1. ASSUME NEW t \in Tmp, WrTmp(t)
      PROVE  UNCHANGED <<write_deps, write_n, emitted, short>>
  BY <1>1 DEF WrTmp, WrTmpLoad, WrTmpGet, WrTmpOp, WrTmpQop, WrTmpConst,
              UnseenTmp, instrument_assgn_tmp_load, instrument_assgn_tmp_get,
              instrument_assgn_tmp_op, instrument_assgn_tmp_qop,
              instrument_assgn_tmp_const, toolVars
<1>2. ASSUME NEW a \in Addr, NEW n \in Width, Store(a, n)
      PROVE  UNCHANGED <<write_deps, write_n, emitted, short>>
  BY <1>2 DEF Store, StoreTmp, StoreConst, Copies, Clears,
              instrument_store_tmp, instrument_store_const
<1>3. ASSUME NEW r \in Reg, NEW n \in Size, Put(r, n)
      PROVE  UNCHANGED <<write_deps, write_n, emitted, short>>
  BY <1>3 DEF Put, PutTmp, PutConst, Copies, Clears,
              instrument_put_tmp, instrument_put_cnst
<1>4. ASSUME NEW a \in Addr, NEW n \in Width, NEW m \in 0..n, Read(a, n, m)
      PROVE  UNCHANGED <<write_deps, write_n, emitted>> /\ short \subseteq short'
  BY <1>4 DEF Read, ta_pre_read
<1>5. ASSUME ExitTaken \/ ExitNotTaken \/ EndOfBlock
      PROVE  UNCHANGED <<write_deps, write_n, emitted, short>>
  BY <1>5 DEF ExitTaken, ExitNotTaken, EndOfBlock, Leave, instrument_exit, toolVars
<1>6. ASSUME NEW S, Unseen(S)
      PROVE  UNCHANGED <<write_deps, write_n, emitted, short>>
  BY <1>6 DEF Unseen, UnseenWrite, toolVars
<1>7. ASSUME NEW p \in Parked, SwitchTo(p)
      PROVE  UNCHANGED <<write_deps, write_n, emitted, short>>
  BY <1>7 DEF SwitchTo, toolVars
<1> QED BY <1>1, <1>2, <1>3, <1>4, <1>5, <1>6, <1>7 DEF Next, Syscall

\* Each line of the trace names every read its bytes come from, where no data was
\* lost track of, and of the reads that filled their buffers only those whose
\* data was in these bytes at some time.
THEOREM TraceBounded == Spec => []WritesBounded
<1>1. Init => WritesBounded
  BY DEF Init, ToolInit, WritesBounded
<1>2. TypeOK /\ NoPhantom /\ NoMissed /\ WritesBounded /\ [Next]_vars
        => WritesBounded'
  <2> SUFFICES ASSUME TypeOK, NoPhantom, NoMissed, WritesBounded, [Next]_vars
               PROVE  WritesBounded'
    OBVIOUS
  <2>1. ASSUME NEW a \in Addr, NEW n \in Width, Write(a, n)
        PROVE  WritesBounded'
    <3> DEFINE W == Span(a, n)
               line == MemDeps(a, n)
               lost == ~(FlowOf(W \ AtHome(W)) \subseteq FlowOf(W \cap AtHome(W)))
               truth == [flow |-> FlowOf(W), ever |-> EverOf(W),
                         gap |-> gap \/ lost]
    <3>1. /\ write_n' = write_n + 1
          /\ write_deps' = Append(write_deps, line)
          /\ emitted' = Append(emitted, truth)
          /\ ~corrupt /\ short' = short
      BY <2>1 DEF Write, ta_pre_write, Defined
    <3>2. /\ truth.flow = FlowOf(W) /\ truth.ever = EverOf(W)
          /\ ~truth.gap => ~gap /\ FlowOf(W \ AtHome(W)) \subseteq FlowOf(W \cap AtHome(W))
      OBVIOUS
    <3>3. W \subseteq Addr /\ \A x : x \in line <=> \E b \in W : x \in shadow[b]
      BY SpanOf DEF MemDeps
    <3>A. /\ write_n \in Nat /\ Len(write_deps) = write_n /\ Len(emitted) = write_n
          /\ write_deps \in Seq(ReadSet)
          /\ emitted \in Seq([flow : ReadSet, ever : ReadSet, gap : BOOLEAN])
      BY DEF TypeOK, WritesBounded
    <3> HIDE DEF W, line, lost, truth
    <3>4. line \ short \subseteq truth.ever
      <4>1. \A b \in W : shadow[b] \subseteq ever[b] \cup short
        BY <3>3, DepsOf DEF NoPhantom, Loc
      <4> QED BY <3>2, <3>3, <4>1, Contributions
    <3>5. ASSUME ~truth.gap PROVE truth.flow \subseteq line
      <4>1. \A b \in W \cap AtHome(W) : flow[b] \subseteq line
        <5> SUFFICES ASSUME NEW b \in W, home[b] \in W PROVE flow[b] \subseteq line
          BY DEF AtHome
        <5>1. b \in Tracked
          BY <3>3 DEF Tracked
        <5>2. flow[b] \subseteq Deps(home[b])
          BY <3>1, <3>2, <3>5, <5>1 DEF NoMissed
        <5>3. Deps(home[b]) = shadow[home[b]]
          BY <3>3, DepsOf
        <5> QED BY <3>3, <5>2, <5>3
      <4>2. FlowOf(W \cap AtHome(W)) \subseteq line
        BY <4>1, Contributions
      <4>3. \A x \in FlowOf(W) : x \in FlowOf(W \ AtHome(W))
                                 \/ x \in FlowOf(W \cap AtHome(W))
        BY Contributions
      <4> QED BY <3>2, <3>5, <4>2, <4>3
    <3>6. Len(write_deps') = write_n' /\ Len(emitted') = write_n'
      BY <3>1, <3>A
    <3>7. ASSUME NEW i \in 1..write_n'
          PROVE  /\ write_deps'[i] \ short' \subseteq emitted'[i].ever
                 /\ ~emitted'[i].gap => emitted'[i].flow \subseteq write_deps'[i]
      <4>1. CASE i = write_n + 1
        <5>1. write_deps'[i] = line /\ emitted'[i] = truth
          BY <3>1, <3>A, <4>1
        <5> QED BY <3>1, <3>4, <3>5, <5>1
      <4>2. CASE i \in 1..write_n
        <5>1. write_deps'[i] = write_deps[i] /\ emitted'[i] = emitted[i]
          BY <3>1, <3>A, <4>2
        <5> QED BY <3>1, <4>2, <5>1 DEF WritesBounded
      <4> QED BY <3>1, <3>A, <4>1, <4>2
    <3> QED BY <3>6, <3>7 DEF WritesBounded
  <2>2. CASE Next /\ \A a \in Addr, n \in Width : ~Write(a, n)
    <3>1. UNCHANGED <<write_deps, write_n, emitted>> /\ short \subseteq short'
      BY <2>2, TraceKept
    <3> QED BY <3>1 DEF WritesBounded
  <2>3. CASE UNCHANGED vars
    BY <2>3 DEF vars, toolVars, guestVars, WritesBounded
  <2> QED BY <2>1, <2>2, <2>3
<1> QED BY <1>1, <1>2, TypeCorrect, NothingInvented, NothingMissed, PTL DEF Spec

-----------------------------------------------------------------------------
\* Every step of the guest makes one callback, or none.
LEMMA StepCallsBack == TypeOK /\ [Next]_vars => Callback
<1> SUFFICES ASSUME TypeOK, [Next]_vars PROVE Callback
  OBVIOUS
<1>0. assigned \subseteq Tmp
  BY DEF TypeOK
<1>1. ASSUME NEW t \in Tmp, WrTmp(t) PROVE Callback
  <2>1. ASSUME NEW S \in SUBSET assigned, WrTmpOp(t, S) \/ WrTmpQop(t, S)
        PROVE  Callback
    BY <1>0, <2>1 DEF Callback, WrTmpOp, WrTmpQop
  <2>2. CASE \E a \in Addr, n \in Width : WrTmpLoad(t, a, n)
    BY <2>2 DEF Callback, WrTmpLoad
  <2>3. CASE \E r \in Reg, n \in Size : WrTmpGet(t, r, n)
    BY <2>3 DEF Callback, WrTmpGet
  <2>4. CASE WrTmpConst(t)
    BY <2>4 DEF Callback, WrTmpConst
  <2>5. CASE \E S \in SUBSET (assigned \cup Reg) : UnseenTmp(t, S)
    BY <2>5 DEF Callback, UnseenTmp
  <2> QED BY <1>1, <2>1, <2>2, <2>3, <2>4, <2>5 DEF WrTmp, Operands
<1>2. ASSUME NEW a \in Addr, NEW n \in Width, Store(a, n) \/ Syscall(a, n)
      PROVE  Callback
  <2>1. CASE Store(a, n)
    BY <1>0, <2>1 DEF Callback, Store, StoreTmp, StoreConst
  <2>2. CASE Syscall(a, n)
    BY <2>2 DEF Callback, Syscall, Read, Write
  <2> QED BY <1>2, <2>1, <2>2
<1>3. ASSUME NEW r \in Reg, NEW n \in Size, Put(r, n) PROVE Callback
  BY <1>0, <1>3 DEF Callback, Put, PutTmp, PutConst
<1>4. ASSUME NEW S, Unseen(S) PROVE Callback
  BY <1>4 DEF Callback, Unseen, UnseenWrite
<1>5. CASE ExitTaken \/ ExitNotTaken \/ EndOfBlock
  BY <1>5 DEF Callback, ExitTaken, ExitNotTaken, EndOfBlock
<1>6. ASSUME NEW p \in Parked, SwitchTo(p) PROVE Callback
  BY <1>6 DEF Callback, SwitchTo, toolVars
<1>7. CASE UNCHANGED vars
  BY <1>7 DEF Callback, vars
<1> QED BY <1>1, <1>2, <1>3, <1>4, <1>5, <1>6, <1>7 DEF Next

\* No callback leaves an empty first node behind, or a node without a first.
LEMMA CallbackHead == TypeOK /\ HeadIsFirst /\ Callback => HeadIsFirst'
<1> SUFFICES ASSUME TypeOK, HeadIsFirst, Callback PROVE HeadIsFirst'
  OBVIOUS
<1>0. /\ var \in [Tmp -> ReadSet] /\ head \in Tmp \cup {NoTmp}
      /\ head = NoTmp => \A t \in Tmp : var[t] = {}
      /\ head # NoTmp => var[head] # {}
  BY DEF TypeOK, HeadIsFirst
\* The three ways a node is added, and the removal of one that is not first.
<1>1. ASSUME NEW t \in Tmp, NEW deps \in ReadSet, deps # {}, Prepend(t, deps)
      PROVE  HeadIsFirst'
  BY <1>0, <1>1, NoTmpAssumption DEF Prepend, HeadIsFirst
<1>2. ASSUME NEW t \in Tmp, NEW deps \in ReadSet, deps # {}, AppendTo(t, deps)
      PROVE  HeadIsFirst'
  BY <1>0, <1>2, NoTmpAssumption DEF AppendTo, HeadIsFirst
<1>3. ASSUME NEW t \in Tmp, t # head, var' = [var EXCEPT ![t] = {}], head' = head
      PROVE  HeadIsFirst'
  BY <1>0, <1>3 DEF HeadIsFirst
<1>4. ASSUME UNCHANGED <<var, head>>
      PROVE  HeadIsFirst'
  BY <1>4 DEF HeadIsFirst
<1>5. ASSUME NEW t \in Tmp, NEW a \in Addr, instrument_assgn_tmp_load(t, a)
      PROVE  HeadIsFirst'
  <2>1. shadow[a] \in ReadSet
    BY DEF TypeOK
  <2> QED BY <1>2, <1>4, <1>5, <2>1
          DEF instrument_assgn_tmp_load, EraseThen, NoTmpChange
<1>6. ASSUME NEW t \in Tmp, NEW r \in Reg, instrument_assgn_tmp_get(t, r)
      PROVE  HeadIsFirst'
  <2>1. reg[r] \in ReadSet
    BY DEF TypeOK
  <2> QED BY <1>1, <1>4, <1>6, <2>1 DEF instrument_assgn_tmp_get, NoTmpChange
<1>7. ASSUME NEW t \in Tmp, NEW S \in SUBSET Tmp,
             instrument_assgn_tmp_op(t, S) \/ instrument_assgn_tmp_qop(t, S)
      PROVE  HeadIsFirst'
  <2>1. TmpDeps(S) \in ReadSet
    BY <1>0 DEF TmpDeps
  <2> QED BY <1>1, <1>2, <1>4, <1>7, <2>1
          DEF instrument_assgn_tmp_op, instrument_assgn_tmp_qop, EraseThen, NoTmpChange
<1>8. ASSUME NEW t \in Tmp, instrument_assgn_tmp_const(t)
      PROVE  HeadIsFirst'
  BY <1>3, <1>4, <1>8 DEF instrument_assgn_tmp_const, EraseThen
<1>9. CASE instrument_exit
  BY <1>9 DEF instrument_exit, HeadIsFirst
<1>10. CASE \/ \E a \in Addr, t \in Tmp : instrument_store_tmp(a, t)
            \/ \E a \in Addr : instrument_store_const(a)
            \/ \E r \in Reg, t \in Tmp : instrument_put_tmp(r, t)
            \/ \E r \in Reg : instrument_put_cnst(r)
            \/ \E a, n : ta_pre_read(a, n)
            \/ \E a, n : ta_pre_write(a, n)
            \/ UNCHANGED toolVars
  BY <1>4, <1>10 DEF instrument_store_tmp, instrument_store_const,
     instrument_put_tmp, instrument_put_cnst, ta_pre_read, ta_pre_write, toolVars
<1> QED BY <1>5, <1>6, <1>7, <1>8, <1>9, <1>10 DEF Callback

\* For every guest: the head of the list of temporaries, which is all that
\* tells a safe erasure from the one that corrupts, is NoTmp exactly when no
\* temporary has an entry, and otherwise names one that has.
THEOREM HeadNamesNode == Spec => []HeadIsFirst
<1>1. Init => HeadIsFirst
  BY NoTmpAssumption DEF Init, ToolInit, HeadIsFirst
<1>2. TypeOK /\ HeadIsFirst /\ [Next]_vars => HeadIsFirst'
  BY StepCallsBack, CallbackHead
<1> QED BY <1>1, <1>2, TypeCorrect, PTL DEF Spec
=============================================================================
