------------------------- MODULE GuestThreadsProofs -------------------------
(***************************************************************************)
(* GuestThreads for any number of threads, any code and any bounds: the    *)
(* type invariant, the lock, and what the tool promises across threads.    *)
(***************************************************************************)
EXTENDS GuestThreads, TLAPS

\* What one step of one thread may be.
Step(t) ==
  \/ TakeTurn(t) \/ Yield(t) \/ Translate(t) \/ Run(t)
  \/ \E b \in Block : Discard(t, b)
  \/ PreCall(t) \/ FailInPre(t) \/ Return(t) \/ Interrupted(t)
  \/ Fill(t) \/ Send(t) \/ Fail(t)

\* The last instruction of a block is one of its instructions.
LEMMA FinalInstr == ASSUME NEW b \in Block
                    PROVE  /\ Len(Code[b]) \in Nat \ {0}
                           /\ \A k \in 1..Len(Code[b]) : Code[b][k] \in Instr
                           /\ Final(b) \in Instr
  <1>1. Code[b] \in Seq(Instr) /\ Code[b] # <<>>
    BY CodeAssumption
  <1>2. Len(Code[b]) \in Nat \ {0}
    BY <1>1
  <1> QED BY <1>1, <1>2 DEF Final

\* The flag is a truth value.
LEMMA FlagIsBoolean == ASSUME NEW b, NEW k PROVE Flag(b, k) \in BOOLEAN
  BY DEF Flag

-----------------------------------------------------------------------------
LEMMA TypeInit == Init => TypeOK
  <1> SUFFICES ASSUME Init PROVE TypeOK
    OBVIOUS
  <1>1. cache \in [Block -> Seq(BOOLEAN)] /\ \A b \in Block : Len(cache[b]) = 0
    BY DEF Init
  <1>2. lines \in Seq(Numbers) /\ Len(lines) = 0
    BY DEF Init
  <1>3. pc \in [Thread -> Block]
    BY CodeAssumption DEF Init
  <1>4. number \in [Thread -> Nat] /\ read_n \in Numbers /\ write_n \in 0..MaxWrites
    BY BoundAssumption DEF Init, Numbers
  <1>5. shadow \in Numbers /\ write_n = 0
    BY BoundAssumption DEF Init, Numbers
  <1> QED BY <1>1, <1>2, <1>3, <1>4, <1>5 DEF Init, TypeOK

\* What the hook does to the tool's tables.
LEMMA HookTypes == ASSUME TypeOK, NEW t \in Thread, Hook(t)
                   PROVE  /\ read_n' \in Numbers /\ read_n' \in Nat /\ shadow' \in Numbers
                          /\ write_n' \in 0..MaxWrites
                          /\ lines' \in Seq(Numbers) /\ Len(lines') = write_n'
  <1>1. CASE trace /\ Op(t) = "read"
    <2>1. /\ read_n' = read_n + 1 /\ shadow' = read_n + 1 /\ read_n < MaxReads
          /\ write_n' = write_n /\ lines' = lines
      BY <1>1 DEF Hook
    <2>2. read_n \in 0..MaxReads
      BY DEF TypeOK, Numbers
    <2>3. read_n + 1 \in 0..MaxReads /\ read_n + 1 \in Nat
      BY <2>1, <2>2, BoundAssumption
    <2> QED BY <2>1, <2>3 DEF TypeOK, Numbers
  <1>2. CASE trace /\ Op(t) = "write"
    <2>1. /\ write_n' = write_n + 1 /\ lines' = Append(lines, shadow)
          /\ write_n < MaxWrites /\ read_n' = read_n /\ shadow' = shadow
      BY <1>2 DEF Hook
    <2>2. lines \in Seq(Numbers) /\ shadow \in Numbers /\ Len(lines) = write_n
      BY DEF TypeOK
    <2>3. Append(lines, shadow) \in Seq(Numbers) /\ Len(Append(lines, shadow)) = write_n + 1
      BY <2>2
    <2>4. write_n + 1 \in 0..MaxWrites /\ read_n \in Nat
      BY <2>1, BoundAssumption DEF TypeOK, Numbers
    <2> QED BY <2>1, <2>3, <2>4 DEF TypeOK
  <1>3. CASE ~trace \/ Op(t) \notin {"read", "write"}
    BY <1>3, BoundAssumption DEF Hook, TypeOK, Numbers
  <1> QED BY <1>1, <1>2, <1>3

LEMMA TypeStep == ASSUME TypeOK, NEW t \in Thread, Step(t) PROVE TypeOK'
  <1> USE DEF toolVars, ghostVars, Causes
  <1>1. CASE TakeTurn(t)
    BY <1>1 DEF TakeTurn, Acquire, TypeOK
  <1>2. CASE Yield(t)
    BY <1>2 DEF Yield, Release, TypeOK
  <1>3. CASE Translate(t)
    <2> DEFINE b == pc[t]
               new == [k \in 1..Len(Code[b]) |->
                         Code[b][k].op = "store" /\ Flag(b, k)]
    <2>1. b \in Block /\ Len(Code[b]) \in Nat
      BY FinalInstr DEF TypeOK
    <2>2. new \in Seq(BOOLEAN) /\ Len(new) = Len(Code[b])
      BY <2>1, FlagIsBoolean
    <2>3. cache' = [cache EXCEPT ![b] = new]
      BY <1>3 DEF Translate
    <2>4. /\ cache' \in [Block -> Seq(BOOLEAN)]
          /\ \A c \in Block : Len(cache'[c]) \in {0, Len(Code[c])}
      <3> HIDE DEF new
      <3> QED BY <2>1, <2>2, <2>3 DEF TypeOK
    <2>5. trace' \in BOOLEAN /\ exitSeen' \in BOOLEAN
      BY <1>3, FlagIsBoolean DEF Translate, TypeOK
    <2> QED BY <1>3, <2>4, <2>5 DEF Translate, TypeOK
  <1>4. CASE Run(t)
    <2>1. pc' \in [Thread -> Block] /\ call' \in [Thread -> {"none", "pre", "kernel", "complete"}]
      BY <1>4, CodeAssumption DEF Run, Goto, Phase, TypeOK
    <2>2. PICK seen, unseen : Stored(seen, unseen)
      BY <1>4 DEF Run
    <2>3. /\ byte' \in Nat \cup {Unnumbered} /\ shadow' \in Numbers
          /\ marker' \in Thread \cup {NoThread} /\ doubt' \in Causes \cup {"none"}
          /\ calm' \in [Thread -> BOOLEAN]
      BY <2>2, BoundAssumption DEF Stored, Nobody, TypeOK, Numbers
    <2> QED BY <1>4, <2>1, <2>3 DEF Run, TypeOK
  <1>5. ASSUME NEW b \in Block, Discard(t, b) PROVE TypeOK'
    <2>1. <<>> \in Seq(BOOLEAN) /\ Len(<<>>) = 0
      OBVIOUS
    <2>2. cache' \in [Block -> Seq(BOOLEAN)]
      BY <1>5, <2>1 DEF Discard, TypeOK
    <2>3. \A c \in Block : Len(cache'[c]) \in {0, Len(Code[c])}
      BY <1>5, <2>1 DEF Discard, TypeOK
    <2> QED BY <1>5, <2>2, <2>3 DEF Discard, TypeOK
  <1>6. CASE PreCall(t)
    <2>1. number' \in [Thread -> Nat]
      BY <1>6, HookTypes, BoundAssumption DEF PreCall, TypeOK
    <2>2. calm' \in [Thread -> BOOLEAN] /\ marker' \in Thread \cup {NoThread}
      BY <1>6 DEF PreCall, Nobody, Numbered, TypeOK
    <2>3. /\ status' \in [Thread -> {"runnable", "yielding", "waitsys"}]
          /\ call' \in [Thread -> {"none", "pre", "kernel", "complete"}]
          /\ running' = NoThread
      BY <1>6 DEF PreCall, Release, Phase, TypeOK
    <2> QED BY <1>6, <2>1, <2>2, <2>3, HookTypes DEF PreCall, TypeOK
  <1>7. CASE FailInPre(t)
    <2>1. pc' \in [Thread -> Block] /\ call' \in [Thread -> {"none", "pre", "kernel", "complete"}]
      BY <1>7, CodeAssumption DEF FailInPre, Goto, Phase, TypeOK
    <2>2. /\ calm' \in [Thread -> BOOLEAN] /\ marker' \in Thread \cup {NoThread}
          /\ doubt' \in Causes \cup {"none"}
      BY <1>7 DEF FailInPre, Nobody, TypeOK
    <2> QED BY <1>7, <2>1, <2>2, HookTypes DEF FailInPre, TypeOK
  <1>8. CASE Return(t)
    BY <1>8, CodeAssumption DEF Return, Acquire, Goto, Phase, TypeOK
  <1>9. CASE Interrupted(t)
    <2>1. pc' \in [Thread -> Block]
      BY <1>9, CodeAssumption, BackAssumption DEF Interrupted, Goto, TypeOK
    <2>2. number' \in [Thread -> Nat]
      BY <1>9, BoundAssumption DEF Interrupted, Numbers, TypeOK
    <2> QED BY <1>9, <2>1, <2>2 DEF Interrupted, Acquire, Phase, Unfilled, TypeOK
  <1>10. ASSUME Done(t)
         PROVE  /\ number' \in [Thread -> Nat]
                /\ call' \in [Thread -> {"none", "pre", "kernel", "complete"}]
    BY <1>10, BoundAssumption DEF Done, Phase, Numbers, TypeOK
  <1>11. CASE Fill(t)
    <2>1. byte' \in Nat \cup {Unnumbered}
      BY <1>11 DEF Fill, TypeOK
    <2> QED BY <1>10, <1>11, <2>1 DEF Fill, Done, Nobody, TypeOK
  <1>12. CASE Send(t)
    BY <1>10, <1>12 DEF Send, Done, TypeOK
  <1>13. CASE Fail(t)
    BY <1>10, <1>13 DEF Fail, Done, Unfilled, TypeOK
  <1> QED BY <1>1, <1>2, <1>3, <1>4, <1>5, <1>6, <1>7, <1>8, <1>9,
             <1>11, <1>12, <1>13 DEF Step

LEMMA TypeStutter == TypeOK /\ UNCHANGED vars => TypeOK'
  BY DEF TypeOK, vars, toolVars, coreVars, ghostVars

-----------------------------------------------------------------------------
(* The lock. *)
LEMMA OneInit == Init => OneRuns
  BY ThreadAssumption DEF Init, OneRuns

LEMMA OneStep == ASSUME TypeOK, OneRuns, NEW t \in Thread, Step(t) PROVE OneRuns'
  <1> USE ThreadAssumption DEF TypeOK, OneRuns
  <1>1. CASE TakeTurn(t)
    BY <1>1 DEF TakeTurn, Acquire
  <1>2. CASE Yield(t)
    BY <1>2 DEF Yield, Release, InLoop
  <1>3. CASE Translate(t)
    BY <1>3 DEF Translate
  <1>4. CASE Run(t)
    <2>1. call' = call \/ call' = [call EXCEPT ![t] = "pre"]
      BY <1>4 DEF Run, Phase
    <2> QED BY <1>4, <2>1 DEF Run, InLoop
  <1>5. ASSUME NEW b \in Block, Discard(t, b) PROVE OneRuns'
    BY <1>5 DEF Discard
  <1>6. CASE PreCall(t)
    BY <1>6 DEF PreCall, Release, Phase
  <1>7. CASE FailInPre(t)
    BY <1>7 DEF FailInPre, Phase
  <1>8. CASE Return(t)
    BY <1>8 DEF Return, Acquire, Phase
  <1>9. CASE Interrupted(t)
    BY <1>9 DEF Interrupted, Acquire, Phase
  <1>10. CASE Done(t)
    BY <1>10 DEF Done, Phase
  <1>11. CASE Fill(t) \/ Send(t) \/ Fail(t)
    BY <1>10, <1>11 DEF Fill, Send, Fail
  <1> QED BY <1>1, <1>2, <1>3, <1>4, <1>5, <1>6, <1>7, <1>8, <1>9, <1>11 DEF Step

LEMMA OneStutter == OneRuns /\ UNCHANGED vars => OneRuns'
  BY DEF OneRuns, vars, coreVars

-----------------------------------------------------------------------------
(* The byte and its entry. *)
\* A read that marked the entry is still in the kernel, and the entry has its
\* number.
Marked ==
  marker # NoThread => /\ call[marker] = "kernel" /\ Op(marker) = "read"
                       /\ number[marker] = shadow /\ shadow > 0

\* A calm write is in the kernel, and its line names the read of the byte.
Calm ==
  \A t \in Thread :
    calm[t] => /\ call[t] = "kernel" /\ Op(t) = "write"
               /\ number[t] \in 1..write_n /\ lines[number[t]] = byte

\* What was sent has a line, the right one.
Sent == \A s \in sent : s.num \in 1..write_n /\ lines[s.num] = s.data

Data == Marked /\ Calm /\ Sent /\ InStep

LEMMA DataInit == Init => Data
  BY DEF Init, Data, Marked, Calm, Sent, InStep

\* A step that touches neither byte, entry, lines nor calls in the kernel.
LEMMA DataKept ==
  ASSUME Data, TypeOK,
         UNCHANGED <<byte, shadow, marker, doubt, calm, sent, number, write_n, lines>>,
         \A u \in Thread : call[u] = "kernel" => call'[u] = "kernel" /\ pc'[u] = pc[u]
  PROVE  Data'
  <1>1. Marked'
    BY DEF Data, Marked, Op, TypeOK
  <1>2. Calm'
    BY DEF Data, Calm, Op
  <1>3. Sent' /\ InStep'
    BY DEF Data, Sent, InStep
  <1> QED BY <1>1, <1>2, <1>3 DEF Data

\* A store: both become 0, or the byte alone, and that is noted.
LEMMA DataStored ==
  ASSUME Data, TypeOK, NEW seen, NEW unseen, Stored(seen, unseen),
         UNCHANGED <<sent, number, write_n, lines>>,
         \A u \in Thread : call[u] = "kernel" => call'[u] = "kernel" /\ pc'[u] = pc[u]
  PROVE  Data'
  <1>1. CASE seen \cup unseen = {}
    <2>1. seen = {} /\ unseen = {}
      BY <1>1
    <2>2. UNCHANGED <<byte, shadow, marker, calm>>
      BY <2>1 DEF Stored
    <2>3. doubt' = doubt
      BY <2>1 DEF Stored, TypeOK
    <2> QED BY <2>2, <2>3, DataKept
  <1>2. CASE seen \cup unseen # {}
    <2>1. calm' = Nobody /\ byte' = 0
      BY <1>2 DEF Stored
    <2>2. Calm'
      BY <2>1 DEF Calm, Nobody
    <2>3. Sent'
      BY DEF Data, Sent
    <2>4. CASE seen # {}
      <3>1. marker' = NoThread /\ shadow' = 0
        BY <2>4 DEF Stored
      <3>2. Marked' /\ InStep'
        BY <2>1, <3>1 DEF Marked, InStep
      <3> QED BY <2>2, <2>3, <3>2 DEF Data
    <2>5. CASE seen = {}
      <3>1. marker' = marker /\ shadow' = shadow /\ doubt' # "none"
        BY <1>2, <2>5 DEF Stored
      <3>2. Marked' /\ InStep'
        BY <3>1 DEF Data, Marked, InStep, Op, TypeOK
      <3> QED BY <2>2, <2>3, <3>2 DEF Data
    <2> QED BY <2>4, <2>5
  <1> QED BY <1>1, <1>2

\* The hook, and the call goes on to the kernel.
LEMMA DataPreCall ==
  ASSUME Data, TypeOK, NEW t \in Thread, PreCall(t) PROVE Data'
  <1> USE DEF PreCall
  <1>1. /\ call' = [call EXCEPT ![t] = "kernel"] /\ pc' = pc /\ byte' = byte
        /\ doubt' = doubt /\ sent' = sent /\ call[t] = "pre"
    BY DEF Phase
  <1>2. /\ call'[t] = "kernel" /\ Op(t)' = Op(t)
        /\ \A u \in Thread \ {t} : call'[u] = call[u] /\ Op(u)' = Op(u)
    BY <1>1 DEF Op, TypeOK
  <1>3. CASE Numbered(t, "read")
    <2>1. /\ shadow' = read_n + 1 /\ read_n' = read_n + 1 /\ read_n \in Nat
          /\ number' = [number EXCEPT ![t] = read_n + 1]
          /\ marker' = t /\ calm' = Nobody /\ write_n' = write_n /\ lines' = lines
      BY <1>3, BoundAssumption DEF Hook, Numbered, TypeOK, Numbers
    <2>2. Marked' /\ InStep'
      BY <1>2, <1>3, <2>1, ThreadAssumption DEF Marked, InStep, Numbered, TypeOK
    <2>3. Calm' /\ Sent'
      BY <1>1, <2>1 DEF Data, Calm, Sent, Nobody
    <2> QED BY <2>2, <2>3 DEF Data
  <1>4. CASE Numbered(t, "write")
    <2>1. /\ write_n' = write_n + 1 /\ lines' = Append(lines, shadow)
          /\ shadow' = shadow /\ marker' = marker
          /\ number' = [number EXCEPT ![t] = write_n + 1]
          /\ calm' = [calm EXCEPT ![t] = doubt = "none" /\ marker = NoThread]
      BY <1>4 DEF Hook, Numbered
    <2>2. /\ lines \in Seq(Numbers) /\ Len(lines) = write_n /\ write_n \in Nat
          /\ shadow \in Numbers
      BY BoundAssumption DEF TypeOK
    <2>3. /\ lines'[write_n + 1] = shadow
          /\ \A n \in 1..write_n : lines'[n] = lines[n] /\ n \in 1..write_n'
          /\ write_n + 1 \in 1..write_n'
      BY <2>1, <2>2
    <2>4. Marked' /\ InStep'
      BY <1>1, <1>2, <2>1 DEF Data, Marked, InStep, TypeOK
    <2>5. Sent'
      BY <1>1, <2>3 DEF Data, Sent
    <2>6. ASSUME NEW u \in Thread, calm'[u]
          PROVE  /\ call'[u] = "kernel" /\ Op(u)' = "write"
                 /\ number'[u] \in 1..write_n' /\ lines'[number'[u]] = byte'
      <3>1. CASE u = t
        <4>1. doubt = "none" /\ marker = NoThread
          BY <2>1, <2>6, <3>1 DEF TypeOK
        <4>2. shadow = byte
          BY <4>1 DEF Data, InStep
        <4>3. number'[u] = write_n + 1
          BY <2>1, <3>1 DEF TypeOK
        <4> QED BY <1>1, <1>2, <1>4, <2>3, <3>1, <4>2, <4>3 DEF Numbered
      <3>2. CASE u # t
        <4>1. calm[u] /\ number'[u] = number[u]
          BY <2>1, <2>6, <3>2 DEF TypeOK
        <4> QED BY <1>1, <1>2, <2>3, <3>2, <4>1 DEF Data, Calm
      <3> QED BY <3>1, <3>2
    <2>7. Calm'
      BY <2>6 DEF Calm, Op
    <2> QED BY <2>4, <2>5, <2>7 DEF Data
  <1>5. CASE ~Numbered(t, "read") /\ ~Numbered(t, "write")
    <2>1. /\ UNCHANGED <<read_n, write_n, shadow, lines>>
          /\ marker' = marker /\ number' = [number EXCEPT ![t] = 0]
          /\ calm' = [calm EXCEPT ![t] = FALSE]
      BY <1>5 DEF Hook, Numbered
    <2>2. Marked' /\ InStep' /\ Sent'
      BY <1>1, <1>2, <2>1 DEF Data, Marked, InStep, Sent, TypeOK
    <2>3. Calm'
      BY <1>1, <1>2, <2>1 DEF Data, Calm, TypeOK, Op
    <2> QED BY <2>2, <2>3 DEF Data
  <1> QED BY <1>3, <1>4, <1>5

LEMMA DataFailInPre ==
  ASSUME Data, TypeOK, NEW t \in Thread, FailInPre(t) PROVE Data'
  <1>1. /\ call' = [call EXCEPT ![t] = "none"] /\ byte' = byte /\ call[t] = "pre"
        /\ sent' = sent /\ number' = number
    BY DEF FailInPre, Phase
  <1>2. \A u \in Thread \ {t} : call'[u] = call[u] /\ Op(u)' = Op(u)
    BY DEF FailInPre, Phase, Goto, Op, TypeOK
  <1>3. CASE Numbered(t, "read")
    <2>1. /\ marker' = NoThread /\ doubt' # "none" /\ calm' = Nobody
          /\ write_n' = write_n /\ lines' = lines
      BY <1>3 DEF FailInPre, Hook, Numbered
    <2> QED BY <1>1, <2>1 DEF Data, Marked, InStep, Calm, Sent, Nobody
  <1>4. CASE ~Numbered(t, "read")
    <2>1. /\ shadow' = shadow /\ marker' = marker /\ doubt' = doubt /\ calm' = calm
      BY <1>4 DEF FailInPre, Hook, Numbered
    <2>2. Marked' /\ InStep'
      BY <1>1, <1>2, <2>1 DEF Data, Marked, InStep, TypeOK
    <2>3. \A n \in 1..write_n : n \in 1..write_n' /\ lines'[n] = lines[n]
      <3>1. CASE Numbered(t, "write")
        <4>1. write_n' = write_n + 1 /\ lines' = Append(lines, shadow)
          BY <3>1 DEF FailInPre, Hook, Numbered
        <4>2. lines \in Seq(Numbers) /\ Len(lines) = write_n /\ write_n \in Nat
          BY BoundAssumption DEF TypeOK
        <4> QED BY <4>1, <4>2
      <3>2. CASE ~Numbered(t, "write")
        BY <1>4, <3>2 DEF FailInPre, Hook, Numbered
      <3> QED BY <3>1, <3>2
    <2>4. Calm'
      <3>1. \A u \in Thread : calm[u] => u # t
        BY <1>1 DEF Data, Calm
      <3> QED BY <1>1, <1>2, <2>1, <2>3, <3>1 DEF Data, Calm, Op
    <2>5. Sent'
      BY <1>1, <2>3 DEF Data, Sent
    <2> QED BY <2>2, <2>4, <2>5 DEF Data
  <1> QED BY <1>3, <1>4

\* A call of t ends: nothing is said of it any more.
LEMMA DataUnfilled ==
  ASSUME Data, TypeOK, NEW t \in Thread, Unfilled(t), UNCHANGED <<shadow, write_n, lines>>,
         number' = [number EXCEPT ![t] = 0],
         \A u \in Thread \ {t} : call'[u] = call[u] /\ pc'[u] = pc[u]
  PROVE  Data'
  <1>1. \A u \in Thread \ {t} : number'[u] = number[u] /\ Op(u)' = Op(u)
    BY DEF Op, TypeOK
  <1>2. Marked' /\ InStep'
    BY <1>1, ThreadAssumption DEF Data, Marked, InStep, Unfilled, TypeOK
  <1>3. calm' = [calm EXCEPT ![t] = FALSE] /\ byte' = byte /\ sent' = sent
    BY DEF Unfilled
  <1>4. Calm'
    BY <1>1, <1>3 DEF Data, Calm, TypeOK, Op
  <1>5. Sent'
    BY <1>3 DEF Data, Sent
  <1> QED BY <1>2, <1>4, <1>5 DEF Data

LEMMA DataFill ==
  ASSUME Data, TypeOK, NEW t \in Thread, Fill(t) PROVE Data'
  <1>1. /\ call' = [call EXCEPT ![t] = "complete"] /\ pc' = pc
        /\ shadow' = shadow /\ write_n' = write_n /\ lines' = lines
        /\ number' = [number EXCEPT ![t] = 0] /\ calm' = Nobody /\ sent' = sent
    BY DEF Fill, Done, Phase, toolVars
  <1>2. Calm' /\ Sent'
    BY <1>1 DEF Data, Calm, Sent, Nobody
  <1>3. CASE marker = t /\ number[t] > 0
    <2>1. byte' = number[t] /\ marker' = NoThread
      BY <1>3 DEF Fill
    <2>2. number[t] = shadow
      BY <1>3, ThreadAssumption DEF Data, Marked
    <2> QED BY <1>1, <1>2, <2>1, <2>2 DEF Data, Marked, InStep
  <1>4. CASE ~(marker = t /\ number[t] > 0)
    <2>1. doubt' # "none" /\ marker' = marker
      BY <1>4 DEF Fill
    <2>2. marker # t
      BY <1>4, ThreadAssumption DEF Data, Marked
    <2>3. Marked'
      BY <1>1, <2>1, <2>2 DEF Data, Marked, Op, TypeOK
    <2> QED BY <1>2, <2>1, <2>3 DEF Data, InStep
  <1> QED BY <1>3, <1>4

LEMMA DataSend ==
  ASSUME Data, TypeOK, NEW t \in Thread, Send(t) PROVE Data'
  <1>1. /\ call' = [call EXCEPT ![t] = "complete"] /\ pc' = pc
        /\ shadow' = shadow /\ write_n' = write_n /\ lines' = lines
        /\ number' = [number EXCEPT ![t] = 0]
        /\ calm' = [calm EXCEPT ![t] = FALSE]
        /\ UNCHANGED <<byte, marker, doubt>> /\ Op(t) = "write"
    BY DEF Send, Done, Phase, toolVars
  <1>2. Marked' /\ InStep'
    BY <1>1 DEF Data, Marked, InStep, Op, TypeOK
  <1>3. Calm'
    BY <1>1 DEF Data, Calm, Op, TypeOK
  <1>4. ASSUME NEW s \in sent' PROVE s.num \in 1..write_n' /\ lines'[s.num] = s.data
    <2>1. CASE s \in sent
      BY <1>1, <2>1 DEF Data, Sent
    <2>2. CASE s \notin sent
      <3>1. s = [num |-> number[t], data |-> byte] /\ calm[t]
        BY <1>4, <2>2 DEF Send
      <3> QED BY <1>1, <3>1 DEF Data, Calm
    <2> QED BY <2>1, <2>2
  <1> QED BY <1>2, <1>3, <1>4 DEF Data, Sent

LEMMA DataStep ==
  ASSUME Data, TypeOK, OneRuns, NEW t \in Thread, Step(t) PROVE Data'
  <1> USE DEF toolVars, ghostVars
  <1>1. CASE TakeTurn(t)
    BY <1>1, DataKept DEF TakeTurn
  <1>2. CASE Yield(t)
    BY <1>2, DataKept DEF Yield
  <1>3. CASE Translate(t)
    BY <1>3, DataKept DEF Translate
  <1>4. CASE Run(t)
    <2>1. PICK seen, unseen : Stored(seen, unseen)
      BY <1>4 DEF Run
    <2>2. \/ call' = call /\ (\E n \in Starts : pc' = [pc EXCEPT ![t] = n])
          \/ call' = [call EXCEPT ![t] = "pre"] /\ pc' = pc
      BY <1>4 DEF Run, Phase, Goto
    <2>3. \A u \in Thread : call[u] = "kernel" => call'[u] = "kernel" /\ pc'[u] = pc[u]
      BY <1>4, <2>2 DEF Run, InLoop, TypeOK
    <2> QED BY <1>4, <2>1, <2>3, DataStored DEF Run
  <1>5. ASSUME NEW b \in Block, Discard(t, b) PROVE Data'
    BY <1>5, DataKept DEF Discard
  <1>6. CASE PreCall(t)
    BY <1>6, DataPreCall
  <1>7. CASE FailInPre(t)
    BY <1>7, DataFailInPre
  <1>8. CASE Return(t)
    <2>1. \A u \in Thread : call[u] = "kernel" => call'[u] = "kernel" /\ pc'[u] = pc[u]
      BY <1>8 DEF Return, Phase, Goto, TypeOK
    <2> QED BY <1>8, <2>1, DataKept DEF Return
  <1>9. CASE Interrupted(t)
    <2>1. \A u \in Thread \ {t} : call'[u] = call[u] /\ pc'[u] = pc[u]
      BY <1>9 DEF Interrupted, Phase, Goto, TypeOK
    <2> QED BY <1>9, <2>1, DataUnfilled DEF Interrupted
  <1>10. CASE Fill(t)
    BY <1>10, DataFill
  <1>11. CASE Send(t)
    BY <1>11, DataSend
  <1>12. CASE Fail(t)
    <2>1. \A u \in Thread \ {t} : call'[u] = call[u] /\ pc'[u] = pc[u]
      BY <1>12 DEF Fail, Done, Phase, TypeOK
    <2> QED BY <1>12, <2>1, DataUnfilled DEF Fail, Done
  <1> QED BY <1>1, <1>2, <1>3, <1>4, <1>5, <1>6, <1>7, <1>8, <1>9,
             <1>10, <1>11, <1>12 DEF Step

LEMMA DataStutter == Data /\ TypeOK /\ UNCHANGED vars => Data'
  <1> SUFFICES ASSUME Data, TypeOK, UNCHANGED vars PROVE Data'
    OBVIOUS
  <1> QED BY DataKept DEF vars, toolVars, coreVars, ghostVars

-----------------------------------------------------------------------------
(* The numbering of the calls of read. *)
\* Once a block that enters read is translated, or a thread is on its way to a
\* call there, the flag is on and stays, until an entry of exit is translated.
FlagOn ==
  ~exitSeen =>
    /\ \A b \in ReadBlocks : cache[b] # <<>> => trace
    /\ \A t \in Thread :
         /\ pc[t] \in InRead \ ReadBlocks => trace
         /\ pc[t] \in InRead /\ call[t] # "none" => trace

Reads == FlagOn /\ NoReadMissed

LEMMA ReadsInit == Init => Reads
  <1> SUFFICES ASSUME Init PROVE Reads
    OBVIOUS
  <1>1. \A t \in Thread : pc[t] \notin InRead \ ReadBlocks
    BY DEF Init, InRead
  <1>2. \A b \in ReadBlocks : cache[b] = <<>>
    BY DEF Init, ReadBlocks
  <1> QED BY <1>1, <1>2 DEF Init, Reads, FlagOn, NoReadMissed

\* Translating without an exit turns the flag on or leaves it.
LEMMA FlagRises ==
  ASSUME NEW b \in Block, NoExit(b, 1, Len(Code[b]))
  PROVE  /\ trace => Flag(b, Len(Code[b]))
         /\ b \in ReadBlocks => Flag(b, Len(Code[b]))
  <1>1. trace => Flag(b, Len(Code[b]))
    BY DEF Flag
  <1>2. ASSUME b \in ReadBlocks PROVE Flag(b, Len(Code[b]))
    <2>1. PICK k \in 1..Len(Code[b]) : Code[b][k].entry = "read"
      BY <1>2 DEF ReadBlocks
    <2>2. NoExit(b, k + 1, Len(Code[b]))
      BY <2>1, FinalInstr DEF NoExit
    <2> QED BY <2>1, <2>2 DEF Flag
  <1> QED BY <1>1, <1>2

\* A jump of t to where it may jump; the flag and the translations stay.
LEMMA ReadsJump ==
  ASSUME Reads, TypeOK, NEW t \in Thread, NEW n \in Starts, Goto(t, n), Phase(t, "none"),
         UNCHANGED <<trace, exitSeen>>,
         \A b \in Block : cache'[b] = cache[b],
         \A u \in Thread \ {t} : number'[u] = number[u]
  PROVE  Reads'
  <1>1. pc'[t] = n /\ call'[t] = "none" /\ n \notin InRead \ ReadBlocks
    BY DEF Goto, Phase, TypeOK, InRead
  <1>2. \A u \in Thread \ {t} : pc'[u] = pc[u] /\ call'[u] = call[u]
    BY DEF Goto, Phase, TypeOK
  <1>3. \A b \in ReadBlocks : cache'[b] = cache[b]
    BY DEF ReadBlocks
  <1>4. ReadBlocks' = ReadBlocks /\ InRead' = InRead
    BY DEF ReadBlocks, InRead, Final
  <1>5. FlagOn'
    BY <1>1, <1>2, <1>3, <1>4 DEF Reads, FlagOn
  <1>6. NoReadMissed'
    BY <1>1, <1>2, <1>4 DEF Reads, NoReadMissed
  <1> QED BY <1>5, <1>6 DEF Reads

LEMMA ReadsStep ==
  ASSUME Reads, TypeOK, OneRuns, NEW t \in Thread, Step(t) PROVE Reads'
  <1> USE DEF toolVars, ghostVars
  <1>a. ReadBlocks' = ReadBlocks /\ InRead' = InRead
    BY DEF ReadBlocks, InRead, Final
  <1>1. CASE TakeTurn(t)
    BY <1>1, <1>a DEF TakeTurn, Reads, FlagOn, NoReadMissed
  <1>2. CASE Yield(t)
    BY <1>2, <1>a DEF Yield, Reads, FlagOn, NoReadMissed
  <1>3. CASE Translate(t)
    <2> DEFINE b == pc[t]
    <2>1. b \in Block /\ pc' = pc /\ call' = call /\ number' = number
      BY <1>3 DEF Translate, TypeOK
    <2>2. CASE ~NoExit(b, 1, Len(Code[b]))
      <3>1. exitSeen'
        BY <1>3, <2>2 DEF Translate
      <3> QED BY <3>1 DEF Reads, FlagOn, NoReadMissed
    <2>3. CASE NoExit(b, 1, Len(Code[b]))
      <3>1. exitSeen' = exitSeen
        BY <1>3, <2>3 DEF Translate, TypeOK
      <3>2. /\ trace => trace'
            /\ b \in ReadBlocks => trace'
        BY <1>3, <2>1, <2>3, FlagRises DEF Translate
      <3>3. \A c \in ReadBlocks : c # b => cache'[c] = cache[c]
        BY <1>3 DEF Translate, TypeOK, ReadBlocks
      <3>4. FlagOn'
        BY <1>a, <2>1, <3>1, <3>2, <3>3 DEF Reads, FlagOn
      <3>5. NoReadMissed'
        BY <1>a, <2>1, <3>1 DEF Reads, NoReadMissed
      <3> QED BY <3>4, <3>5 DEF Reads
    <2> QED BY <2>2, <2>3
  <1>4. CASE Run(t)
    <2>1. /\ cache' = cache /\ trace' = trace /\ number' = number
          /\ exitSeen' = exitSeen /\ call[t] = "none" /\ cache[pc[t]] # <<>>
      BY <1>4 DEF Run, InLoop
    <2>2. CASE call' = [call EXCEPT ![t] = "pre"] /\ pc' = pc
      <3>1. call'[t] = "pre" /\ \A u \in Thread \ {t} : call'[u] = call[u]
        BY <2>2 DEF TypeOK
      <3>2. pc[t] \in InRead /\ ~exitSeen => trace
        BY <2>1 DEF Reads, FlagOn
      <3>3. FlagOn'
        BY <1>a, <2>1, <2>2, <3>1, <3>2 DEF Reads, FlagOn
      <3>4. NoReadMissed'
        BY <1>a, <2>1, <2>2, <3>1 DEF Reads, NoReadMissed
      <3> QED BY <3>3, <3>4 DEF Reads
    <2>3. CASE call' = call /\ \E n \in Starts : Goto(t, n)
      <3>1. Phase(t, "none")
        BY <2>1, <2>3 DEF Phase, TypeOK
      <3> QED BY <2>1, <2>3, <3>1, ReadsJump
    <2> QED BY <1>4, <2>2, <2>3 DEF Run, Phase
  <1>5. ASSUME NEW b \in Block, Discard(t, b) PROVE Reads'
    <2>1. \A c \in ReadBlocks : cache'[c] # <<>> => cache[c] # <<>>
      BY <1>5 DEF Discard, TypeOK, ReadBlocks
    <2> QED BY <1>5, <1>a, <2>1 DEF Discard, Reads, FlagOn, NoReadMissed
  <1>6. CASE PreCall(t)
    <2>1. /\ cache' = cache /\ trace' = trace /\ exitSeen' = exitSeen /\ pc' = pc
          /\ call[t] = "pre"
      BY <1>6 DEF PreCall
    <2>2. /\ call'[t] = "kernel"
          /\ \A u \in Thread \ {t} : call'[u] = call[u] /\ number'[u] = number[u]
      BY <1>6 DEF PreCall, Phase, TypeOK
    <2>3. FlagOn'
      BY <1>a, <2>1, <2>2 DEF Reads, FlagOn
    <2>4. ASSUME pc[t] \in InRead, ~exitSeen PROVE number'[t] > 0
      <3>1. Op(t) = "read"
        <4>1. CASE pc[t] \in ReadBlocks
          BY <4>1 DEF ReadBlocks, Op
        <4>2. CASE pc[t] \notin ReadBlocks
          <5>1. PICK c \in ReadBlocks : Back[c] = pc[t]
            BY <2>4, <4>2 DEF InRead
          <5>2. c \in Block /\ Final(c).op = "read" /\ c # pc[t]
            BY <4>2 DEF ReadBlocks
          <5>3. Code[pc[t]] = <<[Final(c) EXCEPT !.entry = "none"]>>
            BY <5>1, <5>2, BackAssumption
          <5> QED BY <5>2, <5>3, FinalInstr DEF Op, Final, Instr
        <4> QED BY <4>1, <4>2
      <3>2. Numbered(t, "read")
        BY <2>1, <2>4, <3>1 DEF Reads, FlagOn, Numbered
      <3>3. number'[t] = read_n' /\ read_n' = read_n + 1
        BY <1>6, <3>2 DEF PreCall, Hook, Numbered, TypeOK
      <3> QED BY <3>3, BoundAssumption DEF TypeOK, Numbers
    <2>5. NoReadMissed'
      BY <1>a, <2>1, <2>2, <2>4 DEF Reads, NoReadMissed
    <2> QED BY <2>3, <2>5 DEF Reads
  <1>7. CASE FailInPre(t)
    BY <1>7, ReadsJump DEF FailInPre
  <1>8. CASE Return(t)
    BY <1>8, ReadsJump DEF Return
  <1>9. CASE Interrupted(t)
    <2>1. /\ cache' = cache /\ trace' = trace /\ exitSeen' = exitSeen
          /\ call[t] = "kernel" /\ Phase(t, "none")
      BY <1>9 DEF Interrupted
    <2>2. \A u \in Thread \ {t} : number'[u] = number[u]
      BY <1>9 DEF Interrupted, TypeOK
    <2>3. CASE \E n \in Starts : Goto(t, n)
      BY <2>1, <2>2, <2>3, ReadsJump
    <2>4. CASE Goto(t, Back[pc[t]])
      <3>1. pc'[t] = Back[pc[t]] /\ call'[t] = "none"
        BY <2>1, <2>4 DEF Goto, Phase, TypeOK
      <3>2. \A u \in Thread \ {t} : pc'[u] = pc[u] /\ call'[u] = call[u]
        BY <2>1, <2>4 DEF Goto, Phase, TypeOK
      <3>3. Back[pc[t]] \in InRead \ ReadBlocks => pc[t] \in InRead
        <4>1. pc[t] \in Block
          BY DEF TypeOK
        <4> QED BY <4>1 DEF InRead
      <3>4. FlagOn'
        BY <1>a, <2>1, <3>1, <3>2, <3>3 DEF Reads, FlagOn
      <3>5. NoReadMissed'
        BY <1>a, <2>1, <2>2, <3>1, <3>2 DEF Reads, NoReadMissed
      <3> QED BY <3>4, <3>5 DEF Reads
    <2> QED BY <1>9, <2>3, <2>4 DEF Interrupted
  <1>10. ASSUME Done(t) PROVE Reads'
    <2>1. /\ call[t] = "kernel" /\ call'[t] = "complete"
          /\ \A u \in Thread \ {t} : call'[u] = call[u] /\ number'[u] = number[u]
      BY <1>10 DEF Done, Phase, TypeOK
    <2> QED BY <1>10, <1>a, <2>1 DEF Done, Reads, FlagOn, NoReadMissed
  <1>11. CASE Fill(t) \/ Send(t) \/ Fail(t)
    BY <1>10, <1>11 DEF Fill, Send, Fail
  <1> QED BY <1>1, <1>2, <1>3, <1>4, <1>5, <1>6, <1>7, <1>8, <1>9, <1>11 DEF Step

LEMMA ReadsStutter == Reads /\ UNCHANGED vars => Reads'
  BY DEF Reads, FlagOn, NoReadMissed, ReadBlocks, InRead, Final, vars, toolVars,
         coreVars, ghostVars

-----------------------------------------------------------------------------
IInv == TypeOK /\ OneRuns /\ Data /\ Reads

LEMMA Inductive == Spec => []IInv
  <1>1. Init => IInv
    BY TypeInit, OneInit, DataInit, ReadsInit DEF IInv
  <1>2. IInv /\ [Next]_vars => IInv'
    <2> SUFFICES ASSUME IInv, [Next]_vars PROVE IInv'
      OBVIOUS
    <2>1. CASE UNCHANGED vars
      BY <2>1, TypeStutter, OneStutter, DataStutter, ReadsStutter DEF IInv
    <2>2. CASE Next
      <3>1. PICK t \in Thread : Step(t)
        BY <2>2 DEF Next, Step
      <3> QED BY <3>1, TypeStep, OneStep, DataStep, ReadsStep DEF IInv
    <2> QED BY <2>1, <2>2
  <1> QED BY <1>1, <1>2, PTL DEF Spec

\* The state has its type, whatever the threads do.
THEOREM TypeCorrect == Spec => []TypeOK
  BY Inductive, PTL DEF IInv

\* The tool's tables have one user at a time: the_BigLock is what makes its
\* unlocked globals safe.
THEOREM OneThreadInTool == Spec => []OneRuns
  BY Inductive, PTL DEF IInv

\* When no numbered read is under way to it, the entry of a byte is the read the
\* byte is from, unless InStep's doubt holds: the last read failed, or lost its
\* mark to another thread between hook and kernel, or code without callbacks or a
\* call without a number changed the byte.
THEOREM EntriesInStep == Spec => []InStep
  <1>1. IInv => InStep
    BY DEF IInv, Data
  <1> QED BY <1>1, Inductive, PTL

\* The line of a write names the read of what was sent, if at its hook nothing was
\* in doubt and no numbered read under way, and byte and entry were then left
\* alone until the kernel took the byte.
THEOREM LinesMatchKernel == Spec => []LinesRight
  <1>1. IInv => LinesRight
    BY DEF IInv, Data, Sent, LinesRight
  <1> QED BY <1>1, Inductive, PTL

\* Every call of the function read is numbered, the restarted ones too.
THEOREM ReadsNumbered == Spec => []NoReadMissed
  <1>1. IInv => NoReadMissed
    BY DEF IInv, Reads
  <1> QED BY <1>1, Inductive, PTL
=============================================================================
