---------------------------- MODULE GuestThreads ----------------------------
(***************************************************************************)
(* depAnalysis under Valgrind's core.  The guest's threads take turns at   *)
(* the_BigLock (m_scheduler/scheduler.c); a superblock is instrumented     *)
(* when it is translated and runs from the code cache ever after; a system *)
(* call gives the lock away between the tool's hook and the kernel, and a  *)
(* signal may send it round again (m_syswrap/syswrap-main.c).  The tool's  *)
(* flag trace changes at translation, and is read at translation and by    *)
(* the hook.                                                               *)
(*                                                                         *)
(* The guest is its superblocks and one byte of memory, the buffer of all  *)
(* its calls.  Which read the byte comes from is a history variable, that  *)
(* the byte's entry in the shadow memory is compared with.  Code a signal  *)
(* handler runs is left out.                                               *)
(***************************************************************************)
EXTENDS Integers, Sequences, FiniteSets

CONSTANTS
  Thread, NoThread,
  Block,      \* superblocks, as VEX cuts them out of the guest's code
  Code,       \* the instructions of each
  Starts,     \* the blocks the guest may jump to
  Back,       \* a block that ends in a system call -> the one that starts there
  MaxReads, MaxWrites   \* bounds on the calls the tool numbers

\* entry is the function whose first instruction this is, if the tool cares;
\* leave tells whether a side exit follows; a store stores a constant.
Instr == [entry : {"none", "read", "exit"},
          op    : {"nop", "store", "read", "write"},
          leave : BOOLEAN]

Final(b) == Code[b][Len(Code[b])]

ASSUME ThreadAssumption == NoThread \notin Thread
ASSUME BoundAssumption == MaxReads \in Nat /\ MaxWrites \in Nat
ASSUME CodeAssumption ==
  /\ Code \in [Block -> Seq(Instr) \ {<<>>}]
  /\ Starts \subseteq Block /\ Starts # {}
  /\ \A b \in Block : \A k \in 1..Len(Code[b]) - 1 :
       Code[b][k].op \in {"nop", "store"}
ASSUME BackAssumption ==
  /\ Back \in [Block -> Block]
  /\ \A b \in Block : Code[Back[b]] = <<[Final(b) EXCEPT !.entry = "none"]>>
                      \/ Back[b] = b

VARIABLES
  running,   \* VG_(running_tid), the holder of the_BigLock
  status,    \* of a thread: "runnable", "yielding" or "waitsys"
  pc,        \* the block a thread is at
  call,      \* how far its system call is: "none", "pre", "kernel", "complete"
  cache,     \* block -> for each instruction, a store with a callback?  <<>>: no entry
  trace, read_n, write_n,
  shadow,    \* the byte's entry: the number of a read, or 0 for none
  lines,     \* the entry that ta_pre_call found for each write
  byte,      \* the read the byte is from, 0 for none, Unnumbered
  number,    \* the number the tool gave a thread's call, 0 for none
  marker,    \* the thread whose read was the last to mark the entry, still on
  doubt,     \* why the entry may be wrong at the moment, "none" or a cause
  calm,      \* has nothing touched byte and entry since a thread's ta_pre_call?
  sent,      \* what the kernel took of each numbered write that stayed calm
  exitSeen   \* has an entry of exit been translated?

toolVars  == <<trace, read_n, write_n, shadow, lines>>
coreVars  == <<running, status, pc, call, cache>>
ghostVars == <<byte, number, marker, doubt, calm, sent, exitSeen>>
vars == <<toolVars, coreVars, ghostVars>>

Unnumbered == -1

\* What last made the entry differ from the byte: a read that had marked it
\* failed or filled nothing; a read filled the byte after another thread had
\* changed the entry its hook marked, by a store with a callback or by the hook
\* of a read; or a store without a callback, or a read without a number, changed
\* the byte.
Causes == {"failed", "raced", "unseen"}

Nobody == [t \in Thread |-> FALSE]

Init ==
  /\ running = NoThread
  /\ status = [t \in Thread |-> "yielding"]
  /\ pc \in [Thread -> Starts]
  /\ call = [t \in Thread |-> "none"]
  /\ cache = [b \in Block |-> <<>>]
  /\ trace = FALSE /\ read_n = 0 /\ write_n = 0 /\ shadow = 0 /\ lines = <<>>
  /\ byte = 0 /\ number = [t \in Thread |-> 0] /\ marker = NoThread
  /\ doubt = "none" /\ calm = [t \in Thread |-> FALSE]
  /\ sent = {} /\ exitSeen = FALSE

\* VG_(acquire_BigLock) and VG_(release_BigLock).
Acquire(t) ==
  /\ running = NoThread
  /\ running' = t /\ status' = [status EXCEPT ![t] = "runnable"]

Release(t, sleepstate) ==
  /\ running' = NoThread /\ status' = [status EXCEPT ![t] = sleepstate]

\* In the loop of VG_(scheduler), between two blocks.
InLoop(t) == running = t /\ call[t] = "none"

Goto(t, b) == pc' = [pc EXCEPT ![t] = b]
Phase(t, p) == call' = [call EXCEPT ![t] = p]

-----------------------------------------------------------------------------
\* A new time slice, and the end of one.
TakeTurn(t) ==
  /\ status[t] = "yielding"
  /\ Acquire(t)
  /\ UNCHANGED <<pc, call, cache, toolVars, ghostVars>>

Yield(t) ==
  /\ InLoop(t)
  /\ Release(t, "yielding")
  /\ UNCHANGED <<pc, call, cache, toolVars, ghostVars>>

\* da_instrument on the Ist_IMarks of a block, which it goes over in order: the
\* flag behind instruction k is set if read comes after the last exit, and if
\* neither comes it is as before the block.
NoExit(b, from, to) == \A i \in from..to : Code[b][i].entry # "exit"
Flag(b, k) ==
  \/ trace /\ NoExit(b, 1, k)
  \/ \E j \in 1..k : Code[b][j].entry = "read" /\ NoExit(b, j + 1, k)

\* Mutant: the loop ends before the last instruction of a block.
TranslateButLast(t) ==
  LET b == pc[t] IN
  /\ InLoop(t) /\ cache[b] = <<>>
  /\ cache' = [cache EXCEPT ![b] = [k \in 1..Len(Code[b]) - 1 |->
                                 Code[b][k].op = "store" /\ Flag(b, k)]]
  /\ trace' = Flag(b, Len(Code[b]))
  /\ exitSeen' = (exitSeen \/ ~NoExit(b, 1, Len(Code[b])))
  /\ UNCHANGED <<running, status, pc, call, read_n, write_n, shadow, lines,
                 byte, number, marker, doubt, calm, sent>>

\* Mutant: the flag does not outlive the translation of a block.
TranslateLocally(t) ==
  LET b == pc[t] IN
  /\ InLoop(t) /\ cache[b] = <<>>
  /\ cache' = [cache EXCEPT ![b] = [k \in 1..Len(Code[b]) |->
                                 Code[b][k].op = "store" /\ Flag(b, k)]]
  /\ exitSeen' = (exitSeen \/ ~NoExit(b, 1, Len(Code[b])))
  /\ UNCHANGED <<running, status, pc, call, toolVars,
                 byte, number, marker, doubt, calm, sent>>

\* handle_tt_miss: VG_(translate) calls da_instrument, which goes over the
\* whole block before any of it runs.
Translate(t) ==
  LET b == pc[t] IN
  /\ InLoop(t) /\ cache[b] = <<>>
  /\ cache' = [cache EXCEPT ![b] = [k \in 1..Len(Code[b]) |->
                                 Code[b][k].op = "store" /\ Flag(b, k)]]
  /\ trace' = Flag(b, Len(Code[b]))
  /\ exitSeen' = (exitSeen \/ ~NoExit(b, 1, Len(Code[b])))
  /\ UNCHANGED <<running, status, pc, call, read_n, write_n, shadow, lines,
                 byte, number, marker, doubt, calm, sent>>

\* VG_(discard_translations), or the recycling of a full sector.
Discard(t, b) ==
  /\ InLoop(t) /\ cache[b] # <<>>
  /\ cache' = [cache EXCEPT ![b] = <<>>]
  /\ UNCHANGED <<running, status, pc, call, toolVars, ghostVars>>

\* Mutant: a constant leaves the entry of the byte it replaces.
StoredStale(seen, unseen) ==
  /\ byte' = IF seen \cup unseen # {} THEN 0 ELSE byte
  /\ marker' = IF seen # {} THEN NoThread ELSE marker
  /\ doubt' = IF seen # {} THEN "none" ELSE IF unseen # {} THEN "unseen" ELSE doubt
  /\ calm' = IF seen \cup unseen # {} THEN Nobody ELSE calm
  /\ UNCHANGED shadow

\* Stores of a constant, those with a callback (instrument_store_const) and
\* those without.
Stored(seen, unseen) ==
  /\ byte' = IF seen \cup unseen # {} THEN 0 ELSE byte
  /\ shadow' = IF seen # {} THEN 0 ELSE shadow
  /\ marker' = IF seen # {} THEN NoThread ELSE marker
  /\ doubt' = IF seen # {} THEN "none" ELSE IF unseen # {} THEN "unseen" ELSE doubt
  /\ calm' = IF seen \cup unseen # {} THEN Nobody ELSE calm

\* The block runs from its translation, up to its end or to a side exit.
Run(t) ==
  LET b == pc[t]
      last == Len(Code[b])
  IN
  /\ InLoop(t) /\ cache[b] # <<>>
  /\ \E k \in 1..last :
       LET stores == {j \in 1..k : Code[b][j].op = "store"} IN
       /\ k = last \/ Code[b][k].leave
       /\ Stored({j \in stores : cache[b][j]}, {j \in stores : ~cache[b][j]})
       /\ IF k = last /\ Final(b).op \in {"read", "write"}
          THEN Phase(t, "pre") /\ UNCHANGED pc
          ELSE UNCHANGED call /\ \E n \in Starts : Goto(t, n)
  /\ UNCHANGED <<running, status, cache, trace, read_n, write_n, lines,
                 number, sent, exitSeen>>

-----------------------------------------------------------------------------
\* The system call of a thread that has run up to it.
Op(t) == Final(pc[t]).op

\* Mutant: a write gets the latest read, and not what the byte's entry says.
HookLatest(t) ==
  CASE trace /\ Op(t) = "read" ->
         /\ read_n < MaxReads
         /\ read_n' = read_n + 1 /\ shadow' = read_n + 1
         /\ UNCHANGED <<write_n, lines>>
    [] trace /\ Op(t) = "write" ->
         /\ write_n < MaxWrites
         /\ write_n' = write_n + 1 /\ lines' = Append(lines, read_n)
         /\ UNCHANGED <<read_n, shadow>>
    [] OTHER -> UNCHANGED <<read_n, write_n, shadow, lines>>

\* ta_pre_call, with the lock held.
Hook(t) ==
  CASE trace /\ Op(t) = "read" ->
         /\ read_n < MaxReads
         /\ read_n' = read_n + 1 /\ shadow' = read_n + 1
         /\ UNCHANGED <<write_n, lines>>
    [] trace /\ Op(t) = "write" ->
         /\ write_n < MaxWrites
         /\ write_n' = write_n + 1 /\ lines' = Append(lines, shadow)
         /\ UNCHANGED <<read_n, shadow>>
    [] OTHER -> UNCHANGED <<read_n, write_n, shadow, lines>>

\* Does the hook number the call of t?
Numbered(t, op) == trace /\ Op(t) = op

\* VG_(client_syscall) up to the kernel: both calls may block, so the lock is
\* released first.
PreCall(t) ==
  /\ running = t /\ call[t] = "pre"
  /\ Hook(t)
  /\ Release(t, "waitsys") /\ Phase(t, "kernel")
  /\ number' = [number EXCEPT ![t] = IF Numbered(t, "read") THEN read_n'
                                     ELSE IF Numbered(t, "write") THEN write_n'
                                     ELSE 0]
  /\ marker' = IF Numbered(t, "read") THEN t ELSE marker
  /\ calm' = IF Numbered(t, "read") THEN Nobody
             ELSE [calm EXCEPT ![t] =
                     Numbered(t, "write") /\ doubt = "none" /\ marker = NoThread]
  /\ UNCHANGED <<pc, cache, trace, byte, doubt, sent, exitSeen>>

\* sys_read or sys_write refuse the descriptor after the tool was called; the
\* kernel is not.
FailInPre(t) ==
  /\ running = t /\ call[t] = "pre"
  /\ Hook(t)
  /\ Phase(t, "none") /\ \E n \in Starts : Goto(t, n)
  /\ IF Numbered(t, "read")
     THEN marker' = NoThread /\ doubt' = "failed" /\ calm' = Nobody
     ELSE UNCHANGED <<marker, doubt, calm>>
  /\ UNCHANGED <<running, status, cache, trace, byte, number, sent, exitSeen>>

\* The kernel does the call, while another thread may hold the lock.
Done(t) ==
  /\ call[t] = "kernel" /\ Phase(t, "complete")
  /\ number' = [number EXCEPT ![t] = 0]
  /\ UNCHANGED <<running, status, pc, cache, toolVars, exitSeen>>

Fill(t) ==
  /\ Op(t) = "read"
  /\ Done(t)
  /\ byte' = IF number[t] > 0 THEN number[t] ELSE Unnumbered
  /\ IF marker = t /\ number[t] > 0
     THEN doubt' = "none" /\ marker' = NoThread
     ELSE /\ doubt' = IF number[t] > 0 THEN "raced" ELSE "unseen"
          /\ UNCHANGED marker
  /\ calm' = Nobody
  /\ UNCHANGED sent

Send(t) ==
  /\ Op(t) = "write"
  /\ Done(t)
  /\ sent' = IF number[t] > 0 /\ calm[t]
             THEN sent \cup {[num |-> number[t], data |-> byte]} ELSE sent
  /\ calm' = [calm EXCEPT ![t] = FALSE]
  /\ UNCHANGED <<byte, marker, doubt>>

\* The call of t ends without filling the byte that its hook may have marked.
Unfilled(t) ==
  /\ marker' = IF marker = t THEN NoThread ELSE marker
  /\ doubt' = IF marker = t THEN "failed" ELSE doubt
  /\ calm' = [calm EXCEPT ![t] = FALSE]
  /\ UNCHANGED <<byte, sent>>

\* An error, or fewer bytes than asked for.
Fail(t) == Done(t) /\ Unfilled(t)

\* The lock is taken again, by client_syscall or, when a signal comes behind
\* the call, by async_signalhandler, and VG_(post_syscall) ends the call.
Return(t) ==
  /\ call[t] = "complete"
  /\ Acquire(t)
  /\ Phase(t, "none") /\ \E n \in Starts : Goto(t, n)
  /\ UNCHANGED <<cache, toolVars, ghostVars>>

\* Mutant: the signal handler does not take the lock.
InterruptedUnlocked(t) ==
  /\ call[t] = "kernel"
  /\ running' = t /\ status' = [status EXCEPT ![t] = "runnable"]
  /\ Unfilled(t) /\ Phase(t, "none") /\ number' = [number EXCEPT ![t] = 0]
  /\ \E n \in Starts \cup {Back[pc[t]]} : Goto(t, n)
  /\ UNCHANGED <<cache, toolVars, exitSeen>>

\* async_signalhandler while the call waits:
\* VG_(fixup_guest_state_after_syscall_interrupted) makes it return EINTR, or
\* sets the guest back to the instruction, so that the hook runs again.
Interrupted(t) ==
  /\ call[t] = "kernel"
  /\ Acquire(t)
  /\ Unfilled(t) /\ Phase(t, "none") /\ number' = [number EXCEPT ![t] = 0]
  /\ \E n \in Starts \cup {Back[pc[t]]} : Goto(t, n)
  /\ UNCHANGED <<cache, toolVars, exitSeen>>

Next == \E t \in Thread :
  \/ TakeTurn(t) \/ Yield(t) \/ Translate(t) \/ Run(t)
  \/ \E b \in Block : Discard(t, b)
  \/ PreCall(t) \/ FailInPre(t) \/ Return(t) \/ Interrupted(t)
  \/ Fill(t) \/ Send(t) \/ Fail(t)

Spec == Init /\ [][Next]_vars

-----------------------------------------------------------------------------
Numbers == 0..MaxReads

\* Type invariant.
TypeOK ==
  /\ running \in Thread \cup {NoThread}
  /\ status \in [Thread -> {"runnable", "yielding", "waitsys"}]
  /\ pc \in [Thread -> Block]
  /\ call \in [Thread -> {"none", "pre", "kernel", "complete"}]
  /\ cache \in [Block -> Seq(BOOLEAN)]
  /\ \A b \in Block : Len(cache[b]) \in {0, Len(Code[b])}
  /\ trace \in BOOLEAN /\ read_n \in Numbers /\ shadow \in Numbers
  /\ lines \in Seq(Numbers) /\ write_n \in 0..MaxWrites /\ Len(lines) = write_n
  /\ byte \in Nat \cup {Unnumbered} /\ number \in [Thread -> Nat]
  /\ marker \in Thread \cup {NoThread} /\ doubt \in Causes \cup {"none"}
  /\ calm \in [Thread -> BOOLEAN]
  /\ sent \subseteq [num : Nat, data : Nat \cup {Unnumbered}]
  /\ exitSeen \in BOOLEAN

\* The tool's state is only touched by the one thread that runs: at most one
\* thread is runnable and it is the one that running names, whatever signals
\* and returning system calls compete with it for the_BigLock; and a thread
\* that is between the blocks or in the hook is never in the kernel.
OneRuns ==
  \A t \in Thread :
    /\ running = t <=> status[t] = "runnable"
    /\ call[t] \in {"kernel", "complete"} <=> status[t] = "waitsys"
    /\ call[t] = "pre" => running = t

\* The entry of a byte is the read the byte is from, at every moment that no
\* numbered read is under way to it and nothing is in doubt.  The doubt, which the
\* next store with a callback or undisturbed read clears, has three causes: after
\* its hook a read failed or filled nothing; between its hook and the kernel
\* another thread's store with a callback, or another read's hook, took the entry
\* away from it; or code without callbacks, or a call without a number, changed
\* the byte.  The second happens to guests without any fault and with every
\* callback in place: the tool sets entries before the lock is given away, and
\* never again.
InStep == doubt = "none" /\ marker = NoThread => shadow = byte

\* The line of a write names the read that the kernel sent the byte of, if at
\* its hook nothing was in doubt and no numbered read under way, and no thread
\* touched byte or entry until the kernel took the byte.
LinesRight == \A s \in sent : lines[s.num] = s.data

\* The blocks in which the function read makes its system call, the one that
\* a restart comes back to included.
ReadBlocks ==
  {b \in Block : /\ Final(b).op = "read"
                 /\ \E k \in 1..Len(Code[b]) : Code[b][k].entry = "read"}
InRead ==
  ReadBlocks \cup
  {b \in {Back[c] : c \in ReadBlocks} \ Starts :
     \A c \in Block \ {b} : Back[c] = b => c \in ReadBlocks}

\* Every call that the function read makes gets a number, the first one and a
\* restarted one too, whichever thread translated the function and however
\* often its translation was discarded, until an entry of exit is translated.
NoReadMissed ==
  \A t \in Thread :
    call[t] = "kernel" /\ pc[t] \in InRead /\ ~exitSeen
      => number[t] > 0

\* README.md 22-24: for each superblock the tool inserts its callbacks on loads,
\* stores and temporary assignments.  While it traces, no thread comes to a
\* translation whose stores have none.
EverySuperblock ==
  trace => \A t \in Thread : InLoop(t) =>
             \A k \in 1..Len(cache[pc[t]]) :
               Code[pc[t]][k].op = "store" => cache[pc[t]][k]
=============================================================================
