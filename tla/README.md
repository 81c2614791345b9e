# TLA+ models of the cs510 projects

Two programs of this repository are modelled here, and of the vendored Valgrind
the part that decides when the first one's code runs:

- `proj1/valgrind-3.18.1/depAnalysis/depAnalysis.c`, a Valgrind tool that
  attributes every `write` of a traced program to the `read`s its bytes come from;
- `proj2/LeakDetector.cpp`, an LLVM pass that enumerates the paths of each
  function and reports those on which an allocation is not released.

Everything else in the repository is the rest of the vendored Valgrind tree, test
programs and their recorded outputs.

## 1. Inventory

### proj2, the leak detector

| part | state | operations |
|---|---|---|
| path discovery, `DiscoverPaths` (53-76) | the C++ call stack, each frame with its own copy of `path`; the global list `paths` | enter a block, recurse on the next successor, refuse a block seen three times, record a path at a block without `BranchInst`, return |
| path scan, `MemoryLeakDetection` (104-290) | position in the path; `malloc_id`, `mallocs`, `malloc_vars`, `malloc_structs`; the IR itself, since `getAsInstruction(&i)` inserts | one per kind of instruction: alias at load+store, memcpy of a struct, malloc+store to a variable or a field, free of a variable or a field |
| pass driver, `runOnModule` (297-321) | the function and path loops, the global `paths` | skip a declaration, discover, scan and print each path |
| printing, registration | none | not modelled |

The driver calls discovery and the scan in turn; they interact through the
global `paths`, which outlives a function, and through the IR, which a scan
changes and later scans read. Nothing is concurrent. What is hard: recursion over
cyclic graphs with a visit bound, tables keyed by names that need not identify
memory, numbers that must stay inside a vector, and a pass that edits what it
reads. Correct means: the recorded paths are exactly the bounded walks; a verdict
agrees with the heap wherever the tables can follow the program; what is printed
for the module is what leaks on its paths.

### proj1, the dependency tracker

| part | state | operations |
|---|---|---|
| dependency tables and callbacks (91-748, 1044-1067) | `var_deps`, `reg_deps`, `write_deps` (linked lists), shadow memory, `read_n`, `write_n` | one callback per kind of VEX statement; the hook before `read` and `write` |
| shadow memory (403-459) | two-level table of lists, allocated on demand | set, get, free all |
| list ownership (115-151, 279-375, 475-748, 1026-1042) | which list is allocated, and what points to it | every callback copies, merges, hands over, frees; `da_fini` frees the rest |
| instrumentation, `da_instrument` (784-1021) | the flag `trace`, the trace file | at translation time, chooses a callback for each statement, or none |
| output and lifecycle (750-781, 1026-1042, 1074-1106) | the trace file, options | what `da_fini` frees is modelled, files, options and printing are not |

The guest program drives the tool: its statements run the inserted callbacks, its
system calls the hook. The guest's data flow and the tables move side by side.
What is hard: stale entries (callbacks that return early, temporaries whose
numbers are reused), callbacks that run before the outcome they depend on is known
(conditional exit, read), entries kept under a first byte whatever the size of the
access, registers of several threads under one number, and lists that are erased,
prepended, searched and freed in ways that must agree. Correct means: an entry
names a read only if its data reached the location, and names every read it holds
data of; every list is freed once. The code reaches neither of the first two
everywhere, so the properties say where it does (section 3 has the rest): reads
that filled their buffers, and data that went where the tool looks.

### proj1, what Valgrind's core does around the tool

| part | state | operations |
|---|---|---|
| scheduler (`m_scheduler/scheduler.c`) | `VG_(running_tid)`, each thread's status | acquire and release `the_BigLock`, a time slice, a block run to its end or a side exit |
| code cache (`handle_tt_miss`, `m_transtab.c`) | which superblocks are translated, as they were instrumented | translate on a miss, discard |
| system calls (`m_syswrap/syswrap-main.c`) | how far a thread's call is | the tool's hook, the wrapper that may refuse, the kernel without the lock, the return |
| signals (`m_signals.c`) | none of its own | an interrupted call returns EINTR or is made again from its instruction |
| ticket lock (`ticket-lock-linux.c`) | `head`, `tail`, `futexes`, `owner` | acquire, release, and the futex calls between |

The tool's tables have no lock of their own. They rely on one thread at a time
holding `the_BigLock`, which is given away in every `read` and `write` between
the tool's hook and the kernel. What is hard: other threads in that gap; calls that
fail, are interrupted or restarted after the hook; `trace`, which changes at
translation and is read at translation and at run time; code that stays in the
cache; lost wakeups and counters that wrap around in the lock. Correct means: one
thread in the tool; the trace names the read that the kernel's bytes came from, or
it can be said when not; no call of `read` goes without a number; the lock is
exclusive and served in order.

Not modelled: the rest of Valgrind's core, VEX and the other tools (vendored,
unmodified according to `README.md` 36-37); the pipe lock, which is the default
(`m_options.c` 152; the ticket lock is `--fair-sched=yes`, `scheduler.c` 683) and
amounts to one byte in a pipe that a thread reads to enter; thread creation and
exit; code run by signal handlers; printing and options; test programs, except that
`proj2/testcases/test6.c` is the program of one run. The hazards, each at its
line, are in `PROJECT.json`.

## 2. Modules

    MCPathDiscovery -> PathDiscovery <-- (INSTANCE) --+
                                                      LeakDetector <- MCLeakDetector
    MCLeakTruth -> LeakTruth -> LeakScan <- (INSTANCE)+
                                 LeakScan -> LeakProgram
    MCDepFlow   -> DepFlow   -> DepTrack <- (INSTANCE, refined by) DepLists <- MCDepLists
    MCDepHeap   -> DepHeap   -> ShadowMem
    MCGuestThreads -> GuestThreads
    MCTicketLock   -> TicketLock (refines) FairLock

`X -> Y` is EXTENDS. The proofs are in `PathDiscoveryProofs`, `LeakTruthProofs`,
`LeakDetectorProofs`, `DepFlowProofs`, `DepListsProofs`, `DepHeapProofs`,
`GuestThreadsProofs` and `TicketLockProofs`, which extend the module they are
about; `LeakDetectorProofs` also takes `PathDiscoveryProofs` and
`LeakTruthProofs` as instances. Definitions marked
"Mutant:" are faulty versions of the one that follows; no specification uses them,
they serve to show that a property notices the fault.

**PathDiscovery.** `stack` is the C++ call stack; a frame holds its copy of `path`
with the call's own block pushed, and the loop variable plus one. `Descend` and
`Cut` are the recursive call that gets past the test of line 55 and the one that
returns at once; `Record` and `Return` are the two ways out. Functions are
control-flow graphs whose blocks say whether they end in a `BranchInst`, because
only then are successors followed.

**LeakProgram.** The programs the pass reads, as values: instructions, a path
through their blocks, what they do to memory (`Run` for one instruction, `OnPath`
for a path, block by block, as recursive functions over positions), whether an
allocation is left (`LeaksOn`), and `Disciplined`, which says of which paths the
tables can follow: operands of one name denote one place and of two names two, a
place is written once, each load, store, malloc, free and memcpy stands in the
company of those that the code looks for next to it (`Style`), and no block comes
twice unless the path has no constant expression to expand. Each clause rules out
one way in which names and memory, or what the program does and what the code
recognizes, come apart: an unnamed or doubly named variable, a second malloc or
store into one place, a cast between malloc and store, a field stored to a variable
as in test6.c, a block that the scan comes back to after inserting into it.
Operands keep what the code looks at (plain value, `getelementptr` or bitcast
constant expression; the name, empty for unnamed values) and, in `place`, the
memory they denote, which only the meaning of a program looks at.

**LeakScan.** One action per branch of the loop body. `ExpandHere` is `CE->getAsInstruction(&i)`: in
LLVM 14 it inserts the new instruction before `i`. `Crash` is the two null
dereferences (154, 218). A callee has one of the classes memcpy, malloc, free,
else; names that contain two of the words, and `getelementptr`s whose third operand
is missing or not constant, are left out.

**LeakTruth.** LeakScan's step together with the instruction's own effect on the
program's memory and heap, so that the verdict can be compared with the truth, on
the paths that are `Disciplined` and on those that are not.

**LeakDetector.** `runOnModule`, with PathDiscovery and LeakScan as instances that
share `paths` and `code` through it. The truth for a path is `LeaksOn` for the
module as it was before the pass (`ProgramOn`), and the reference for the set of
paths (`AllPaths`) is computed level by level. `Followable` are the modules without
constant expressions whose every path is disciplined: only the first keeps the
code as it was for the scans that come later.

**DepTrack.** The callbacks over sets of read numbers. Of the order of `var_deps`
only the first key matters (`head`): erasing it goes through the wrong list
variable (289), after which `var_deps` points to freed memory. From there on
`corrupt` is set and nothing more is said.

**DepLists.** The same callbacks on the lists themselves: first match in searches,
merge without repeats, append and prepend, erasure of every node with the key.
`Implements` states that it implements `DepTrack!ToolSpec`, and `CallbacksAgree`,
which is stronger, that each callback on the lists maps to the callback of that
name on the sets: a temporary's set is what the first node with its key holds,
`head` the first key, `corrupt` the dangling pointer.

**DepFlow.** DepTrack under a guest: each action is one VEX statement with the
callback `da_instrument` inserts before it. Memory and registers are bytes; a GET,
PUT, load or store has an offset or address and a size, and what goes into a value
goes into each of its bytes. `flow` is the reads a byte's or temporary's value comes
from, and `ever` all reads whose data was ever in it: a read enters only the bytes
the kernel fills (`Read`), though the hook marks the whole buffer, and `short`
collects the reads that failed or filled less. The tool keys entries by the first
byte and ignores sizes, so `home` says for each byte under which location the entry
for its data is kept. An access that starts elsewhere finds no entry for it
(`Beside`), and one that starts there but is narrower displaces the entry of the
bytes it leaves alone (`Displaced`): `PUT8(16) = const` erases the entry of a wide
register whose upper bytes still hold read data, and `GET:I8(17)` finds none.
`gap` says whether data of a read has passed where the tool does not look:

- a GET or load that starts behind the first byte of a value, a GET, PUT, load or
  store that takes in bytes of several values, and a PUT or store that displaces
  the entry of bytes it does not reach;
- a statement without callback;
- a temporary used after an exit that was not taken, as its entry is gone;
- a read into part of a buffer, where the entries of bytes it leaves alone are
  replaced;
- registers with data brought back by a change of thread.

`Parked` are the guest's other threads: `SwitchTo` puts the registers of the thread
that ran into `bank` and takes another's out, while the tool's entries stay, as
`reg_deps` has one node for a register of that number. Of VEX it assumes what its header says:
temporaries are assigned once and before use in a superblock, and system calls and
changes of thread happen between superblocks.

**ShadowMem.** The two-level table at a scaled width. A list is a number, a slot
holds a pointer to it; `latest` is the byte map the table stands for. It has the
operations on the table and no behaviour of its own.

**DepHeap.** Who owns the lists: every callback, the hook and `da_fini`, with what
they allocate, free and keep. Of a list only its identity matters. `state` is
"undefined" after an access one past the end of an array, after erasing the first
node of `var_deps` (the pointer dangles from then on), or when `da_fini` would free
a list twice; nothing is said after that. `dropped` are the copies the Qop
callback makes and loses. Callbacks that return early change nothing and are no
step.

**GuestThreads.** The guest is a set of superblocks, given by their stores, their
system call, whether a side exit follows an instruction, and where the functions
`read` and `exit` begin; `cache` holds for each translated block which of its stores
got a callback. `PreCall` is `VG_(client_syscall)` up to the release of the lock,
hook included; `Fill`, `Send` and `Fail` are the kernel's part, `Return` and
`Interrupted` the two ways back, `FailInPre` the wrapper that refuses the
descriptor after the hook. One byte of memory is the buffer of all calls: `byte` is
the read it is from, `shadow` the tool's entry. `marker`, `doubt` and `calm` are
history variables that say when the two may differ. `marker` is the thread whose
numbered read is under way and marked the entry last. `doubt` is what last made them
differ, until the next store with a callback or undisturbed read: "failed", a read
failed or filled nothing after its hook; "raced", a read filled the byte after
another thread's store with callback, or another read's hook, had taken the entry
away between its hook and the kernel; "unseen", a store without callback or a read
without number changed the byte. `calm` says of a write that nothing was in doubt or
under way at its hook and nothing has touched byte or entry since.

**TicketLock** and **FairLock.** `ticket-lock-linux.c`, one action for each access
to shared memory and each futex call, tickets modulo `Mod`. FairLock is the abstract
specification, a queue and a holder; `Fair` states that TicketLock implements it,
fairness included, with the waiting threads in the order of their tickets as the
queue.

## 3. Runs

| run | expects | question |
|---|---|---|
| MCPathDiscovery | pass | enumeration sound and complete, no duplicates, bounded depth, termination |
| MCLeakTruth | pass | the verdict is exact on programs the tables can follow; tables consistent, program kept and scan ends on any |
| MCLeakTest6 | violation | no false report (test6.c) |
| MCLeakDetector | pass | what is printed is what leaks, and walks of the functions analysed, over the whole pass |
| MCReportsAreLeaks | violation | every report is of a leaking path, after other scans |
| MCDepFlow | pass | outside of failed and short reads and of gaps, no invented and no missed dependency, with a second thread, and with accesses of two sizes that overlap in registers and memory |
| MCDepLists | pass | the lists implement the sets |
| MCDepRegisters | violation | `reg_deps` holds registers |
| MCDepHeap | pass | one entry per byte, one owner per list, all freed at the end |
| MCGuestThreads | pass | one thread in the tool; entries in step with the kernel outside of the three causes of doubt, lines of writes that stayed calm; no read without a number until exit is translated |
| MCEverySuperblock | violation | every superblock that runs while the tool traces has its callbacks |
| MCTicketLock | pass | the ticket lock is exclusive, loses no wakeup, and is fair |

Each violation is a finding in `PROJECT.json`, with the words it contradicts.
Other limits of the code are in the models without a run of their own:

- proj2: a path ends at a switch (`Record`); a malloc whose result is cast before
  it is stored is not tracked (`Pass`); the module is changed (`ExpandHere`);
  `paths` is never cleared, so that the paths of a function are scanned and
  printed again after each later function (LeaksReported compares sets for this
  reason); a second allocation into a variable does not get a number of its own
  (`insert`), so that `g = malloc; free(g); g = malloc; free(g)` is reported
  (`Disciplined` excludes it).
- proj1, tables: a narrow PUT or store takes the entry away from bytes of a wider
  value that it leaves alone, and a GET or load inside a value finds no entry, and
  then a write misses reads (`home`, `gap`); so it does when an exit that is not
  taken has dropped the entries of temporaries still in use (`dropped`); a short or
  failed read overwrites the entries of bytes it left alone (`Read`); two threads
  share the entries of their registers (`SwitchTo`); addresses 4 GiB apart share an
  entry, and those whose low or high half is 0xFFFF have none (`InOneRange`,
  `Covered`); Qop leaks a list (`dropped` of DepHeap). Entries outlive the data they
  were made for: when a callback returns early because the operand has none, at a
  StoreG, CAS, PutI or dirty helper, at the end of a superblock, in the register of
  a system call's result, and when threads change. NoPhantom and WritesBounded
  therefore compare with `ever`, all the data a location ever had, and not with
  `flow`, what it has; and they leave out the reads in `short`, whose marks stay on
  bytes that no data came to.
- proj1, threads: between hook and kernel another thread may change the byte, so
  that a line may name another read than the one sent (`calm`), or its entry, so
  that the entry is wrong after the read although nothing failed and every callback
  ran (`doubt` = "raced"), since the tool sets entries before the call and never
  after it; calls of read made after an entry of exit was translated, though not
  executed, are not numbered (`exitSeen`); a restarted read is numbered twice.

**Bounds.** MCPathDiscovery has every graph of three blocks whose entry has no
predecessor, which includes self-loops, loops through two blocks, loops without
exit, parallel edges and switches, at the code's bound (`MaxVisits = 2`, three
visits). MCLeakTruth has every program of an allocation and three more statements
out of twelve that the tables can follow (as many as an alias or a struct copy and
two releases need), and every program of three statements out of twenty that they
may lose track of, once or twice through the block, so that repeated allocation,
unnamed aliases, crashes and inserted instructions meet. MCLeakDetector has an
if-else and a loop, every choice of nothing, malloc or free in their blocks, and a
second function, at `MaxVisits = 1`, where the loop body already runs twice.
MCDepFlow has two kinds of guests in one run, as both at once have too many states
(`Explored`). One has three temporaries, so that operations have two different
operands (an operation has no more than two here; further operands are merged the
same way), data in a register and a memory location of one byte each, and one parked
thread, enough for registers to come back with data the tool has no entry for, or
with an entry of the other thread's. The other has one temporary, data in two bytes of
memory and two of registers, and accesses of one byte and two: a value over both
bytes can be overwritten at either, read from either, and filled by halves. Steps
out of other states, and those after the write, are not explored: the write changes no
entry and moves no data. There is one read and one write, so that what is told apart
is whether an entry is missing or stale; that reads displace each other rightly is
part of the proofs, for any number, and so are guests that are both kinds at once.
MCDepLists has two reads, so that lists have
an order, operand lists of one, two and four temporaries, and at most two nodes in
`var_deps`, enough for an older node behind a newer one of the same temporary.
MCDepHeap has two entries out of three indices in each dimension and the first
seven of the nine addresses, which reach both arrays and an index past the end in
each dimension; buffers of one and two bytes; six lists, enough for a node in each
of the three lists, an entry, a Qop's two copies and a replacement; two nodes in
`var_deps` and in `write_deps`, as erasure treats the first node and a later one
differently.
MCGuestThreads has two threads, five blocks (a store, the function `read`, the
block a restarted read enters, a write, and one that VEX extended past a
conditional exit into `exit`), two numbered reads, so that one can overtake the
other, and one write. MCTicketLock has three threads (one that holds, one that is
served next, one behind it), tickets modulo 4 and two futexes: every counter wraps
around and a futex is shared by threads with different tickets.
Temporaries are interchangeable in DepFlow, DepLists and DepHeap, and threads in
GuestThreads, so their runs use symmetry; MCTicketLock, which checks liveness,
does not.

**Deadlock** is checked in MCTicketLock: it would be everyone asleep. Elsewhere it
is not: discovery, scan and pass end; the guest may stop, and at the bounds of
MCDepHeap, MCDepFlow and MCGuestThreads nothing more can be numbered or allocated.

**Fairness** is weak fairness of the single next-state relation of PathDiscovery,
LeakTruth and LeakDetector: each is one sequential thread that goes on while it
can. TicketLock has weak fairness of each thread's acquiring and of its releasing:
the kernel lets a thread run on, and a holder gives the lock up at the end of its
time slice or in a system call (`scheduler.c` 1366-1393); a thread need not ask for
the lock. The other specifications assume none, as the guest need not do anything.

## 4. Proofs

For all values of the constants, under the named assumptions of each module:

| module | what is assumed of the constants |
|---|---|
| PathDiscovery | finitely many blocks; functions are graphs over them |
| LeakProgram | the empty name is a name |
| LeakTruth | programs have non-empty paths, and no instruction of the kind that only the pass makes |
| LeakDetector | finitely many blocks; modules are graphs, entries and code over them, with no instruction of the kind that only the pass makes; the mark of a declaration is no block |
| DepFlow | registers and memory are bytes with integers for offsets and addresses, different from each other and from the temporaries; an access has at least one byte; results go into registers |
| DepLists | keys are tagged; operands are temporaries; addresses are numbered without a gap; buffers are not empty |
| DepHeap | the addresses of one table, numbered without a gap; no buffer longer than their range |
| GuestThreads | types only |
| TicketLock | fewer threads than tickets; as many tickets for each futex |

- `PathDiscoveryProofs`: `TypeCorrect`, `OnlyWalks` ([]PathsAreWalks),
  `AlwaysNested` ([]FramesAreNested), `NoneMissed` ([]NoPathMissed) and
  `EnumerationExact`: on return, `paths` holds exactly the complete bounded walks.
  The inductive invariant `IInv` is the type invariant, and that every path on the
  stack is a walk, which makes the next one a walk; that what is recorded are walks
  is kept apart (`StepWalks`), since the list may hold walks of other functions
  when `runOnModule` makes the call, and `IInv` and `NoWalkMissed` hold of any call
  with an empty path (`StartIInv`, `StartMissed`). For
  completeness `NoWalkMissed` is inductive on top of it: at every moment a walk is
  recorded or ahead of a frame. If a walk lies ahead of a frame, then after a
  step it lies ahead of that frame, of the frame just pushed, or it is recorded,
  and a cut loses nothing as a walk through the refused block is over the bound.
  `RecursionBounded` ([]DepthBounded): the k-th frame holds a path of k blocks
  (`Layered`), and a position of a path is told by its block and how often the
  block came before, so there are no more positions than blocks times visits.
  `NoneRepeated` ([]RecordedOnce): every recorded path lies behind every active
  call (`RecordedBehind`), so that the one recorded now is a new one.
- `LeakTruthProofs`: `TypeCorrect`, `IdsInRange` ([]IdsAreIndices),
  `FreesBoundCleared` ([]ClearedAtMostFrees). The invariant has two parts, the
  position of the loop and the tables: a number in a table was given out, so
  setting that entry to NULL stays inside the vector, and copying a struct or an
  alias copies a number that is in range. `ProgramSurvives` ([]ProgramKept): the
  program's own instructions stand where they stood, shifted by what was inserted
  before them; an insertion shifts those from its place on by one.
  `VerdictExact` ([]ExactWhenDisciplined), for paths of any number of blocks over any
  names and places. `XInv` has three parts. `Aligned`: from the previous instruction
  on, the block read is the program's own, shifted by what was inserted, and so
  are the blocks to come, as none comes twice or nothing is inserted
  (`NothingExpanded`). `HeapOK`: the numbers given out are
  the objects, and NULL marks those released. `AllLinked`: the entry of each name
  and field has the number of the object its memory points to; at a store the entry
  is one step ahead, as the tables change at the malloc or load before it, and then
  holds what is about to be stored. That a place is written once makes the entry of
  a new allocation absent (`Fresh`), which `std::map::insert` needs. There is one
  lemma per kind of instruction, on memory and tables alone (`LoadStep`,
  `StoreStep`, `MallocVarStep`, `MallocFieldStep`, `CopyStep`, `QuietStep`), and one
  per action that applies it.
- `LeakDetectorProofs`: `PrintsWalks` ([]ReportsAreWalks), `SameVerdict`
  ([]VerdictsStable), `EveryWalkListed` and `AllLeaksReported` ([]LeaksReported),
  for modules of any number of functions. `PInv` says that the
  frames of DiscoverPaths are walks of the function under analysis, that
  the list all functions share holds complete walks of the functions so far, and
  that the path in a scan is still the one of the list. For the verdicts, a scan
  is shown to be a function: `After` gives the one state that follows a state of
  a scan where nothing is expanded, each action of LeakScan is that function
  (`ScanIsAfter`), the invariant `VInv` says that the code is the module's and
  that the scan is on the way `After` leads from the start, and two ways of one
  path end in the same state (`EndsOnce`). No table of an earlier scan can matter.
  `AllLeaksReported` composes what is proved of the parts; it is the end of the
  argument for proj2. Two instances carry it. `Enum` is `PathDiscoveryProofs` for the
  graphs of the modules: its invariants hold at each call (`EnumStarts`), its steps
  are the driver's (`SameNext`), its walks the module's (`SameWalks`), so that each
  complete walk of a function analysed so far is in the list (`AllListed`). `Truth`
  is `LeakTruthProofs` with the program's memory read off the position of the scan:
  LeakDetector has no variable for memory, but what a path does to memory before an
  instruction is determined (`HeapAt`), and each step of a scan executes one
  instruction of it (`RunExecutes`), so that the steps of a scan are steps of
  LeakTruth and its invariants hold during every scan (`MInv`). A verdict then says
  whether the path leaks (`VerdictIsTrue`), and the loop invariant `LInv` says that
  what was printed leaks and that what leaks was printed, for the positions the
  loop has come by. Two definitions by recursion have to be unfolded for this:
  `OnPath`, whose functions are shown to exist position by position (`Recursion`,
  `RunsPath`), and `Walks`, whose n-th level is shown to be the bounded walks of n
  blocks and the last level to be no bound (`WalksAre`).
- `DepFlowProofs`: `TypeCorrect`, `NothingInvented` ([]NoPhantom), `NothingMissed`
  ([]NoMissed), `TraceBounded` ([]WritesBounded). NoPhantom and NoMissed are inductive on top of the type
  invariant, which has it that an entry for data in memory is kept in memory, and for
  data in registers in the registers (`Homes`). One lemma says what a statement has to
  do right (`StatementTracks`): nothing enters an entry that was not in an operand's;
  what the operands contribute is in the entry of the value written, unless it was
  overlooked; and no entry loses what another byte relies on, unless it was displaced
  with data behind it. It is applied to an assignment (`AssignmentTracks`), to a
  temporary that goes into bytes (`CopyTracks`) and to a constant (`ClearTracks`). The
  lines of the trace follow at the time of the write. The theorems have the limits of
  the properties: NothingInvented says nothing of failed and short reads,
  NothingMissed nothing once `gap` is set or a head was erased. `HeadNamesNode`
  ([]HeadIsFirst) follows from the callbacks alone (`CallbackHead`): none leaves the
  head on a temporary without an entry, or entries without a head.
- `DepListsProofs`: `TypeCorrect`, `ReadsOnce` ([]NoRepeats), `OneEntryPerReg`
  ([]OneNodePerReg), `ListsImplementSets` (Implements, that is
  `DepTrack!ToolSpec`) and `SameCallbacks` (CallbacksAgree). The lemmas say what the
  list functions do to sets: merging is union and repeats nothing, erasing a key
  leaves every other key's first match. They are proved by induction over the
  positions of the list, with the set of positions where the claim holds and its
  least exception (`Reaches`). The invariant `LInv` has the lists without repeats,
  nodes only for lists that are not empty, and one node per register. There is
  one lemma per callback: what it does to the lists is what the callback of that
  name does to the sets, the dangling pointer included; the refinement is these
  together.
- `DepHeapProofs`: `TypeCorrect`; `TableIsMap` ([]EntryPerByte), for arrays of any
  size and any addresses within one range. The invariant adds the shape of the
  table, that an array is missing or has all its entries. An address alone in its
  slot is then given what is set for it, and one that is not set keeps its entry,
  whether its array was there or is allocated for a neighbour. `OneOwnerEach`
  ([]OwnedOnce) and `NothingLeft` ([]AllFreed): the allocated lists are split among
  the nodes of the three lists, the entries and what was dropped (`OInv`), each
  callback moves a list from one part to another, and when a part is freed nothing
  of another is.
- `GuestThreadsProofs`: `TypeCorrect`, `OneThreadInTool` ([]OneRuns),
  `EntriesInStep` ([]InStep), `LinesMatchKernel` ([]LinesRight), `ReadsNumbered`
  ([]NoReadMissed), for any threads, code and bounds. OneRuns says where a thread
  may be while another has the lock, and everything else rests on it. For InStep
  the invariant says what a read under way has put into the entry (`Marked`): the
  number its thread carries, which is no longer so when another thread has taken the
  entry away (then the fill is raced); for LinesRight, that while a write stays calm its line
  names the read of the byte (`Calm`), and that what was sent did (`Sent`); for
  ReadsNumbered, that `trace` is set once a block with the entry of `read` is
  translated and none of `exit` is (`FlagOn`), and where a restart comes back to.
- `TicketLockProofs`: `TypeCorrect`, `OneOwner` ([]MutualExclusion), for any finite
  number of threads below the range of tickets. The invariant (`Tickets`) says that
  the threads between asking and releasing hold different tickets, all of them
  from head up to tail and as many as lie between the two, and that whoever is past
  the test has the ticket head. As there are fewer threads than tickets, tail cannot
  come round to head, so that wraparound never makes two tickets equal. `Owned`
  ties owner to the thread that holds the lock. `WakeupsKept` ([]NoLostWakeup): while
  a thread is between its look at the futex and its sleep, every other thread
  changes the futex once at most (`FewChanges`), so that the futex cannot come
  round to the value that was read; a sleeper whose turn has come has a releaser
  on its way to wake it (`WillBeWoken`). `ServedInOrder`: the steps of FairLock are
  implemented, with the k-th of the queue the thread whose ticket is k after the
  head (`QueueOK`); asking appends, entering takes the first.

Model-checked only are termination, `PassEnds`, `ScanEnds`, and the fairness that
`Fair` adds to what `ServedInOrder` proves: liveness under fairness is beyond the
prover. Every invariant that a run checks is stated by a theorem.

## 5. What is left

1. The pipe lock, thread creation and exit, and the code of signal handlers, which
   runs between a call and its restart.
2. Callees whose names contain two of the words memcpy, malloc and free, and
   `getelementptr`s whose third operand is missing or not constant.
3. Some hazards have no property, each with the reason in `PROJECT.json`. The
   number of paths (`LeakDetector.cpp` 68) is out of reach. The others are in the
   models, and are behaviours of the code that the properties must leave out to
   hold: in proj2, a path that ends at a switch (61), paths printed again for each
   later function (30), a variable allocated into twice (202), a null dereference
   (154); in `depAnalysis.c`, entries that outlive their data (634, 1047, 97) or were
   made for data that never came (1052), calls after exit was translated (842), an
   index past the end of an array (420), distant addresses that share an entry
   (404), and the list the Qop callback loses (685). The first properties to add are
   those that state the opposite and that a run refutes, as the four violations do.
4. `AllLeaksReported` is about modules without constant expressions. With them a
   scan changes the code that later scans read, and a path that is scanned twice
   meets instructions that an earlier scan put in; MCReportsAreLeaks has such a
   module, where the verdict turns wrong.
