# A verification project for the OTTER out-of-order RV32IMACZ core

The repository is a two-wide, out-of-order RISC-V processor in SystemVerilog, and
the Python tools that verify and measure it. This directory holds TLA+ models of
both, TLC configurations that check them on small instances, and TLAPS proofs of
the results that hold for every size. The reference is the code: every definition
is read off the lines that `PROJECT.json` names under "map". One step of a hardware
model is one clock cycle; one step of a tool is one call that others can see.

Contents: [1 the system](#1-the-system) · [2 modules](#2-modules-and-the-code) ·
[3 runs](#3-what-each-run-checks) · [4 fairness](#4-fairness) ·
[5 proofs](#5-what-is-proved) · [6 disagreements](#6-where-the-code-and-its-comments-disagree) ·
[7 not modelled](#7-what-is-left-out-and-why) · [8 plan](#8-plan)

## 1 The system

| Component (source) | State it keeps | Operations of a cycle | What makes it correct |
|---|---|---|---|
| Reorder buffer (`ReorderBuffer.sv`) | ring of completion state, two banks of dispatch-time fields, head, tail, occupancy | allocate 0–2, complete up to 3, retire 0–2, squash younger than a branch, flush | the valid bits are the segment from head to tail; an entry's dispatch-time fields are its own; retirement in program order |
| Rename table (`RenameTable.sv`, checkpoints in `otter_mcu_ooo.sv`) | register → tag map, one saved map per checkpoint, who owns a checkpoint | rename 0–2, clear 0–2 at commit, save, restore, flush | the map is exact; every checkpoint stays exact while instructions commit; checkpoints do not leak |
| Reservation stations (`ReservationStation.sv`) | waiting instructions with operands or tags | insert 0–2, wake by value, wake by tag (an ALU result a cycle ahead), select oldest on two ports, squash | no lost and no early wake-up |
| Execution (`otter_mcu_ooo.sv`, `IntMultiplier.sv`, `IntDivider.sv`, FP units) | issue-to-execute registers, pipelines, iterative dividers | start, advance, hold a result until a bus is granted, kill | an instruction is in exactly one place |
| Data buses (`CdbArbiter.sv`) | none (combinational) | ALUs and branch unit own a bus each, the others share what is left, by age | oldest first, one result per bus, no bus idle |
| Dispatch and commit (`otter_mcu_ooo.sv`) | serialisation flag, committed registers, CSRs | dispatch 0–2, commit 0–2, trap, interrupt, `mret`, `fence.i` | the core behaves as an in-order machine; precise traps |
| Load/store unit (`LoadStoreUnit.sv`) | in-order memory queue, store queue, load stage, output buffer, atomic sequence, reservation | take the queue's head, forward, finish a load, run an atomic, squash, flush | memory, reservation and results as in program order |
| Store buffer (`StoreBuffer.sv`) | ring of committed stores | enter, leave, look bytes up | a queue; lookups are byte-exact |
| Data cache (`datacachefsm.sv`, `datacache.sv`, `cache_tags.sv`) | lines, tags, refill counter, uncached read in progress | refill beat by beat, merge a drained store, invalidate, hit, uncached read | a line that can hit equals memory |
| Fetch and instruction cache (`cache.sv`, `cachefsm.sv`, `imem.sv`, in `otter_mcu_ooo.sv`) | program counter, pending redirect, packet queue, lines, prefetch buffer, miss controller | fetch, refill, read ahead, promote, redirect, invalidate, snoop a store | delivers the path it was last redirected to, from code no older than the last `fence.i` |
| Branch predictor (`BranchPredictor.sv`) | tables, speculative and retired history, return stack | predict, shift, repair, train at commit, push and pop at dispatch | each branch trains the counter that predicted it; the stack holds the latest calls |
| CSR file (`CSR_FILE.sv`) | machine CSRs, counters, interrupt enables | read, write at commit, trap entry and return | effects in commit order |
| Host bridge, UART (`board/`) | AXI and serial state machines | load memory, transfer bytes | no transfer lost |
| Lockstep harness (`tools/lockstep.py`, logs of `tb_core.sv`) | jobs on a thread pool, work directories, results so far | build, run Spike, run the RTL, parse both logs, compare, collect, exit | a reported match was one; nothing right is a mismatch; the exit status says so; it ends |
| Random programs (`tools/lockstep_random.py`) | lines emitted so far | one generator function after the other, resume handler | what it writes stays in its data area, keeps its control flow and ends |
| FP reference and table (`tools/fp_ref.py`, `gen_fp_lockstep.py`) | none | add, subtract, multiply, divide, round; the generated loop | IEEE 754 rounding and flags; the loop stores each pair's results in its place |
| Assembler check (`tools/check_assembler.py`) | none | draw a stream, assemble twice, compare | every operand encodable, every label defined and in reach, no difference missed (two of these fail, see 6) |
| Coverage report (`tools/verification_report.py`) | counters per group | parse, merge, decide bins | a bin counts as hit exactly if some log hits it |
| Memory images (`tools/elf_to_mem.py`, `build_program` in `lockstep.py`) | none | bytes to words, trampoline | every byte at its address, little endian |
| Performance history (`tools/perf_snapshot.py`) | `perf_history.json`, `PERFORMANCE.md` | build, run, record, render | one sound snapshot for a label; a finished run leaves a table that shows the history |

How they interact. Dispatch writes reorder buffer, rename table and stations in
one cycle. Stations send instructions to units; units answer on three buses that
all stations, the reorder buffer and dispatch listen to. A mispredicted branch
broadcasts in the cycle it executes and, in that same cycle, restores its
checkpoint and squashes everything younger in every structure. Commit takes
finished instructions from the head, tells the load/store unit to release its
oldest store, and redirects fetch for traps and `fence.i`. All of this is
registered at one clock edge, so the hard behaviours of the hardware are **coincidences**: a
squash in the cycle of a commit, a grant, an insertion or a selection. None of
them is a concurrency of threads; all of them are combinations a directed test
rarely builds. The others are: tags that are given away again while something
still remembers the old owner; results refused a bus; stores that commit while a
line is refilled; wrong-path loads the cache cannot abandon; and waits between
queues that must not close into a cycle.

The tools meet in files. `lockstep_random.py` and `gen_fp_lockstep.py` write programs,
`lockstep.py` builds them into memory images, has Spike and the RTL simulator run
them in a work directory of each job, and compares the two logs; `perf_snapshot.py`
has the simulator run workloads and keeps two files in `docs/`. Here the hard
behaviours are of another kind: **a tool that fails, hangs or writes less than
expected must not look like success**, a file left from an earlier run must not be
taken for this one's, a killed process must not leave a history nobody can trust, and
a random program must not run out of its data or fail to end, because nothing in it
checks itself. `PROJECT.json` lists all of these as hazards, at the line where each
bites, with the properties that would catch it.

## 2 Modules and the code

```
 ProgramWindow <--- ReorderBuffer        InOrderMachine <--- OooCore
 (program order)    (ring and banks)     (ISA, registers)     |- ReservationStation
                                                              |- CdbArbiter <- BusArbitration
 RenameTable <- RenameRecovery

 PendingStores <--- StoreBuffer          InOrderMemory <--- LoadStoreUnit <- DataCache
 (queue)             |- StoreForwarding  (ISA, memory)        |- StoreForwarding

 FetchPath <--- Fetch                    BranchPrediction
 (a path)        |- InstructionCache                      A <--- B : B implements A

 LockstepTrace <- Lockstep     FpReference -----------|
 SnapshotStore <--- PerfHistory  AssemblerCheck, CoverageReport, MemImage -- ToolChecks
 RandomProgram
```

* **Tags** – ring arithmetic: `TagPlus`, `TagAge`, `TagYounger` (`ooo_pkg.sv`).
* **ReorderBuffer** – `entries` is the completion state, `bank_even`/`bank_odd`
  the dispatch-time fields. `RobCycle` allocates, completes and retires, `SquashCycle`
  completes, retires and squashes, `Flush` empties. Inputs are those the core can
  drive (`CanCommit`, `Broadcasts`, `Bundle`). **ProgramWindow** is what it
  promises: a window of the program with a result or none for each instruction.
* **RenameTable**, **RenameRecovery** – the table and its checkpoints; the second
  adds the allocation and release of checkpoints, the branch station, the execute
  register and the reorder buffer's order. Instructions other than branches are
  finished whenever commit asks, which only adds behaviours.
* **CdbArbiter** – ranks and grants as operators. **BusArbitration** drives it with
  units that hold results until granted.
* **ReservationStation** – operand states `val`, `wait`, `spec`, wake-up, readiness
  and oldest-first selection. A station is a set: which slot an entry is in cannot
  be seen.
* **OooCore** – dispatch to commit. Values are uninterpreted terms, so a
  wrong operand shows as a wrong term. `mul` stands for the pipelined units and
  `div` for the iterative ones, the FP units included: their handshakes are the
  same. A late fault (`flt`), which in the code comes from the load/store unit,
  comes from the iterative unit here. Renaming is used in the form RenameRecovery
  shows it to have. **InOrderMachine** executes one instruction after another.
* **StoreForwarding** – the youngest-overlapping-store lookup that store queue and
  store buffer share, and what memory will hold once pending stores are written.
* **StoreBuffer** – the ring; **PendingStores** the queue it implements. DataCache
  uses the queue.
* **DataCache** – `DSide` is a cycle of controller, cache arrays, store buffer and
  memory port together. `fill` is the controller's `count`: the refill asks for
  a word each beat and writes the one asked for before. Device words are memory.
* **LoadStoreUnit** – the rest: `head_take` and its five cases, `NextOut`, `NextLoad`,
  `NextAtomic`, `NextStoreQueue`, `NextReserved` are the registers of the unit;
  `Cycle` and `Flush` add dispatch, commit and recovery as OooCore has them, cut
  down to memory instructions and branches. A byte a store writes is the store's
  position in the program, so every byte has its origin. **InOrderMemory** does
  loads, stores and atomics one after the other.
* **InstructionCache** – both copies of the instruction memory, cache, prefetch buffer
  and miss controller: `ICache` is one cycle of them with a given program counter.
  `imem` and `ahead` are what the two memories read in the cycle before. Code is an
  array of halfwords, each a kind, a length and a version.
* **Fetch** – `pc_out`, the redirect that waits, the two decode windows and the
  queue (`if_id`, `if1_if2`). `Cycle` takes what dispatch consumes, a redirect, a store
  to code and the predictions as inputs; `Run`, `Redirect` and `FenceI` are its three
  uses. `since`, `told` and `idle` are histories that only properties read.
  **FetchPath** is the promise: each instruction is where its predecessor was
  predicted to continue, from the last redirect on, none missing, none twice, and
  made of code that was in memory at the last `fence.i` or has been written since; and what
  waits side by side obeys the bundle rule (`Bundled`), which is why two instructions
  dispatched together take at most one checkpoint and shift the history at most once.

* **BranchPrediction** – first `BranchPredictor.sv`: tables, histories and return address
  stack as `Predictor`, one cycle with any inputs; a vector of bits is the set of its ones. Then
  what gives it those inputs: `flight` holds the control instructions from fetch to commit with the history
  and the prediction each carries, `RunOn` is a cycle without, `BranchRecover` one with a
  misprediction, `Flush` a trap, interrupt, `mret` or `fence.i`. `calls` is a
  history that only a property reads. Fetch may fetch any control instruction in any
  cycle, so wrong paths of all kinds are in it.

* **LockstepTrace** – the two logs, the two parsers and the comparison of
  `lockstep.py`, as operators on sequences of lines. **Lockstep** is the tool: a job on
  a worker goes through `phase`, one action for each external command and for its
  failure; `file` is what lies in a work directory; the main thread collects results in
  any order and stops at the first exception. `made` is what an RTL run really did and
  `faulty` which jobs something went wrong for; only properties read them. The faults
  are a tool that fails or times out, and an RTL run that writes a wrong line, stops
  early, goes on storing while it no longer retires, fails an assertion, or leaves no
  log behind.
* **RandomProgram** – a generator function of `lockstep_random.py` is the set of groups
  it may emit; a group is run by a hart as soon as it is drawn. A register holds a
  pointer into the data area, an address of the group, a number or `Junk`, any word at
  all, so a base register that could be overwritten shows at the next access.
* **FpReference** – `fp_ref.py` for a format of any width, its fractions included.
  Its last section is the program `gen_fp_lockstep.py` generates, as what its loop does to memory.
  **AssemblerCheck**, **CoverageReport**, **MemImage** – the other computing tools.
  **ToolChecks** runs each of them once on any input of the instance, and states what
  they must return without computing it: that no other number lies between a rounded
  result and the exact value, that reading an image back gives the bytes.
* **PerfHistory** – `perf_snapshot.py`, one action for each thing it does: loading,
  building, compiling, each workload, recording, and truncating and writing each file.
  `Commit` changes the tree under test at any moment, `Kill` ends the process between
  any two steps. `saved` is what can be read from the history file; truncating it leaves
  nothing, and the list is only in the process (`history`) until it is written.
  **SnapshotStore** is the promise, a snapshot per label, recorded whole, and what is true
  of the code: the same promise until the store is lost. `Stored` maps the file to it: a
  file being written is what its process holds, a torn one that nobody writes is `NoStore`.

Modules whose name starts with MC give the constants of a run their values. Three of them
check several machines in one run: **MCStreams** takes Fetch, ReorderBuffer and StoreBuffer,
**MCUnits** BranchPrediction and BusArbitration, **MCTools** ToolChecks and PerfHistory. Those
machines share no state here, so each runs in full while the others are at reset, and the
reachable states are the sum of theirs, not the product. For this, names that would occur
twice carry the machine's: `RobNext`, `BufferSpec`, `BranchInit`, `BusNext`, `ToolSpec`.

Operators marked "Mutated" in their comment are plausible errors of one line of
the code. Nothing uses them in the specifications; each shows that a property can
fail.

## 3 What each run checks

| Run | Instance | Shows |
|---|---|---|
| `ooo_core` | all forward programs of 3 over 9 instructions and of 4 over 6, and 11 programs of 6–9; ring of 4, 2 checkpoints | `InFlightOnce`, `NoLostWakeup`, `ImplementsInOrder`, `EventuallyHalts` |
| `rename_recovery` | ring of 4, 2 registers, 2 checkpoints, 2 branch slots | `RatExact`, `CkptExact`, `CkptLifecycle` |
| `load_store_unit` | all programs of 3 over 14 accesses and 17 of 4–7; ring of 8, memory queue, store queue and buffer of 3, one cache line of 4 words | `AccessOnce`, `StoreQueueExact`, `CacheCoherent`, `ImplementsInOrderMemory`, `EventuallyDrained` |
| `streams` | fetch: 2 programs over 3 lines of 4 halfwords, cache of 2, 3 targets, one halfword rewritten back and forth | `RefillRightLine`, `NoStaleCode`, `FetchWaitBounded`, `ImplementsFetchPath` |
| | reorder buffer: ring of 4 | `ValidIsWindow`, `ImplementsWindow` under every combination of inputs |
| | store buffer: ring of 3, 2 words of 2 bytes | `ForwardExact`, `ImplementsFifo` |
| `units` | branch predictor: 4 instructions (loop branch, 2 calls, return), 2 bits of history, 1 of index, stack of 2, 2 in the window, 2 checkpoints | `HistoryExact`, `ReturnStackExact` |
| | bus arbiter: 4 requesters, ring of 4 | `GrantsOldest`, `OneResultPerBus`, `NoIdleBus` |
| `lockstep` | batches of one to three jobs over six programs, 1 or 2 workers, with and without `--keep` and `--require`, at most 2 faults | `VerdictSound`, `NoFalseAlarm`, `ExitStatusExact`, `EventuallyExits` |
| `lockstep_retirements` | the same batches, at most 1 fault | violates `RetiredBeforeSseg` (section 6) |
| `random_program` | both profiles, 3 free registers, bodies of 1–2 instructions | `AccessesKnown`, `ControlKept`, `EventuallyPasses` |
| `tools` | all operations, modes and special pairs of a format with 3 exponent and 2 fraction bits; streams of 1, 31, 32, 33, 40 and 64; two logs; images of 16 bytes | `FpExact`, `FpTableExact`, `AssemblerCheckSound`, `ReportExact`, `ImageExact` |
| | performance history: 3 invocations over 2 labels and 2 workloads, 1 commit to the tree, a kill anywhere | `LabelsUnique`, `TableAgrees`, `ImplementsFragileStore` |
| `assembler_labels` | the same | violates `LabelsResolve` (section 6) |
| `assembler_images` | the same | violates `SameWords` (section 6) |
| `perf_history_killed` | the performance history alone, the same | violates `ImplementsStore` (section 6) |

A type invariant, where a module has one, is a conjunct of a property of its run, or is proved for every
value of the constants (`ReorderBufferTypeCorrect`, `StoreBufferTypeCorrect`,
`FetchTypeCorrect`, `BusTypeCorrect`; section 5).

Four runs expect a violation: each states what a comment or a docstring says, and TLC finds
the behaviour of the code that contradicts it. The passing run beside each states what is
true of the code instead, and no more: `VerdictSound` that a match made every store up to
the pass code and retired nothing foreign on the way; `AssemblerCheckSound` that no label
but the one ahead of a last, whole chunk is missing and that every word of GNU's image
was compared; `ImplementsFragileStore` that the history keeps its promise until a process is
killed while it writes the file, and is not begun anew after that.

The properties in words are above each definition. The two refinements carry the
most: `ImplementsInOrder` says registers, CSR, program counter and saved exception
address only change as one or two instructions of the in-order machine would
change them; `ImplementsInOrderMemory` says the same of memory *as it will be when
the store buffer has drained*, the reservation and everything that loads and
atomics return. An atomic acts when it leaves the write state, a cycle or more before it
commits; the refinement mapping lets it take effect there (`Performed`).

**Bounds and why they are enough.** *Ring sizes 3–8*: every relation between two tags
depends on their ages only, so what matters is wrap-around and a full ring, and
both occur. *Two checkpoints* give nested recoveries in both orders. *A store queue of three* is full
when a fourth store reaches the head of the memory queue behind a branch, and lets three
stores commit behind one refill. *One free slot less than
demand* in each station makes every structural wait happen. *Two bytes per word*
separate covering, partial and disjoint stores. *One cache line* makes every second
line an eviction; *lines of 4 words* make a refill long enough for three stores to
commit behind it and fill the buffer, which a 2-word line does not, and for a
wrong-path refill to meet an atomic. The 17 and 11 programs were added until these
states are reached: a refill with a squashed load, a full buffer refusing commit, a
lookup that forwards from, and one that conflicts in, the store buffer, a failing and
a succeeding `sc`, all three buses owned while a unit asks, an interrupt between
commits. Programs end, so no counter needs a bound. Symmetry is used for the two
registers of `rename_recovery`, which no definition tells apart.

*Three lines of code, two in the cache* make evictions, and every word but one of a
line has its successor in the next line or a straddling instruction before it, so
the cache, the prefetch buffer and neither of them answer for either half. The
targets are a line's start, a straddling instruction and the rewritten halfword, which
turns a 16-bit instruction into the first half of one that straddles two lines. Neither
stores, redirects nor `fence.i` are bounded: the state space is finite as it is.
`FETCH_WAIT` is not a bound on the model but the claim: three cycles are reached.

*Two bits of history* tell a lost, a doubled and a reordered outcome apart, as long as no
more than two branches are in flight past dispatch; a third waits in the queue. *Two
return addresses* wrap, overflow and underflow.

*Two or three jobs and two faults* give every pair of outcomes and every order in which
workers and main thread meet; more jobs only repeat pairs, since jobs share nothing but the pool.
*Two labels and three invocations* are the least in which one label is recorded, another
recorded, and the first replaced; or one label recorded, the file torn over a second, and a
third invocation that finds it torn. *Streams of 1, 31, 33 and 40* end in a chunk that is cut
short, those of 32 and 64 in a whole one; a word too many may stand behind any instruction,
the last one included. *Three free
registers* are one of each kind the generator tells apart: x1 is the link register, x8 is
one compressed instructions can name, x5 is neither; where a function draws several,
they may coincide or differ.
A draw of the random generator is one of its two ends: offsets, masks and lengths are
used in comparisons with a bound only. *A small floating-point format* has every kind of
number, and all 2^6 of them can be compared with a result; nothing in the code depends on
the width but through the two constants. MAX_FAULTS, MAX_COMMITS, MAX_INVOCATIONS, LENGTH,
BODY and PATH bound the models; BODY and PATH are smaller than the code's lengths, and
what stands in a body does not depend on what stands before it but through registers.

In LoadStoreUnit the program gives addresses and a branch goes to any later
instruction; in OooCore predictions are free. So a behaviour covers every wrong path
within the program.

## 4 Fairness

Safety runs use none. `EventuallyHalts` and `EventuallyDrained` use weak fairness of:

* a cycle in which the front end delivers what dispatch accepts, divisions finish and
  operands are ready – the clock never stops, fetch refills end after a fixed count
  (`cachefsm.sv`), and the dividers are bounded counters (`IntDivider.sv`, `fp_divider.sv`);
* a cycle in which the load/store unit's result gets a bus – a request is refused only
  in favour of executing ALUs and branches or older requests, and `ooo_core` shows that
  the oldest is served; and in which the oldest branch that can execute does;
* recovery and flush, which are forced by the state in the code.

Nothing is assumed of the order or the number of cycles in between.
That fetch makes progress is stated without fairness: `FetchWaitBounded` counts cycles.

`EventuallyExits` assumes weak fairness of Lockstep's next-state relation, nothing of any
one job or worker: the tool runs every external command under a timeout
(`lockstep.py:114`), so some step is always taken in the end, and a hanging tool is one
that times out. `EventuallyPasses` assumes the same of RandomProgram: the generator
emits until it has its lines, and a hart executes. Without it TLC could stop in front of a
step; with it a loop that never ends is still found, as its steps are fair too.

## 5 What is proved

| Theorem | For all | Statement |
|---|---|---|
| `ReorderBufferTypeCorrect`, `ReorderBufferWindow` | even ring sizes, any instruction and result sets | `[]RobTypeOK`, `[]ValidIsWindow` |
| `ReorderBufferImplementsWindow` | the same | ReorderBuffer implements ProgramWindow |
| `OooCoreInFlightOnce` | programs, ring sizes, registers, checkpoints, station sizes, depths of the pipelined unit | `[]InFlightOnce` |
| `OooCoreNoLostWakeup` | the same | `[]NoLostWakeup` |
| `OooCoreValues` | the same | `[]ValueInv`: what is in flight is what the program computes |
| `OooCoreImplementsInOrder` | the same | OooCore implements InOrderMachine |
| `RenameTableExact`, `RenameCkptExact`, `RenameCkptLifecycle` | ring sizes, registers, numbers of checkpoints and station slots | `[]RatExact`, `[]CkptExact`, `[]CkptLifecycle` |
| `ArbiterGrantsOldest`, `ArbiterOneResultPerBus`, `ArbiterNoIdleBus` | numbers of requesters, ring sizes | `[]GrantsOldest`, `[]OneResultPerBus`, `[]NoIdleBus` |
| `AccessesAreOnce` | programs, ring sizes, sizes of both queues, of the store buffer, the cache, its lines and memory, any device words that are whole lines | `[]AccessOnce` |
| `StoreQueueIsExact` | the same | `[]StoreQueueExact` |
| `CacheIsCoherent` | the same | `[]CacheCoherent` |
| `LoadStoreUnitValues` | the same | `[]ValueInv`: a finished load holds what a machine in program order reads |
| `LoadStoreUnitImplementsInOrderMemory` | the same | LoadStoreUnit implements InOrderMemory |
| `StoreBufferTypeCorrect` | depths, power of two or not | `[]BufferTypeOK`: head, tail and occupancy agree |
| `StoreBufferForwardExact` | the same, any stores and lookups | `[]ForwardExact`: forwarding is byte-exact |
| `StoreBufferImplementsFifo` | the same | StoreBuffer implements PendingStores |
| `FetchTypeCorrect` | sizes of memory, line and cache | `[]TypeOK`: the queue never takes a third packet |
| `FetchRefillRightLine` | the same | `[]RefillRightLine`: the assertion at `otter_mcu_ooo.sv:534` never fires |
| `FetchNoStaleCode` | the same, any stores | `[]NoStaleCode` |
| `FetchImplementsStream` | the same, any predictions and redirects | Fetch implements FetchPath |
| `FetchWaitIsBounded` | the same | `[]FetchWaitBounded` |
| `PredictorTypeCorrect` | programs, history bits, table, stack and window sizes | `[]BranchTypeOK`: who is in flight fits the reorder buffer and the queue |
| `PredictorHistoryExact` | the same | `[]HistoryExact` |
| `PredictorReturnStackExact` | the same | `[]ReturnStackExact` |
| `LabelsStayUnique` | labels, workloads, metrics, numbers of commits and invocations | `[]LabelsUnique` |
| `TableStaysTrue` | the same | `[]TableAgrees` |
| `HistoryImplementsFragileStore` | the same | PerfHistory implements the fragile store of SnapshotStore, and only a kill while the file is written loses it |
| `ProgramAccessesKnown` | registers a program may overwrite, lengths of programs, bodies and paths | `[]AccessesKnown` |
| `ProgramControlKept` | the same | `ControlKept`, a property of every step |

*Reorder buffer.* Neither statement is inductive alone: after a squash the occupancy
is computed as the branch's age plus one less what commits, which stays in range only
because the branch is valid, hence inside the window, and unfinished, hence not among
what commits. `IInv == RobTypeOK /\ ValidIsWindow` is inductive. `CommitWithinWindow` and
`CommitStopsBeforeBranch` are these two facts; then one lemma per action, resting on
the arithmetic of ages (`AgeAfterCommit`: retiring n lowers every age by n; the lemmas
on tags stand at the head of each proof module that needs them). The window it implements
is read off the ring by age (`Window`), and a step is taken apart the way the code does it: buses
fill in by tag what the window fills in by position (`CompletionDelivers`), what commits is
finished and at the front (`CommitRetires`), the two banks hold the static fields of exactly
the new tags (`BanksHoldBundle`), and the rest is a sequence cut and extended (`CutAndAppend`).

*Out-of-order core.* The proof has two halves. The first is about *places* and needs no
values. `IInv` joins five parts: `RingInv` (what is done or not lies inside the window),
`UnitInv` and `StationInv` (an entry in a unit or a station is an unfinished instruction in
flight of that class, held once), `PlaceInv` (every unfinished instruction is in one), and
`WakeInv` (an operand that waits names an older unfinished instruction of the window, one
woken early an instruction an ALU executes). None is inductive without the others: that
no copy appears at dispatch needs that tags outside the window are nowhere, that
a bus carries an instruction once needs that it is in one unit, and that no wake-up is lost
needs that every broadcast comes from a unit in the window. A cycle and a recovery are treated
alike, with the set of tags that survive as a parameter. `InFlightOnce` and `NoLostWakeup` follow.

The second half is about *values*. `Source(t, r)` is what the machine in program order would
read at t: the result of the youngest older writer in flight, or the committed register; and
`Producer` exists because < on ages is well-founded. `ValueInv` says that what is in flight is
in program order up to predictions still open (`PathInv`), that operands are `Source` or
name the `Producer` (`OperandInv`), that units and finished entries hold what is computed from
it (`ResultInv`, `DoneInv`), and that serializing instructions and CSR accesses have the
machine to themselves (`SystemInv`). The heart is that a cycle does not change `Source`: a
writer that commits leaves its result in the register, unless a second writer of the same
register commits with it; one that is squashed is younger than everything that stays.

With it the refinement is short: a cycle that commits nothing is a stutter, one or two
commits are one or two steps of the in-order machine with the values `ValueInv` gives, a flush
is the trap, `mret` or `fence.i` at the head, and an interrupt finds the buffer empty, so that the
program counter of dispatch is the architectural one.

*Load/store unit.* One invariant carries the three properties of places. `RingInv` and `OrderInv` put what is in
flight in program order on the ring, with a system instruction alone in it. `PlaceInv` is the
partition of the unfinished accesses, and that the memory queue holds the youngest of them, because it
issues in order. `QueueInv` is the store queue with the words and data its entries must have.
`LoadInv` says that the load stage holds no load an older queued store overlaps, `PortInv` that the
port's last word is the one the refill or the uncached load waits for, `AtomicInv` that a running
atomic finds the store queue, the store buffer and the data side empty. A cycle may commit two, squash,
take the oldest access, end a load and grant the output buffer at once: `PlaceMoves` reduces it to
what enters and leaves each place, `StoreQueueMoves` to an interval of the store queue and one entry behind it.
The data side is followed under what the unit owes it (`CycleBargain`, `FlushBargain`: a load
that is stalled stays, squashed or not, and a store commits only into a free slot), so a cycle and a flush share
`StepPort`, `StepRefill` and `StepLines`. Quotient and remainder of a word by the length of a line
(`DivisionUnique`) are the only arithmetic.

The values are a second invariant on top. `Coming` is memory as it will be when the store
buffer has drained, `Seen(t, w, l)` the byte a load at tag t has to find: that of the youngest store
of the store queue older than t that writes it, or that of `Coming`. `ValueInv` says that every finished
load of the window holds these bytes, and that nothing from the head on has been returned
yet. A load gets its value forwarded from the store queue, or from the load stage, which has it from
the store buffer, the cache, a refill or a device; each is shown to give `Seen`. That the bytes keep being `Seen` afterwards is the delicate half, since a store that commits
moves from the queue to `Coming` under every load behind it, and stores enter the queue
only behind the loads that have left it, in program order. For the refinement an
instruction takes effect when it commits (`CommitFirst`, `CommitSecond`: the second of two
finds the state the first leaves) and an atomic when it leaves the write state
(`AtomicMaps`), from where to its commit `Performed` holds and the program counter of the
abstract machine is ahead of the head. All other cycles are stutters (`StutterMaps`): drains,
merges, evictions, refills and squashes leave `Coming` alone, and so does a flush, which takes a
trap at most (`FlushMaps`).

*Renaming.* None of the three is inductive alone. `RatExact` after a recovery needs the
checkpoints exact; that a checkpoint stays exact needs its branch not to commit and not to
lose its tag, which is `CkptLifecycle`; and that needs that a branch waits in one place with
one checkpoint (`HeldOnce`), or the execution of one copy would leave another behind. The
fifth part, `LiveInWindow`, says that the instructions in flight are the `used` oldest tags.
Tables are compared with windows of the ring: `Exact(table, Window(h, n), ...)` says that a
table is right for the n oldest tags. `ExactCleared` (commit) and `ExactRenamed` (dispatch of
one slot) are the two facts about tables, `BranchesFrom` the one about branches: whichever of
them survive, the selected one moves to execution and the others stay. A cycle, a recovery
and a flush are then combinations of these.

*Arbiter.* Every granted request has a rank below the number of free buses, ranks of
distinct requests differ (`RankInjective`: of two requests the older counts in the
younger's rank) and the buses invert the ranks (`BusOfRankUnique`). That
requesters hold different tags is the type invariant `BusTypeCorrect`, proved first. That no
bus idles needs more: that the ranks leave no gap. n requests have n different ranks below
n, hence all of them (`RankTaken`, by the theorem that an injection between finite sets of
one size is onto), so each bus below a refused request has a taker.

*Store buffer.* The invariant is inductive as it stands; the proof is one lemma on
stepping around the ring and the four combinations of entering and leaving. Exact
forwarding follows from the types alone: a byte's last writer is among the stores that
overlap the load, so if the youngest of these covers the load it is the last writer of
every byte (`YoungestExists`, from the well-foundedness of <, and `LastUnique`). The queue
is a refinement with one case per element: an element that stays is not in the slot the
new store enters (`TailIsFree`).

*Fetch.* `RefillRightLine` is inductive alone: the controller refills only after a cycle
whose miss held the program counter. `NoStaleCode` needs it, the types, and that memory
itself is never behind the history (`CodeKnown`); with them `FreshStep` takes one
cycle of the cache apart: what was read is current because a `fence.i` cycle writes
no store, what was kept stays current until a `fence.i`, which keeps nothing. Two
arithmetic lemmas put lines and halfwords of any size in range. The refinement needs
no further invariant than the types, freshness and that the queue is a bundle; its weight is in
`FetchedIsCurrent` (either half of a word comes from the line it belongs to, in the cache, the
prefetch buffer or memory, and is current), in the lines on both sides of a straddling word and of the
end of the memory (`WindowLines`, `NextWordLine`), and in `DeliveredFollows`: what is delivered
follows what is left. For the bound, `WaitInv` bounds the empty cycles by what fetch still waits
for: the refill, the miss, or the second word. `LineStays` says that a refill never evicts
the other line a word needs.

*Branch predictor.* That the window is not overrun needs that only the youngest waits for
dispatch (`Room`). `HistoriesLinked` is inductive given the types: `RunFlight` and
`RecoverFlight` say that no step changes the history an instruction leaves, but for the one
that recovers, which becomes the youngest; `RetiredHistory` that what commits leaves the
history its successor carries, and `FetchedHistory` that what is fetched continues it. The
stack is compared slot by slot, counted backwards from the pointer: `SlotFromAbove` and
`SlotFromBelow` say that a slot is the same slot after the pointer has moved, wrapped or not.

*Performance history.* The file is behind the list in memory from the moment the snapshot is
taken, and holds nothing while it is written, so the invariant says where the two stand to
each other in every phase (`ListFollows`: one recording apart, then the list alone), that a file
is torn in a write in progress or after a kill (`TornOnlyInWrite`), that a
recording invocation has a label and that nothing was run before the simulator was compiled
(`NothingRun`, which makes a snapshot come from one core). `RecordedUnique` and
`RecordedStore` say what recording does to the list and to the store read off it: an
assignment at one label. With them each action keeps the invariant. For the refinement,
`TruncateRecords` says that what is stored changes by that assignment when the file is
truncated, as from then on the process holds it; `KillLoses` that a kill in that phase, and in
no other, turns it into the lost store; and `OthersKeepStored` that no other step touches it,
the one that writes the file included. That a store is never the lost one is `StoreThere`.
The promise without the loss, `ImplementsStore`, is false (section 6) and not proved.

*Random programs.* The properties are about one instruction, but hold because of what the
instructions ahead of it in the group left behind, so a group is annotated: `Annotated(g, K)`
says that K gives for each instruction the register that matters there, the values it may
hold and whether there is a reservation, that each instruction is right under its annotation,
and that whatever it does, traps and branches included, leads to an instruction whose
annotation then holds. The proof is that every group of every generator function has such a K
(`GroupsAnnotated`), for any registers and any number of instructions in a body. Most groups
need no facts of their own: they are blocks (`Block`), which reach memory through the bases
alone, overwrite no base and jump inside themselves; blocks are closed under concatenation
(`BlockConcat`), and so is the body of a branch, a loop or a path. Atomic groups, traps through a
pointer and dependency chains are straight code with one fact handed from each instruction to the
next (`LinearAnnotated`, `ChainAnnotated`), and a call is laid out in parts around its
leaf, whose registers leave out the link (`CallAnnotated`). `ProgramIInv` then says
that the hart is at an instruction whose annotation holds, with the three bases intact, or in
the prologue that sets them up. It quantifies over annotations, so TLC cannot evaluate it and
checks the two properties only. Both theorems are about draws at the two ends of their ranges,
like the model.

Assumptions are those of the modules: programs made of instructions, of which `mret` and
`fence.i` write no register (`DispatchDecode.sv:163-170`); ring and depth at least 1 (even for the two
banks), "no tag" is not a tag, the sets of instructions and stores not empty; memory and
line not empty, programs and stores to code made of parcels, targets in the memory;
accesses to lanes of words in the memory, device words that are whole lines (`datacache.sv:85`),
at least one slot, line and word; cycles among the metrics every core reports, "no label" not a label, the lost store not a store;
a return address stack of a power of two, program counters that are sets of bits, no
return that writes a link register; the registers a random program may overwrite leave out the
bases and x31 and have x1 among them, as `FREE_REGS` does (`lockstep_random.py:36`).

**Only model-checked:** the lockstep harness (`VerdictSound`, `NoFalseAlarm`,
`ExitStatusExact`) and the computing tools; and the liveness properties, that a random
program ends among them, since fairness and ENABLED are outside the prover. These tools parse, round, filter and
compare: what they claim is what definitions recursive over data compute for any input.
For the lockstep harness two more things are in the way: the prover has no definition of
`SelectSeq`, which both log parsers are made of, and knows nothing of powers, which give
a store its bytes. `ExitStatusExact` rests on `NoFalseAlarm`: exit status 1 is blamed on a job
that went wrong because a job that did not would have matched.

## 6 Where the code and its comments disagree

Four have a run that shows them, and an entry in `findings`:

* `lockstep.py:284-286` says that everything Spike retired before the SSEG store has also
  retired, identically, on the RTL. The retirements are paired with `zip` (292), which ends
  with the shorter trace, and only the stores are counted (307). In `lockstep_retirements` the
  RTL logs all stores of a program and no retirement, and `RetiredBeforeSseg` is violated: a match.
* `check_assembler.py:61` (`labels`) promises a label behind and one ahead of every
  instruction. The label behind the stream is `L{count // CHUNK + 1}`; when the count is a
  multiple of 32 the last chunk needs `L{count // CHUNK}`, which is emitted nowhere (107, 162).
  `assembler_labels` has a branch to it in a stream of 32 (`LabelsResolve`).
  The default count of 3000 is not such a multiple.
* `check_assembler.py:6-8` says the encodings are compared word for word. The loop at 201 goes
  over GNU's image, and the lengths are not compared: in `assembler_images` a word too many
  behind the last instruction leaves the exit status at 0 (`SameWords`).
* `perf_snapshot.py:7-8` and 198 say that a snapshot is stored under its label and replaces the
  one of that name. `write_text` (247) truncates the file first; in `perf_history_killed` the
  process is killed there, and what is stored is lost (`ImplementsStore`). Every later
  invocation, `--render` included, fails to load the file until it is repaired by hand
  (`LoadFails`), so it is at least not overwritten by a history of one snapshot.

The others break no property, or are not modelled:

* `ooo_pkg.sv:10` says a checkpoint is held exactly as long as a branch-station entry,
  so that dispatch never waits for one. The entry is freed at selection, the
  checkpoint one cycle later at execution. It can cost a cycle; `CkptLifecycle` shows
  nothing leaks.
* `otter_mcu_ooo.sv:1365` says a CSR access at the head always wins a bus. Age decides
  only among requests for free buses, and both ALUs and the branch unit may own all
  three. The access asks again; `ImplementsInOrder` and `EventuallyHalts` hold.
* `cache.sv:122` describes the event `prefetch_useless` as a prefetched line replaced
  without ever supplying an instruction. The buffer is read again in every cycle that
  hits, mostly with the line it holds, and each such cycle raises the event.
  `prefetch_used` cannot become 1: its assignment is the `else` of a condition it implies.
  Only the counter is wrong.
* `otter_defs_pkg.sv:84` says nothing is buffered behind a control
  instruction and slot 1 never issues one; the bundle rule at `otter_mcu_ooo.sv:380`
  lets an instruction follow a branch predicted not taken, and a branch be second.
  Waiting for the refill (`otter_mcu_ooo.sv:457`) is not needed by today's controller:
  moving the program counter at once satisfies every property here.
* `lockstep.py:252` gives each job its own directory because jobs run in parallel; the
  directory is the stem of the source, which two sources in different places may share.
* `lockstep_random.py` draws the word `0x02001033` as an illegal instruction (`gen_trap`):
  it is `mulh x0, x0, x0`, which this core has, and traps nowhere. The
  program stays right, the draw tests less than meant.
* `perf_snapshot.py:236` records the commit it finds when the runs are over; a commit in
  between is recorded for a core that was not measured.
* Two invocations of `perf_snapshot.py` at the same time lose the update of one; PerfHistory
  excludes them.

## 7 What is left out, and why

* Decoders, ALU, FP arithmetic, the divider's digits, byte formatting: combinational
  functions of data, with reference models in `tools/`. Data are uninterpreted.
* Victim choice (PLRU tree or LRU ages in `cache_tags.sv`): a refill takes the lowest
  invalid line, otherwise any line, which includes what either policy chooses.
* Instruction tags are wider than the memory: addresses that alias the same memory line
  are one address in Fetch. Decoding of compressed instructions is reduced to the length
  and kind of what starts at a halfword. Reset is the initial state.
* L2 cache: off in the default configuration (`otter_defs_pkg.sv`).
* Memory instructions inside OooCore, and ALU instructions inside LoadStoreUnit: the
  two machines share dispatch, tags, squash and commit rules and meet at the output
  buffer, whose bus is arbitrated in OooCore and a free choice in LoadStoreUnit.
* OooCore takes at most one interrupt in a behaviour.
* Device registers behave as memory: reads of the board's devices change nothing
  (`board/zybo/zybo_top.sv`), so a repeated or wrong-path device read is unobservable.
* CSR registers, host bridge, UART: not yet, see 8. A prediction is any target for a
  control instruction, in Fetch and in OooCore, so neither rests on the predictor. A warm
  reset, which leaves the direction table as it is, is not an action of BranchPrediction; what
  the return address stack keeps of squashed calls, and what a return fetched before the
  call ahead of it dispatched reads, costs mispredictions only, and nothing is claimed of it.
* Board wiring, directed testbenches, `tools/assemble_tests.py` (text processing without
  state; `check_assembler.py` compares its output), shell scripts, benchmark and RTOS software.
* In the tools: command-line parsing, messages, file formats, register names and mnemonics;
  the middle of a range where only its ends matter. Two lockstep jobs of one stem and two
  `perf_snapshot.py` at a time are excluded, as nothing in the code provides for them.
* A hart in RandomProgram executes what the generator can emit, not the instruction set;
  values other than addresses and loop counters are not computed.

## 8 Plan

Done, in this order: ReorderBuffer, RenameRecovery, CdbArbiter, OooCore, StoreBuffer,
LoadStoreUnit over DataCache, Fetch over InstructionCache; proofs of the ring, the arbiter,
the store buffer and fetch.

Then the tools: LockstepTrace and Lockstep, RandomProgram, FpReference,
AssemblerCheck, CoverageReport and MemImage, PerfHistory over SnapshotStore; proofs of
the performance history. Then the proofs of renaming, and BranchPrediction
with its proofs. Then the refinements of the reorder buffer and of fetch, the proofs
of the core and of the load/store unit, values and refinement last, and those of the random
programs, which stand in ToolProofs beside those of the performance history.

Further models, most important first:

1. **CsrFile** – trap entry and return, interrupt condition, counters with their width,
   write and count in the same cycle.
2. **CacheTags** – PLRU and LRU as operators: the ages stay a permutation, the victim is
   never the line touched last; DataCache's free choice refined by it.
3. **HostBridge**, **Uart** – AXI handshakes while the host loads memory; overrun.
4. **IntDivider**, **IntMultiplier** – against `\div`, `%` and `*` at small widths, with
   division by zero and signed overflow.
