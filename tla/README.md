# TLA+ models of the Asim feeders

This directory models the control of the Asim feeder package: the code that
supplies a performance model (PM) with the instructions of simulated threads.
TLC checks the modules on small instances; TLAPS proves the main safety
properties of the context scheduler, the trace feeder, the synthetic feeder, the
SoftSDV link and feeder, the memory values and the Mingo scheduler for every
value of their constants. `PROJECT.json` lists components, runs, mutants, the map from
definitions to source lines, findings, hazards and theorems.

## 1. The system

A *feeder* produces instructions (from a trace file, a functional simulator, a
generator). A simulated thread is a *software context* (SWC). The PM has
*hardware contexts* (HWC), each of which fetches from the SWC mapped to it. The
*context scheduler* decides which SWC is mapped where. One cycle of the
simulator calls `Clock` on the scheduler, then the PM calls `Fetch`, `Commit`
and `Kill` on the hardware contexts, in whatever order its pipeline produces;
the hardware context forwards to the software context, which forwards to the
feeder. Everything is speculative until it commits: the PM fetches down
predicted paths and squashes with `Kill(inst, fetchNext, killMe)`. A functional
simulator cannot go back, so every feeder built on one keeps what it has fed
and feeds it again.

| component | state | operations | correct when |
|---|---|---|---|
| context scheduler (`feeders/scheduler/context_sched`) | list of SWCs, round-robin index, registered HWCs | StartThread, Clock / IntervalTimer, StartDeschedule, ContextSwitchCompleted, SoftwareContextExited | mapping is one-to-one, nobody starves, no HWC idles beside a waiting thread, no ASIMERROR |
| software context (`feeders/common/sw_context`) | HWC, runnable / deschedulePending / deletePending, contextSwitchState, running | Fetch, FetchMicro, Commit, InitiateContextSwitch, HandleEndThread | its switch state agrees with the scheduler's; restarts after a switch |
| hardware context (`feeders/common/hw_context`) | running SWC, last commit cycle | Fetch, Commit, Kill, CheckLiveness | agrees with the SWC on the mapping |
| trace feeder (`feeders/inst/trace/tracefeeder`) | per stream: buffer, wrongpath flag, end flag; instruction limit | Init, Skip, WarmUp, Fetch, Commit, Kill | the PM retires exactly the trace, whatever it predicts and squashes |
| trace buffer (`feeders/inst/trace/tracebuffer`) | circular buffer with head, lastcommit and filled indices | FillBuffer, NextInstr, Backup, SkipOverWrongpath, CommitInstr, CommitAll | a slot keeps its instruction until it commits |
| trace readers, instruction, converter | position in the file, frame and predicate registers | GetNextInst, Convert | each slot gets the next syllable, with its flags |
| Gambit feeder and refeed buffer (`feeders/inst/gambitv3`) | queue with head, tail and mis-speculation point; NEXT_IP, wrong-path and last-instruction flags | Fetch, Refeed, Commit, Kill, Skip | replays what was squashed, once and in order |
| memory values (`feeders/memory-values`) | per cell: global value, list of local stores per processor | make a store locally or globally visible, kill it, read | a load sees the youngest store its processor may see |
| synthetic feeder (`feeders/inst/synthetic`) | issued list, memop map, outcomes by iteration number | Fetch, Issue, DoRead, DoWrite, Commit, Kill | a branch follows its own test; one thread holds the lock |
| SoftSDV stub (`feeders/inst/softsdv/asim_softsdv_stub`) | shared-memory rings, isActive flags, credits | OpenNext, Close, Blocked, Exiting, ExecuteAsim | no instruction lost or read half written; nobody waits for ever |
| SoftSDV feeder (`feeders/inst/softsdv`) | replay buffer with nextFetch, bad-path flag, pending system event | WarmUp, Fetch, MergeREPInstrs, Commit, Kill | retires the stream; interrupts are precise and none is missed |
| Mingo scheduler, software context and client (`mingo_context_sched`, `mingo_sw_context`, `inst/mingo`) | shared packet per thread, list of SWCs, pause and wait state | events sent and answered, polls for new and resumed streams, timer, fetch, commit | no two SWCs on one HWC; nobody is passed over for ever; every answer is given; every stream ends |
| address translation, memory, AINT and tracer feeders, other schedulers | see section 5 | | |

What is hard here: the PM's call order is arbitrary; state about one switch or
one instruction lives in several classes updated by different calls; context
switch instructions can be squashed, resent and left over; buffers reuse slots
that a squash may need again; flags survive in reused slots; the end of a stream
is discovered speculatively; two processes share memory without locks and
either may vanish; scheduling decisions nest. `hazards` in `PROJECT.json` has
the forty that matter most, each at its line, with the properties that would
catch it going wrong; section 3 lists what no run covers.

## 2. Modules

| module | what it is |
|---|---|
| `ContextScheduler` | scheduler, software contexts and hardware contexts with the PM's queue per HWC |
| `ThreadDispatch` | abstract specification: what the scheduler promises |
| `ContextSchedulerProofs` | lemmas, inductive invariant and theorems; that the scheduler implements `ThreadDispatch` |
| `TraceBuffer` | the trace buffer and its reader, as operators on a buffer value |
| `TraceFeeder` | the trace feeder over one buffer per stream, with its software context and the PM |
| `TraceFeederProofs` | the buffer's operations, the inductive invariant of its slots, `SlotStable` |
| `TraceFeederPath` | the inductive invariant of the path and the theorems about it |
| `RefeedBuffer` | the Gambit refeed queue, as operators on a queue value |
| `GambitFeeder` | the Gambit feeder over the queue, with the reference model and the PM |
| `MemoryValues` | a cell of the memory value model, as operators |
| `StoreVisibility` | processors that store to a cell, against a reference memory |
| `StoreVisibilityProofs` | proofs that lists, cell and loads agree with the reference |
| `SyntheticFeeder` | the synthetic feeder's lock routine over `MemoryValues`, with the PM |
| `SyntheticFeederProofs` | tests and iteration numbers, the inductive invariants of the feeder and of the lock, theorems |
| `SharedRing` | one shared-memory ring, as operators |
| `BoundedQueue` | abstract specification: what a ring promises |
| `SoftsdvLink` | the two processes of a SoftSDV simulation over their rings |
| `SoftsdvLinkProofs` | ring arithmetic, inductive invariants and theorems; that the rings are queues |
| `ReplayBuffer` | the SoftSDV replay buffer, as operators |
| `SoftsdvFeeder` | the SoftSDV x86 feeder over the replay buffer, with the PM |
| `SoftsdvFeederProofs` | the replay buffer's operations, inductive invariant and theorems |
| `MingoScheduler` | application threads, packets, software contexts and the Mingo scheduler |
| `MingoSchedulerProofs` | the scheduling decisions, the inductive invariants of the mapping and of what is in flight, theorems |
| `MC...` | instances of the module of that name for TLC |

Names ending in `_Something` after an operator's name (`Succ_NoWrap`) are
mutated forms of it, used to show that a property can fail. A module's
invariant that is a conjunction of named parts (`FeederInvariant`,
`CellInvariant`, `SchedulerSound`, `LinkSound`) is checked as one; there is a
mutant for each of its parts.

### ContextScheduler

Variables keep the member names of the three classes. `StartThread` is
`StartThread` → `AddSoftwareContext` → `TryRunningSoftwareContext`; `Clock`
includes the whole interval timer loop; `Fetch(h, sof)` is the path HWC → SWC →
feeder, with one disjunct for a context switch instruction, a resumption after
a swap, an ordinary instruction and the end of the stream; `Commit(h)` includes
`ContextSwitchCompleted` and the scheduling it ends with; `Kill(h, n)` keeps
the n oldest instructions in flight. ASIMERROR is the variable `error`; nothing
but `Aborted` happens after it.

Abstractions: an instruction is the SWC it belongs to and whether it is a
context switch; the cycle is kept modulo `INTERVAL_TIMER`; feeders are an
arbitrary choice between an instruction and the end of the stream.
`PipeDepth` bounds instructions in flight per HWC.

The properties: `MappingConsistent` (two copies of the mapping), `SwitchConsistent`
(two copies of the switch state), `ListConsistent`, `WorkConserving` (the
assumption stated in `Clock`), `RestartsAfterSwitch`, `NoSchedulerError`, the
action properties `NoTheft` and `NoResurrection`, the liveness properties
`NoStarvation` and `EndedStreamLeaves`, and the refinement `ImplementsDispatch`.

### TraceBuffer and TraceFeeder

A buffer value has the three indices, the reader's position, and per slot the
place in the trace and the two flags that outlive it. `FillBuffer`'s loop is
one function constructor over the slots from `filled` to `lastcommit`;
`SkipOverWrongpath`'s loop is the nearest slot without the flag;
`CommitInstr`'s loop is a universal quantifier over the slots passed. An
assertion is the field `fault`. `GetNextInst` models `SetEof` as it is: it sets
eof and pc and leaves the flags; slots never read hold arbitrary flags.
`longImm` and `nop`, which Convert sets and CommitInstr treats alike, are one
flag, `nop`.

In `TraceFeeder` the PM is external. `pipe[s]` is what it has in flight;
`resteer[s]` is the address a squash told it to fetch at; otherwise it fetches
at any address of the trace (`PredictedPcs`). It commits in order and only
when the instruction fetched next has the right address. It calls `Kill` for a
mispredicted branch (`fetchNext`), a refetch (`killMe`) and a PAL flow (both).
The controller calls `Skip` and `WarmUp` before a stream runs. Of the software
context, only what reaches the feeder is kept: the mapping, start-up at address
0 when it is not running, the request for a switch, and the switch instruction.
`retired[s]` is a ghost: the place in the trace of the last instruction the PM
retired.

The properties: `FeederInvariant` (`SlotStable`: a slot in flight keeps its
instruction; `PathFaithful`; `NothingLost`; `NoFeederError`), `StartupOnPath`,
the action property `RetiresInOrder` and the liveness property
`TraceCompletes`.

### RefeedBuffer and GambitFeeder

The queue is `FEEDER_QUEUE_CLASS`: slots, head, tail, size, mis-speculation
point, and the flags of a slot that `add` does not clear. Its errors are the
field `fault`. `Fetch` follows the order of the code's tests: context switch,
start-up, refeed of what was squashed, wrong path, a step of the reference (a
group of `GroupSize` at a time), the second syllable of a long immediate, the
end of the thread. `Commit` removes the head with the no-ops and data syllables
in front of it; `Kill` sets the mis-speculation point and restores `NEXT_IP`.

An address is an instruction's place, that of its data syllable, or a place
next to it that is not executed. The PM is external: straight-line code,
arbitrary predictions, traps, squashes off the path. `Switches` says when the
scheduler may switch (`clean`: with nothing to refeed and not inside a long
immediate), `LateTraps` whether an instruction traps after the thread has ended.

The properties: `FeederInvariant` (`BufferHoldsPipe`: the queue is what is in
flight followed by what is to be fed again, under the PM's identities;
`PathFaithful`; `NothingLost`; `NoFeederError`), `RetiresInOrder`,
`ProgramCompletes`.

### MemoryValues and StoreVisibility

A cell is its global value, the bit vector of written bytes and a list of
memops per processor. `Span` is the set of bytes of an access, `Element` the
one the C array index picks; `GlobalBasis` keeps the UINT8 truncation.
`StoreVisibility` calls the operations in any order a PM may and keeps `held`
and `memory`, the reference: stores outstanding per processor, bytes of the
memory. `LoadsSeeStores` compares every possible load with it; `CellInvariant`
says that the lists are the outstanding stores (`ListsOutstanding`) and that an
access is bound exactly when all its bytes are written (`BoundWhenWritten`).

### SyntheticFeeder

Extends `MemoryValues`: the two components are composed, the lock word is a
cell. The routine is load, no-op, conditional branch, compare-exchange,
conditional branch, store, branch; `issued`, `iteration`, `status` and
`memopMap` are the feeder's tables. The PM reads, writes speculatively, writes
for good, commits and squashes. `BranchFollowsItsTest` compares a branch with
the test before it in the pipe, although the feeder finds the outcome by an
iteration number that squashes give out again. `LockHeldByOne` ties the lock
word to the threads inside; `HolderReleases` is its liveness.

### SharedRing, SoftsdvLink and BoundedQueue

A ring has a reader index written by one process and a writer index written by
the other. A step of either process touches at most one word of the other's
memory, so that filling an entry, publishing it, seeing that a ring is empty and
looking at the other's flag are separate steps. The fault model: SoftSDV may
vanish in any step (`SdvMayDie`) or come to its end, and the PM may end the
simulation in any state (`AsimMayStop`). `RingsAreQueues` is the refinement: each
instruction ring with its words and indices implements `BoundedQueue`, with one
entry less than the ring has. `StreamIntact`, `NoSharedEntry`, `LinkSound`
(indices in range, no assertion) and `SimulationEnds` are the other properties.

### ReplayBuffer and SoftsdvFeeder

The buffer is the list of live instructions with `nextFetch`. `Fetch` is
`FetchMacro` with all it does: reading ahead (`FetchIncomingInstructions`),
raising the event when the next instruction is a new sequence, merging a REP's
iterations, and the jump, bad-path and context switch instructions it makes up.
The PM asks for the event of its oldest instruction and takes it; it commits the
instruction or bypasses it. Since reading waits for SoftSDV, what is read
depends on the stream only: `SoftsdvLink` has the waiting, this module the rest.

The properties: `FeederInvariant` (`NothingLost`, `FlightIsFetched`),
`InterruptIsPrecise` (an event belongs to an instruction in
flight, and nothing of the stream is fed behind it), `InterruptIsRaised` (none
is overlooked for want of reading ahead), `RetiresInOrder` (and no commit fails),
`StreamCompletes`. `MergedInto` says which instructions are iterations that MergeREPInstrs may drop.

### MingoScheduler

A scheduling decision of this scheduler calls itself (picking resumes streams,
resuming schedules, scheduling picks), so the simulator's part of the state and
the packets are one record and the scheduler's functions are operators on such
records, in the order of the code. The application's threads send one event at a
time through a packet and block until they are answered. They move between the
simulator's calls, while a fetch waits, and also *inside* a decision: each search
asks context after context with `FeederHasEvents(1000)`
(`mingo_context_sched.cpp:982`), which waits, so an event that was missing when
the first search passed may be there when a nested one comes by. The operators
therefore return the *set* of states a decision may leave: `Found` is the slots a
search may stop at (an event is there, or it comes while the context is asked and
no context with an event is nearer), `Arrived` posts the event that came, and
`Then` chains the sets. A search that finds another context than the stream that
was just resumed only warns (`:1428`) and runs nothing (`RunIfPicked`).

`PromptStart` says whether a new thread's first event arrives within the wait of
its first fetch; `Polls` which of the periodic duties may fall into one cycle.
`setup` is chosen in `Init` from `Setups` and never changes: how many threads the
application starts, how many operations the PM holds between fetch and commit,
and `TIMED_WAIT_CAUSES_UNSCHEDULE`.

The properties: `MappedOneToOne`; `PassedOverIsPickedLater` (the comment "It will
be run eventually" at `:1415`: a runnable context may be left beside a free HWC,
but never when nothing runs, for only the switch of a running context looks for
it); `AnsweredByCommit` (a thread that waits for an answer has an operation to be
fetched or committed, at any depth; and it waits until the commit when one
operation is in flight); `SchedulerSound`; `AllStreamsEnd`.

## 3. Runs

| run | instance | distinct states | checks |
|---|---|---|---|
| `sched_safety` | 3 threads, 3 slots, 2 HWCs of different priority, timer 1, depth 2, `CORE_SWAP_FEEDER_ENABLE`; symmetry of threads | 486 146 | all safety and action properties of the scheduler |
| `sched_live` | 4 threads, 3 slots, 1 HWC, timer 1, fair | 34 820 | no starvation, ended streams leave, implements `ThreadDispatch` with its fairness |
| `trace_safety` | loop of 12 instructions with orphans and no-ops, 8 slots, 3 in flight, switches, refetches, warm-up | 21 043 | all safety and action properties of the feeder |
| `trace_small` | the same trace, 4 slots, window 4, every option on, skips, PAL flows and address 0 included | 195 579 | `SlotStable` even where the feeder aborts |
| `trace_live` | mispredictions only, fair | 2 464 | every trace is retired to its end |
| `gambit_safety` | 8 instructions of every kind, queue of 6, groups of 2, 3 in flight, 2 events, fair | about 90 000 | invariant, order, completion |
| `memory_values` | 2 processors, values 0 and 1, bytes, a halfword and a word that overlap in a cell of 8 bytes, 2 stores held; symmetry of processors | about 172 000 | loads against the reference memory |
| `synth_lock` | 2 threads, one limited to 4 commits, window 3, history 3, 1 trap, fair | 62 190 | lists, branches, lock, release |
| `softsdv_link` | 2 CPUs with 3 and 5 instructions, rings of 4, chunks of 2 and 1, both faults, fair | 232 543 | rings, refinement, assertions, termination |
| `softsdv_replay` | 19 instructions with warm-up, REPs and interrupts, chunks 5 and 2, 4 in flight, 3 events, fair | 14 731 | replay buffer, interrupts, order, completion |
| `mingo_sched` | threads that compute, call the system and sleep, 2 HWCs, 3 slots, 1 timer interrupt; 3 threads with one operation in flight, 2 threads with two; fair | 187 081 | mapping, passed-over contexts, handshake, termination |
| `mingo_mapping` | the same with `PromptStart` FALSE | violation | `MappedOneToOne` |

Why the bounds are enough.

* Scheduler: with more threads than HWCs, and in `sched_live` more threads than
  slots, every branch of the round robin, the full list and slot reuse happen. A
  queue of two holds an instruction and a context switch, or two context
  switches of one SWC (the left-over one that a later switch meets). Symmetry is
  used for threads only, and not with liveness.
* Trace: the trace is longer than the buffer, so the indices wrap and the buffer
  is refilled with instructions in flight; it has a taken branch with one and
  with two orphans, an orphan with the address of the loop exit, an address
  executed once as a no-op and once not.
* Gambit: the program is longer than the queue, so that all three indices wrap
  while entries wait to be fed again; two events give a squash inside a refeed.
* Memory values: of any two accesses some are nested, some disjoint; two stores
  held per processor give an older store under a younger one of another size.
* Synthetic: a window of three spans a test, its no-op and its branch. A history
  of three gives each thread two tests in flight or done, so that both threads
  test a free lock, one compare-exchange wins and the other branches back, with
  squashes handing the two numbers out again. That a thread takes the lock after
  having waited for it needs longer histories: with `History = 4`, limits of 8
  and 6 commits and no liveness the same invariants hold of 1 375 412 states.
* SoftSDV link: streams longer than the rings, chunks that change when warm-up
  ends, and a request outstanding for the other CPU in every wait.
* SoftSDV replay: a REP is read in several chunks, cut by an interrupt, and
  followed by one; the window spans a REP, its event and bad-path instructions.
* Mingo: two HWCs and three threads leave one waiting; each kind of event and
  each combination of polls at the default periods occurs. The first setup has
  one operation in flight and unschedules on a timed wait; the second has two,
  so that operations of one thread are outstanding together, a thread is told
  to proceed before its operation commits, and a second context switch
  instruction can be in flight; there a timed wait stays on its HWC.

Fairness.

* Scheduler: Clock is called in every cycle and the PM keeps fetching: weak
  fairness. Commit gets strong fairness, because a squash may empty the queue
  again and again but `HW_CONTEXT_CLASS::CheckLiveness` aborts a simulation in
  which a busy HWC commits nothing for `LIVENESS_TIMEOUT` cycles.
* Trace: weak fairness of fetching and of resolving a mispredicted branch;
  strong fairness of committing, as in the scheduler, and of being given a HWC
  that is free again and again (`NoStarvation`).
* Gambit, SoftSDV feeder: weak fairness of fetching, of resolving a mispredicted
  branch, of committing and of taking a pending interrupt. Traps, squashes off
  the path and switches are bounded by a constant and get no fairness.
* Synthetic: weak fairness of each thread's `Proceed`, the PM's own work.
* SoftSDV link: weak fairness of each process (it spins); strong fairness of the
  PM's call for each CPU, which is enabled only between other calls; weak
  fairness of stopping once all streams have ended. A vanished process takes no
  step.
* Mingo: weak fairness of each application thread, of each HWC's fetch and
  commit, of a waiting fetch's end, and of the cycles in which the scheduler
  polls for new and resumed streams.

`CHECK_DEADLOCK FALSE` in `synth_lock` and `softsdv_link`: a limited thread or a
finished simulation really stops.

The finding, `mingo_mapping`: `PickSoftwareContext` calls
`CheckStreamResumption`, whose comment (`mingo_context_sched.cpp:1162`) says
that a resumed stream is not put "onto the hwc that we are working on, because
this hwc still points to the swc that it was previously running". When
`TryRunningSoftwareContext` looks for a context for a *free* HWC it points to
nobody: a new thread whose first event is late and a paused one whose event has
arrived are put on the same HWC, and one of them is never fetched again.

Met while modelling, and kept in the model or excluded by a named constant or
assumption, without a run of their own:

* Scheduler. `numSWC` is only ever incremented (`context_sched.cpp:243`). A
  left-over context switch instruction completes a later switch with
  instructions in flight (`sw_context.cpp:647`, against `sw_context.h:72`). With
  core swapping, a context switched out before its first instruction never
  starts up (`sw_context.cpp:469`, against `:460`).
* Trace. `Skip` starts with `CommitAll`, which drops the instructions read ahead
  without counting them (`tracebuffer.cpp:134`). A PM that fetches at address 0
  in mid-trace gets another start-up branch, and `Kill` of an artificial
  instruction does not move the head back (`tracefeeder.cpp:666`,
  `PredictsZero`). `Init` recognises an empty trace by the address UINT64_MAX;
  the end-of-file record has address 0 (`tracefeeder.cpp:721`,
  `ia64traceinst.h:112`). A trace shorter than the buffer leaves arbitrary
  wrongpath flags in the end-of-file slots (`InitialBuffers`). The end of the
  trace is signalled by a fetch that may be squashed (`tracefeeder.cpp:470`).
  `Kill` with `killMe` and `fetchNext` makes the next commit fail "out of order
  commit" (`tracefeeder.cpp:651`, `tracebuffer.cpp:119`, `PalFlows`). Warm-up
  that ends on a taken branch starts the PM at an orphan (`tracefeeder.cpp:485`).
  The instruction limit is counted per HWC and cleared per thread
  (`tracefeeder.cpp:598`, against `tracefeeder.h:72`). `1 << t` and arrays of
  `MAX_TOTAL_NUM_HWCS` entries are indexed by thread (`tracefeeder.cpp:719`).
* Gambit. A trap while a switch is requested leaves entries to refeed, and the
  start-up branch of the return is added behind them
  (`gambit_feeder.cpp:1857`, `Switches`); a switch between the two syllables of
  a long immediate clears `LAST_INST_WAS_MLX` (`:1697`). Instructions killed
  after the end of the thread are not fed again (`:907`, `LateTraps`).
  `ConvertWrongPath` swaps physical and virtual address (`:765`, not modelled).
* Memory values. The index of a halfword, word or doubleword is the address
  modulo the number of elements (`memory-values.h:92`): bytes and elements agree
  only at the addresses of the run. `global_basis` takes 16 bits as a UINT8
  (`memory-values.cpp:140`), `mask_128b` returns 32 bits (`:90`).
* Synthetic. `found` is set whether or not the memop was
  (`synth-thread-mgmt.cpp:479`): a locally visible store can be left over, and
  then two threads can hold the lock; `LockHeldByOne` is conditional on that. The
  iteration counter's wrap can fail the assertion at `synth-thread.cpp:277`
  (`Wraps`).
* SoftSDV link. With a register ring smaller than the register values of the
  outstanding requests, Asim waits for instructions of one CPU while SoftSDV
  waits for room in that ring (`softsdv_feeder.cpp:321`); the defaults are an
  instruction ring of 1024, a register ring of 32 and chunks of 401 and 32
  (`softsdv_stub.awb:37`). The flag that says a stream has ended may be seen
  before the last instructions (`softsdv_io.cpp:920`). `Exiting` on the SoftSDV
  side ignores its argument (`:887`). `OpenNext` may return NULL into
  `NoteRegisterValues` (`cpuapi_x86.cpp:1570`). EXECUTE_CHUNK no larger than
  WARMUP_CHUNK is needed and not asserted (`softsdv_io.cpp:325`,
  `LinkAssumption`).
* SoftSDV feeder. A REP that ends the stream: the next handle is used before it
  is compared with NULL (`softsdv_feeder_x86.cpp:341`, `StreamAssumption`). A trap
  after the end of the stream is not fed again (`softsdv_feeder.cpp:572`,
  `LateTraps`). `Kill` of an artificial NOP does not move `nextFetch` (`:873`).
  `end_warmup` without `start_simulation` leaves a first timed instruction that
  is no new sequence (`cpuapi_interface.cpp:636`). `SetNextFetch`'s count is off
  by one when `nextFetch` was NULL (`softsdv_replay.h:529`; it feeds a statistic).
  MergeREPInstrs compares addresses only (`softsdv_feeder_x86.cpp:344`): a new
  sequence at the address of the REP right in front of it would be merged and its
  interrupt lost (`NewLeavesREP`, which the run's stream satisfies).
* Mingo. With two operations in flight the run reaches two ASIMERRORs, which
  `SchedulerSound` therefore excludes only for one in flight. A packet is answered
  twice, "Packet response error": a fetch tells the thread to proceed while its
  operation is outstanding (`mingo_sw_context.cpp:587`, as the comment at `:458`
  on "multiple outstanding SWARM_OPs" wants), and the commit of the operation
  does so again (`:818`). And a fetch behind a context switch instruction that is
  still in flight times out and sends another, whose commit finds nothing to
  complete, "context is not being descheduled" (`ContextSwitchCompleted`). With
  two in flight the packet of an operation that has not been fetched yet, because
  anonymous instructions go before it, may already have been answered, although
  `:472`-`:478` explain the counting by ANONs that hold the thread back. That is
  why the second half of `AnsweredByCommit` is for one operation in flight.
  `Clock`'s comment "there should never be a hardware context free when a runnable
  software context is waiting" (`mingo_context_sched.cpp:748`) is wrong, with one
  operation in flight too: the nested search of a resumed stream stops at another
  context, whose event has just come, only warns (`:1428`) and runs nothing. What
  does hold is `PassedOverIsPickedLater`. `slot_found >= -1`
  is always true, so that a context that finds the list full is dropped silently
  (`mingo_context_sched.cpp:224`, `:456`). `nextSWCToTry` is never initialised
  though `:1113` says so: `Init` takes any slot. A timed wait during a switch is dropped
  (`mingo_sw_context.cpp:1493`).

`trace_safety` and `trace_live` switch off `PalFlows`, `PredictsZero` and
`SkipCounts` (and `Refetches` in `trace_live`), use a trace longer than the
buffer, and warm up to an instruction that is no branch. `trace_small` switches
everything on.

## 4. Proofs

`ContextSchedulerProofs` proves, for any number of threads, HWCs and slots, any
priorities, timer and queue depth, with and without core swapping:

* `SchedulerTypeOK` (`nextSWCToTry` is always a slot), `MappingIsConsistent`,
  `SwitchIsConsistent`, `ListIsConsistent`, `SchedulerIsWorkConserving`,
  `SchedulerNeverErrs`;
* the action properties `NobodyIsRobbed` (`NoTheft`) and `NobodyIsRevived`
  (`NoResurrection`);
* `SwitchedOutIsRestarted` (`RestartsAfterSwitch`).

They follow from `SchedulerInvariant`, `Spec => []IInv`. `IInv` is the
conjunction of `TypeOK` with `MappingConsistent`, `SwitchConsistent`,
`ListConsistent`, `WorkConserving` and `NoSchedulerError`; none of these is
inductive alone. That ContextSwitchCompleted raises no error needs the
agreement of the two switch flags; that removal finds the SWC in the list needs
`ListConsistent`; that the HWC goes to a thread that is not mapped needs the
mapping; that no HWC idles after a thread start needs work conservation before
it, because TryRunningSoftwareContext runs nobody when the policy picks another
SWC than the new one. `RestartsAfterSwitch` is inductive relative to `IInv`
(`NextRestarts`).

The argument has one lemma per action (`ClockIInv`, `KillIInv`, `FetchIInv`,
`StartThreadIInv`, `CommitIInv` with `CompletedIInv`), and lemmas about the
scheduler's searches: `FindActiveFinds` (the round-robin search returns a
candidate if there is one), `FindFreeFinds` (a free HWC is found if there is
one), `FirstEmptySlotIsEmpty`, `RemoveFreesSlot`. They rest on `LeastNat`, a
least-element fact. The action properties use what a step can do to the mapping
(`StartThreadMoves`, `CompletionMoves`, `StepMoves`). The assumptions are
`SizesAssumption` and `ConstantsAssumption`: a HWC whose priority is the least
INT32 would never be found free, so priorities are above it.

`SoftsdvLinkProofs` proves, for any set of CPUs, any streams, and ring and chunk
sizes within `LinkAssumption`, with and without the faults:

* `EntriesAreNotShared` (`NoSharedEntry`): neither process touches an entry the
  other is using, and publishing an entry never makes a full ring look empty;
* `StreamsStayIntact` (`StreamIntact`): what was published is, once and in
  order, in the ring or in the replay buffer.

They follow from `LinkInvariant`, `Spec => []LInv` with `LInv` the conjunction of
`LinkTypes`, `NoSharedEntry`, `Written` (the entry about to be published is the
next instruction) and `Waiting` (`StreamIntact` entry by entry). `StreamIntact`
alone is not inductive: publishing keeps it only if the entry filled earlier is
still what was filled, and only if the ring was not full. The arithmetic modulo
the ring size is in `RingFill`, `RingEntries`, `RingPublish` and `RingRelease`
(from `ModValue`); `FillKeeps`, `PublishAdds` and `ReleaseTakes` say what the
steps do to the contents; then there is one lemma per action.

The same module goes on from there, under the same assumption:

* `LinkIsSound` (`LinkSound`): no assertion of either process is reached;
* `RingsImplementQueues` (`RingsAreQueues`): each ring implements `BoundedQueue`,
  one entry filled, published, taken and released at a time.

The inductive invariant is `SInv`: `TypeOK`, `NoLinkError`, and what they need.
`Credits` bounds requests, granted and unread instructions of a CPU together by
the ring, with the chunk that is in force (`ReadsChunk`): this is why the credits
survive the change from warm-up to execution chunks. `GroupFits` says that a
group of register values fits, `UidsCount`, `ValuesInOrder` and `NeedsInOrder`
that the register ring holds exactly the values of the unread instructions, in
their order.

`TraceFeederProofs` and `TraceFeederPath` prove, for every set of streams, every
trace, buffer length and window:

* `TraceFeederTypes` and `SlotsStay` (`SlotStable`), from the first module alone
  and without any hypothesis: options, errors, `Skip` and short traces included;
* `FeederKeepsPath` (`FeederInvariant`: `PathFaithful`, `NothingLost`,
  `NoFeederError`), `StartupKeepsPath` (`StartupOnPath`) and
  `FeederRetiresInOrder` (`RetiresInOrder`), if `Regular`.

`SlotStable` is not inductive: that a fill stops in front of the last commit keeps
the slots in flight only if they lie between the last commit and the head.
`FeedInv` says so in distances from `lastcommit` (`Off`, `Limit`): what is in
flight stands at increasing distances (`Ordered`), in slots that hold it (`Held`),
in front of the head and of what has been filled (`Within`). Every operation
of the buffer has a lemma that says what it does to distances and slots; the
loops (FillBuffer, SkipOverWrongpath, `Skip`) are taken by their first exit, or
turn by turn.

The second module gives every slot its place in the trace: with `c` the place of
the last commit, the slot at distance d holds instruction `c + d` (`Content`), or,
in front of it, what was read a buffer length earlier; the head is at place `At`.
`Tracks` says that what is in flight, no-ops dropped meanwhile and orphans added,
is an interval of the trace up to the head (`Line`, `Accounted`). The order of what
is in flight is `Chain`: every instruction follows the one in front of it or the
start-up branch, and only the youngest may be mispredicted. `Signals` relates the
feeder's flags and the address the PM goes on at to both: where the PM stands on
the path (`Stands`), the head is no orphan (`Settled`) and is the next one fetched.
`PathInv` is that such a `c` exists for every stream and no error is reached. Only
together are they inductive: a kill is right only if the head moves back to the
place that follows the instruction killed, which is what `Line` and `Content` know
about slots that were passed.

`Regular` excludes `PalFlows`, `PredictsZero` and `Skip`, and asks of each stream
that the buffer always holds as many instructions as may be in flight
(`TraceFits`) and that warm-up does not end in front of an orphan
(`WarmupEndsOnPath`). Each case that it leaves out is one in which the code leaves
the path or aborts (section 3). `MCTraceFeeder` assumes `LoopIsRegular`, so that
TLC checks that `trace_safety` and `trace_live` are regular; `trace_small` has every
option on, and checks there what holds there, `SlotStable`.

`SchedulerDispatches`, in `ContextSchedulerProofs` too, states that `Spec`
implements `DispatchSafety`, the safety part of `ThreadDispatch`, under the
refinement mapping of `ImplementsDispatch`. Given `IInv`, every action is mapped to
a step of the abstract scheduler or leaves the mapped variables alone; the lemmas
about what a decision does to the mapping are those of the action properties.

`StoreVisibilityProofs` proves, for every cell size, number of processors and
stores:

* `ListsAreOutstanding`: `TypeOK`, and a processor's list is exactly its stores
  that are locally and not yet globally visible, in program order;
* `CellInvariantHolds` (`CellInvariant`) and `LoadsSeeTheirStores`
  (`LoadsSeeStores`): cell and loads agree with a byte-addressed memory.

The first needs no hypothesis. The other two have `ElementsAgree`: the element
that the C array index picks is made of the bytes of the access, and
`global_basis` counts them. Accesses for which they are different bytes break the
agreement in the code too (section 3); the instance's module assumes of the run's
accesses what the run relies on. The invariant is `ListInv` with `GlobalIsMemory`;
a load is a search down the list for the youngest store that covers a byte, so
that the proof is about `Covering`, not about the list's recursion.

`SyntheticFeederProofs` proves, for any number of threads, window, history, number
of traps and of stores held locally, and any limits on what the threads commit:

* `BranchFollowsTest` (`BranchFollowsItsTest`), if `~Wraps`;
* `FeederLists` (`FeederInvariant`: `IssuedIsPipe` and `NoFeederError`), if `~Wraps`
  and `Window <= WrongPathLimit`;
* `OneHolder` (`LockHeldByOne`), if `~Wraps`.

`~Wraps` says that no thread uses up its iterations: with the wrap, the code's
assertion at `synth-thread.cpp:277` can fail. `Window <= WrongPathLimit` says that
less is in flight than WRONG_PATH_LIMIT. `MCSyntheticFeeder` assumes both of its
instance (`IterationsLast`). `FeederAssumption` asks besides for the cell and the
values that a 4-byte lock word needs.

They rest on `Sane`, which puts together what the tables say of each thread.
`Sound` is about its lists: every instruction in flight was fetched where the one
in front of it was predicted to go, and has begun only if those in front of it have
executed (`Flow`); the issued list is the front of the pipe (`Vouched`); there is a
number after every issued instruction that grows by one with a test and by
nothing else, and ends at the iteration counter (`Levels`); and the status array
holds, under those numbers, what the tests have found (`Recorded`).
`BranchFollowsItsTest` alone is not inductive: a squash moves the counter back to
one less than the oldest test it reaches, and the status that the next test
overwrites must not be one that an older branch still looks up. `Standing` says
what a thread holds by the place its commits have come to: `holds` changes at a
write, which comes before the commit of a compare-exchange and may come after the
commit of a store. `Tidy` says that a thread that fetches outside the routine has
all the fetches counted by `wrongPath` in flight, and a thread is an owner exactly
while the head of its pipe is a compare-exchange that has read and not written
(`Reserving`).

`LockHeldByOne` is conditional: a locally visible store that is left over breaks
it in the code too (section 3). What is left over stays left over (`Stays`), so
the condition held before a step if it holds after it, and `LockInv` says of those
states that one thread at most is inside, and one exactly while the word is set
(`Locked`), and that what a reserving compare-exchange has found still agrees with
the word (`ReservedWord`): this is what makes the write of
`handle_mvm_one_write` right, which looks up what the read has found. There is one
lemma per action for each of the two invariants.

`SoftsdvFeederProofs` proves, for every stream, chunk size, pipeline length and
number of traps, as long as no commit has failed:

* `InterruptsArePrecise` (`InterruptIsPrecise`);
* `InterruptsAreRaised` (`InterruptIsRaised`), if `NewLeavesREP`: without it the
  code merges a new sequence into a REP at its address (section 3);
* `FeederKeepsBuffer` (`FeederInvariant`), if `OnlyREPsRepeat` (an address is that of
  one instruction) and `~LateTraps`.

The first two follow from `FeedInvariant`, `Spec => []FeedInv`. `FeedInv` says that the
feeder is in warm-up with nothing in flight and nothing merged (`WarmingUp`), or
that buffer, pipe and event fit each other (`Feeding`). `InterruptIsPrecise` alone
is not inductive: a kill moves `nextFetch` back, and the event is still right only
if the instruction that raised it is the one in front of the new sequence
(`Pending`), if an instruction in flight has a place in front of `nextFetch`
(`InFlight`), and if every instruction that is followed by a new sequence has
raised an event (`Raised`), so that a squashed event is raised again. What
follows a place is known when it was fetched (`FetchedWhole`), and between two
places only iterations of the first are missing (`Linked`). `Straight` says that
the instructions off the path are the youngest, as `onBadPath` promises. The
buffer operations have a lemma each (`FetchExtends`, `CommitShifts`,
`DeletePlaces`, and `MergeFeeds` for the loop of MergeREPInstrs, turn by turn);
`SquashBehind`, `SquashFrom`, `CommitSteady`, `AppendSteady` and `FeedSteady` say
what they do to the invariant; then there is one lemma per action.

`FeederKeepsBuffer` needs `KeepInv`, which adds `Keeping`: what has been fetched is in
flight, or was bypassed in front of everything that still is (`Counted`); everything
in front of the buffer is retired or merged into what is (`Retires`); and what comes
behind an instruction of the path was fetched where it goes, or is off the path with
all that follows (`Aligned`), so that a resteer squashes no instruction of the path.

`MingoSchedulerProofs` proves, for every number of threads, HWCs and slots, every
program, every length of the pipeline and every period of the polls, wherever in a
decision the events of the application arrive:

* `ContextsMapOneToOne` (`MappedOneToOne`), if `PromptStart`;
* `PassedOverPickedLater` (`PassedOverIsPickedLater`), if `PromptStart`;
* `AnswersHaveCommits` (`AnsweredByCommit`), if `PromptStart`;
* `SchedulerIsSound` (`SchedulerSound`), if `PromptStart`.

The hypothesis is needed: without `PromptStart` the run `mingo_mapping` shows two
contexts on one HWC. The first two follow from `MapInvariant`, `Spec => []MapInv`. Neither
property is inductive: between the calls of a decision the mapping has a hole (the
HWC whose context has just been switched out), and a resumed stream may or may not
be the one that the nested search picks. `MapInv` is `Sound`, what every finished
decision leaves: the mapping is one-to-one (`Fit`); if every HWC is free, no
runnable context is left over (`Conserves`); packets of the right shape (`PacketsFit`); nothing touched of threads that the
scheduler does not know (`Untouched`), whose first events are there
(`FirstEvents`); then `PipeKnown`, `Counted`, and `AskingMapped`. A decision is a
set of states that several operators pass on, and resumption and new-stream
handling loop over all contexts with a decision inside each turn; a loop is proved
by a set of states that contains those before each turn and that its body keeps
closed. There is one lemma per scheduler function (`SwitchFits`, `ResumptionFits`,
`NewStreamsFit`, ...) and then one per action (`ClockKeeps`, `CommitKeeps`, ...).

The last two need what is in the pipelines as well, `FlightInvariant`,
`Spec => []FlightInv`: every pipeline is within its length (`Few`); a counted
operation is on the HWC its context is mapped to (`Homed`), and a context counts as
many as are there, none when it is not mapped (`Tallied`); a thread that waits for
an answer has an operation to come, and one whose context has ended has had its last
one (`AnswersAll`); and the only errors are the two that several operations in
flight may reach. With one operation in flight there is no error and `Serial` holds:
a thread whose operation is not committed has no answer yet, a context in a switch is
mapped and being descheduled, and a switch instruction is in the pipeline if and only
if its context's switch was sent. A decision enters this proof only as
`Follows`: it delivers events, leaves what a context counts alone, and takes no
context off its HWC that has something in flight. `DecisionFlies` concludes that
`Homed` and `Tallied` survive it, and then there is one lemma per action
(`CommitFlies`, `FetchAsksFlies`, ...).

Only model-checked:

* liveness, and the fairness part of `ImplementsDispatch`: `NoStarvation`,
  `SimulationEnds`, `AllStreamsEnd`, `ProgramCompletes`, `HolderReleases`,
  `StreamCompletes`;
* what compares whole queues with each other through `SelectSeq`, a fold or a
  recursive operator, which is induction over data: the `FeederInvariant` of the
  Gambit feeder and its `RetiresInOrder`; and the SoftSDV feeder's `RetiresInOrder`,
  which says in addition that its commits do not fail.

## 5. Not modelled

The map covers about five percent of the repository's lines, the ones in which
the order of calls matters. Much more cannot be translated faithfully and
usefully: most lines are imported or generated headers (`inst_ids.h`, `bfd.h`,
`ia64-enum.h`), the AINT interpreter (`ttlaint`: `subst.c`, `newinst.c`,
`exec.c`, ...), which is the semantics of an instruction set, disassemblers,
readers of other projects' trace formats, opcode tables and parameter parsers.
They keep no state that calls could find inconsistent, and a model of an opcode
table would be the table again.

* Of the scheduler: `SoftwareContextPaused`, `StartTimedWait` and
  `UseSWCProcList` have no caller with this software context;
  `CheckStreamResumption` has no body (Mingo's are modelled). Statistics and
  tracing.
* Core swap and trigger schedulers (`context_sched_cs`, `context_trig_cs`):
  variants that differ in when a switch is requested.
* Of the hardware context: spin loop statistics and the watchdog (used only to
  justify fairness).
* Of the trace feeder: markers, the command line, address translation, and
  register values (`FindUid`; the trace feeder never calls `SetUid`). The locks
  of `Fetch`, `Commit` and `Kill` are three different ones; the PM drives one
  stream from one host thread, and the model's calls are atomic.
* Bounds of C arrays indexed by thread number (`wrongpath`, `committedInsts`,
  `1 << t`).
* Address translation: tables filled on first use; physical pages come from a
  counter that only grows, checked by an assertion (`pagecoloring.cpp:70`); the
  SoftSDV instruction translation's refresh of page 0 and of stale identities.
* Of the Gambit feeder: recorded register values, frame, predicate and stack
  values, markers, the issue check, out-of-order commit, checkpoints.
* Of the synthetic feeder: the random event mode, bundles and registers, the
  parameter parser.
* Of SoftSDV: what an instruction holds, memory references and values, the
  command interface, lock step, timer interrupts, the IPF variants, the pipes
  that shorten the spinning.
* Of Mingo: start-up of the application, disabled and skipped events, abort,
  memory probes, priorities, the check that the application has ended.
* Memory feeder: draws references from a parameter file; nothing outlives a call
  but the random seed. AINT feeder: see above. Tracer: reads a byte stream of
  another tool and never replays. Feeder interface: abstract classes.

## 6. Plan

Done: the scheduler, trace, Gambit, memory value, synthetic, SoftSDV and Mingo
modules with their runs; the proofs of section 4.

Left, in order of worth:

1. Proofs: that the SoftSDV feeder's commits do not fail; the Gambit feeder, after
   its properties over whole queues have been stated entry by entry, as the
   synthetic feeder's are.
2. Composition of `TraceFeeder` with `ContextScheduler` (streams that migrate
   between HWCs), with the array bounds of the feeder; of `SoftsdvLink` with
   `SoftsdvFeeder`.
3. The core swap and trigger schedulers, as further disjuncts of when a switch is
   requested; page colouring.
