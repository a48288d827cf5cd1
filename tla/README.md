# Formal models of nWiiURecomp

nWiiURecomp turns a Wii U title into a native program. An analyzer reads the title's RPX
images and finds its functions and basic blocks, a recompiler prints them as C++, and a
runtime executes the result against its own implementation of the Cafe OS libraries. The
modules in this directory model the runtime, where the program's state and its concurrency
are, and the two places where the recompiler decides what the runtime does: how a word is
decoded and how generated blocks hand over to each other. TLC checks them on small
instances; TLAPS proves what section 6 lists for every value of
the constants.

## 1. Inventory

### The runtime (`src/nWiiURuntime`)

One host thread runs every guest thread of three emulated cores, so nothing in the runtime is
preempted by the host. Concurrency is the guest's: `Machine::run` interleaves guest threads at
Cafe calls and at instruction budgets, and frame callbacks run on borrowed threads.

| Component | State it keeps | Operations | Talks to |
|---|---|---|---|
| `Machine` (machine.cpp) | threads with state, wait object, sleep, affinity, pin; the running thread; the round of slots; the cross-core wake; pending callbacks; the clock | `run`, block, wake, sleep, exit, pin, queue a callback | executor (one slice), Cafe calls (block, wake), host loop |
| `CafeCoreinit` primitives | mutexes, events, message queues, rendezvous with their waiters | lock, unlock, wait, signal, send, receive | `Machine` (block, wake) |
| `CafeCoreinit` heaps | expanded heaps (free and used blocks), frame heaps (head, tail) | create, destroy, allocate, free, ask for sizes | guest memory, where the blocks are mirrored |
| `CafeFilesystem` | clients, open files and directories, handles, last errors | FS and SAVE calls | host files |
| `CafeRuntime` | AX callbacks, voices, the ring of finished audio frames, pads | `service_audio_frame`, AX and VPAD calls | `Machine` (queues callbacks), renderer |
| `Gx2Runtime` | GPU registers, one display list context per core, command words | GX2 calls, recording and replay of lists | `Machine` (pins), renderer |
| `Executor` | blocks and their generated functions, a trace | `run_slice`: dispatch, Cafe calls, budget | `Machine`, `CafeRuntime` |
| `GuestMemory`, `ExecutionImage` | mapped regions with rights, loaded sections | map, read, write, load | everyone |
| ProcUI, ACT, OLV, padscore, `cafe_os` | small registries | stubs and registries | guest |
| Latte shader, surface, renderer, GPU | compiled shaders, GL objects | translate, draw, present | `Gx2Runtime`, host |

### The tools

| Component | What it does |
|---|---|
| Analyzer (`src/nWiiUAnalyzer`) | parses RPX/ELF, discovers functions and blocks, writes a manifest |
| Recompiler (`src/nWiiURecomp`) | prints C++ for the blocks, sets up a project, runs it |
| Shader corpus tools (`src/nWiiURecomp/src/shader_*`) | walk title files, unpack Yaz0, SARC, GFD, SHARCFB |
| Studio (`src/nWiiUStudio`) | a front end that starts the tools |

### What is hard, and what makes each part correct

- **Scheduler.** A round visits every core slot once and excludes threads it has already run; a
  cross-core wake jumps that queue; a display list pins a thread to a core; a callback borrows
  a thread that is not its own. Correct means: one thread runs at a time, a pinned core runs
  only its owner, a deadlock is reported only when nobody can run, the best ready thread gets a
  core, sleepers wake in time, nobody starves, a borrowed thread is given back as it was.
- **Mutex, event, queue.** A blocked thread's `pc` stays on the call, so the call runs again
  after the wake and must recognise what happened meanwhile. A callback makes calls under the
  identity of the thread it borrows. Correct means: exclusion and an exact recursion count, no
  wake lost, no release used twice, no message lost or reordered, no waiter forgotten.
- **Heaps.** Long sequences of calls with split rests, two search directions, alignments and
  joins. Correct means: the blocks tile the heap, what is free can be had, ranges are disjoint.
- **Filesystem.** Handles in two tables owned by clients that come and go; host files that are
  truncated and overwritten by calls that may fault. Correct means: handles are never reused
  and never orphaned, content never changes, saves lose nothing but what the guest overwrites.
- **Cafe calls.** Handlers by the hundred take pointers from the guest and touch memory that
  may not be mapped, may not be writable, or may lie in two mappings. Correct means: a fault
  comes before anything is stored, so that a call is done or not done.
- **Guest memory.** A sorted table of mappings, a remembered index that mapping shifts, pages
  that appear when written. Correct means: mappings are apart, checks are exact whatever was
  remembered, a read returns the last write.
- **Display lists.** Recordings nest per core and set each other aside; a replay copies payloads
  into an arena whose space a later recording takes over. Correct means: sizes count the
  commands kept, what a replay bound stays readable until the frame is drawn.
- **Audio.** Swaps of 800 samples against rounds of 144, a ring that drops the oldest frame,
  voices whose end is met by equality while headers are skipped and loops jumped. Correct
  means: no drift, the newest frames in order, no voice past its data, words that agree.
- **Recompiled code.** Blocks chain without returning and run whole; hooks, rewritten words,
  relocations and the budget must each stop a chain at the right block; the interpreter takes
  what is left and decodes by tables of its own. Correct means: nothing replaced is passed by,
  a slice goes on and not too far, both decoders carry out the same instruction.
- **Rest.** Rendezvous, ProcUI's state and the values that instructions and handlers compute
  have no model (section 8).

## 2. Modules

```
CafeThreads                 the thread machine, scheduler left open
 |-- CafeThreadsProofs      what every client of it inherits
 |-- CafeScheduler          which thread runs next; implements CafeThreads
 |    '-- CafeSchedulerProofs
 '-- CafeWaiters            priority-ordered wait lists
      |-- CafeMutex         -- CafeMutexProofs
      |-- CafeEvent         -- CafeEventProofs
      '-- CafeMessageQueue  -- CafeMessageQueueProofs; implements CafeChannel
CafeExpandedHeap, CafeFrameHeap -- CafeHeaps -- CafeHeapsProofs
CafeMemory, CafeCallMachine, CafeNative      -- CafeExecutionProofs
CafeCalls                   the handlers, as constants of CafeCallMachine
CafeFilesystem, CafeDisplayLists,
CafeAudioFrames, CafeAudioVoices             -- CafeLibrariesProofs
CafeInstructions
```

`CafeExecutionProofs` and `CafeLibrariesProofs` each hold the proofs of several modules that share
no state, one section to a module.

Each `MC` module only gives values to constants, but for `MCParts`. The parts from
`CafeExpandedHeap` on share no state with each other or with the threads in what is modelled of
them: a heap call reads no voice and no mapping. `MCParts` checks them in one run whose initial
states choose a part: its variables are those of all of them, a behaviour exercises the part
chosen at the start, and the others rest where they began. Its state space is the sum of the
parts', so each is explored as far as it would be alone, and every property is checked where
its part moves.

| Module | Code | Correspondence |
|---|---|---|
| `CafeThreads` | `Machine` and the thread calls of `CafeCoreinit` | Variables are the fields of `Machine::Thread` and `callback_*`. One action per way a slice starts, goes on or ends. Which ready thread is dispatched is left open. |
| `CafeScheduler` | `machine.cpp`, AX frame callbacks, GX2 list nesting | `SelectReady` is `select_ready` with its round (`picker`), including the second pick a callback takes. `older` is the order of `enqueue_sequence` instead of a counter; `remaining` is a sleeper's distance to its wake tick instead of the clock, so there is no absolute time to bound. |
| `CafeWaiters` | `waiter_before`, the wait lists | A list is a set of threads with the order in which they arrived; `IsFirst` picks by priority, then arrival. |
| `CafeMutex` | `lock_mutex`, `try_lock_mutex`, `unlock_mutex` | One action per path through each. `held` is a ghost: the locks the guest has had returned. |
| `CafeEvent` | `wait_event`, `signal_event`, `OSResetEvent` | `granted` is the set of threads an auto-reset signal has released and that have not yet run. |
| `CafeMessageQueue` | `send_message`, `receive_message` | The ring is modelled slot by slot, in guest memory's layout (`first`, `used`). |
| `CafeChannel` | what a queue promises | A bounded sequence; the refinement mapping reads the ring. |
| `CafeExpandedHeap` | `allocate_expanded`, `free_expanded`, size queries | Addresses in grains of four bytes, the unit sizes are rounded to. `Carve` keeps rests that are too small, `Free` inserts and joins twice, as the code does. |
| `CafeFrameHeap` | `allocate_frame`, `create_frame_heap` | `lent` is a ghost: the ranges the guest was given, in order. |
| `CafeHeaps` | the heap calls together | A frame heap lives in a block of the expanded heap. |
| `CafeFilesystem` | `cafe_filesystem.cpp` | The tables as functions from handles; `host` is what the host's files hold; `issued` is a ghost: every handle ever given. |
| `CafeMemory` | `memory.cpp` | `mappings` in address order, `LowerBound` and `Candidate` for the searches, `cached` for the remembered index, `pages` made on the first write. `flat` is a ghost: what was written last at each address. |
| `CafeCallMachine` | `GuestMemory`'s checks as a handler meets them | A handler is a sequence of steps: validate, read, write, refuse, change the host's state. An operand has a head and a tail, each in a mapping with its rights, in one mapping or two. `effects` is what a call has changed so far. |
| `CafeCalls` | the handlers registered by `cafe_runtime.cpp`, `gx2_runtime.cpp`, `cafe_coreinit.cpp`, `cafe_act.cpp`, `cafe_olv.cpp`, `cafe_padscore.cpp`, `cafe_proc_ui.cpp` | One sequence for each shape of handler, in the order of the code, under the name of one that has it; values are left out. |
| `CafeDisplayLists` | recording, nesting, ending and calling of lists in `gx2_runtime.cpp` | `recorder` is a core's recording with the outer ones it set aside, `recorded` the finished lists with their place in the arena, `arena` its bytes and `cursor` its end; `held` is a ghost: what each slot was bound to. `Replay` gives the binds a call carries out, in order, through chains of calls no longer than there are lists. |
| `CafeAudioFrames` | `service_audio_frame`, `prepare_`, `capture_`, `pop_audio_frame` | The ring holds the numbers of mixes instead of samples. |
| `CafeAudioVoices` | the `AX*Voice*` handlers, `advance_audio_voice`, `mix_audio_frame` | Offsets in nibbles, blocks with a header; `words` are the guest's. |
| `CafeNative` | `Executor::run_slice`, the generated dispatcher and module run of `project_generator.cpp`, `patch_guard.cpp`, `register_native` | `control` says who runs: the slice, a shard's dispatcher, the module's loop or the host. `took` is the words the last step carried out. |
| `CafeInstructions` | `step` in `executor.cpp`; `validate_instruction` and `emit_instruction` in `native_generator.cpp` | A word is its fields; each decoder gives an operation with the fields it takes as operands, or refuses. Tables are sets of rows: codes, operation, operands. |

**How a Cafe call becomes a step.** There is one host thread and no call yields in the middle,
so a call is one atomic step and threads interleave only where a slice ends. A call that blocks
leaves `pc` on itself; when the thread is dispatched again the same action runs again. `At(o)`
is "the thread makes this call, or re-executes it".

**Callbacks.** `begin_callback` saves the context of the borrowed thread and runs the callback
on it. In every primitive's model a callback may make any call, under the borrowed thread's
identity, exactly as the code lets it.

**Faults.** Calls that fault the guest (an unlock by a stranger, a release of an unknown
address) end the run in the code. The models leave them out where the guest has to be wrong to
reach them, and keep them where a property is about them (`stopped` in `CafeScheduler` for a
deadlock or a `logic_error`, in `CafeFilesystem` for a fault before a file is touched).

## 3. Runs

Every run finishes within five minutes on two workers; `parts` takes about two. "P" is a passing
run, "V" one whose property the code does not satisfy.

| Run | | Asks | Bounds, and why they are enough |
|---|---|---|---|
| `sched_pins` | P | Do pins stay exclusive and consistent, and is a deadlock reported only when it is one, with wakes, affinity changes and nested display lists? | 3 threads on the 3 real cores, two of them recorders, lists nested twice, one mask that changes affinity to two cores: every pin can collide with every wake and with a change of affinity. |
| `sched_callbacks` | P | Does the scheduler implement `CafeThreads`, wake sleepers in time and pick by priority while guest and audio callbacks run and wakes cross cores? | 3 threads, one created late; at most one callback pending (`MaxPending`), sleeps of 2 ticks against slices of at most 1, so a sleeper is passed over and then due. |
| `sched_live` | P | Does every runnable thread run, and every queued callback start? | 3 threads of equal priority sharing cores; one of those that share registers callbacks (`Registrars`), two can be pending, so that an audio callback stands behind an owned one and the other way round; sleeps of 1. |
| `sched_wake_starves` | V | "lower-priority work progresses on another CPU" with cross-core wakes. | A lasso under `FairSpec`. |
| `mutex` | P | Exclusion, recursion, wait lists, hand-off, and that a blocked thread gets the mutex unless more urgent ones keep queueing. | 3 threads, two of them more urgent than the third, so that late arrivals overtake and can go on doing so; recursion up to `MaxRecursion` = 2, where a third lock faults; one callback at a time, as in the code. One mutex: the code keeps no relation between two. |
| `event` | P | Lost wakes, lost or doubled releases, released threads return. | 3 threads of two priorities, one auto-reset event that starts signalled, one manual-reset event. |
| `event_callback` | V | "AX callback runs asynchronously and restores its borrowed thread", for a thread whose wait was already completed. | One event is enough. |
| `queue_safety` | P | Does the ring implement a bounded queue, and does each message or free slot have a woken thread? | 2 slots (wrap-around both ways, full and empty), 2 messages, 3 threads of two priorities. Threads of one priority and messages are symmetric. |
| `queue_live` | P | Do threads stay blocked on a queue that could serve them? | 1 slot, 1 message, 3 equal threads: every send meets a full queue soon. |
| `parts` | P | The properties of every part without threads, below. | Per part, as follows. |
| `translator_gaps` | V | "`Case{a_form(59, 3, 4, 5, 0, 18), "::fdivs("`": an `fdivs` is translated. | Every opcode and extended opcode either decoder names, and some neither does. |
| `slice_defers` | V | "defer every block overlapping": a slice ends when a block is deferred. | A lasso under `FairNativeSpec`. |

The parts of `parts` and their bounds:

| Part | Bounds, and why they are enough |
|---|---|
| heaps | A heap of 7 grains without headers and one of 13 with headers of 2, requests of 0, 1 and 3 grains, alignments of 1 and 4 from both ends: rests below and above the split limit occur on either side. Frame requests of 1 and 2 grains, so that one alignment gap can be jumped over. |
| files | 2 clients, 1 command block, one file in each namespace, files of at most 2 bytes (`MaxLength`) with two byte values, so an overwritten byte shows, writes of one byte. The counter wraps after 2 handles (`LastHandle`), so it is exhausted in the run. Clients are symmetric. |
| calls | Every handler of `CafeCalls`, over every layout of every operand: absent, unmapped, read-only, writable, code, and a border between any two. No bound: the calls are finite. |
| memory | 4 addresses in pages of 2 bytes, mappings of 1 to 3 bytes with two sets of rights, accesses of 1 and 2 bytes and ranges of 3: mappings touch, cross pages, are inserted before the remembered one. |
| lists | One core (a core's recordings touch no other's), two lists, one nesting, two slots with payloads of 1 and 3 bytes in an arena of 12, three recordings and three commands: a list recorded again fits its place or moves. |
| frames | A ring of 8 and 3 swaps: 16 rounds can be queued, so the ring wraps and overwrites, and 2400 samples leave a remainder. |
| voices | One voice (each touches its own slot only; which one is acquired is the first that is free), offsets up to 6 in blocks of 4, at most 3 steps a frame: every offset can be a header, a loop can land in one. |
| native | Three blocks of 2, 2 and 1 words in two shards, a relocated word, a block that starts with a branch whose target the loader gives (`Overridden`), an import, two hook sites, branches to starts, middles, the import and code outside blocks; slices of 3, so a block of 2 does not fit after another. 4 counted instructions before the last slice starts (`MaxCount`). |
| decoding | Every opcode, every extended opcode of either decoder, fields at the values a condition tells apart. |

`CHECK_DEADLOCK FALSE` is in every configuration because the systems really stop: `run` ends in
a deadlock report or with all threads gone, a title may block all its threads on an event
nobody signals, a heap or the handle counter runs out, a fault ends a run.

## 4. Properties

Each property has a mutant: a definition of the model changed as a plausible bug would, under
which TLC finds the property violated. Mutants stand right before the definition they change
and are marked `mutant`. The hazards they answer to are listed in `PROJECT.json` at their lines.

- *Scheduler*: `PinsConsistent` (pins exclusive, both records of one agree, a recorded list is
  pinned), `NeverThrows`, `NoFalseDeadlock`, `AffinityUnlessPinnedOut`, `SleepersOnTime`,
  `LowestPriorityWins`, `RefinesThreads`; liveness `ReadyThreadsRun`, `AudioCallbacksStart`.
- *Mutex*: `WaitersAccounted` (who waits is blocked on it, who was granted it is awaited, nobody
  waits for a free one), `HoldersOwn`, `RecursionCounts`; liveness `LockIsGranted`.
- *Event*: `WaitersAccounted`, `EachReleaseOnce`; liveness `ReleasedReturns`.
- *Queue*: `WaitersAccounted` (with no wake lost), `ImplementsChannel`; liveness `StallsEnd`.
- *Heaps*: `HeapStructure` (blocks tile, free ones are joined, headers lie in free blocks),
  `RoomIsFound` (a request is refused only when there is no room, and the size query promises
  what an allocation gets), `FrameRangesApart`, `FrameInItsBlock`.
- *Filesystem*: `HandlesNeverReused`, `HandlesOwned`, `ContentUntouched`, `NothingErased`.
- *Calls*: `FaultIsContained`: a handler that faults has changed nothing, but for those in
  `HalfWayCalls`, which have changed at most what is named there. Each entry is as small as it
  can be: every operand in it is left changed in some behaviour.
- *Memory*: `MappingsApart`, `ChecksExact` (an access passes exactly when one mapping holds all of
  it with the right; every byte of a range that was validated can be accessed), `ReadsLastWrite`.
- *Display lists*: `SizesCountCommands`, `PayloadsSurvive`.
- *Audio*: `RingHoldsNewest`, `RoundsKeepTime`, `VoicesStayInside`, `WordsAgree`.
- *Recompiled code*: `ReplacedNotRun`, `SlicesAdvance` (as long as no block is deferred: see
  `slice_defers`), `DecodersAgree` (which names `fdivs` as the exception: see `translator_gaps`).

`RefinesThreads` is what lets the primitives be checked over `CafeThreads`, where any ready
thread may be dispatched: whatever holds for every choice holds for the scheduler's.

## 5. Fairness

- `CafeScheduler!FairSpec`: `run` keeps iterating (`WF` of the steps between slices), a running
  thread executes (`WF` of a step in a slice), and every slice ends (`WF` of `EndQuantum`:
  `run_slice` stops at its instruction endpoint). Nothing makes the host service a frame, the
  guest make a call, or a callback return. `AudioCallbacksStart` names what it needs of the guest:
  callbacks return, and a thread with a callback queued blocks again and again while none runs
  (`OwnersBlock`). Without the second TLC finds it violated: section 7.
- `CafeMutex`, `CafeEvent`, `CafeMessageQueue!FairSpec`: slices end, and a woken thread that runs
  re-executes its call. The last two assume that each thread that is ready again and again is
  dispatched (`SF`). That is `ReadyThreadsRun`, checked for the scheduler among threads of equal
  priority and without cross-core wakes; where priorities differ on a shared core, or cross-core
  wakes keep coming, the code does not guarantee it, and these runs say nothing about such titles.
- `CafeNative!FairNativeSpec`: `run_slice` and the dispatcher it called go on; nothing is
  assumed of branches, hooks or imports.
- `CafeMutex!FairSpec` assumes that the guest leaves every critical section it enters, and no
  dispatch at all: with two priorities `select_ready` promises none. `LockIsGranted` has as
  hypotheses that no thread stays ready or asleep for ever (`NoThreadStarves`) and that no more urgent
  thread goes on queueing (`MoreUrgentWait`); TLC finds it violated without either.
  Nothing assumes that anyone signals an event, sends or receives.
- Properties that mention a callback are stated for behaviours in which callbacks do not go on
  borrowing threads forever. While they do, a thread can be passed over: `run` calls
  `select_ready` once for the iteration and a second time for the callback, and the first pick
  uses up its slot of the round without running. No document promises otherwise.

## 6. Proofs

All theorems are checked by TLAPS for every value of the constants that satisfies the named
assumptions. The runs check the same formulas on small instances.

| Module | Theorem | Property of a run | Says |
|---|---|---|---|
| `CafeThreadsProofs` | `ThreadsSafe` | | Every client of the thread machine has exactly one running thread, gives borrowed threads back alive and leaves no stale wait object. |
| `CafeSchedulerProofs` | `SchedulerTypes` | | The types, with the round and the callbacks. |
| | `PinsAlwaysConsistent` | `PinsConsistent` | Whatever threads record, wake and change affinity, the records of a pin agree and fit who runs. |
| | `PinningNeverThrows` | `NeverThrows` | No `logic_error` from a pin. |
| | `DeadlocksAreReal` | `NoFalseDeadlock` | A deadlock is reported only when no ready thread has a core. |
| | `SleepersAlwaysOnTime` | `SleepersOnTime` | No slice runs while a sleeper is late. |
| | `AffinityRespected` | `AffinityUnlessPinnedOut` | An action property: where a thread may be put. |
| | `BestThreadRuns` | `LowestPriorityWins` | An action property: only the thread a cross-core wake names is preferred to a more urgent one. |
| | `SchedulerImplementsThreads` | `RefinesThreads` | The scheduler implements the thread machine. |
| `CafeMutexProofs` | `MutexTypes`, `MutualExclusion`, `MutexCounts`, `NoWaiterForgotten` | `HoldersOwn`, `RecursionCounts`, `WaitersAccounted` | The invariants of the run `mutex`. |
| | `MutexImplementsThreads` | | Every behaviour of the mutex is one of the thread machine, so `ThreadsSafe` applies to it. |
| `CafeEventProofs` | `EventTypes`, `NoWakeMissed` | `WaitersAccounted` | No thread waits on a signalled event; a granted release is awaited. |
| | `ReleasesAccounted` | `EachReleaseOnce` | An action property: a return takes one release, and a slice's end takes none. |
| | `EventImplementsThreads` | | As for the mutex. |
| `CafeMessageQueueProofs` | `QueueTypes`, `NoWakeLost` | `WaitersAccounted` | Waits are listed, and no wake is lost. |
| | `RingImplementsChannel` | `ImplementsChannel` | The ring implements a bounded sequence. |
| | `QueueImplementsThreads` | | As for the mutex. |
| `CafeHeapsProofs` | `HeapsTypes`, `HeapAlwaysTiled` | `HeapStructure` | Free and used blocks tile an expanded heap. |
| | `RoomAlwaysFound` | `RoomIsFound` | No false exhaustion, and the size query is exact. |
| | `FrameHeapSafe`, `FramesStayInBlocks` | `FrameRangesApart`, `FrameInItsBlock` | Ranges of a frame heap are apart, and in its block. |
| `CafeExecutionProofs` | `MappingsStayApart`, `ChecksStayExact`, `MemoryReadsLastWrite` | `MappingsApart`, `ChecksExact`, `ReadsLastWrite` | Guest memory, for every address space, page size and width. |
| | `FaultsAreContained` | `FaultIsContained` | A fault leaves changed only what `LeftBehind` names, for every set of handlers that check before they change anything else (`Preflighted`). |
| | `ReplacedNeverRuns` | `ReplacedNotRun` | Neither hooks nor rewritten words are passed by. |
| | `SlicesKeepBudget`, `RunnersAdvance` | `SlicesAdvance` | The budget always; progress of a dispatcher as long as no block is deferred. |
| | `DecodersAlwaysAgree` | `DecodersAgree` | For every word, not only those of the run. |
| `CafeLibrariesProofs` | `AudioKeepsTime`, `RingAlwaysNewest` | `RoundsKeepTime`, `RingHoldsNewest` | No drift; the newest frames in order, for every ring and rate. |
| | `WordsAlwaysAgree`, `VoicesNeverPassEnd` | `WordsAgree`, `VoicesStayInside` | For every size of block and every ratio. |
| | `FilesystemSafe`, `HandlesSafe`, `HandlesAlwaysOwned`, `ContentSafe`, `NothingErasedWrongly` | `HandlesNeverReused`, `HandlesOwned`, `ContentUntouched`, `NothingErased` | For every set of clients and files, and wherever the counter wraps. |
| | `SizesAlwaysCount` | `SizesCountCommands` | However recordings nest and set each other aside. |
| | `PayloadsAlwaysSurvive` | `PayloadsSurvive` | However lists are recorded again and call each other, for every alignment and size of the arena. |

*Assumptions.* `ThreadConstants`, `MutexConstants`, `EventConstants`, `QueueConstants`: the null
thread and null object are neither threads nor objects, guest code is no call and no call that
blocks, at least one recursion, a sentinel for an empty slot that is no message. `ThreadsFinite`,
and the same in `SchedulerConstants`: a thread is a 32-bit address. There threads are positive
numbers besides, of which only the order is used: that of `threads_`, in which sleepers are woken.
`PriorityConstant`: priorities are the 32 of the code. `HeapConstants`, `FrameConstants`: sizes are
natural numbers, alignments not zero, a heap has room for a header. `FilesystemConstants`: files are
finitely many and content and save files differ. `MemoryConstants`: sizes are natural numbers,
pages, mappings and accesses are not empty. `CallsAssumption` types the handlers; `ChecksFirst` says
that each one is `Preflighted`: whatever follows its first effect on an operand that is not in its
`LeftBehind` has been checked, or cannot fail. `NativeConstants`: blocks are not empty, and a hook
inside one is at its start (section 7 says what happens otherwise). `FramesConstants`,
`VoicesConstants`: a ring has a place, a frame a sample, and a block more than its header.
`DisplayConstants`: lists are finitely many and not at address zero, a copied payload is not empty,
an alignment not zero. `DecodersAlwaysAgree` assumes nothing of the words. TLC evaluates each in the
runs, so that `ChecksFirst` is checked of every handler in `CafeCalls`.

One theorem says less than "every behaviour", and why is in section 7: `RunnersAdvance` assumes
`Deferrals = {NoDeferral}`, because a deferred block makes a slice go round for ever.

*Why the invariants are not inductive alone, and what the arguments are.*

- `ThreadInv` joins the three claims of `ThreadsSafe` with the types: a thread given back by a
  callback is ready only because it was neither moribund nor suspended.
- `SchedulerInv` joins the invariants of the runs with `ThreadsFit` (state, wait object and sleep
  tell one story) and `Queue(older)` (the order in which threads were enqueued is total).
  `PinsConsistent` needs them because a pin is taken and given back by the thread that runs, and
  `NeverThrows` needs the pins. For `NoFalseDeadlock` the proof follows `select_ready`: a round that
  finds nobody is emptied and tried again, the tries of an empty round visit every core,
  and an empty round excludes nobody, so a ready thread with a core would have been found.
  `BestThreadRuns` rests on the winner of a try being least in priority, then in the queue; that a
  least one exists is where finiteness is used.
- `SchedulerImplementsThreads` maps each action to one of the thread machine's with the same name, or
  to a stutter (affinity, pins, the round). The wake of sleepers is the one that is not one to
  one: `Due` is the set the abstract machine may wake.
- `MutexInv` adds `BlockedAtCall`: a blocked thread's `pc` is on the call it is blocked in.
  Without it a hand-off could grant the mutex to a thread that will not ask for it. `EventInv`
  adds the same: without it a signal could grant a release to a thread that is not asking.
  `ReleasesAccounted` follows from `EventInv` action by action, counting the signal and the grants
  as one set of releases.
- `QueueInv` adds `WaitersAtCall`, that a listed thread is at the call that listed it. `NoLostWakeup`
  says that at least as many threads are woken as there are messages or free slots, unless nobody waits:
  each action moves both sides of that by one, and only for a listed thread does a wake add to
  the woken. The refinement of `CafeChannel` reads `used` slots from `first`, modulo the capacity:
  a send at the back writes the one slot outside them, one at the front moves `first` down to it.
- `HeapShape` is what `HeapStructure` becomes when it must be preserved: the free list is in order with
  a gap between any two (they were joined otherwise), each allocation holds a header and its
  payload, and each grain has exactly one holder. Cutting an allocation out changes one block
  of the list into none, one or two pieces; releasing inserts one between two and joins it with
  those it touches. No recursion over the list is needed, because the list is described by what
  holds of any two of its indices.
- `RoomIsFound` follows from `HeapShape` alone. Since free blocks leave gaps, a free range lies in one
  block; rounding up gives the least multiple of the alignment from there, so that block fits the
  request. The answer of the size query is the greatest of finitely many numbers, each of which a
  block grants; one more is granted by none.
- `FrameInv` adds that everything handed out lies below the head or above the tail. That is
  what makes a range taken between the two apart from all earlier ones; the two lemmas on
  rounding say that alignment moves the head only up and the tail only down.
- `FilesystemInv` adds `HandlesFresh` (until the counter wraps it is above every handle given
  out; afterwards it is 0 and `allocate_handle` refuses) and `OpenFilesExist` (nothing removes
  a host file, so a write always finds contents to extend). `NothingErasedWrongly` uses both: a
  write through a handle for appending keeps what was there as a prefix (`AppendExtends`).
- `MemoryInv` says that the mappings are a sequence in ascending order with no two overlapping,
  and of the remembered index only that it is a number: `AccessExact` shows that a check is
  right whatever it names, because the mapping found there is tried before it is believed. The
  search (`LowerBoundFacts`) rests on `LeastElement`, inserting on `InsertedMappings`, and
  ranges over several mappings on `RangeHasMapping`. `ReadsLastWrite` is inductive by itself, given that
  an address is one place of one page.
- `ContainedInv` says that every validation a call has passed holds of its operands (`PassedInv`)
  and that an effect on an operand has a step on it that caused it (`EffectInv`); with `ChecksFirst`
  the step that faults cannot come after one that changed what may not be left.
- `NativeInv` adds `PatchesPublished`: while a module runs, what the host rewrote is what the guard
  was told. Without it a block could pass the guard over a word rewritten since.
- `RingInv` adds where the next frame goes and that what the renderer took is older than what is
  left, so that a wrap overwrites the oldest. `VoicesInv` adds `MakeSense`: the end is not in
  a header, and neither the current offset nor a loop that is on is past it once headers are
  jumped. Equality then finds the end, because offsets go up one at a time and a header is jumped
  from its first nibble.
- `ListsInv` adds that a recording set aside counts its commands too. `PayloadsInv` adds to it that
  arenas of different lists lie apart and below the cursor (`ArenasApart`), and that what is held is
  a command of a list still recorded, at its place in that list's arena (`HeldIsRecorded`). Payloads
  of one list follow one another, so a byte of the arena has one owner (`OneOwner`) and a call writes
  nobody else's. What a replay computes is a recursive function over the lengths of call chains;
  the proof needs of it only that it exists (`Iteration`: a value can be carried from step to step
  any number of times), what one unfolding says, and what every step keeps (`StaysIn`).
- `DecodeInv` needs no history. The decoders' tables are equal as sets of rows (`TablesAgree`), and
  their conditions on a word are equivalent (`Conditions`), once it is known which words name a load
  or store that updates its base (`UpdateForms`): the translator refuses the bad ones by their code,
  the interpreter in the function the code leads to.

*Only model-checked.* Liveness (`ReadyThreadsRun`, `AudioCallbacksStart`, `LockIsGranted`,
`ReleasedReturns`, `StallsEnd`) and everything about what is enabled, which TLAPS does not reach here.
Every other property of a passing run has its theorem above.

## 7. Findings

The four "V" runs show the code departing from what the repository says of it.

1. `sched_wake_starves`: a cross-core wake spends the round's current slot whatever core it uses
   (machine.cpp:141), so steady wakes make the round skip the same core for ever. The test says
   "lower-priority work progresses on another CPU".
2. `event_callback`: a callback that waits on the auto-reset event its borrowed thread was just
   released from uses up that release (cafe_coreinit.cpp:817), and the thread blocks again. The
   test says "AX callback runs asynchronously and restores its borrowed thread".
3. `translator_gaps`: `validate_instruction` refuses `fdivs` (native_generator.cpp:374), which
   the interpreter carries out and for which the emitter has a branch that is never reached. The
   test lists it among the words to be emitted (native_test.cpp:1309).
4. `slice_defers`: a block deferred with `NWIIU_DISABLE_LO/HI` is refused by its dispatcher, and
   `run_slice` calls it again for ever instead of interpreting it (executor.cpp:1213). The
   comment says it is deferred, "which allows bisecting a misbehaving block at runtime".

Things the models show that no document contradicts:

- A cross-core-woken thread takes the first free core of its affinity before priorities are
  compared (machine.cpp:161), so a core can pass over a more urgent ready thread.
- A woken thread may be run, and then pinned by a display list, on a core outside its affinity,
  after which the ordinary round cannot select it until the pin goes.
- An open that fails because the handle counter is exhausted has already truncated the file
  (`NothingErased` names that case).
- A queued callback with an owner starts only while that thread is blocked, and `run` looks at the
  front of the queue only (machine.cpp:329-335): a thread that registers a callback and then never
  blocks holds it up for ever, and every audio callback behind it.
- A mutex is handed to the most urgent waiter (cafe_coreinit.cpp:635-640, 759): two threads can
  pass it to each other for ever while a less urgent one waits.
- `OSCreateThread` validates the stack it is given but stores at an address rounded down from its end
  (cafe_coreinit.cpp:1642): with a stack of eight bytes that is not aligned to eight, the second
  word lies below what was validated, and the call can fault with the OSThread rewritten. The
  thread has not been added then.
- The handlers in `HalfWayCalls` store one result and then find that they cannot store the next,
  or change the host's state and then fault on the guest's copy.
- A module's run compares the CPU's instruction count with the limit it is given
  (project_generator.cpp:479). It chains blocks as its comment says only if the host starts that
  count at zero for each run or gives an absolute limit; the model takes the host to count on,
  where a run after the first stops at the first block that brings the count past the limit.
- `is_patched` is asked where a block starts. A hook is registered at the start of a function,
  and blocks start there; a hook in the middle of a block would be passed by.
- `g_reloc_blocks_enabled` (patch_guard.cpp:17) is read nowhere: relocated blocks are compared
  word by word instead of deferred, whatever `NWIIU_RELOC_BLOCKS` says.

## 8. Not modelled, and the plan

Left out on purpose: what a PowerPC instruction computes (pure functions compared with reference
values by the repository's tests; `CafeInstructions` models only which one a word reaches, with
which fields), shader and surface translation (pure translations of binary formats to text and
to tiled addresses), OpenGL and SDL, the text of generated C++, the parsers of the analyzer and
of the shader corpus, command lines, the Studio.

In modelled components: guest errors the code does not detect (initialising a primitive in use,
ending a list that was never begun, a list that calls itself, exiting with a pin), a rendezvous,
host writes that fail, how a path is resolved on the host, the stat records, message queue sizes
of zero in the runs, external guest memory (the host's own, unchecked), the values that handlers
compute, ProcUI's state, and the runtime's registry of names.

Order of the next steps:

1. `CafeRendezvous` over `CafeWaiters`: re-initialising a rendezvous before its woken threads
   run again.
2. `CafeDisplayLists` composed with `CafeScheduler`: that a core's recording is one thread's
   because its core is pinned.
3. The analyzer's discovery of blocks as a worklist, whose result `CafeNative` takes as given;
   Yaz0 and SARC as functions checked against a reference definition.
4. Proofs: the invariants of what items 1 to 3 add. Of what is modelled, only liveness has none.
