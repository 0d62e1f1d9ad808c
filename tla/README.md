# Verification of the Tobacco kernel

TLA+ models of the kernel in `src/src/` (Rust, x86_64, one CPU), TLC runs on small instances, and TLAPS proofs for every
value of the constants.

## 1. The system

One CPU executes either the *kernel thread* (boot, then the shell and the
`run_*` test programs it starts) or *user tasks* in ring 3. User tasks enter
the kernel through `int 0x80`; the timer (PIT) interrupts both. The tables of
the kernel are global and are changed with interrupts disabled, so a system
call, an interrupt handler or a table operation of the kernel thread is one
step; what interleaves is the order of these steps.

| component | state | operations | talks to |
|---|---|---|---|
| scheduler (`scheduler.rs`) | run queue and blocked list (arrays), current task, clock, slice | enqueue, begin, finish, block, block-and-dispatch, wake, tick, preempt | called by the process table |
| IPC capabilities (`ipc.rs`) | per endpoint a table of capabilities (target, rights, generation, parent) and a queue of messages that may carry a handle | register, unregister, grant, transfer, revoke (cascading), send, receive | called by system calls and the process table |
| mailboxes and wake-ups (`ipc.rs`) | the flag `waiting` of each endpoint | send wakes, receive blocks, cancel, timeout | process table |
| process table (`process.rs`) | 8 slots: state, parent, wait target, IPC wait, deadline, restart flag, saved context | spawn, run, exit, clean up, wait, reap, block, wake, expire, preempt | scheduler, IPC, paging |
| system calls (`syscall.rs`) | the saved registers | exit, send, receive (with timeout), cancel, capability calls, log, uptime ... | IPC, process table |
| timer interrupt (`interrupts.rs`) | the tick counter | tick, expire deadlines, preempt, stop | process table, scheduler |
| frame allocator (`physmem.rs`) | regions, position of the next fresh frame, stack of recycled frames, counters | init from the memory map, allocate, free | paging |
| heap (`heap.rs`) | table of 96 blocks, canaries | allocate (first fit, split), free (coalesce), check | shell |
| paging (`paging.rs`) | page tables, per address space the lists of its frames | create, map, unmap, destroy, audit | frame allocator, process table |
| keyboard (`keyboard.rs`) | ring of key events, modifier state | interrupt, poll, pop | shell loop |
| shell (`shell.rs`) | line buffer, history | edit, run a command | everything |
| console (`vga.rs`) | the cells of the screen, row and column, first row of the input, the cursor and what is under it | write, scroll, prompt, render the input, toggle the cursor | shell, timer |
| log (`klog.rs`, `paniclog.rs`) | ring of records | append, read | everything |
| multiboot (`multiboot.rs`) | a summary: memory map, modules, what they occupy | parse | frame allocator, initramfs |
| initramfs (`initramfs.rs`, built by `tools/mkinitramfs.rs`) | the module and its archive | walk, find a file | ELF loader |
| ELF loader (`elf.rs`) | the plan of `/bin/init` | validate, load into the kernel's tables, create the image of a process | paging, process table |
| boot (`main.rs`) | | calls the `init` of each part in order | everything |

What is hard here: a blocking receive is spread over two tables and a saved
context (the endpoint's flag, the process table's entry, the system call that
is executed again after the wake-up), and a send, a cancellation, a timeout
and an exit can each come before, between or after its steps; revocation runs
through a forest of capabilities that spans all tables and through the
messages in flight; slots, generations, frames and identifiers are reused;
every table has a fixed size and is used at its limit; and failing operations
must leave no half-done change: a process image takes a dozen allocations, each
of which may be the one that fails. Address spaces share the kernel's lower
tables but copy its root, so that they stay right only because of where the
kernel maps. What the boot loader left in memory is read long after the frame
allocator has begun to hand out memory. And the timer draws on the screen
between any two calls of the shell.

PROJECT.json lists these as hazards, each at its line with the properties that
cover it.

## 2. Modules

| module | models | state | actions |
|---|---|---|---|
| `Sched` | `Scheduler`'s methods | operators on a record `queue, blocked, current, ticks, slice` | one operator per method, with `XOk` for the Boolean it returns |
| `Scheduler` | the scheduler as a component | `sched` | one per call of the process table and for the timer |
| `RoundRobin` | the abstract promise: one task runs, others wait in line | `running, line, asleep` | `Admit, Start, Finish, Sleep, Handoff, Awake, Rotate` |
| `Capability` | endpoints, capability tables and queued handles of `ipc.rs` | `owners, caps, mail, nextGen` | one per public function; `Revoke` and `Unregister` include the whole cascade and the stripping of queued messages |
| `Kernel` | process table + mailboxes + system calls + timer, composed with `Sched` | `sched, slots, boxes, mode, preempting, nextId` | kernel thread, system calls, timer |
| `FrameAlloc` | the frame allocator of `physmem.rs` | operators on a record `regions, region, nextFrame, recycled, allocated, exhausted` | |
| `PhysMem` | every order of calls of the allocator | the record, history `held` | `Allocate, AllocateFails, Free` |
| `PageTables` | `paging.rs`: walk, map, unmap, records, audit, address spaces | operators on a record `mem, pm, records, overflowed, cleanupFailed`; composes `FrameAlloc` | |
| `Paging` | page tables at work: boot mappings, spawn, run, fault, clean up, and the copies from and to user memory | `phase, k, heapReady, userReady, plan, spawns, spaces, cr3` | `InitHeap, InitUser, InitElf, Spawn, SpawnRefused, EnterUser, SwitchTo, ReturnToKernel, UserFault, Cleanup, VmTest` |
| `Heap` | the kernel heap | `blocks, canaries`, history `overrun` | `HeapAlloc, HeapFree, Use, Corrupt, Repair`; splitting, the whole coalescing and the canaries are part of them |
| `RegionMap` | `FrameAllocator::init`: the regions of a memory map | operators | |
| `Multiboot`, `Initramfs`, `ElfImage` | the three parsers | operators that walk as the code does | |
| `MkInitramfs` | `tools/mkinitramfs.rs` | operators: the image and the archive it builds | |
| `Klog` | the log ring | operators | |
| `Boot` | `kernel_main` up to the plan of `/bin/init`; composes the six modules above | `machine, phase, summary, archive, frames, plan, log` | `MultibootInit, InitramfsInit, PhysmemInit, ElfInit` |
| `Keyboard` | scan codes, ring of events, keyboard interrupt, the loop of `shell::run` | `out, request, last` (port), `extended, shift, caps`, `buffer, read, write`, `shell`, history `held, uneven, toggled, again` | `PressShift, ReleaseShift, PressCaps, PressOther, Arrive` (device), `Interrupt, OtherInterrupt, Loop, Handled` |
| `Shell` | line editor and history | `input, len, cursor, history, selected` | one per key event that changes the line |
| `TextLine` | the abstract promise of the editor: keys, a text with a cursor, a history | `key, left, right, entries, back, mode` | `Take, Handle, Enter, Begin, Stop` |
| `Console` | the writer of `vga.rs` | operators on a record | |
| `Terminal` | `shell::run` with the screen and the timer; composes `Shell` and `Console` | `con, mode, key` and the variables of `Shell` | `TakeKey, Edit, Ignore, PressEnter, CommandWrites, CommandClears, CommandEnds, Timer, Panic, KernelException` |
| `MC...` | instances for TLC | | |
| `KernelProofs`, `CapabilityProofs`, `HeapProofs`, `PagingProofs`, `BootProofs`, `KeyboardProofs`, `TerminalProofs` | TLAPS proofs about the module each is named after; `KernelProofs` also about `Scheduler`, `PagingProofs` also about `PhysMem` | | |
| `NatRecursion` | lemmas on induction and recursion over natural numbers, for the loops of the code | | |

### Abstractions

* **Scheduler.** The ring buffer is a sequence: `remove_at` shifts entries and
  `head` is never advanced, so the window never wraps. Counters that are only
  reported are left out.
* **Capability.** A message is the handle it carries; its bytes are left out.
  Rights are sets. `MaxGeneration` stands for 2^56 - 1. A system call names a
  capability by its handle, `generation << 8 | slot + 1`, which is encoded and
  decoded as in the code with a smaller base. A task uses the handles of its
  table; a stale handle is refused and changes nothing, and that it stays refused
  is `RevokedForGood` and `GenerationsUnique`. The
  recursive `revoke_branch` is the closure `Branch` of the parent relation:
  deleting a capability and then searching for the next one with its
  generation as parent visits exactly the descendants, and the recursion ends
  because every lineage is bounded by `MaxLineage`.
* **Kernel.** `mode` says who has the CPU. A mailbox is the number of its
  messages; capability checks are in `Capability`, so here a task may name any
  open endpoint. A task's saved context is where it continues: at its entry,
  in its program, or in a receive that it executes again. The timeout of an
  executed-again receive is irrelevant, as in the code, because
  `ipc_restart_pending` decides. `TimerStop` stands for the end of the
  preemption test, which the code decides by a tick count.
  Contracts of the kernel thread, taken from the `run_*` programs: it starts a
  task only when none is current; it receives only on behalf of a Ready task;
  it cleans up only exited tasks; registering an endpoint does not fail since
  there are as many endpoints as slots. Legacy tasks without an address space
  are not modelled.
* **Kernel, `MixedWaits`.** An IPC wait leaves `wait_target` at 0, and
  `wake_waiting_parent` takes 0 for "any child". A task with children that
  waited for a message would therefore be made Ready by the exit of a child
  with `ipc_waiting` still set. No program of the kernel does both;
  `MixedWaits = FALSE` keeps the model to that. With `TRUE`, TLC finds
  `NoStaleWait` violated in four steps: keep this in mind before adding a
  program that combines the two.
* **FrameAlloc, PhysMem.** A frame is its number. `held` is the set of frames given out and
  not taken back. `free_frame` may be called with any frame: callers' mistakes
  (double frees) are part of the model.
* **PageTables, Paging.** A virtual page is its path of four indices; of the 512
  entries of a table those are kept that the layout tells apart, so that every
  kind of range (identity map, kernel heap with its guards, probe, ELF image,
  stack with its guard) has its pages and its own or shared tables. Tables are
  in frames, and an entry of a frame that was freed keeps its value until the
  frame is zeroed. What programs write into their pages, the TLB (every change
  of an entry in use is followed by `invlpg` or a load of cr3) and reported
  counters are left out. The states of tasks are in `Kernel`; here a process is
  its address space, and it can be run, switched to or cleaned up in any order
  that the kernel thread allows.
* **Boot.** A machine is what the boot loader has put into memory: the tags with
  their sizes, the archive as the list of its entries with the sizes that the
  headers state, the image as its headers. The parsers walk by the stated sizes
  and read zeros behind the tags. Words have `MaxAddr + 1` values with the
  code's saturating or checked additions. Error codes are left out: what matters
  is what is accepted and what a later step makes of it. Page, frame and word
  are small; `MkInitramfsAssumption` keeps what the tool's constants have in
  common with them: the page is a power of two, code and data take a page each,
  and the kernel's limits leave room for two files and two segments.
  `MachinesAssumption` is the format of what a boot loader leaves in memory, and
  `BootAssumption` that the built archive is not larger than the kernel accepts.
* **Klog.** A message is its tag and sequence number; `LogLines` stands for the
  run of messages that a step of the boot writes.
* **Console.** A cell is the byte it shows; the cursor is a value of its own,
  since no other cell has its color. Each call of the writer is one step: it
  runs with interrupts off. The shell's Enter writes the newline where the
  cursor is: if the cursor is in the first of two rows of input, the output of
  the command goes over the rest of the input (`shell.rs:493`). Nothing says
  otherwise; `InputShown` speaks of the time in which a line is edited. That the
  longest line fits on the console (512 bytes, 72 to a row, 16 rows) is an
  assumption, `TerminalAssumption`: the code does not test it, and
  `render_input_with_cursor` would draw a longer line over the frame.
  `MakeRoom` is its scrolling loop, one row at a time.
* **Heap.** The table of blocks is kept slot by slot, since first fit and the
  slot of a remainder go by the order of the table. Of the bytes the canary words
  are kept, at their offsets, also the ones that frees leave behind; a write that
  touches a word destroys it, be it the write of a new canary, of an owner into its
  payload (`Use`), or past its end (`Corrupt`). That a payload holds by chance the
  eight bytes of a canary is left out. The loop of `coalesce_free_blocks` runs to its end
  in one step. Counters and the ring of recently freed addresses are left out.
* **Keyboard.** A scan code is its class: all printable keys are one letter, and
  there are two shift keys. The code has one flag for both: when one of two held
  keys is released, the shift ends, until a shift key is pressed or repeats its
  code. `ModifiersFollowKeyboard` names this case (`uneven`) rather than hiding it.
  The keyboard sends the bytes of a key one at a time. `latched` is about the
  interrupt controller: `poll` may take a byte whose interrupt is requested
  already, and the handler reads the port without a look at the status. If the
  request is delivered all the same, the last byte is decoded twice, and a caps
  lock is undone or a shift code of an extended key taken for a shift key. Both
  kinds of controller are in the run; `again` collects the modifiers with a code
  that was read twice, and the property claims nothing of those, but everything of
  the others.
* **Shell, Terminal.** The input array is kept with the bytes behind `input_len`;
  entries of the history are texts. Commands do not touch this state. The loop
  takes a key (`TakeKey`) and then handles it, with the timer and a panic between
  the two. `TextLine` has the same keys, so that the refinement ties each change of
  the line to the key that was taken: a byte goes in only for its key and where
  the cursor is, an arrow recalls the entry next to the one shown, and nothing
  else changes the text. What it leaves open is only where Enter finds the ends of
  the blanks (`Stripped`), which determines the entry.

## 3. Runs

| run | properties | bounds | 
|---|---|---|
| `sched_api` | `OnePlace ArraysSound GuardNeverReorders`, refinement `ImplementsRoundRobin` | 4 tasks, arrays of 3 (one task more than a place, so that both lists fill up and a wake-up finds the queue full), quantum 2, limit 3, 5 ticks: the clock passes the limit |
| `sched_regime` | `WaitBounded` | the preemptive regime only; 14 ticks, more than twice the bound of 3 * 2 |
| `cap_tree` | `TablesSound ReceiveConfined QueuedHandlesLive RevokedForGood` | 2 tasks, tables of 3, mailbox of 1, lineage of 3, so that chains run through both tables and back, 6 generations without wrap-around; task symmetry |
| `cap_wrap` | `GenerationsUnique` | 2 tasks, tables of 2, 5 generations: 4 active ones leave one to be found, over many wrap-arounds |
| `kernel` | `Consistent NoStaleWait NoLostWakeup DeadlinesKept MessageAwaitsRestart NoForgottenParent NoEndpointLeak` | three situations (`MCKernelAll`): complete lives of 2 tasks, 2 ticks; 3 user tasks, preemption on or off, 3 ticks; families of 4 identifiers in 3 slots, so that a slot is reused. Timeouts 0 and 1 |
| `kernel_timed` | `TimedReceiveEnds` (liveness) | 2 user tasks, 3 ticks |
| `boot` | `RegionsSound BootMemoryProtected ArchiveAccepted PlanSound LogKeepsNewest` | over 5000 machines (`MCBoot`), each good but in one part: maps of up to 3 entries that cut frames, overlap or end past the address space; lists of up to 3 tags with short, long and unterminated ones; archives of up to 4 entries with sizes that end inside, at and past the module, without trailer or with garbage behind it; images of up to 4 program headers with offsets, sizes, alignments and addresses on both sides of each limit; the archive that the tool builds, whole, cut and padded. A log of 12 entries wraps during the boot |
| `frames` | `FramesAccounted` | 5 frames in 2 regions out of address order, a stack of 3 so that frees are refused |
| `paging` | `FramesOwned NoSilentLeak UserViewExact KernelShared AuditClean CopiesConfined` | memories of 1 to 18, 22 and 28 frames, so that each allocation of the boot and of a spawn is the failing one in some machine and two processes fit in the largest; one with a region beyond the identity map; 3 plans; 2 slots, 4 spawns, a recycling stack of 14 that is too small for two destroyed spaces, and a record table that overflows |
| `heap` | `HeapSound DamageContained` | 24 bytes above the sentinel in at most 4 blocks, so that the table is full before the heap and a split is refused; remainders on both sides of the split limit, two alignments, canaries of 2 bytes |
| `keyboard` | `NoEventAsleep ModifiersFollowKeyboard Fifo`, liveness `EverythingTaken` | ring of 2 events, poll limit 1, 2 bytes held back by the keyboard, 3 keys of up to 4 bytes: two shift keys are held and one is released, the ring overflows, the poll limit is met, interrupts fall on both sides of a poll and bytes are read twice |
| `shell` | `InputShown ScreenIntact EditorSound`, refinement `EditsAText` | lines of 3 bytes, so that a byte is inserted or deleted between two others, two to a row on a console of 2 rows, so that a line takes a second row, by scrolling or not; history of 2 |

Some properties are conjunctions: `ArraysSound`, `TablesSound`, `Consistent`
and `HeapSound` have the type invariant of their module as a part, beside what
their names say.

What they show, beyond the statements in the modules:

* The starvation guard of `select_next_offset` is redundant: the run queue is
  always in the order of `ready_since`, so the entry that has waited longest is
  the head. The scheduler is plain round robin (`ImplementsRoundRobin`), the
  roll-back in `preempt_current` is never taken, and in the preemptive regime a
  ready task waits at most `QUEUE_CAPACITY * DEFAULT_QUANTUM_TICKS` ticks; the
  kernel's own test asks for less than limit + quantum.
* A free that is refused because of a canary is always the free of the block that
  was overrun: a neighbour or a former owner of the memory cannot cause it, and no
  merging or reuse around the block makes the damage disappear.
* A receiver blocked in `ipc_receive` cannot miss a message: the empty check
  and the block are one step with interrupts off, and the flag `waiting` is set
  exactly while the process table says so.
* Memory: whatever fails half way through a spawn, every frame is free, owned by
  one address space or in the kernel's tables, or `destroy` has reported that the
  recycling stack was full. The copied root of an address space stays right
  because all that the kernel maps after the boot shares the lower tables that
  existed when the copy was made.
* Boot: no frame that can be handed out holds a byte of a module, also of one
  that `add_module` had no room to store, and `/bin/init` can be read again at
  every spawn. The walks of the parsers accept exactly what closed definitions of
  a well-formed archive and a loadable image describe (`IsArchive`,
  `IsLoadable`), and what `tools/mkinitramfs.rs` builds is among it.
* Revocation leaves nothing behind, whatever was transferred, received or
  revoked before, and a stale handle never comes alive while the 56-bit
  counter has not wrapped around.

Symmetry is used only for runs of invariants and of one action property that
is symmetric in the tasks. `CHECK_DEADLOCK FALSE` is set where the model ends:
the clock and the identifiers of `Kernel` and the keys of `Keyboard` are
bounded, the boot ends, and a panic halts the terminal.

**Fairness.** `kernel_timed` assumes `WF(Timer)`, that is, the PIT
keeps interrupting. User tasks run with interrupts on, and system calls and
handlers end, so the next timer interrupt is always taken. Nothing is assumed
of the tasks. `keyboard` assumes weak fairness of the device, of the keyboard
interrupt (on whenever the shell is outside its short critical section), of the
loop, and of `Handled`: every command returns. `TimedReceiveEnds` speaks of
deadlines up to the bound on the clock: beyond it, the model's time stops.

Every property has a mutant: a plausible slip in the code (defined before the
definition it changes, `Mutant of ...`) that makes the run fail.

## 4. Proofs

Every theorem holds for all values of the constants that satisfy the `ASSUME`s
of the modules, which the runs evaluate. Each component has one inductive
invariant; the properties of its runs follow from it.

**Scheduler** (`KernelProofs`; for any set of tasks, any
capacities, quantum and limit).

* `SchedulerInvariant`: `SchedSpec => [](SchedTypeOK /\ OnePlace /\ WithinCapacity /\ QueueOrdered)`.
  `ArraysAreSound` is its part about the arrays, `SchedSpec => []ArraysSound`.
  The conjunction is inductive; the parts are not. A wake-up that finds the
  run queue full puts the task back on the blocked list without a check: there
  is room because the task was on it, once (`OnePlace` is needed for
  `WithinCapacity`), and after the removal it is nowhere else. A dispatch keeps
  the order of the queue because what is appended carries the present time.
  `Good(s)` states the same of a scheduler record, so that composite operations
  (`BeginTask`, `WakeTask`, `PreemptCurrent`) are proved as compositions of
  five moves: off the queue, off the blocked list, onto the queue, onto the
  blocked list, onto the CPU.
* `GuardIsRedundant`: `SchedSpec => []GuardNeverReorders`, from `QueueOrdered`
  (lemma `HeadIsNext`).
* `SchedulerIsRoundRobin`: `SchedSpec => ImplementsRoundRobin`, the refinement.
  `LineOf` and `Blocked` map the run queue and the blocked list to the abstract
  line and set; under `Good` each operation is one abstract step or a stutter (a
  refused call, the clock, a wake-up that finds the run queue full and only
  moves its task within the blocked list).
* `WaitIsBounded`: `RegimeSpec => []WaitBounded`. The bound itself is not
  inductive: the invariant `Timely` says that the i-th in line has waited at
  most `(QueueCapacity - i) * Quantum` and the used part of the current slice,
  where a slice that outgrew its quantum while nobody was in line counts for
  `Quantum - 1`, since the next tick ends it.

**Kernel** (`KernelProofs`; for any number of tasks, slots and messages, any
quantum and timeouts). `KInv` is `Core` and, unless `MixedWaits`, `Calm`.

* `Core`: the scheduler is `Good`; identifiers are unique and older than
  `nextId` (`Ident`); process table and scheduler agree on every task
  (`Agree`); endpoints belong to the tasks with resources (`Owned`). It holds
  with and without `MixedWaits` and gives `TablesStayConsistent` and
  `EndpointsDoNotLeak`.
* `Calm`: a task that can run waits for nothing (`Idle`); a blocked one either
  listens, with an empty mailbox whose flag is set and without children
  (`Listening`), or attends to a child that has not exited (`Attending`); a
  deadline is still to come (`Pending`). It gives `WakeupsAreNotLost`,
  `WaitsLeaveNothing`, `DeadlinesAreKept`, `RestartFindsMessage` and
  `ParentsAreWoken`, all under `~ MixedWaits`, without which TLC has a
  counterexample (see above).

Wake-ups succeed because there are no more slots than places in the run queue
(`TasksFitAssumption`; both are 8) and every queued task has a slot of its own
(lemma `RoomInQueue`). The timer interrupt is a recursion over the slots;
`HalfTicked` is the invariant of that loop, in which the deadlines of the slots
already visited lie ahead of the new time and the others may be due.

**Capabilities** (`CapabilityProofs`; for any tasks, table sizes, mailbox depths,
lineages and generations). `IInv` is the type invariant, empty slots that hold
nothing (`SlotsClean`), `GenerationsUnique`, the root capability of each open
endpoint (`SelfIntact`), `AuthorityIntact` (a capability has its target, a living
parent, and no more rights than it), `ReceiveConfined` and `QueuedHandlesLive`.
None stands alone: a parent is named by a generation, which says something only
while generations are unique; a handle in a message stays live only because
revocation strips the messages of everything it removes. What a cascade removes
is closed under "is a child of", so the parent of whatever remains remains
(`Spared`). Hence `TablesAreSound`, `GenerationsAreUnique` (over wrap-arounds of
the counter), `ReceiveIsConfined` and `QueuedHandlesAreLive`.
`StaleStaysStale` proves the action property `RevokedForGood` for behaviours in
which `nextGen` never decreases: after a wrap-around of the 56-bit counter the
code may give out a generation again. Its own invariant is `BehindCounter`.

**Frame allocator** (`PagingProofs`; any regions that do not overlap, which is what
`RegionsSound` gives for a memory map without overlaps, and any recycling stack).
`FramesAreAccounted`: `FramesSpec => []FramesAccounted`, also with wrong and double
frees. `Good` says that the position of the next fresh frame is in order
(`Cursor`), that the issued frames are exactly the held and the recycled ones,
each once (`Partition`), and that the counter and the flag tell the truth.

**Heap** (`HeapProofs`; any size of the heap, of the table and of the
canaries). `HeapInvariant` is `HInv`: every active block has a shape that the
kernel's own check accepts, the active blocks lie one beside the other and cover
the heap (`HeapTiled`, where the sum of the sizes is a recursion over the slots,
lemma `CoveredChange`), no two free blocks are neighbours, and the canaries of an
allocation are in memory exactly if its payload is not in `overrun` (`Guarded`).
A block's canaries are inside it, so what is written in one block leaves the words
of the others alone; that needs the tiling. An allocation keeps the tiling because what it splits
off is what it leaves (`AllocatedSound`). The loop of `coalesce_free_blocks` is a
recursion in which a turn takes one block away (`MergeSound`, `CoalesceSound`):
after as many turns as there are slots nothing is left to merge. It gives
`HeapIsSound` and `DamageIsConfined`.

**Paging** (`PagingProofs`; every memory map, every set of plans of `/bin/init`,
any number of processes, any size of the record table, of the lists of a space and
of the recycling stack within its assumption). `PagingInvariant` is
`Spec => []PagingInv`: there are regions and a tree of entries that describe the
memory as it is (`State`).
Its parts:

* `KTree`: the kernel's tables are a tree. Each of its nodes (the root, a half's
  table of level 3, of level 2, of level 1, a page) has one entry `en[n]`, which
  stands in the table of its parent; entries of different nodes lead to different
  frames, what lies between them is empty, and no table takes away an access that
  a page's entry grants.
* `Owners`: the frames in use are the kernel's and the ones in the lists of the
  spaces, each of one owner; as long as no clean-up has failed, nothing else is in
  use. `Good` of the frame allocator is part of it: what is allocated belongs to
  nobody.
* `Recorded`: every record of `permission_audit` is what the entry says, and
  unless the table of records has overflowed every page has one.
* `SpacesOk`: a space that lives has tables of its own for the low half
  (`Shape`), its root has the kernel's entry for the high half, and its pages are
  exactly the ones in its list, with their flags and frames.
* `StateNow`, `RootInUse`, `BootOrder`: before each phase of the boot the user pages
  in the kernel's tables are those of the phases before it, so that no page of
  the plan is mapped when the load starts; `cr3` is the kernel's root or that of
  a living space; spaces come after the boot.

None of this is inductive by itself. A freed frame keeps its old entries until it is
zeroed, so that a table is what it is taken for only as long as nobody else has
its frame (`Distinct`, `Owners`). A space copies the kernel's root once: its high
half stays the kernel's because the entry is present before the first space is made
(the heap is ready) and later mappings change tables below it. What is given
back after an error is lost when the recycling stack is full; `Room` says that
what one step gives back fits. Loops (segments, pages, lists of frames) are
recursions over sequences, each with its invariant; the rollback of a load is
shown to undo page by page what the load has done.

`KernelView`, `IdentityView` and `SpaceView` say what `Translate` returns under
the invariant. With them the six properties of the run follow:
`FramesHaveOneOwner` (`FramesOwned`), `NoFrameIsLost` (`NoSilentLeak`),
`UserSeesItsPages` (`UserViewExact`), `KernelIsShared` (`KernelShared`),
`AuditFindsNothing` (`AuditClean`) and `CopiesAreConfined` (`CopiesConfined`).
The assumptions: the kernel's image is in the identity map (`ImageAssumption`) and
the allocator does not have its frames (`MemoriesAssumption`, which
`BootMemoryIsProtected` shows of the regions that the boot makes); plans have the
pages that `validate_image` admits (`PlansAssumption`, compare `PlanIsSound`); the regions of a memory do not
overlap (`IsRegionArray`; the boot gives that if the entries of the loader's memory
map do not overlap, and `RegionsSound` says no more than that); the
recycling stack, 128 frames, holds more than the pages of one image, of which the
code admits less than 65 (`RecycledAssumption`).

**Boot** (`BootProofs`; for every machine, that is every boot information, memory
map, archive and image of the right format, and all limits). `BootInv` says what
each part of the boot finds of the parts before it: the summary is what `parse`
makes of the boot information, and so on. What remains is about the loops, each
with an invariant of its own.

* `LogReadsNewest`: `Spec => []LogKeepsNewest`. The ring modulo its size, entry by
  entry (`RingOk`).
* `RegionsAreSound`, `BootMemoryIsProtected`: the walk over the tags
  reads the same entries and modules as the reference definition, which locates
  each tag on its own (`WalkInv`); the loop of `add_memory_region` adds whole
  frames of one entry each (`RegionInv`).
* `ArchiveIsAccepted`: the loop of `parse_archive` is at the offset of the entry
  it is to read, and has accepted exactly the entries before it (`ArchiveInv`);
  `find` visits the same offsets. That the built archive is accepted is a
  computation of its four entries' offsets.
* `PlanIsSound`: after i turns the plan holds exactly the segments of the first i
  headers that are to be loaded, with disjoint pages, the number of all their
  pages, the bounds around them and whether the entry point is in one
  (`Planned`); a turn refuses only what no plan could place
  (`RefusedIsUnplaceable`). `PagesOverlap`, a comparison of page addresses, is
  shown to be a common page (`PagesMeet`).

**Keyboard** (`KeyboardProofs`; any ring, any poll limit). `NobodySleepsOnEvents`
and the action property `RingIsAQueue` (`Fifo`) need the types only, but the
arithmetic of the ring modulo its size. `ModifiersAreRight` needs more, for in
between decoder and keyboard differ: `InStep` says that the bytes at the port and
on the wire, decoded one after the other, lead the decoder to the modifiers of
the keyboard, or to modes that differ from them only in what was read twice
(`Alike`). `AfterPrefix` says that the decoder waits for the second byte of an
extended key exactly if the last byte read was a prefix: a prefix read twice
changes nothing, and any other byte read twice is decoded as an ordinary one.
`NoneTwice`: without the latch an interrupt finds an unread byte. The poll loop is
a recursion.

**Shell and console** (`TerminalProofs`; any line, history and console that has
rows for the longest line, `TerminalAssumption`). `EInv` is about the line, the
history and the selection and gives `EditorIsSound`. `EditorEditsAText` is the
refinement `TerminalSpec => EditsAText`. The shifting loops of insert and delete
are steps on the text left and right of the cursor (`InsertText`, `EraseText`); the
selected entry is the one that the user has gone back to, which needs that the
selection is within the history and shown (`LoadedText`); a key without effect has
none on the text either (`IdleEffect`); what Enter trims are the blanks around the
line (`TrimStrips`). `SInv` says that the cursor
is in the writer's cell or nowhere and nothing else has changed the frame
(`Whole`), that nothing is drawn on a panic screen (`Panicked`), and that while a
line is edited each cell from its first row on shows what the line has there
(`Depicted`). It gives `ScreenStaysIntact` and `InputIsShown`. The rows and
columns of a byte come from a division; `RowsMonotonic` and `PlaceUnique` are what
the proofs need of it.

`NatRecursion` is for the loops. The induction theorems of the library take a
predicate as an operator, which the provers cannot instantiate, so here the
predicate is a set and the step of a recursion a function: `InductionUpTo` gives
the invariant of a loop, `RunExists` that the recursive function which the model
defines satisfies its equation.

**Only model-checked.** Liveness (`TimedReceiveEnds`, `EverythingTaken`) is out of
the prover's reach. Everything else that a run checks is proved, `RevokedForGood`
and the properties of `Calm` under the conditions named above.

## 5. Plan

1. `revoke_branch` as a recursive operator against `Branch`.
2. The `run_*` programs as scenarios of `Kernel`.

## 6. Not modelled

* The self-tests of `ci.rs` and the `run_*` test programs: they call operations
  that are modelled and compare results; the order in which they call them is
  one of the orders that the models allow.
* `stats.rs`, `buildinfo.rs` and the snapshots of each part: counters and texts
  that are only reported.
* The set-up of GDT, TSS, IDT, PIC and PIT, the serial line, and the assembly that
  saves and restores registers: device registers and calling conventions, with no
  state that a model could relate to anything.
* The shell's reporting commands: what they print is a function of snapshots. In
  `Terminal` a command is the bytes it writes.
* Legacy tasks without an address space (`spawn_legacy`): the probe and the fault
  test run them alone, never beside tasks that block.
* The panic record of `paniclog.rs`, written once before the processor halts, and the
  wording of all messages.
