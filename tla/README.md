# A formal model of the unit00 kernel

unit00 is a small RISC-V (Sv39) kernel in Rust: one hart, user processes with
`fork`/`exit`/`wait`, copy-on-write memory, a heap, anonymous `mmap`, and a
cooperative round-robin scheduler. This directory holds TLA+ models of it, the TLC
configurations that check them on small instances, and proofs checked by TLAPS.
`PROJECT.json` maps every definition to the source lines it models.

All paths below are relative to `src/kernel/src/`.

## The system

| Part | State | Operations that change it | Interacts with |
|---|---|---|---|
| Process table, scheduler (`task/scheduler.rs`, `task/process.rs`) | `PROCESS_LIST` (pid, parent pid, state, exit code), `CURRENT`, `NEXT_PID` | `find_empty_slot`, `alloc_pid`, `reparent_orphans_to_init`, `wake_parent`, `pick_next`, `schedule` | system calls, trap handler |
| Life-cycle system calls (`syscall.rs`) | the above, page tables, frames | `sys_fork`, `sys_exit`, `sys_wait` | scheduler, allocator, page tables |
| Trap handling (`trap.rs`) | as above, the trap frame | `trap_handler`, `page_fault_handler`, `handle_cow_fault`, `do_segfault`, `kernel_trap_handler` | scheduler, allocator |
| Frame allocator (`mm/frame.rs`) | `NEXT_FRAME`, `FREE_LIST_HEAD`, the first word of each free frame, `FRAME_REFS` | `alloc_frame`, `alloc_contiguous_frames`, `free_frame`, `inc_ref`, `dec_ref` | every user of frames |
| Page tables (`mm/page_table.rs`) | a three-level tree per process, the TLB | `walk`, `map`, `map_cow`, `for_each_leaf`, `lookup`, `free_intermediate_frames`, `sfence.vma` | allocator, `fork`, `wait`, `schedule` |
| Heap and mappings (`syscall.rs`) | `heap_end`, `mmap_areas`, leaves | `sys_brk`, `sys_mmap`, `sys_munmap`, the `exec` stub | page tables, allocator |
| User memory access (`syscall.rs`) | leaves, frame contents | `ensure_user_range`, `sys_read`, `sys_write`, `sys_uname`, `sys_getcwd`, `sys_wait`'s store | copy-on-write, console |
| Trap entry and exit (`main.rs`, `task/trapframe.rs`) | registers, CSRs, the frame on each kernel stack and its copy in the table | `trap_entry`, `trap_exit_restore`, `read_from_stack`, `write_to_stack` | trap handler, scheduler |
| Boot (`main.rs`) | everything | `rust_main` | |
| Console (`console.rs`), timer (`timer.rs`) | the UART's registers, the time of the next tick, `TICK_COUNT` | `putchar`, `putstr`, `read_char`, `set_timer` | trap handler, `read`, `write` |
| Built-in program (`main.rs`) | its place | the system calls it makes | all of the above |
| SBI (`sbi.rs`) | none | `shutdown` | |

What makes this code hard to get right although there is one hart:

* Interrupts are off in the kernel (`TrapContext` shows it) and the timer handler
  only prints and re-arms the timer, so handlers are atomic. The interleaving is that of the processes at
  their system calls and faults: a `wait` is spread over two executions of its
  ecall, and between them every other process may fork, exit and wait.
* Frames are shared by any number of processes, and the number of references
  decides whether a fault copies and whether an exit frees.
* Several handlers go on after an allocation failed, or undo what they had done.
* Records (`mmap_areas`, `heap_end`) and page tables describe the same memory, the
  TLB may still describe an older one, and a program's registers exist in up to
  three places.
* The UART and the clock do run beside the hart, and the kernel polls.

The hazards that follow from this are listed, with their lines, in `PROJECT.json`.

## Modules

| Module | Models |
|---|---|
| `ProcessTable` | the table and the scheduler; `fork`, `exit`, `wait` and faults as far as processes are concerned |
| `ProcessLiveness` | `ProcessTable` with forks without end, and what programs are assumed to do in the long run |
| `FrameAllocator` | `mm/frame.rs` |
| `FramePool` | what the allocator promises: frames with owners, no list, no counters |
| `UserRegions` | `brk`, `mmap`, `munmap`, `exec` of one process, in bytes, with address overflow |
| `Kernel` | composition: the steps of `ProcessTable` (by `INSTANCE`) together with page tables, reference counts, frame contents and the number of frames left |
| `PrivateMemory` | what `fork` promises: each process has its own memory |
| `TrapContext` | trap entry, dispatch and exit down to the points where an interrupt could come, on top of `ProcessTable` (by `INSTANCE`) |
| `UserContexts` | what a program may rely on: registers of its own |
| `PageTable` | the trees in the frames of RAM, and the TLB |
| `AddressSpaces` | what the trees promise, and how `Kernel` sees them: flat maps |
| `UserAccess` | the calls that read or write user memory, byte by byte |
| `Console` | polling loops, UART, clock and the timer's handler |
| `ConsoleStream` | what the console promises: messages whole and in order |
| `SmokeTest` | the program in `main.rs`, run on `ProcessTable` and `UserRegions` together (by `INSTANCE`), with any number of free frames |
| `LeafEntries` | the leaf entries of `Kernel`'s page tables and their constants |
| `ProcessTableProofs`, `FrameAllocatorProofs`, `TrapContextProofs`, `UserRegionsProofs`, `KernelProofs` | theorems |
| `Sharing` | vocabulary for the proofs about copy-on-write: page tables, counts and contents as values |
| `SharedFrames`, `CopyOnWrite` | lemmas about `Sharing`, for any page tables: unmapping, breaking copy-on-write; forking |
| `KernelFrames` | lemmas about the handlers of `Kernel`: how they share frames, and how many they take and give back |
| `MC...` | constants for TLC |

Definitions named `Mutant` in their comments are faulty variants used to confirm
that a property can fail; no specification uses them.

### ProcessTable

A slot's `state`, `pid`, `parent_pid` and `code` are the fields of `Process`; `None`
is an empty slot. Each handler is one action, from the trap to the return to user
mode or to the end of `schedule()`. `atWait[i]` stands for the saved `sepc`: when
`sys_wait` blocks, `schedule()` saves the frame with the `sepc` of the ecall itself,
so a resumed process executes `wait` again before anything else (`InUser` is false
until then). `power` becomes `idle` when `pick_next` finds nothing. It becomes `fault`
when the kernel panics, traps in S-mode or stores over its own memory, and nothing is
said of what happens afterwards: it may switch the machine off or, if it cannot
print, trap for ever. An `expect` on a frame is left open here: `Fork` or `ForkPanic`.

`ProcessLiveness` is for the liveness properties. With a bound on pids every program
would run out of forks, and a `wait` would complete for no other reason. The kernel
compares pids for equality and does nothing else with them, so `ForkAnew` gives a
child any pid that no slot mentions, and there is no bound on the number of forks.

### FrameAllocator and FramePool

Addresses are frame numbers and 0 ends the list. `word[f]` is the first word of
frame `f`, which `free_frame` uses as the link and which an owner may overwrite with
anything (`OwnerStore`). `held` counts the owners of each frame, and a call is made
only on behalf of an owner: that the kernel's callers keep to this is what
`RefsExact` (user data) and `FramesBalance` (all frames, by number) of `Kernel` check. Reference words are computed modulo
`RefModulus` (2^32). `freeStack` is a history variable.

`FramePool` is the abstract specification (`PoolSpec`): a frame handed out had no
owner, and `None` means that every frame has one. For contiguous runs it promises
only the first half, because the second is false; see the finding below.

### UserRegions

One process; its page table is a map from pages to leaves. Arguments are bytes and
arithmetic is modulo `UsizeModulus` where the code can overflow. Where `align_up` of
a hint overflows, a dev build panics and a release build wraps: both are possible
steps. `budget` says for how many pages a call finds frames, and so where
`map_zeroed_user_pages` stops and rolls back; TLC uses 1 (stops after the first page)
and 4 (never short of frames). The `exec` stub is
included: it resets the records and leaves the pages mapped.

### Kernel and PrivateMemory

`pt[i][p]` is the leaf of page `p`, `tables[i]` the table frames below the root of
slot `i`. Data frames have an identity, a count and contents; frames of tables and
kernel stacks are only counted, and `spare` is the number of frames the allocator
still has. `FramesBalance` is the audit: spare frames, a root and a kernel stack for
each process (`Occupied`), its tables (`TablesInUse`) and the data frames with a
reference (`Referenced`) make up all of RAM. A contiguous allocation may fail whenever `ProcessTable` allows
`ForkPanic`. `fork` ignores the result of `map`, so under memory pressure the child
silently lacks pages: `ForkTables` says which tables it got, in the order of the two
passes over the parent's leaves. A segmentation fault leaves its user pages mapped
and `wait` then frees only the tables; the references lost on these two paths are
counted in `leaked`, so `RefsExact` says precisely what leaks and that nothing else
does. Readability and execute permission of leaves are left out (a writable leaf
is always readable), and so are `exec` and address ranges, which are in
`UserRegions`.

`wait` stores the exit code through any pointer that is not null, in S-mode and
without a check, and every address space has the kernel's map of all RAM
(`init_kernel`). So there are three outcomes: a store to a user page that the
caller can write (`WaitReap`), a store to any data frame through the map of RAM, whoever has
it (`WaitReapToRam`), and a trap or a store over the kernel's own memory, after which
the kernel is not followed (`WaitFault`). Pointers are aligned here, so the word lies in
one page; `UserAccess` has the others.

`PrivateMemory` has no frames. The refinement mapping reads each process's memory
through its page table; `stored` records what a step was supposed to write, so a
step may change exactly these pages of exactly this process. `Overwrite` is the
exception that `WaitReapToRam` makes necessary. It says how far this goes: pages
change that had one and the same contents before, have the exit code afterwards,
at most one in each memory, and nothing else does. That a process's memory is
changed only by itself therefore holds of the kernel as long as no program passes
`wait` such a pointer.

### TrapContext and UserContexts

`phase` says how far the hart is: `user`, `entry` (the trap has happened), `handler`
(`trap_entry` has saved the frame), `epilogue` (the handler has returned),
`restore` (at `trap_exit_restore`) and `sret` (everything loaded). `stackFrame[i]` is
the frame below slot i's `kernel_sp`, `record[i]` is `Process.trap_frame`. Of the
registers, `sp`, `t0` and `a0`, which the assembly uses itself, are kept, and `t1`
stands for the others; a register that holds a kernel address or something the
kernel left behind can be told from any value of a program. The handlers are the
steps of `ProcessTable` with what they do to frames; a handler that traps, in `wait`'s
store, in a copy from or to user memory or in printing without a console, goes
through `entry` again and finds `sscratch` zero (`HandlerTraps`, `KernelTrapEntry`).

`UserContexts` knows neither traps nor frames. The refinement mapping `Ctx` finds a
program's registers where they are at the moment: in the hart, in the stack frame or
in the record. `ContextsSpec` therefore says that no trap, switch or other process
changes them, that each call returns once, and what a child of `fork` starts with.
It also shows what becomes of the `exec` stub's assignments to `sepc` and `sp`: they go
to the record only and are overwritten by the next trap, so the call returns 0 to
its caller.

### PageTable and AddressSpaces

`ram.mem[f]` is frame f read as a table; a frame that is freed or used for something
else holds `Junk`, so that a walk through it would find leaves nobody made. `walk` allocates
level by level and may fail at each; `fork` is its two passes over the parent's
leaves; `wait` frees what `free_intermediate_frames` visits. `cached[p]` is every leaf
of page p that the hart may have seen since its last `sfence.vma`. Frame numbers
carry no meaning, so a table gets the number of its place when that is free; there
are more numbers than frames (`NumFrames` is the amount of RAM). A child that `fork`
could not give the console's page to traps as soon as a handler prints
(`PrintTraps`). Ranges and the order
of processes are left to `UserRegions` and `ProcessTable`.

`AddressSpaces` has, for each process, a map from pages to leaves and a set of
tables, as `Kernel` does. `FlatSpec` says that the trees behave like that, with the
number of frames left and the references to every page; so what `Kernel` takes for
granted about tables is checked here.

### UserAccess

One caller and one call with any buffer. The caller's pages are any mix of unmapped,
code, data, execute-only, copy-on-write shared, copy-on-write with a single user, and
pages of the kernel: the console, and the map of RAM at a frame of another process
(`ram`) or at one of the caller's own (`mirror`). Addresses are bytes; `lookup` ignores
the bits above bit 38, which the hardware does not, so addresses above the virtual
address space are among the inputs, and alias every page of it.

`CheckExact` compares the loop over pages with what the program may access, byte by
byte. They agree but for one case, which the property names: a buffer that
reaches above 2^39 is accepted if the pages it aliases are accessible, and then the copy
traps. `OnlyWaitTraps` is about buffers below 2^39 and, for `wait`, about
aligned pointers that do not point to pages of the kernel. `OthersUntouched` has those
too: a byte of a frame that another process refers to is changed only by a `wait` whose
word lies in the map of RAM.

### Console and ConsoleStream

The UART has a holding register that it empties at its own pace and a receiver
that a new character overwrites; `due` is the time until the timer interrupt, which
goes on while the kernel polls. Each successful poll is one step. `print_hex` is
computed from the top digit by shifting, as in the code, and compared with the
numeral of the count. The buffer a program writes goes out as it is, the kernel's messages with
a carriage return before each newline.

### SmokeTest

`Program` lists the calls from `getppid` to `fork` with the results that the assembly
compares; `at[i]` is the step slot i is at. Frames are counted as the allocator has
them: fresh ones, and freed ones, which are used first but not for kernel stacks.
What happens without memory follows the code: a `brk` or `mmap` that fails sends the program
to `sys_fail`; `fork` panics without a root or a stack; a child whose tables could not
all be had has no console to print to, or no code, or leaves a reference to the
stack page behind that makes `wait` copy it. A child without console that meets the
timer traps in `trap_handler`, and then again and again in `kernel_trap_handler`, which
prints too and so never reaches `shutdown` (`TrapLoop`). The program's first part, which checks that
registers survive a call and that `write`, `uname` and `getcwd` work, is covered by
`ContextsSpec` and the properties of `UserAccess`.

## Runs

| Run | Instance | Distinct states | Checks |
|---|---|---|---|
| `process_table` | 4 slots, pids up to 6, exit codes 0 and 1 | 24 309 | process tree, wake-ups, idle, round robin |
| `ready_runs` | 4 slots, forks without end | 104 494 | `ReadyRuns` |
| `wait_completes` | 3 slots, forks without end | 1 108 | `WaitCompletes` |
| `frame_allocator` | 4 frames to hand out, 2 owners each, runs of 2 | 97 051 | free list, counters, `PoolSpec` |
| `frame_contiguous` | the same | violation | `ContiguousNoneMeansNoFrames` |
| `user_regions` | 2-byte pages, heap of 3 pages with the console in it, window of 4 pages, 2 areas, 6-bit addresses | 9 208 | regions and pages agree |
| `kernel_memory` | 3 slots, 3 pages, 4 data frames, 15 frames in all | 167 378 | copy-on-write, counts, frame totals, `PrivateSpec` |
| `trap_context` | 2 slots, pids up to 3, 3 program counters | 855 757 | interrupts, stacks, `ContextsSpec` |
| `page_table` | 2 slots, 2 entries per table (8 pages), 14 frames | 117 678 | trees, kernel half, TLB, `FlatSpec` |
| `user_access` | 4 pages of 2 bytes, 16 addresses, buffers up to 4 bytes, one call | 364 016 | check and copy |
| `console` | 3 units between ticks, 2-digit count to base 2, reads up to 2 | 30 494 | `StreamSpec`, every call ends |
| `smoke_test` | 0 to 12 free frames | 286 | the program passes, and ends or traps for ever |

Why the bounds are enough for the interesting cases: four slots hold init, a parent,
its child and an unrelated waiter, and six pids reuse reaped slots; for
`WaitCompletes` three are enough for a child that forks and waits for ever; four frames make
free lists of length four with runs both taken and refused; two areas and a window
of four pages give full tables, splits that fit and splits that do not; six bits of
address reach the overflow of `align_up`; with three processes a frame is shared by
three generations, and 15 frames are few enough for `fork` to run out in the middle of its
tables and for a copy-on-write fault and `brk` to find none. `PidBound`, `MaxOwners` and `MaxRun` bound counters.
`Frame` of `Kernel` is a bound too: at most four frames hold user data at a time, and
a step that would need a fifth while `spare` is positive is not explored. Frames are
symmetric in `kernel_memory`. In `trap_context` two slots give switches in both
directions, a slot that is reused and a fork that finds none; pids up to 3 make two
forks. In `page_table` the user half has four pages under two last-level tables, so a
map may or may not need new tables, and 14 frames are few enough for maps, forks and
copies to run out of them; `RefBound` bounds the references that forks after
segmentation faults leave behind. In `user_access` pages of two bytes have a first and
a last byte, and a buffer of four bytes lies on up to three pages; one call is
enough because the initial states are all mixes of pages and the properties are
about one call, and 16 addresses alias each page once (`MaxCalls`; the run does not check deadlock because its
behaviours end there). In `console` the message of a tick is longer than the interval. In
`smoke_test` the program succeeds with eight frames or more, and its one behaviour
branches only in the number of frames and in whether a child without console meets
the timer.

Fairness. In `ready_runs` and `wait_completes` the hardware executes a resumed ecall.
The rest is assumed of programs, because the timer does not take the hart away: without
it a looping program starves the others by design. For `ReadyRuns` (`FairSpec`) whoever
has the hart eventually exits, faults or blocks in `wait`. For `WaitCompletes` that
is too little: a child that forks, waits and collects for ever gives up the hart again and
again and never exits, and its parent sleeps for ever. `EndingSpec` assumes that a program that
gets the hart again and again exits or faults some time; the property then says that
the kernel loses no wake-up and passes nobody over on the way. In `console`, the hart goes on
executing the kernel's instructions, the UART sends what it holds, time passes, and
a character comes when the receiver is empty; the last is an assumption about who types,
and `ProgramRuns` needs it because a `read` holds the hart until it has its
characters. In `smoke_test` the processor executes the next instruction.

`TypeOK` is proved for `ProcessTable`, `FrameAllocator` and `TrapContext`. In
`UserRegions` and `Kernel` it is a conjunct of invariants that are checked and proved,
in `PageTable` and `SmokeTest` of invariants that are checked.

Deadlock is checked in every passing run but `user_access`. A machine that is off stutters.

### Finding

`alloc_contiguous_frames` only uses memory above `NEXT_FRAME` (`mm/frame.rs:95`). Once
that is used up it returns `None` whatever is free, and `sys_fork` panics with
"fork: no frames for kernel stack" (`syscall.rs:564`). `frame_contiguous` shows it: all
frames but the last are allocated, the last but one is freed, and a request for two
frames is refused although these two are adjacent and unowned. Kernel stacks that
`wait` frees go to the free list in the same way, so no later stack can use them.

## Proofs

TLAPS proves what follows for every value of the constants that satisfies the named
assumptions: `SlotsAssumption`, `PidBoundAssumption`, `ExitCodeAssumption` of
`ProcessTable`; `RamAssumption`, `RefsAssumption`, `RunAssumption` of `FrameAllocator`;
`ContextAssumption`, `TableAssumption` of `TrapContext`; `LayoutAssumption`,
`ArgAssumption` of `UserRegions`; `MemoryAssumption`, `TableAssumption`,
`FramesAssumption` of `Kernel`. They say what kind of thing a constant is, and of sizes
only what the source fixes: that the regions are laid out in order and fit into
`usize`, and that RAM is large enough for what `rust_main` allocates for init.

**ProcessTable.** `TypeOK`, `OneRunning`, `PidTree`, `ParentCanWait`,
`WaitersServed`, `IdleOnlyWhenDone` as invariants, and
the action properties `ZombieKeptForParent` and `RoundRobin`. The invariants are not
inductive separately. `IInv` joins them and adds that slot 0 is init's for ever, that
the Running slot is the current one in every power state but `idle`, and which
states are compatible with being inside `wait`. The core of the argument: when a
process exits, its parent, if asleep, is the only process with that pid
(`PidTree`), so it is the one `wake_parent` finds, and the zombie it was woken for is
its own; its other sleeping relatives keep their live children, because the children
of the dead process go to init, which exists. That `schedule()` never idles with
sleepers left is `NoSleepersOnly`: the sleeper with the largest pid has a live child
with a larger pid, which does not sleep. `RoundRobin` rests on ring arithmetic
(`CyclicCloser`) and on `pick_next` returning the nearest ready slot.

**FrameAllocator.** `TypeOK`, `FreeListIntact`, `NoFrameLost`,
`RefsCountOwners`, together inductive, and the refinement `Spec => PoolSpec`. A store
by an owner cannot damage the list because listed frames have no owner; they have
none because `dec_ref` frees exactly when the count, which is the number of owners,
drops to 0; a fresh frame is not on the list because listed frames lie below
`NEXT_FRAME`.

**TrapContext.** `TypeOK`, `KernelNotInterrupted`, `TrapFindsItsStack`, `OnLiveStack`, and
the refinement `Spec => ContextsSpec`. Every step is a step of `ProcessTable` or leaves
its variables alone, so the invariant of `ProcessTableProofs` is a conjunct of `IInv` and
its preservation is cited, not proved again. The other conjunct, `ContextInv`, is proved
step by step and uses of the table only `TableSound`: its types, and that
`CURRENT` is alive while the machine is on. The invariants need that every saved frame
returns to user mode with interrupts to be turned on (`FramesReturnToUser`), for this is
where the next `sstatus` comes from; that holds because a frame is only ever made by
`new_user`, by a trap taken in user mode (`EntryStatus`) or by copying. That the kernel
runs on a live stack is the table's fact that `CURRENT` is Running, together with the
switch at the end of `schedule()`. The rest of `ContextInv` says where a program's
registers are (`UserRegsLoaded`, `EpilogueHasResult`), in which phases the machine can
stop, and that pids stay within their bound.

For the refinement, each step is shown either to leave the mapped registers and doings of all
processes alone (`Stays`: a trap moves them from the hart to the stack frame,
`trap_exit_restore` moves them back, `schedule()` changes whose they are) or to be one
of the moves that `UserContexts` has. The delicate ones are `TrapEntry`, where a call
becomes visible when its frame is saved; `Epilogue`, where the result is; a reschedule, where
the process that loses the hart must find in the table what its stack held, and the one
that gets it finds its own frame (`SwitchView`); and `Fork`, where the child's frame is
the parent's with 0 as result in a slot whose old frame nobody counts any more.

**UserRegions.** `AreasWellFormed`, `PagesMatchRecords`, `SplitNeverPanics`,
`GapIsFirstFit` and the action property `NeverMappedOver`. `IInv` joins them and adds
`CleanLeaves`, an entry that is not valid is zero, without which the roll back of a
mapping that ran out of frames would not restore the table. The two loops over the area
table are recursive functions of a round number. What they compute is found without an
induction theorem: a property of all rounds is a set of numbers, and a least round where
it failed would contradict the round before (`LeastExists`, `Induct`). `LoopInvariant`
says of `remove_mmap_range` that after n rounds the slots seen have nothing in the range
and that the areas hold outside it what they held before. Areas are disjoint, so only one
of them can be split, and `can_split_mmap_range` has seen the slot that this needs
(`SplitHasSlot`). `GapOk` says
of `find_mmap_gap` that jumping behind an overlapping area, in slot order, passes over no
address that fits.

**Kernel.** `WritableIsExclusive`, `RefsExact`, `FramesBalance`, the action property
`ForkIsCompleteOrDry`, and the refinements `Spec => PrivateSpec`, with the exception for `wait`'s pointers into
the map of RAM that `PrivateMemory` states, and of `ProcessTable`.

* *Sharing.* A step of a handler is a change of page tables, counts and contents as
  values: unmapping, mapping fresh frames, breaking copy-on-write, forking, and for
  `wait` two of these one after the other. `SharedFrames` and `CopyOnWrite` show for each
  that it keeps `Sound`: a process has a frame at one page only, what one process can write
  nobody else maps, and a count is the number of mappers and lost references. The three
  need each other. A frame with count 1 may be made writable in place only because
  counts are exact, and a count stays exact when a process unmaps a frame only because
  it mapped it once. What another process reads is unchanged because a store
  goes to a frame that only the storing process maps. A store through the map of RAM
  changes one page of each process that maps the frame, since each has it once
  (`OverwriteStep`).
* *Refinement.* `KernelProofs` shows that each handler of `Kernel` changes memory in one
  of these ways, and so takes a step of `PrivateMemory`. It also needs that a slot without a
  process maps no user page (`EmptySlotsEmpty`), for `fork` fills such a slot. What it needs
  of processes is the invariant of `ProcessTableProofs`; every handler is a step of
  the table or leaves it alone.
* *Counting.* `FramesInv` is the balance and `HolesEmpty`, an invalid entry is zero; the
  invariant on memory above is used with it. Each of the four parts of RAM is a
  finite set, and for each handler it is shown which set it extends and by how many elements
  (`Ledger` adds them up). A copy-on-write fault takes a frame for each shared page
  it copies, and the old frame keeps a reference; an unmapping returns exactly the frames whose last reference it held
  (`LessReferenced`), which are those whose count was 1 because counts are exact.
  `fork` asks for tables in a fixed order, user pages first, and gets the first ones as long as
  frames last: `FirstInOrder` shows, for any total order on a finite set, that those
  with fewer than m predecessors are m in number, or all. So either
  the child has its parent's map or the allocator is empty, which is
  `ForkIsCompleteOrDry`.

Only model-checked, and why:

* Liveness (`ReadyRuns`, `WaitCompletes`, `ProgramRuns`, `Ends`): fairness and `ENABLED` are out
  of the prover's reach.
* `PageTable` (`TablesDisjoint`, `KernelHalfShared`, `TlbCoherent`, `FlatSpec`): `rust_main`,
  `fork` and `free_intermediate_frames` build, extend and take down trees in loops over
  leaves, which the model writes as folds. What a fold leaves behind needs an induction
  over the sequence, and the library's induction theorems for that cannot be used with
  this prover. `TlbCoherent` depends on the shape of the trees in the same way.
* `UserAccess`: `CheckExact` and its companions compare loops over pages and bytes
  with definitions over ranges, per call; TLC covers every mix of pages.
* `Console` and `StreamSpec`: digits are computed by repeated shifting, and messages are
  concatenated sequences.
* `SmokeTest` (`SmokePasses`, `CleanEnd`): one concrete program, of which TLC explores
  every behaviour; there is nothing left to generalise.

## Not modelled

* The encoding of page table entries in 64 bits (the comment at
  `mm/page_table.rs:36` and the masks beside it), `PageTable::unmap`, which nothing
  calls, and the moment `rust_main` switches translation on.
* Clearing the BSS in `_start`, the linker's symbols, the register constraints of the
  inline assembly (`timer::set_timer` declares no clobbers), and the layout of
  `TrapFrame` in bytes: frames are records.
* The text of messages, other than that of the timer.
* The SBI calls themselves; `shutdown` ends a behaviour.
* Programs that share one address space or run on another hart: there are none.

## Plan

1. PageTable: the loops as recursive functions of a round number, which
   `UserRegionsProofs` shows how to reason about; then proofs of `TablesDisjoint`,
   `KernelHalfShared` and `TlbCoherent`.
2. UserRegions: composition of regions with fork.
3. Console: a proof of `StreamSpec`.
