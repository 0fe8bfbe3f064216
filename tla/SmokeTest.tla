----------------------------- MODULE SmokeTest ------------------------------
(***************************************************************************)
(* The program built into the kernel (main.rs), run on ProcessTable and    *)
(* UserRegions together, on a machine with any number of free frames.  The *)
(* program checks what its system calls return and branches to sys_fail    *)
(* when one is wrong.                                                      *)
(*                                                                         *)
(* Its first part, which checks that a call keeps the registers and that   *)
(* the calls with a buffer work, is left to TrapContext and UserAccess.    *)
(***************************************************************************)
EXTENDS Integers, Sequences, FiniteSetsExt

CONSTANTS
  MAX_PROCESSES, PidBound, ExitCode,
  PAGE_SIZE, UsizeModulus, USER_HEAP_START, USER_MMAP_START, USER_MMAP_LIMIT,
  MAX_MMAP_AREAS, UartPage, AddrArg, LenArg, FlagsArg, ProtArg, FrameBudget,
  KERNEL_STACK_PAGES,
  MaxSpare        \* bound: frames that are free when the program starts

VARIABLES
  state, pid, parent_pid, code, atWait, current, nextPid, power,
  perm, heap_end, areas, panicked, execed,   \* of init; its child maps nothing
  at,       \* at[i]: the step slot i is about to make
  fresh,    \* frames above NEXT_FRAME
  freed,    \* frames of the free list
  child,    \* frames of the forked child: its tables below the root
  stored,   \* what wait has stored
  starved,  \* history: some allocation has failed
  spare0    \* history: the frames there were to start with

procVars == <<state, pid, parent_pid, code, atWait, current, nextPid, power>>
regionVars == <<perm, heap_end, areas, panicked, execed>>
memVars == <<fresh, freed, child, starved>>
vars == <<procVars, regionVars, memVars, at, stored, spare0>>

PT == INSTANCE ProcessTable
R == INSTANCE UserRegions

EBADF == -9
ENOMEM == -12
EINVAL == -22
ENOSYS == -38
RW == {"READ", "WRITE"}
Private == {"PRIVATE"}
Anonymous == {"PRIVATE", "ANONYMOUS"}

(* The calls, their arguments and the result the program expects, and the  *)
(* stores in between.                                                      *)
Program == <<
  [op |-> "getppid", want |-> 0],
  [op |-> "gettid", want |-> 1],
  [op |-> "getuid", want |-> 0],
  [op |-> "bad_fd", want |-> EBADF],
  [op |-> "unknown", want |-> ENOSYS],
  [op |-> "brk", a |-> 0, want |-> USER_HEAP_START],
  [op |-> "brk", a |-> USER_HEAP_START + 1, want |-> USER_HEAP_START + 1],
  [op |-> "store", a |-> USER_HEAP_START],
  [op |-> "brk", a |-> USER_HEAP_START + 2 * PAGE_SIZE,
   want |-> USER_HEAP_START + 2 * PAGE_SIZE],
  [op |-> "store", a |-> USER_HEAP_START + PAGE_SIZE],
  [op |-> "brk", a |-> USER_HEAP_START, want |-> USER_HEAP_START],
  [op |-> "brk", a |-> USER_MMAP_LIMIT, want |-> USER_HEAP_START],
  [op |-> "mmap", len |-> 2 * PAGE_SIZE, flags |-> Anonymous,
   want |-> USER_MMAP_START],
  [op |-> "store", a |-> USER_MMAP_START],
  [op |-> "store", a |-> USER_MMAP_START + PAGE_SIZE],
  [op |-> "munmap", a |-> USER_MMAP_START, want |-> 0],
  [op |-> "store", a |-> USER_MMAP_START + PAGE_SIZE],
  [op |-> "munmap", a |-> USER_MMAP_START + PAGE_SIZE, want |-> 0],
  [op |-> "munmap", a |-> USER_MMAP_START + 1, want |-> EINVAL],
  [op |-> "mmap", len |-> PAGE_SIZE, flags |-> Private, want |-> ENOSYS],
  [op |-> "fork"]>>

(* The labels behind the last step.  A process at TrapLoop is in the       *)
(* kernel, which does not leave its trap handler any more.                 *)
Steps == Len(Program)
Parent == Steps + 1
ParentExit == Steps + 2
Child == Steps + 3
SysFail == Steps + 4
TrapLoop == Steps + 5

Init ==
  /\ PT!Init /\ R!Init
  /\ at = [i \in PT!Slot |-> 1]
  /\ fresh \in 0 .. MaxSpare
  /\ freed = 0
  /\ spare0 = fresh
  /\ child = 0
  /\ stored = -1
  /\ starved = FALSE

-----------------------------------------------------------------------------
Here(op) ==
  /\ PT!InUser /\ panicked = "no"
  /\ at[current] <= Steps
  /\ Program[at[current]].op = op
Instr == Program[at[current]]
Goto(label) == at' = [at EXCEPT ![current] = label]

(* Mutant: a call that fails is made again.                                *)
CheckAgain(result) ==
  Goto(IF result = Instr.want THEN at[current] + 1 ELSE at[current])

Check(result) ==
  Goto(IF result = Instr.want THEN at[current] + 1 ELSE SysFail)

(* The calls that dispatch answers at once.                                *)
Answer(op) ==
  CASE op = "getppid" -> parent_pid[current]
    [] op = "gettid" -> pid[current]
    [] op = "getuid" -> 0
    [] op = "bad_fd" -> EBADF
    [] op = "unknown" -> ENOSYS

Ask(op) ==
  /\ Here(op)
  /\ Check(Answer(op))
  /\ UNCHANGED <<procVars, regionVars, memVars, stored, spare0>>

UserPages(pm) == Cardinality({a \in R!Page : pm[a].v /\ pm[a].u})

(* Frames come from the free list first and go back to it.                 *)
spare == fresh + freed
Frames(take, back) ==
  /\ fresh' = fresh - Max({0, take - freed})
  /\ freed' = Max({0, freed - take}) + back
Exhausted(kept) == Frames(spare, spare - kept)   \* all taken, then returned

(* The heap lies under the leaf table of the code.                         *)
BrkGrow ==
  /\ Here("brk")
  /\ R!BrkGrow(Instr.a, spare)
  /\ IF heap_end' = Instr.a
     THEN Frames(UserPages(perm') - UserPages(perm), 0) /\ UNCHANGED starved
     ELSE Exhausted(0) /\ starved' = TRUE
  /\ Check(heap_end')
  /\ UNCHANGED <<procVars, child, stored, spare0>>

Brk ==
  /\ Here("brk")
  /\ R!BrkRefused(Instr.a) \/ R!BrkShrink(Instr.a)
  /\ Frames(0, UserPages(perm) - UserPages(perm'))
  /\ Check(heap_end')
  /\ UNCHANGED <<procVars, child, starved, stored, spare0>>

(* The mapping needs a leaf table, after the frame of its first page; the  *)
(* table stays when the mapping fails or goes.                             *)
Mmap ==
  LET slot == Min(R!FreeAreaSlots(areas))
      table == IF spare > 1 THEN 1 ELSE 0
  IN  /\ Here("mmap")
      /\ R!Mmap(0, Instr.len, 0, Instr.flags, RW, Max({0, spare - 1}))
      /\ IF areas'[slot].used
         THEN /\ Frames(UserPages(perm') - UserPages(perm) + table, 0)
              /\ Check(areas'[slot].start)
              /\ UNCHANGED starved
         ELSE /\ Exhausted(table)
              /\ Check(ENOMEM)
              /\ starved' = TRUE
      /\ UNCHANGED <<procVars, child, stored, spare0>>

MmapFile ==
  /\ Here("mmap")
  /\ R!MmapRefused(Instr.len, 0, Instr.flags, RW)
  /\ Check(ENOSYS)
  /\ UNCHANGED <<procVars, memVars, stored, spare0>>

Munmap ==
  /\ Here("munmap")
  /\ \/ R!Munmap(Instr.a, PAGE_SIZE) /\ Check(0)
     \/ R!MunmapRefused(Instr.a, PAGE_SIZE) /\ Check(EINVAL)
  /\ Frames(0, UserPages(perm) - UserPages(perm'))
  /\ UNCHANGED <<procVars, child, starved, stored, spare0>>

(* A store, and the load that checks it.                                   *)
Store ==
  /\ Here("store")
  /\ IF perm[Instr.a].w /\ perm[Instr.a].u
     THEN Goto(at[current] + 1) /\ UNCHANGED procVars
     ELSE PT!Segfault /\ UNCHANGED at
  /\ UNCHANGED <<regionVars, memVars, stored, spare0>>

-----------------------------------------------------------------------------
(* fork takes a root table and a kernel stack, which is never built from   *)
(* freed frames, and then as many of the child's other tables as there are *)
(* frames for: the upper table and the leaf tables of the code, the stack  *)
(* and the console.                                                        *)
ChildTables == 4
CodeTables == 2
StackTables == 3

CanFork == spare > 0 /\ fresh - (IF freed = 0 THEN 1 ELSE 0) >= KERNEL_STACK_PAGES

Fork ==
  /\ Here("fork")
  /\ CanFork
  /\ PT!Fork
  /\ child' = Min({spare - 1 - KERNEL_STACK_PAGES, ChildTables})
  /\ LET others == 1 + child'
     IN  /\ fresh' = fresh - KERNEL_STACK_PAGES - Max({0, others - freed})
         /\ freed' = Max({0, freed - others})
  /\ starved' = (starved \/ child' < ChildTables)
  /\ at' = [at EXCEPT ![current] = Parent, ![Min(PT!EmptySlots)] = Child]
  /\ UNCHANGED <<regionVars, stored, spare0>>

ForkPanic ==
  /\ Here("fork")
  /\ ~CanFork
  /\ PT!ForkPanic
  /\ starved' = TRUE
  /\ UNCHANGED <<regionVars, at, fresh, freed, child, stored, spare0>>

-----------------------------------------------------------------------------
AtLabel(label) == power = "on" /\ at[current] = label

WaitBlock ==
  /\ AtLabel(Parent)
  /\ PT!WaitBlock
  /\ UNCHANGED <<regionVars, memVars, at, stored, spare0>>

(* Mutant: the child's kernel stack is not freed.                          *)
WaitKeepsStack ==
  /\ AtLabel(Parent)
  /\ child >= StackTables
  /\ PT!WaitReap
  /\ stored' = code[Min(PT!ZombieChildren)]
  /\ Frames(0, 1 + child)
  /\ Goto(ParentExit)
  /\ UNCHANGED <<regionVars, child, starved, spare0>>

(* Storing the code breaks the sharing of the stack page.  Nobody shares   *)
(* it any more, unless fork counted the child in and then had no frame for *)
(* its table; there is none for a copy either then.                        *)
Wait ==
  /\ AtLabel(Parent)
  /\ child >= StackTables
  /\ PT!WaitReap
  /\ stored' = code[Min(PT!ZombieChildren)]
  /\ Frames(0, 1 + KERNEL_STACK_PAGES + child)
  /\ Goto(ParentExit)
  /\ UNCHANGED <<regionVars, child, starved, spare0>>

WaitPanic ==
  /\ AtLabel(Parent)
  /\ child < StackTables
  /\ spare = 0
  /\ PT!WaitFault
  /\ UNCHANGED <<regionVars, memVars, at, stored, spare0>>

(* sys_exit, of the last process to own its pages: init's code and stack   *)
(* are two of them.                                                        *)
InitExit(label, c) ==
  /\ AtLabel(label)
  /\ PT!Exit(c)
  /\ perm' = R!UnmapUserPages(perm, USER_HEAP_START, USER_MMAP_LIMIT)
  /\ Frames(0, UserPages(perm) + 2)
  /\ UNCHANGED <<heap_end, areas, panicked, execed>>
  /\ UNCHANGED <<at, child, starved, stored, spare0>>

ChildExit ==
  /\ AtLabel(Child)
  /\ child >= CodeTables
  /\ PT!Exit(42)
  /\ UNCHANGED <<regionVars, memVars, at, stored, spare0>>

(* A child without a console does not survive a trap that prints: the      *)
(* timer interrupt, or the fault of fetching code it does not have.  The   *)
(* message faults in S-mode, kernel_trap_handler prints before it shuts    *)
(* down, and so faults as well, again and again.                           *)
ChildPrints ==
  /\ AtLabel(Child)
  /\ child < ChildTables
  /\ Goto(TrapLoop)
  /\ UNCHANGED <<procVars, regionVars, memVars, stored, spare0>>

TrapAgain == AtLabel(TrapLoop) /\ UNCHANGED vars

Off ==
  /\ PT!ShutDown
  /\ UNCHANGED <<regionVars, memVars, at, stored, spare0>>

Next ==
  \/ \E op \in {"getppid", "gettid", "getuid", "bad_fd", "unknown"} : Ask(op)
  \/ BrkGrow \/ Brk \/ Mmap \/ MmapFile \/ Munmap \/ Store
  \/ Fork \/ ForkPanic
  \/ WaitBlock \/ Wait \/ WaitPanic
  \/ InitExit(ParentExit, 0) \/ InitExit(SysFail, 1)
  \/ ChildExit \/ ChildPrints \/ TrapAgain \/ Off

Spec == Init /\ [][Next]_vars

(* The processor executes the next instruction of the program.             *)
FairSpec == Spec /\ WF_vars(Next)

-----------------------------------------------------------------------------
TypeOK ==
  /\ PT!TypeOK /\ R!TypeOK
  /\ at \in [PT!Slot -> 1 .. TrapLoop]
  /\ fresh \in Nat /\ freed \in Nat
  /\ child \in 0 .. ChildTables
  /\ stored \in ExitCode \cup {-1}

(* Every answer of the kernel is the one the program expects, from getppid *)
(* to the fork, as long as no allocation has failed: neither sys_fail nor  *)
(* a panic nor a trap of the kernel's own is ever reached.                 *)
SmokePasses ==
  ~starved => /\ at[0] # SysFail /\ code[0] = 0
              /\ power # "fault" /\ ~AtLabel(TrapLoop)

(* A program that ran to its end has collected 42 from a child that is     *)
(* gone and, but for the table its mapping left behind, every frame is     *)
(* free again, those of its own code and stack included.  Until then both  *)
(* components keep their types and no frame is handed out that is not      *)
(* there.                                                                  *)
CleanEnd ==
  /\ TypeOK
  /\ power = "idle" /\ ~starved =>
       /\ stored = 42
       /\ \A i \in PT!Slot \ {0} : state[i] \in {"None", "Gone"}
       /\ spare + 1 = spare0 + 2

(* Whatever memory there is, the program comes to an end: every process    *)
(* exits, or the kernel panics.  There is one way to miss the end, and it  *)
(* needs a failed allocation: fork has given the child no console, and the *)
(* kernel's trap handler faults in its own message for ever.               *)
Ends == <>(power # "on" \/ (starved /\ AtLabel(TrapLoop)))
=============================================================================
