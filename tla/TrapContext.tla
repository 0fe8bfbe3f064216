---------------------------- MODULE TrapContext -----------------------------
(***************************************************************************)
(* How a trap enters and leaves the kernel: trap_entry and                 *)
(* trap_exit_restore (main.rs), the trap frame (task/trapframe.rs),        *)
(* trap_handler (trap.rs) and the switch at the end of schedule()          *)
(* (task/scheduler.rs).                                                    *)
(*                                                                         *)
(* A process's registers live in the hart, in the frame on its kernel      *)
(* stack or in the copy in its table entry, depending on how far a trap    *)
(* has come.  ProcessTable's steps are the handlers.  Of the 31 registers  *)
(* the four the assembly treats differently are kept; t1 stands for all    *)
(* that are just stored and loaded.                                        *)
(***************************************************************************)
EXTENDS Integers, FiniteSetsExt

CONSTANTS
  MAX_PROCESSES, PidBound, ExitCode,
  PcModulus,    \* bound: user program counters, in instructions
  UserState,    \* registers and pc that a program can compute
  CallResult    \* what system calls other than fork and wait return

VARIABLES
  state, pid, parent_pid, code, atWait, current, nextPid, power,
  phase,        \* how far the hart is in a trap
  regs, pc,     \* the hart's registers; its pc while in user mode
  sepc, scause, sstatus, sscratch,
  stackFrame,   \* stackFrame[i]: the 288 bytes below slot i's kernel_sp
  record        \* record[i]: Process.trap_frame

procVars == <<state, pid, parent_pid, code, atWait, current, nextPid, power>>
csrs == <<sepc, scause, sstatus, sscratch>>
vars == <<procVars, phase, regs, pc, csrs, stackFrame, record>>

PT == INSTANCE ProcessTable

Slot == PT!Slot
Pc == 0 .. PcModulus - 1
Reg == {"sp", "t0", "t1", "a0"}

(* What a register can hold.  An address in a kernel stack is its top or   *)
(* the frame below it.                                                     *)
Ret(n) == <<"ret", n>>
KernelSp(i) == <<"kernel_sp", i>>
FrameBase(i) == <<"frame", i>>
Scratch == <<"scratch", 0>>        \* a value the kernel left behind
Null == <<"null", 0>>
UserSp == <<"user", 0>>            \* 0x3F001000

Cause == {"ecall", "timer", "page_fault", "other"}
StatusBits == [sie : BOOLEAN, spie : BOOLEAN, spp : BOOLEAN]
EAGAIN == -11
ECHILD == -10
Result == {Ret(n) : n \in CallResult \cup 0 .. PidBound \cup {EAGAIN, ECHILD}}
UserValue == {UserSp} \cup Result
               \cup UNION {{s.regs[r] : r \in Reg} : s \in UserState}
Frame == [regs : [Reg -> UserValue], sepc : Pc, scause : Cause,
          sstatus : StatusBits]

ASSUME ContextAssumption ==
  /\ PcModulus \in Nat \ {0}
  /\ CallResult \subseteq Int
  /\ \A s \in UserState :
       /\ s = [regs |-> s.regs, pc |-> s.pc]
       /\ s.pc \in Pc /\ s.regs = [r \in Reg |-> s.regs[r]]

ASSUME TableAssumption ==
  /\ MAX_PROCESSES \in Nat \ {0} /\ PidBound \in Nat \ {0}
  /\ ExitCode \subseteq Nat /\ 1 \in ExitCode

(* Mutant: new_user sets SIE itself.                                       *)
NewUserWithSie ==
  [regs |-> [r \in Reg |-> IF r = "sp" THEN UserSp ELSE Ret(0)],
   sepc |-> 0, scause |-> "ecall",
   sstatus |-> [sie |-> TRUE, spie |-> TRUE, spp |-> FALSE]]

NewUser ==   \* TrapFrame::new_user
  [regs |-> [r \in Reg |-> IF r = "sp" THEN UserSp ELSE Ret(0)],
   sepc |-> 0, scause |-> "ecall",
   sstatus |-> [sie |-> FALSE, spie |-> TRUE, spp |-> FALSE]]

TypeOK ==
  /\ PT!TypeOK
  /\ phase \in {"user", "entry", "handler", "epilogue", "restore", "sret"}
  /\ regs \in [Reg -> UserValue \cup {Scratch} \cup
                      {FrameBase(i) : i \in Slot}]
  /\ pc \in Pc /\ sepc \in Pc
  /\ scause \in Cause
  /\ sstatus \in StatusBits
  /\ sscratch \in {Null} \cup {KernelSp(i) : i \in Slot}
  /\ stackFrame \in [Slot -> Frame]
  /\ record \in [Slot -> Frame]

(* rust_main's last lines: the hart is about to restore init's frame.      *)
Init ==
  /\ PT!Init
  /\ phase = "restore"
  /\ regs = [r \in Reg |-> IF r = "sp" THEN FrameBase(0) ELSE Scratch]
  /\ pc = 0 /\ sepc = 0
  /\ scause = "ecall"
  /\ sstatus = [sie |-> FALSE, spie |-> FALSE, spp |-> FALSE]
  /\ sscratch = Null
  /\ stackFrame = [i \in Slot |-> NewUser]
  /\ record = [i \in Slot |-> NewUser]

-----------------------------------------------------------------------------
(* User mode.  A process resumed inside a blocked wait is on its ecall:    *)
(* only the timer can come before it.                                      *)

Compute(s) ==
  /\ phase = "user" /\ PT!InUser
  /\ regs' = s.regs /\ pc' = s.pc
  /\ UNCHANGED <<procVars, phase, csrs, stackFrame, record>>

(* What the hardware does on a trap.                                       *)
HardwareTrap(cause, from, fromKernel) ==
  /\ phase' = "entry"
  /\ sepc' = from
  /\ scause' = cause
  /\ sstatus' = [sie |-> FALSE, spie |-> sstatus.sie, spp |-> fromKernel]

UserTrap(cause) ==
  /\ phase = "user" /\ power = "on"
  /\ cause \in {"ecall", "timer"} \/ PT!InUser
  /\ HardwareTrap(cause, pc, FALSE)
  /\ UNCHANGED <<procVars, regs, pc, sscratch, stackFrame, record>>

-----------------------------------------------------------------------------
(* trap_entry.                                                             *)

(* Mutant: t1 is used to fetch the user's t0 before it has been saved.     *)
SaveFrameT1Late ==
  [regs |-> [regs EXCEPT !["t1"] = regs["t0"]],
   sepc |-> sepc, scause |-> scause, sstatus |-> sstatus]

SaveFrame ==
  [regs |-> regs, sepc |-> sepc, scause |-> scause, sstatus |-> sstatus]

OnStack(sp) == CHOOSE i \in Slot : sp \in {KernelSp(i), FrameBase(i)}

(* Mutant: sscratch keeps the kernel stack while the kernel runs.          *)
TrapEntryKeepsSscratch ==
  /\ phase = "entry" /\ power = "on"
  /\ sscratch # Null
  /\ stackFrame' = [stackFrame EXCEPT ![OnStack(sscratch)] = SaveFrame]
  /\ regs' = [r \in Reg |-> IF r = "sp" THEN FrameBase(OnStack(sscratch))
                            ELSE Scratch]
  /\ phase' = "handler"
  /\ UNCHANGED <<procVars, pc, csrs, record>>

TrapEntry ==
  /\ phase = "entry" /\ power = "on"
  /\ sscratch # Null
  /\ stackFrame' = [stackFrame EXCEPT ![OnStack(sscratch)] = SaveFrame]
  /\ regs' = [r \in Reg |-> IF r = "sp" THEN FrameBase(OnStack(sscratch))
                            ELSE Scratch]
  /\ sscratch' = Null
  /\ phase' = "handler"
  /\ UNCHANGED <<procVars, pc, sepc, scause, sstatus, record>>

(* kernel_trap_handler: after a trap taken in the kernel no process runs   *)
(* again.                                                                  *)
KernelTrapEntry ==
  /\ phase = "entry"
  /\ sscratch = Null
  /\ PT!WaitFault \/ PT!FatalTrap
  /\ UNCHANGED <<phase, regs, pc, csrs, stackFrame, record>>

-----------------------------------------------------------------------------
(* trap_handler.  It copies the frame on the stack of CURRENT into the     *)
(* table before anything else.                                             *)

Handling(cause) ==
  /\ phase = "handler" /\ power = "on"
  /\ stackFrame[OnStack(regs["sp"])].scause = cause

Saved == [record EXCEPT ![current] = stackFrame[current]]

(* The handler returns n to the assembly.                                  *)
Returns(n) ==
  /\ phase' = "epilogue"
  /\ regs' = [regs EXCEPT !["a0"] = Ret(n)]
  /\ UNCHANGED <<pc, csrs, stackFrame>>

(* Calls that leave the process table alone, exec excepted.                *)
PlainCall(n) ==
  /\ Handling("ecall") /\ PT!InUser
  /\ record' = Saved
  /\ Returns(n)
  /\ UNCHANGED procVars

(* The exec stub sets sepc and sp in the table's copy only.                *)
Exec ==
  /\ Handling("ecall") /\ PT!InUser
  /\ record' = [Saved EXCEPT ![current].sepc = NewUser.sepc,
                             ![current].regs["sp"] = UserSp]
  /\ Returns(0)
  /\ UNCHANGED procVars

NextPc(p) == (p + 1) % PcModulus

ChildFrame(f) ==
  [f EXCEPT !.regs["a0"] = Ret(0), !.sepc = NextPc(@), !.scause = "ecall"]

Fork ==
  /\ Handling("ecall")
  /\ PT!Fork
  /\ record' = [Saved EXCEPT ![Min(PT!EmptySlots)] = ChildFrame(Saved[current])]
  /\ Returns(nextPid)

ForkNoSlot ==
  /\ Handling("ecall")
  /\ PT!ForkNoSlot
  /\ record' = Saved
  /\ Returns(EAGAIN)

WaitReap ==
  /\ Handling("ecall")
  /\ PT!WaitReap
  /\ record' = Saved
  /\ Returns(pid[Min(PT!ZombieChildren)])

WaitNoChild ==
  /\ Handling("ecall")
  /\ PT!WaitNoChild
  /\ record' = Saved
  /\ Returns(ECHILD)

(* The timer, and a page fault that handle_cow_fault repairs.              *)
Resume ==
  /\ Handling("timer") \/ Handling("page_fault")
  /\ record' = Saved
  /\ Returns(0)
  /\ UNCHANGED procVars

(* Mutant: schedule() goes on with the stack of the process it leaves.     *)
SwitchKeepsStack ==
  /\ record' = Saved
  /\ IF power' = "on"
     THEN /\ stackFrame' = [stackFrame EXCEPT ![current'] = record'[current']]
          /\ phase' = "restore"
          /\ UNCHANGED regs
     ELSE UNCHANGED <<stackFrame, regs, phase>>
  /\ UNCHANGED <<pc, csrs>>

(* schedule(), once it is known who runs next.                             *)
Switch ==
  /\ record' = Saved
  /\ IF power' = "on"
     THEN /\ stackFrame' = [stackFrame EXCEPT ![current'] = record'[current']]
          /\ regs' = [regs EXCEPT !["sp"] = FrameBase(current')]
          /\ phase' = "restore"
     ELSE UNCHANGED <<stackFrame, regs, phase>>
  /\ UNCHANGED <<pc, csrs>>

Exit(c) == Handling("ecall") /\ PT!Exit(c) /\ Switch
WaitBlock == Handling("ecall") /\ PT!WaitBlock /\ Switch
Segfault == Handling("page_fault") /\ PT!Segfault /\ Switch

(* The handler itself traps: in wait's store, in the copy of another call, *)
(* or in a message of any handler when the process has no console.  A      *)
(* restarted wait has a zombie to collect.                                 *)
HandlerTraps ==
  /\ \E cause \in Cause : Handling(cause)
  /\ PT!InUser \/ PT!ZombieChildren # {}
  /\ record' = Saved
  /\ \E p \in Pc : HardwareTrap("page_fault", p, TRUE)
  /\ UNCHANGED <<procVars, regs, pc, sscratch, stackFrame>>

(* An exception the handler does not know; or it panics, for want of a     *)
(* frame in fork or in handle_cow_fault, which a store of the program, a   *)
(* call that writes to its memory and wait come to.                        *)
Stops ==
  /\ \/ Handling("other") /\ PT!FatalTrap
     \/ Handling("page_fault") /\ PT!FatalTrap
     \/ Handling("ecall") /\ (PT!FatalTrap \/ PT!WaitFault \/ PT!ForkPanic)
  /\ record' = Saved
  /\ UNCHANGED <<phase, regs, pc, csrs, stackFrame>>

-----------------------------------------------------------------------------
(* Back in the assembly.                                                   *)

AfterHandler(f) ==
  IF f.scause = "ecall"
  THEN [f EXCEPT !.regs["a0"] = regs["a0"], !.sepc = NextPc(@)]
  ELSE f

Epilogue ==
  /\ phase = "epilogue"
  /\ stackFrame' = [stackFrame EXCEPT ![OnStack(regs["sp"])] = AfterHandler(@)]
  /\ phase' = "restore"
  /\ UNCHANGED <<procVars, regs, pc, csrs, record>>

Restore ==   \* trap_exit_restore up to its sret
  LET f == stackFrame[OnStack(regs["sp"])]
  IN  /\ phase = "restore"
      /\ sepc' = f.sepc
      /\ sstatus' = f.sstatus
      /\ sscratch' = KernelSp(OnStack(regs["sp"]))
      /\ regs' = f.regs
      /\ phase' = "sret"
      /\ UNCHANGED <<procVars, pc, scause, stackFrame, record>>

Sret ==
  /\ phase = "sret"
  /\ pc' = sepc
  /\ sstatus' = [sie |-> sstatus.spie, spie |-> TRUE, spp |-> FALSE]
  /\ phase' = "user"
  /\ UNCHANGED <<procVars, regs, sepc, scause, sscratch, stackFrame, record>>

ShutDown == PT!ShutDown /\ UNCHANGED vars

Next ==
  \/ \E s \in UserState : Compute(s)
  \/ \E cause \in Cause : UserTrap(cause)
  \/ TrapEntry \/ KernelTrapEntry
  \/ \E n \in CallResult : PlainCall(n)
  \/ Exec \/ Fork \/ ForkNoSlot \/ WaitReap \/ WaitNoChild \/ Resume
  \/ \E c \in ExitCode : Exit(c)
  \/ WaitBlock \/ Segfault \/ HandlerTraps \/ Stops
  \/ Epilogue \/ Restore \/ Sret \/ ShutDown

Spec == Init /\ [][Next]_vars

-----------------------------------------------------------------------------
(* The kernel is never interrupted: SIE is off from the moment of the trap *)
(* until sret, the window in which trap_exit_restore has already loaded    *)
(* the user's sstatus and sscratch included, and sret goes to user mode    *)
(* with interrupts on again.                                               *)
KernelNotInterrupted ==
  /\ phase # "user" => ~sstatus.sie
  /\ phase = "sret" => sstatus.spie /\ ~sstatus.spp
  /\ phase = "user" => sstatus.sie

(* trap_entry can tell a trap in user mode from one in the kernel by       *)
(* sscratch: it is zero exactly while the kernel runs, and in user mode    *)
(* holds the top of the kernel stack of the process CURRENT names.         *)
TrapFindsItsStack ==
  power = "on" =>
    /\ phase \in {"user", "sret"} => sscratch = KernelSp(current)
    /\ phase \in {"handler", "epilogue", "restore"} => sscratch = Null
    /\ phase = "entry" =>
         sscratch = IF sstatus.spp THEN Null ELSE KernelSp(current)

(* The kernel runs on the stack of CURRENT, a process that has neither     *)
(* exited nor been collected: exit does not go on using a stack that the   *)
(* parent's wait can free.                                                 *)
OnLiveStack ==
  power = "on" /\ phase \in {"handler", "epilogue", "restore"} =>
    regs["sp"] = FrameBase(current) /\ PT!Live(current)

(* Where the registers of slot i are.                                      *)
FrameContext(f) == [regs |-> f.regs, pc |-> f.sepc]

Ctx(i) ==
  IF i # current THEN FrameContext(record[i])
  ELSE IF phase = "user" THEN [regs |-> regs, pc |-> pc]
  ELSE IF phase = "sret" \/ (phase = "entry" /\ ~sstatus.spp)
  THEN [regs |-> regs, pc |-> sepc]
  ELSE FrameContext(stackFrame[i])

Doing(i) ==
  IF i # current \/ stackFrame[i].scause # "ecall" THEN "user"
  ELSE IF phase = "handler" \/ (phase = "entry" /\ sstatus.spp) THEN "call"
  ELSE IF phase = "epilogue" THEN "done" ELSE "user"

AfterCall(c, r) == [regs |-> [c.regs EXCEPT !["a0"] = r], pc |-> NextPc(c.pc)]

(* Every process has registers of its own, whatever traps, switches and    *)
(* other processes do: the entry and exit code, the two copies of the      *)
(* frame and schedule() together implement UserContexts.                   *)
Contexts == INSTANCE UserContexts
  WITH Proc <- Slot, Entry <- FrameContext(NewUser), Zero <- Ret(0),
       ctx <- [i \in Slot |-> Ctx(i)], doing <- [i \in Slot |-> Doing(i)],
       owed <- regs["a0"], hart <- current, again <- atWait
ContextsSpec == Contexts!Spec
=============================================================================
