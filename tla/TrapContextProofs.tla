------------------------- MODULE TrapContextProofs --------------------------
(***************************************************************************)
(* Proofs about TrapContext, for any number of processes, any programs and *)
(* any results of calls.  First the steps as they concern registers,       *)
(* frames and stacks: of the process table they use only that it is sound  *)
(* before and after the step.  That is then taken from ProcessTableProofs: *)
(* every step here is a step of the table or leaves it alone.              *)
(***************************************************************************)
EXTENDS TrapContext, TLAPS

(* The inductive part of the invariant.                                    *)

(* The status a trap in user mode leaves, and the only one ever restored.  *)
UserStatus == [sie |-> FALSE, spie |-> TRUE, spp |-> FALSE]

FramesReturnToUser ==
  \A i \in Slot : /\ stackFrame[i].sstatus = UserStatus
                  /\ record[i].sstatus = UserStatus

(* The hart's registers are the program's in user mode, before trap_entry  *)
(* has saved them and after trap_exit_restore has loaded them.             *)
UserRegsLoaded ==
  phase \in {"user", "sret"} \/ (phase = "entry" /\ ~sstatus.spp)
    => regs \in [Reg -> UserValue]

EntryStatus == phase = "entry" /\ ~sstatus.spp => sstatus = UserStatus

StopsInKernel == power # "on" => phase \in {"handler", "entry"}

(* The result the assembly puts in the frame.                              *)
EpilogueHasResult == phase = "epilogue" => regs["a0"] \in UserValue

PidsBounded == \A i \in Slot : pid[i] <= PidBound

(* What is used of the table: it keeps its types, and the process CURRENT  *)
(* names is alive while the machine is on.                                 *)
TableSound == PT!TypeOK /\ (power = "on" => PT!Live(current))

ContextInv ==
  /\ TableSound
  /\ TypeOK
  /\ KernelNotInterrupted
  /\ TrapFindsItsStack
  /\ OnLiveStack
  /\ FramesReturnToUser
  /\ UserRegsLoaded
  /\ EntryStatus
  /\ StopsInKernel
  /\ EpilogueHasResult
  /\ PidsBounded

-----------------------------------------------------------------------------
(* The stack an address lies in.                                           *)
LEMMA StackOf ==
  ASSUME NEW i \in Slot
  PROVE  /\ OnStack(KernelSp(i)) = i
         /\ OnStack(FrameBase(i)) = i
         /\ KernelSp(i) # Null
BY DEF OnStack, KernelSp, FrameBase, Null

(* Results are values that programs can see; so are a new frame's.         *)
LEMMA ResultFacts ==
  /\ \A n \in CallResult \cup 0 .. PidBound \cup {EAGAIN, ECHILD} :
       Ret(n) \in UserValue
  /\ NewUser \in Frame
  /\ NewUser.sstatus = UserStatus
<1>1. \A n \in CallResult \cup 0 .. PidBound \cup {EAGAIN, ECHILD} :
        Ret(n) \in UserValue
  BY DEF Result, UserValue
<1>2. 0 \in 0 .. PidBound /\ 0 \in Pc
  BY TableAssumption, ContextAssumption DEF Pc
<1>3. Ret(0) \in UserValue /\ UserSp \in UserValue
  BY <1>1, <1>2 DEF UserValue
<1>4. QED
  BY <1>1, <1>2, <1>3 DEF NewUser, Frame, Cause, StatusBits, UserStatus

(* An ecall is followed by another instruction.                            *)
LEMMA NextPcInRange ==
  ASSUME NEW p \in Pc
  PROVE  NextPc(p) \in Pc
BY ContextAssumption DEF Pc, NextPc

(* The programs' registers are values that programs can see.               *)
LEMMA UserStateFacts ==
  ASSUME NEW s \in UserState
  PROVE  s.regs \in [Reg -> UserValue] /\ s.pc \in Pc
<1>1. \A r \in Reg : s.regs[r] \in UNION {{t.regs[q] : q \in Reg} : t \in UserState}
  OBVIOUS
<1>2. s.regs = [r \in Reg |-> s.regs[r]] /\ s.pc \in Pc
  BY ContextAssumption
<1> DEFINE f == s.regs
<1>3. \A r \in Reg : f[r] \in UserValue
  BY <1>1 DEF UserValue
<1>4. f = [r \in Reg |-> f[r]]
  BY <1>2
<1> HIDE DEF f
<1>5. f \in [Reg -> UserValue]
  BY <1>3, <1>4
<1>6. QED
  BY <1>2, <1>5 DEF f

-----------------------------------------------------------------------------
(* The table.                                                              *)

(* A sound table has a current process.                                    *)
LEMMA TableFacts ==
  ASSUME TableSound
  PROVE  /\ PT!TypeOK /\ current \in Slot
         /\ power = "on" => PT!Live(current)
BY DEF TableSound, PT!TypeOK, PT!Slot, Slot

(* A step that leaves the process table alone.                             *)
LEMMA TableUnchanged ==
  ASSUME ContextInv, UNCHANGED procVars
  PROVE  /\ TableSound' /\ PT!TypeOK' /\ PidsBounded'
         /\ PT!Live(current)' <=> PT!Live(current)
         /\ power' = power /\ current' = current /\ current \in Slot
<1>1. PT!TypeOK' /\ current \in Slot
  <2>1. PT!TypeOK /\ current \in Slot
    BY TableFacts DEF ContextInv
  <2>2. QED
    BY <2>1 DEF procVars, PT!TypeOK
<1>2. PT!Live(current)' <=> PT!Live(current)
  BY DEF procVars, PT!Live, PT!Exists
<1>3. PidsBounded'
  BY DEF ContextInv, PidsBounded, procVars
<1>4. TableSound'
  BY <1>1, <1>2 DEF ContextInv, TableSound, procVars
<1>5. QED
  BY <1>1, <1>2, <1>3, <1>4 DEF procVars

(* A step of the table, in which no pid above the bound is handed out.     *)
LEMMA TableStep ==
  ASSUME ContextInv, TableSound',
         \A i \in Slot : pid'[i] = pid[i] \/ (pid'[i] = nextPid /\ nextPid <= PidBound)
  PROVE  /\ PT!TypeOK' /\ PidsBounded' /\ current' \in Slot
         /\ power' = "on" => PT!Live(current)'
<1>1. PT!TypeOK' /\ (power' = "on" => PT!Live(current)')
  BY DEF TableSound
<1>2. current' \in Slot
  BY <1>1 DEF PT!TypeOK, PT!Slot, Slot
<1>3. pid \in [Slot -> Nat]
  BY DEF ContextInv, TypeOK, PT!TypeOK, Slot
<1>4. PidsBounded'
  BY <1>3 DEF ContextInv, PidsBounded
<1>5. QED
  BY <1>1, <1>2, <1>4

-----------------------------------------------------------------------------
(* The steps.                                                              *)

(* What rust_main leaves behind satisfies the invariant, given that the    *)
(* table it has built is sound.                                            *)
LEMMA InitContext ==
  ASSUME Init, TableSound
  PROVE  ContextInv
<1>3. current = 0 /\ 0 \in Slot /\ power = "on"
  BY TableAssumption DEF Init, PT!Init, Slot, PT!Slot
<1>4. regs \in [Reg -> UserValue \cup {Scratch} \cup {FrameBase(i) : i \in Slot}]
  BY <1>3 DEF Init
<1>5. TypeOK
  BY <1>4, TableFacts, ResultFacts, ContextAssumption
     DEF Init, TypeOK, Pc, Cause, StatusBits
<1>6. OnLiveStack
  BY <1>3, TableFacts DEF Init, OnLiveStack, Reg
<1>7. PidsBounded
  BY TableAssumption DEF Init, PT!Init, PidsBounded, PT!InitPid, Slot, PT!Slot
<1>8. KernelNotInterrupted /\ TrapFindsItsStack /\ FramesReturnToUser
      /\ UserRegsLoaded /\ EntryStatus /\ StopsInKernel
      /\ EpilogueHasResult
  BY <1>3, ResultFacts
     DEF Init, KernelNotInterrupted, TrapFindsItsStack, FramesReturnToUser,
         UserRegsLoaded, EntryStatus, StopsInKernel,
         EpilogueHasResult
<1>9. QED
  BY <1>5, <1>6, <1>7, <1>8 DEF ContextInv

(* A program computes.                                                     *)
LEMMA ComputeStep ==
  ASSUME ContextInv, NEW s \in UserState, Compute(s)
  PROVE  ContextInv'
<1>1. /\ TableSound' /\ PT!TypeOK' /\ PidsBounded'
      /\ power' = power /\ current' = current
  BY TableUnchanged DEF Compute
<1>2. regs' \in [Reg -> UserValue] /\ pc' \in Pc
  BY UserStateFacts DEF Compute
<1>3. phase = "user" /\ phase' = "user" /\ sepc' = sepc /\ scause' = scause
      /\ sstatus' = sstatus /\ sscratch' = sscratch /\ stackFrame' = stackFrame
      /\ record' = record
  BY DEF Compute, csrs
<1>4. TypeOK'
  BY <1>1, <1>2, <1>3 DEF ContextInv, TypeOK
<1>5. KernelNotInterrupted' /\ TrapFindsItsStack' /\ OnLiveStack'
      /\ FramesReturnToUser' /\ UserRegsLoaded' /\ EntryStatus' /\ StopsInKernel'
      /\ EpilogueHasResult'
  BY <1>1, <1>2, <1>3
     DEF ContextInv, KernelNotInterrupted, TrapFindsItsStack, OnLiveStack,
         FramesReturnToUser, UserRegsLoaded, EntryStatus, StopsInKernel,
         EpilogueHasResult
<1>6. QED
  BY <1>1, <1>4, <1>5 DEF ContextInv

(* A trap in user mode records that status.                                *)
LEMMA UserTrapStep ==
  ASSUME ContextInv, NEW cause \in Cause, UserTrap(cause)
  PROVE  ContextInv'
<1>1. /\ TableSound' /\ PT!TypeOK' /\ PidsBounded'
      /\ power' = power /\ current' = current
  BY TableUnchanged DEF UserTrap
<1>2. /\ phase = "user" /\ power = "on" /\ phase' = "entry" /\ sepc' = pc
      /\ scause' = cause /\ regs' = regs /\ pc' = pc /\ sscratch' = sscratch
      /\ stackFrame' = stackFrame /\ record' = record
  BY DEF UserTrap, HardwareTrap
<1>3. sstatus' = UserStatus /\ UserStatus \in StatusBits
  BY Zenon, <1>2 DEF UserTrap, HardwareTrap, ContextInv, KernelNotInterrupted,
              UserStatus, StatusBits, TypeOK
<1>4. TypeOK'
  BY <1>1, <1>2, <1>3 DEF ContextInv, TypeOK
<1>5. KernelNotInterrupted' /\ TrapFindsItsStack' /\ OnLiveStack'
      /\ FramesReturnToUser' /\ UserRegsLoaded' /\ EntryStatus' /\ StopsInKernel'
      /\ EpilogueHasResult'
  BY <1>1, <1>2, <1>3
     DEF ContextInv, KernelNotInterrupted, TrapFindsItsStack, OnLiveStack, UserStatus,
         FramesReturnToUser, UserRegsLoaded, EntryStatus, StopsInKernel,
         EpilogueHasResult
<1>6. QED
  BY <1>1, <1>4, <1>5 DEF ContextInv

(* trap_entry saves the registers on the stack of CURRENT and goes on      *)
(* there.                                                                  *)
LEMMA TrapEntryStep ==
  ASSUME ContextInv, TrapEntry
  PROVE  ContextInv'
<1>1. /\ TableSound' /\ PT!TypeOK' /\ PidsBounded' /\ current \in Slot
      /\ power' = power /\ current' = current
      /\ PT!Live(current)' <=> PT!Live(current)
  BY TableUnchanged DEF TrapEntry
<1>2. /\ phase = "entry" /\ power = "on" /\ phase' = "handler" /\ sscratch' = Null
      /\ sepc' = sepc /\ scause' = scause /\ sstatus' = sstatus /\ pc' = pc
      /\ record' = record
  BY DEF TrapEntry
<1>3. sscratch = KernelSp(current) /\ ~sstatus.spp
  BY <1>2 DEF ContextInv, TrapFindsItsStack, TrapEntry
<1>4. OnStack(sscratch) = current
  BY <1>1, <1>3, StackOf
<1>5. /\ regs' = [r \in Reg |-> IF r = "sp" THEN FrameBase(current) ELSE Scratch]
      /\ stackFrame' = [stackFrame EXCEPT ![current] = SaveFrame]
  BY <1>4 DEF TrapEntry
<1>6. SaveFrame \in Frame /\ SaveFrame.sstatus = UserStatus
  BY <1>2, <1>3 DEF ContextInv, TypeOK, UserRegsLoaded, EntryStatus, SaveFrame, Frame
<1>7. TypeOK'
  BY <1>1, <1>2, <1>5, <1>6 DEF ContextInv, TypeOK
<1>8. FramesReturnToUser'
  BY <1>1, <1>2, <1>5, <1>6 DEF ContextInv, TypeOK, FramesReturnToUser
<1>9. OnLiveStack'
  BY <1>1, <1>2, <1>5, TableFacts DEF ContextInv, OnLiveStack, Reg
<1>10. KernelNotInterrupted' /\ TrapFindsItsStack'
       /\ UserRegsLoaded' /\ EntryStatus' /\ StopsInKernel'
      /\ EpilogueHasResult'
  BY <1>1, <1>2
     DEF ContextInv, KernelNotInterrupted, TrapFindsItsStack, UserRegsLoaded,
         EntryStatus, StopsInKernel,
         EpilogueHasResult
<1>11. QED
  BY <1>1, <1>7, <1>8, <1>9, <1>10 DEF ContextInv

(* Where trap_handler starts from.                                         *)
LEMMA HandlerFacts ==
  ASSUME ContextInv, phase = "handler", power = "on"
  PROVE  /\ current \in Slot /\ regs["sp"] = FrameBase(current)
         /\ OnStack(regs["sp"]) = current
         /\ sscratch = Null /\ sstatus.sie = FALSE
         /\ Saved \in [Slot -> Frame]
         /\ \A i \in Slot : Saved[i].sstatus = UserStatus
<1>1. current \in Slot
  BY TableFacts DEF ContextInv
<1>2. regs["sp"] = FrameBase(current) /\ sscratch = Null /\ sstatus.sie = FALSE
  BY DEF ContextInv, OnLiveStack, TrapFindsItsStack, KernelNotInterrupted, TypeOK,
         StatusBits
<1>3. OnStack(regs["sp"]) = current
  BY <1>1, <1>2, StackOf
<1>4. Saved \in [Slot -> Frame] /\ \A i \in Slot : Saved[i].sstatus = UserStatus
  BY <1>1 DEF ContextInv, TypeOK, FramesReturnToUser, Saved
<1>5. QED
  BY <1>1, <1>2, <1>3, <1>4

(* A handler that returns to the assembly.                                 *)
LEMMA ReturnStep ==
  ASSUME ContextInv, phase = "handler", power = "on",
         TableSound', PT!TypeOK', PidsBounded', PT!Live(current)',
         power' = power, current' = current,
         NEW n, Ret(n) \in UserValue, Returns(n),
         record' \in [Slot -> Frame],
         \A i \in Slot : record'[i].sstatus = UserStatus
  PROVE  ContextInv'
<1>1. /\ phase' = "epilogue" /\ regs' = [regs EXCEPT !["a0"] = Ret(n)]
      /\ pc' = pc /\ sepc' = sepc /\ scause' = scause /\ sstatus' = sstatus
      /\ sscratch' = sscratch /\ stackFrame' = stackFrame
  BY DEF Returns, csrs
<1>2. /\ current \in Slot /\ regs["sp"] = FrameBase(current)
      /\ sscratch = Null /\ sstatus.sie = FALSE
  BY Zenon, HandlerFacts
<1>3. TypeOK'
  BY Zenon, <1>1 DEF ContextInv, TypeOK
<1>4. OnLiveStack' /\ EpilogueHasResult'
  BY <1>1, <1>2 DEF ContextInv, TypeOK, OnLiveStack, EpilogueHasResult, Reg
<1>5. KernelNotInterrupted' /\ TrapFindsItsStack' /\ FramesReturnToUser'
      /\ UserRegsLoaded' /\ EntryStatus' /\ StopsInKernel'
  BY <1>1, <1>2
     DEF ContextInv, KernelNotInterrupted, TrapFindsItsStack, FramesReturnToUser,
         UserRegsLoaded, EntryStatus, StopsInKernel
<1>6. QED
  BY <1>3, <1>4, <1>5 DEF ContextInv

(* A handler that ends in schedule().                                      *)
LEMMA SwitchStep ==
  ASSUME ContextInv, phase = "handler", power = "on", Switch,
         TableSound', PT!TypeOK', PidsBounded', current' \in Slot,
         power' = "on" => PT!Live(current)'
  PROVE  ContextInv'
<1>1. /\ current \in Slot /\ regs["sp"] = FrameBase(current)
      /\ sscratch = Null /\ sstatus.sie = FALSE
      /\ Saved \in [Slot -> Frame]
      /\ \A i \in Slot : Saved[i].sstatus = UserStatus
  BY Zenon, HandlerFacts
<1>2. /\ record' = Saved /\ pc' = pc /\ sepc' = sepc /\ scause' = scause
      /\ sstatus' = sstatus /\ sscratch' = sscratch
  BY DEF Switch, csrs
<1>3. CASE power' = "on"
  <2>1. /\ stackFrame' = [stackFrame EXCEPT ![current'] = record'[current']]
        /\ regs' = [regs EXCEPT !["sp"] = FrameBase(current')]
        /\ phase' = "restore"
    BY <1>3 DEF Switch
  <2>2. record'[current'] \in Frame /\ record'[current'].sstatus = UserStatus
    BY <1>1, <1>2
  <2>3. TypeOK'
    BY Zenon, <1>1, <1>2, <2>1, <2>2 DEF ContextInv, TypeOK
  <2>4. FramesReturnToUser'
    BY <1>1, <1>2, <2>1, <2>2 DEF ContextInv, TypeOK, FramesReturnToUser
  <2>5. OnLiveStack'
    BY <1>3, <2>1 DEF ContextInv, TypeOK, OnLiveStack, Reg
  <2>6. KernelNotInterrupted' /\ TrapFindsItsStack'
        /\ UserRegsLoaded' /\ EntryStatus' /\ StopsInKernel'
      /\ EpilogueHasResult'
    BY <1>1, <1>2, <1>3, <2>1
       DEF KernelNotInterrupted, TrapFindsItsStack, UserRegsLoaded, EntryStatus,
           StopsInKernel, EpilogueHasResult
  <2>7. QED
    BY <2>3, <2>4, <2>5, <2>6 DEF ContextInv
<1>4. CASE power' # "on"
  <2>1. stackFrame' = stackFrame /\ regs' = regs /\ phase' = phase
    BY <1>4 DEF Switch
  <2>2. TypeOK'
    BY <1>1, <1>2, <2>1 DEF ContextInv, TypeOK
  <2>3. KernelNotInterrupted' /\ TrapFindsItsStack' /\ OnLiveStack'
        /\ FramesReturnToUser' /\ UserRegsLoaded' /\ EntryStatus' /\ StopsInKernel'
      /\ EpilogueHasResult'
    BY <1>1, <1>2, <1>4, <2>1
       DEF ContextInv, KernelNotInterrupted, TrapFindsItsStack, OnLiveStack,
           FramesReturnToUser, UserRegsLoaded, EntryStatus, StopsInKernel,
         EpilogueHasResult
  <2>4. QED
    BY <2>2, <2>3 DEF ContextInv
<1>5. QED
  BY <1>3, <1>4

-----------------------------------------------------------------------------
(* The handlers one by one.                                                *)

(* Calls that leave the table alone, the timer and repaired page faults.   *)
LEMMA PlainStep ==
  ASSUME ContextInv, \/ \E n \in CallResult : PlainCall(n)
               \/ Exec \/ Resume
  PROVE  ContextInv'
<1>1. phase = "handler" /\ power = "on" /\ UNCHANGED procVars
  BY DEF PlainCall, Exec, Resume, Handling
<1>2. /\ TableSound' /\ PT!TypeOK' /\ PidsBounded' /\ PT!Live(current)'
      /\ power' = power /\ current' = current
  BY <1>1, TableUnchanged, TableFacts DEF ContextInv
<1>3. /\ current \in Slot /\ Saved \in [Slot -> Frame]
      /\ \A i \in Slot : Saved[i].sstatus = UserStatus
  BY <1>1, HandlerFacts
<1>4. ASSUME NEW n \in CallResult, PlainCall(n) PROVE ContextInv'
  <2>1. Ret(n) \in UserValue
    BY ResultFacts
  <2>2. Returns(n) /\ record' = Saved
    BY <1>4 DEF PlainCall
  <2>3. QED
    BY <1>1, <1>2, <1>3, <2>1, <2>2, ReturnStep
<1>5. Ret(0) \in UserValue
  BY ResultFacts, TableAssumption
<1>6. CASE Resume
  BY <1>1, <1>2, <1>3, <1>5, <1>6, ReturnStep DEF Resume
<1>7. CASE Exec
  <2> DEFINE f == Saved[current]
             g == [f EXCEPT !.sepc = NewUser.sepc, !.regs["sp"] = UserSp]
  <2>1. f \in Frame /\ f.sstatus = UserStatus
    BY <1>3
  <2>2. UserSp \in UserValue /\ NewUser.sepc \in Pc
    BY ResultFacts DEF UserValue, Frame
  <2>3. g \in Frame /\ g.sstatus = UserStatus
    BY Zenon, <2>1, <2>2 DEF Frame
  <2>4. record' = [Saved EXCEPT ![current] = g]
    BY Zenon, <1>3, <1>7 DEF Exec
  <2> HIDE DEF f, g
  <2>5. record' \in [Slot -> Frame] /\ \A i \in Slot : record'[i].sstatus = UserStatus
    BY <1>3, <2>3, <2>4
  <2>6. QED
    BY <1>1, <1>2, <1>5, <1>7, <2>5, ReturnStep DEF Exec
<1>8. QED
  BY <1>4, <1>6, <1>7

(* fork, with the frame it gives the child.                                *)
LEMMA ForkStep ==
  ASSUME ContextInv, TableSound', Fork
  PROVE  ContextInv'
<1>1. /\ phase = "handler" /\ power = "on" /\ power' = power /\ current' = current
      /\ nextPid <= PidBound /\ PT!Fork
  BY DEF Fork, Handling, PT!Fork
<1>2. /\ current \in Slot /\ Saved \in [Slot -> Frame]
      /\ \A i \in Slot : Saved[i].sstatus = UserStatus
  BY <1>1, HandlerFacts
<1>3. pid \in [Slot -> Nat] /\ nextPid \in Nat
  BY DEF ContextInv, TypeOK, PT!TypeOK, Slot
<1>4. \A i \in Slot : pid'[i] = pid[i] \/ (pid'[i] = nextPid /\ nextPid <= PidBound)
  BY <1>1, <1>3 DEF PT!Fork, PT!AddChild
<1>5. /\ TableSound' /\ PT!TypeOK' /\ PidsBounded' /\ PT!Live(current)'
  BY <1>1, <1>4, TableStep
<1>6. Ret(nextPid) \in UserValue
  BY <1>1, <1>3, ResultFacts, TableAssumption
<1> DEFINE f == Saved[current]
           g == ChildFrame(f)
<1>7. g \in Frame /\ g.sstatus = UserStatus
  <2>1. f \in Frame /\ f.sstatus = UserStatus
    BY <1>2
  <2> HIDE DEF f
  <2>2. Ret(0) \in UserValue
    BY ResultFacts, TableAssumption
  <2>3. NextPc(f.sepc) \in Pc
    BY <2>1, NextPcInRange DEF Frame
  <2>4. QED
    BY <2>1, <2>2, <2>3, ZenonT(60) DEF ChildFrame, Frame, Cause
<1>8. record' = [Saved EXCEPT ![Min(PT!EmptySlots)] = g]
  BY DEF Fork
<1> HIDE DEF g
<1>9. record' \in [Slot -> Frame] /\ \A i \in Slot : record'[i].sstatus = UserStatus
  BY Zenon, <1>2, <1>7, <1>8
<1>10. QED
  BY <1>1, <1>5, <1>6, <1>9, ReturnStep DEF Fork

(* fork without a free slot, and a wait that does not sleep.               *)
LEMMA AnswerStep ==
  ASSUME ContextInv, TableSound', ForkNoSlot \/ WaitReap \/ WaitNoChild,
         WaitReap => Min(PT!ZombieChildren) \in Slot
  PROVE  ContextInv'
<1>1. /\ phase = "handler" /\ power = "on" /\ power' = power /\ current' = current
      /\ pid' = pid /\ record' = Saved
      /\ PT!ForkNoSlot \/ PT!WaitReap \/ PT!WaitNoChild
  BY DEF ForkNoSlot, WaitReap, WaitNoChild, Handling, PT!ForkNoSlot, PT!vars,
         PT!WaitReap, PT!WaitNoChild
<1>2. /\ TableSound' /\ PT!TypeOK' /\ PidsBounded' /\ PT!Live(current)'
  BY <1>1, TableStep
<1>3. /\ Saved \in [Slot -> Frame] /\ \A i \in Slot : Saved[i].sstatus = UserStatus
  BY <1>1, HandlerFacts
<1>4. CASE ForkNoSlot \/ WaitNoChild
  <2>1. Ret(EAGAIN) \in UserValue /\ Ret(ECHILD) \in UserValue
    BY ResultFacts
  <2>2. QED
    BY <1>1, <1>2, <1>3, <1>4, <2>1, ReturnStep DEF ForkNoSlot, WaitNoChild
<1>5. CASE WaitReap
  <2> DEFINE z == Min(PT!ZombieChildren)
  <2>1. z \in Slot
    BY <1>5
  <2>2. pid[z] \in 0 .. PidBound
    BY <2>1, TableAssumption, SMTT(60)
       DEF ContextInv, TypeOK, PT!TypeOK, Slot, PidsBounded
  <2>3. Ret(pid[z]) \in UserValue
    BY <2>2, ResultFacts
  <2>4. Returns(pid[z])
    BY <1>5 DEF WaitReap
  <2> HIDE DEF z
  <2>5. QED
    BY <1>1, <1>2, <1>3, <2>3, <2>4, ReturnStep
<1>6. QED
  BY <1>4, <1>5

(* exit, a segmentation fault and a wait that sleeps.                      *)
LEMMA RescheduleStep ==
  ASSUME ContextInv, TableSound', (\E c \in ExitCode : Exit(c)) \/ WaitBlock \/ Segfault
  PROVE  ContextInv'
<1>1. /\ phase = "handler" /\ power = "on" /\ pid' = pid /\ Switch
      /\ (\E c \in ExitCode : PT!Exit(c)) \/ PT!WaitBlock \/ PT!Segfault
  BY Zenon DEF Exit, WaitBlock, Segfault, Handling, PT!Exit, PT!WaitBlock,
         PT!Segfault, PT!Terminate
<1>2. /\ TableSound' /\ PT!TypeOK' /\ PidsBounded' /\ current' \in Slot
      /\ power' = "on" => PT!Live(current)'
  BY <1>1, TableStep
<1>3. QED
  BY <1>1, <1>2, SwitchStep

(* A trap of the handler's own: sscratch is zero by then.                  *)
LEMMA HandlerTrapsStep ==
  ASSUME ContextInv, HandlerTraps
  PROVE  ContextInv'
<1>1. /\ phase = "handler" /\ power = "on" /\ UNCHANGED procVars
      /\ record' = Saved /\ regs' = regs /\ pc' = pc /\ sscratch' = sscratch
      /\ stackFrame' = stackFrame
  BY DEF HandlerTraps, Handling
<1>2. /\ TableSound' /\ PT!TypeOK' /\ PidsBounded'
      /\ power' = power /\ current' = current
  BY <1>1, TableUnchanged
<1>3. /\ sscratch = Null /\ sstatus.sie = FALSE /\ Saved \in [Slot -> Frame]
      /\ \A i \in Slot : Saved[i].sstatus = UserStatus
  BY Zenon, <1>1, HandlerFacts
<1>4. /\ phase' = "entry" /\ sepc' \in Pc /\ scause' = "page_fault"
      /\ sstatus' = [sie |-> FALSE, spie |-> FALSE, spp |-> TRUE]
  BY Zenon, <1>3 DEF HandlerTraps, HardwareTrap
<1>5. TypeOK'
  BY <1>1, <1>2, <1>3, <1>4 DEF ContextInv, TypeOK, Cause, StatusBits
<1>6. KernelNotInterrupted' /\ TrapFindsItsStack' /\ OnLiveStack'
      /\ FramesReturnToUser' /\ UserRegsLoaded' /\ EntryStatus' /\ StopsInKernel'
      /\ EpilogueHasResult'
  BY <1>1, <1>2, <1>3, <1>4
     DEF ContextInv, KernelNotInterrupted, TrapFindsItsStack, OnLiveStack,
         FramesReturnToUser, UserRegsLoaded, EntryStatus, StopsInKernel,
         EpilogueHasResult
<1>7. QED
  BY <1>2, <1>5, <1>6 DEF ContextInv

(* The ways the machine stops.                                             *)
LEMMA StopStep ==
  ASSUME ContextInv, TableSound', KernelTrapEntry \/ Stops
  PROVE  ContextInv'
<1>1. /\ phase \in {"entry", "handler"} /\ power' # "on" /\ pid' = pid
      /\ PT!WaitFault \/ PT!FatalTrap \/ PT!ForkPanic
      /\ UNCHANGED <<phase, regs, pc, csrs, stackFrame>>
  BY DEF KernelTrapEntry, Stops, Handling, PT!WaitFault, PT!FatalTrap,
         PT!ForkPanic
<1>2. /\ TableSound' /\ PT!TypeOK' /\ PidsBounded'
  BY <1>1, TableStep
<1>3. /\ record' \in [Slot -> Frame]
      /\ \A i \in Slot : record'[i].sstatus = UserStatus
  <2>1. CASE KernelTrapEntry
    BY <2>1 DEF KernelTrapEntry, ContextInv, TypeOK, FramesReturnToUser
  <2>2. CASE Stops
    BY Zenon, <2>2, HandlerFacts DEF Stops, Handling
  <2>3. QED
    BY <2>1, <2>2
<1>4. TypeOK'
  BY <1>1, <1>2, <1>3 DEF ContextInv, TypeOK, csrs
<1>5. KernelNotInterrupted' /\ TrapFindsItsStack' /\ OnLiveStack'
      /\ FramesReturnToUser' /\ UserRegsLoaded' /\ EntryStatus' /\ StopsInKernel'
      /\ EpilogueHasResult'
  BY <1>1, <1>3
     DEF ContextInv, KernelNotInterrupted, TrapFindsItsStack, OnLiveStack, csrs,
         FramesReturnToUser, UserRegsLoaded, EntryStatus, StopsInKernel,
         EpilogueHasResult
<1>6. QED
  BY <1>2, <1>4, <1>5 DEF ContextInv

-----------------------------------------------------------------------------
(* The way out.                                                            *)

(* The result goes to the frame, which still returns to user mode.         *)
LEMMA EpilogueStep ==
  ASSUME ContextInv, Epilogue
  PROVE  ContextInv'
<1>1. /\ phase = "epilogue" /\ phase' = "restore" /\ regs' = regs /\ pc' = pc
      /\ sepc' = sepc /\ scause' = scause /\ sstatus' = sstatus
      /\ sscratch' = sscratch /\ record' = record /\ UNCHANGED procVars
  BY DEF Epilogue, csrs
<1>2. /\ TableSound' /\ PT!TypeOK' /\ PidsBounded' /\ power = "on"
      /\ power' = power /\ current' = current /\ current \in Slot
      /\ PT!Live(current)' <=> PT!Live(current)
  BY <1>1, TableUnchanged DEF ContextInv, StopsInKernel
<1>3. OnStack(regs["sp"]) = current
  BY <1>1, <1>2, StackOf DEF ContextInv, OnLiveStack
<1> DEFINE f == stackFrame[current]
           g == AfterHandler(f)
<1>4. f \in Frame /\ f.sstatus = UserStatus
  BY <1>2 DEF ContextInv, TypeOK, FramesReturnToUser
<1>5. g \in Frame /\ g.sstatus = UserStatus
  <2>1. regs["a0"] \in UserValue
    BY <1>1 DEF ContextInv, EpilogueHasResult
  <2>2. NextPc(f.sepc) \in Pc
    BY <1>4, NextPcInRange DEF Frame
  <2> HIDE DEF f
  <2>3. CASE f.scause = "ecall"
    <3>1. g = [f EXCEPT !.regs["a0"] = regs["a0"], !.sepc = NextPc(f.sepc)]
      BY <1>4, <2>3 DEF AfterHandler, Frame
    <3>2. QED
      BY <1>4, <2>1, <2>2, <3>1, ZenonT(60) DEF Frame
  <2>4. CASE f.scause # "ecall"
    <3>1. g = f
      BY <2>4 DEF AfterHandler
    <3>2. QED
      BY <1>4, <3>1
  <2>5. QED
    BY <2>3, <2>4
<1>6. stackFrame' = [stackFrame EXCEPT ![current] = g]
  BY <1>2, <1>3 DEF Epilogue, ContextInv, TypeOK
<1> HIDE DEF g
<1>7. TypeOK' /\ FramesReturnToUser'
  BY <1>1, <1>2, <1>5, <1>6 DEF ContextInv, TypeOK, FramesReturnToUser
<1>8. KernelNotInterrupted' /\ TrapFindsItsStack' /\ OnLiveStack'
       /\ UserRegsLoaded' /\ EntryStatus' /\ StopsInKernel' /\ EpilogueHasResult'
  BY <1>1, <1>2
     DEF ContextInv, KernelNotInterrupted, TrapFindsItsStack, OnLiveStack,
         UserRegsLoaded, EntryStatus, StopsInKernel, EpilogueHasResult
<1>9. QED
  BY <1>2, <1>7, <1>8 DEF ContextInv

(* trap_exit_restore loads a frame that returns to user mode.              *)
LEMMA RestoreStep ==
  ASSUME ContextInv, Restore
  PROVE  ContextInv'
<1>1. phase = "restore" /\ UNCHANGED procVars
  BY DEF Restore
<1>2. /\ TableSound' /\ PT!TypeOK' /\ PidsBounded' /\ power = "on"
      /\ power' = power /\ current' = current /\ current \in Slot
  BY <1>1, TableUnchanged DEF ContextInv, StopsInKernel
<1>3. OnStack(regs["sp"]) = current
  BY <1>1, <1>2, StackOf DEF ContextInv, OnLiveStack
<1> DEFINE f == stackFrame[current]
<1>4. f \in Frame /\ f.sstatus = UserStatus
  BY <1>2 DEF ContextInv, TypeOK, FramesReturnToUser
<1>5. /\ sepc' = f.sepc /\ sstatus' = f.sstatus /\ sscratch' = KernelSp(current)
      /\ regs' = f.regs /\ phase' = "sret" /\ pc' = pc /\ scause' = scause
      /\ stackFrame' = stackFrame /\ record' = record
  BY <1>3 DEF Restore
<1> HIDE DEF f
<1>6. sepc' \in Pc /\ sstatus' \in StatusBits /\ regs' \in [Reg -> UserValue]
  BY <1>4, <1>5 DEF Frame
<1>7. TypeOK'
  BY <1>1, <1>2, <1>5, <1>6 DEF ContextInv, TypeOK
<1>8. KernelNotInterrupted' /\ TrapFindsItsStack' /\ OnLiveStack'
  <2>1. phase' = "sret" /\ sstatus' = UserStatus /\ sscratch' = KernelSp(current')
    BY <1>2, <1>4, <1>5
  <2>2. KernelNotInterrupted'
    BY <2>1 DEF KernelNotInterrupted, UserStatus
  <2>3. TrapFindsItsStack' /\ OnLiveStack'
    BY <2>1 DEF TrapFindsItsStack, OnLiveStack
  <2>4. QED
    BY <2>2, <2>3
<1>9. FramesReturnToUser' /\ UserRegsLoaded' /\ EntryStatus' /\ StopsInKernel'
      /\ EpilogueHasResult'
  BY <1>2, <1>5, <1>6
     DEF ContextInv, FramesReturnToUser, UserRegsLoaded, EntryStatus, StopsInKernel,
         EpilogueHasResult
<1>10. QED
  BY <1>2, <1>7, <1>8, <1>9 DEF ContextInv

(* sret turns interrupts on and nothing else.                              *)
LEMMA SretStep ==
  ASSUME ContextInv, Sret
  PROVE  ContextInv'
<1>1. /\ phase = "sret" /\ phase' = "user" /\ pc' = sepc /\ regs' = regs
      /\ sepc' = sepc /\ scause' = scause /\ sscratch' = sscratch
      /\ stackFrame' = stackFrame /\ record' = record /\ UNCHANGED procVars
      /\ sstatus' = [sie |-> sstatus.spie, spie |-> TRUE, spp |-> FALSE]
  BY DEF Sret
<1>2. /\ TableSound' /\ PT!TypeOK' /\ PidsBounded' /\ power = "on"
      /\ power' = power /\ current' = current
  BY <1>1, TableUnchanged DEF ContextInv, StopsInKernel
<1>3. TypeOK'
  BY <1>1, <1>2 DEF ContextInv, TypeOK, StatusBits
<1>4. KernelNotInterrupted' /\ TrapFindsItsStack' /\ OnLiveStack'
      /\ FramesReturnToUser' /\ UserRegsLoaded' /\ EntryStatus' /\ StopsInKernel'
      /\ EpilogueHasResult'
  BY <1>1, <1>2
     DEF ContextInv, KernelNotInterrupted, TrapFindsItsStack, OnLiveStack,
         FramesReturnToUser, UserRegsLoaded, EntryStatus, StopsInKernel,
         EpilogueHasResult
<1>5. QED
  BY <1>2, <1>3, <1>4 DEF ContextInv

(* Nothing changes, after the machine has stopped in particular.           *)
LEMMA StutterStep ==
  ASSUME ContextInv, UNCHANGED vars
  PROVE  ContextInv'
<1>1. /\ phase' = phase /\ regs' = regs /\ pc' = pc /\ sepc' = sepc
      /\ scause' = scause /\ sstatus' = sstatus /\ sscratch' = sscratch
      /\ stackFrame' = stackFrame /\ record' = record /\ UNCHANGED procVars
  BY DEF vars, csrs
<1>2. /\ TableSound' /\ PT!TypeOK' /\ PidsBounded'
      /\ PT!Live(current)' <=> PT!Live(current)
      /\ power' = power /\ current' = current
  BY <1>1, TableUnchanged
<1>3. TypeOK'
  BY <1>1, <1>2 DEF ContextInv, TypeOK
<1>4. KernelNotInterrupted' /\ TrapFindsItsStack' /\ OnLiveStack'
      /\ FramesReturnToUser' /\ UserRegsLoaded' /\ EntryStatus' /\ StopsInKernel'
      /\ EpilogueHasResult'
  BY <1>1, <1>2
     DEF ContextInv, KernelNotInterrupted, TrapFindsItsStack, OnLiveStack,
         FramesReturnToUser, UserRegsLoaded, EntryStatus, StopsInKernel,
         EpilogueHasResult
<1>5. QED
  BY <1>2, <1>3, <1>4 DEF ContextInv

-----------------------------------------------------------------------------
(* The steps as a program sees them.                                       *)

Stays == \A k \in Slot : Ctx(k)' = Ctx(k) /\ Doing(k)' = Doing(k)

(* Only the process CURRENT names goes from one activity to another, and   *)
(* no registers change.                                                    *)
Moves(from, to) ==
  /\ Doing(current) = from /\ (\A k \in Slot : k = current => Doing(k)' = to)
  /\ \A k \in Slot : Ctx(k)' = Ctx(k)
  /\ \A k \in Slot \ {current} : Doing(k)' = Doing(k)

ContextsStep ==
  \/ Contexts!Next
  \/ UNCHANGED <<[i \in Slot |-> Ctx(i)], [i \in Slot |-> Doing(i)]>>

(* What a program sees of a trap, of a return to user mode and of a switch *)
(* to another process: nothing.                                            *)
LEMMA StaysMapped ==
  ASSUME Stays
  PROVE  ContextsStep
BY DEF Stays, ContextsStep

(* It sees its own instructions.                                           *)
LEMMA ComputeMapped ==
  ASSUME ContextInv, NEW s \in UserState, Compute(s)
  PROVE  ContextsStep
<1>1. current \in Slot /\ current' = current
  BY TableUnchanged DEF Compute
<1>2. phase = "user" /\ phase' = "user" /\ regs' = s.regs /\ pc' = s.pc
      /\ stackFrame' = stackFrame /\ record' = record
      /\ ~atWait[current] /\ ~atWait'[current]
  BY DEF Compute, PT!InUser, procVars
<1>3. Ctx(current)' = s
  BY Zenon, <1>1, <1>2, ContextAssumption DEF Ctx
<1>4. Doing(current) = "user" /\ Doing(current)' = "user"
  BY <1>2 DEF Doing
<1>5. \A k \in Slot \ {current} : Ctx(k)' = Ctx(k) /\ Doing(k)' = Doing(k)
  BY <1>1, <1>2 DEF Ctx, Doing
<1>6. Contexts!Compute(current)
  BY <1>1, <1>2, <1>3, <1>4, <1>5 DEF Contexts!Compute, Contexts!Only
<1>7. QED
  BY <1>1, <1>6 DEF ContextsStep, Contexts!Next

(* A system call starts.                                                   *)
LEMMA CallMapped ==
  ASSUME current \in Slot, Moves("user", "call")
  PROVE  ContextsStep
<1>1. Contexts!Call(current)
  BY DEF Moves, Contexts!Call, Contexts!Only
<1>2. QED
  BY <1>1 DEF ContextsStep, Contexts!Next

(* Its result is known.                                                    *)
LEMMA ServeMapped ==
  ASSUME current \in Slot, Moves("call", "done"), regs'["a0"] \in Result
  PROVE  ContextsStep
<1>1. Contexts!Serve(current)
  BY DEF Moves, Contexts!Serve, Contexts!Only
<1>2. QED
  BY <1>1 DEF ContextsStep, Contexts!Next

(* It ends without one.                                                    *)
LEMMA LeaveMapped ==
  ASSUME current \in Slot, Moves("call", "user")
  PROVE  ContextsStep
<1>1. Contexts!Leave(current)
  BY DEF Moves, Contexts!Leave, Contexts!Only
<1>2. QED
  BY <1>1 DEF ContextsStep, Contexts!Next

(* trap_entry saves the registers of the program: for an ecall that is     *)
(* where the call starts, and otherwise nothing has happened yet.          *)
LEMMA EntryMapped ==
  ASSUME ContextInv, TrapEntry
  PROVE  ContextsStep
<1>1. current \in Slot /\ current' = current
  BY TableUnchanged DEF TrapEntry
<1>2. /\ phase = "entry" /\ power = "on" /\ phase' = "handler"
      /\ record' = record
  BY DEF TrapEntry
<1>3. sscratch = KernelSp(current) /\ ~sstatus.spp
  BY <1>2 DEF ContextInv, TrapFindsItsStack, TrapEntry
<1>4. stackFrame' = [stackFrame EXCEPT ![current] = SaveFrame]
  BY Zenon, <1>1, <1>3, StackOf DEF TrapEntry
<1>5. stackFrame'[current] = SaveFrame
  BY <1>1, <1>4 DEF ContextInv, TypeOK
<1>6. Ctx(current) = [regs |-> regs, pc |-> sepc] /\ Doing(current) = "user"
  BY <1>2, <1>3 DEF Ctx, Doing
<1>7. \A k \in Slot : k = current => Ctx(k)' = Ctx(k)
  <2>1. \A k \in Slot : k = current => Ctx(k)' = FrameContext(stackFrame'[k])
    BY <1>1, <1>2 DEF Ctx
  <2>2. FrameContext(SaveFrame) = [regs |-> regs, pc |-> sepc]
    BY DEF FrameContext, SaveFrame
  <2>3. QED
    BY <1>5, <1>6, <2>1, <2>2
<1>8. \A k \in Slot \ {current} : Ctx(k)' = Ctx(k) /\ Doing(k)' = Doing(k)
  BY <1>1, <1>2 DEF Ctx, Doing
<1>9. CASE scause = "ecall"
  <2>1. \A k \in Slot : k = current => Doing(k)' = "call"
    BY SMTT(20), <1>1, <1>2, <1>5, <1>9 DEF Doing, SaveFrame
  <2>2. Moves("user", "call")
    BY <1>6, <1>7, <1>8, <2>1 DEF Moves
  <2>3. QED
    BY <1>1, <2>2, CallMapped
<1>10. CASE scause # "ecall"
  <2>1. \A k \in Slot : k = current => Doing(k)' = Doing(k)
    BY SMTT(20), <1>1, <1>2, <1>5, <1>6, <1>10 DEF Doing, SaveFrame
  <2>2. QED
    BY <1>7, <1>8, <2>1, StaysMapped DEF Stays
<1>11. QED
  BY <1>9, <1>10

(* While the handler of a call runs, the program's registers are in the    *)
(* frame on its stack; what becomes of the table's copy does not matter.   *)
LEMMA HandlerView ==
  ASSUME ContextInv, Handling("ecall")
  PROVE  /\ current \in Slot /\ phase = "handler" /\ power = "on"
         /\ stackFrame[current].scause = "ecall"
         /\ Ctx(current) = FrameContext(stackFrame[current])
         /\ Doing(current) = "call"
         /\ \A k \in Slot \ {current} :
              /\ Ctx(k) = FrameContext(record[k]) /\ Doing(k) = "user"
              /\ Saved[k] = record[k]
         /\ Saved[current] = stackFrame[current]
<1>1. phase = "handler" /\ power = "on"
  BY DEF Handling
<1>2. current \in Slot /\ OnStack(regs["sp"]) = current
  BY <1>1, HandlerFacts
<1>3. stackFrame[current].scause = "ecall"
  BY <1>2 DEF Handling
<1>4. \A k \in Slot : Saved[k] = IF k = current THEN stackFrame[k] ELSE record[k]
  BY <1>2 DEF Saved, ContextInv, TypeOK
<1>5. QED
  BY <1>1, <1>2, <1>3, <1>4 DEF Ctx, Doing

(* A handler that returns a result and leaves the frames of others alone.  *)
LEMMA AnswerMapped ==
  ASSUME ContextInv, Handling("ecall"), current' = current,
         \A k \in Slot \ {current} : record'[k] = record[k],
         NEW n \in CallResult \cup 0 .. PidBound \cup {EAGAIN, ECHILD},
         Returns(n)
  PROVE  ContextsStep
<1>1. current \in Slot /\ phase = "handler" /\ stackFrame[current].scause = "ecall"
      /\ Doing(current) = "call"
  BY HandlerView
<1>2. phase' = "epilogue" /\ stackFrame' = stackFrame
      /\ regs' = [regs EXCEPT !["a0"] = Ret(n)]
  BY DEF Returns
<1>3. regs'["a0"] \in Result
  BY <1>2 DEF ContextInv, TypeOK, Result, Reg
<1>4. \A k \in Slot : Ctx(k)' = Ctx(k)
  BY <1>1, <1>2 DEF Ctx, FrameContext
<1>5. \A k \in Slot : k = current => Doing(k)' = "done"
  BY <1>1, <1>2 DEF Doing
<1>6. \A k \in Slot \ {current} : Doing(k)' = Doing(k)
  BY DEF Doing
<1>7. QED
  BY <1>1, <1>3, <1>4, <1>5, <1>6, ServeMapped DEF Moves

(* fork: the child starts with the parent's registers, after the ecall and *)
(* with zero in a0.                                                        *)
LEMMA ForkMapped ==
  ASSUME ContextInv, Fork, nextPid # 0,
         Min(PT!EmptySlots) \in Slot \ {current}
  PROVE  ContextsStep
<1> DEFINE f == stackFrame[current]
<1>0. PICK j \in Slot : j = Min(PT!EmptySlots) /\ j # current
  OBVIOUS
<1>1. /\ Handling("ecall") /\ current' = current /\ nextPid <= PidBound
      /\ record' = [Saved EXCEPT ![j] = ChildFrame(Saved[current])]
      /\ Returns(nextPid)
  BY <1>0 DEF Fork, PT!Fork, PT!AddChild
<1>2. /\ current \in Slot /\ phase = "handler" /\ f.scause = "ecall"
      /\ Ctx(current) = FrameContext(f) /\ Doing(current) = "call"
      /\ \A k \in Slot \ {current} : Saved[k] = record[k]
      /\ Saved[current] = f
  BY <1>1, HandlerView
<1>3. Saved \in [Slot -> Frame]
  BY <1>1, HandlerFacts DEF Handling
<1>4. j \in Slot /\ j # current
  BY <1>0
<1>5. phase' = "epilogue" /\ stackFrame' = stackFrame
      /\ regs' = [regs EXCEPT !["a0"] = Ret(nextPid)]
  BY <1>1 DEF Returns
<1>6. regs'["a0"] \in Result \ {Ret(0)}
  <2>1. regs'["a0"] = Ret(nextPid)
    BY <1>5 DEF ContextInv, TypeOK, Reg
  <2>2. nextPid \in 0 .. PidBound /\ nextPid # 0
    BY <1>1, TableAssumption DEF ContextInv, TypeOK, PT!TypeOK
  <2>3. QED
    BY <2>1, <2>2 DEF Result, Ret
<1>7. Ctx(j)' = AfterCall(Ctx(current), Ret(0))
  <2>1. record'[j] = ChildFrame(f)
    BY <1>1, <1>2, <1>3, <1>4
  <2>2. f \in Frame
    BY <1>2, <1>3
  <2> HIDE DEF f
  <2>3. /\ ChildFrame(f).regs = [f.regs EXCEPT !["a0"] = Ret(0)]
        /\ ChildFrame(f).sepc = NextPc(f.sepc)
    BY <2>2 DEF ChildFrame, Frame
  <2>4. Ctx(j)' = FrameContext(ChildFrame(f))
    BY <1>1, <1>4, <2>1 DEF Ctx, FrameContext
  <2>5. Ctx(current).regs = f.regs /\ Ctx(current).pc = f.sepc
    BY <1>2 DEF FrameContext
  <2>6. QED
    BY <2>3, <2>4, <2>5 DEF FrameContext, AfterCall
<1>8. \A k \in Slot \ {j} : Ctx(k)' = Ctx(k)
  <2>1. \A k \in Slot \ {j, current} : record'[k] = record[k]
    BY <1>1, <1>2, <1>3
  <2>2. QED
    BY <1>1, <1>2, <1>5, <2>1 DEF Ctx, FrameContext
<1>9. \A k \in Slot : k = current => Doing(k)' = "done"
  BY <1>1, <1>2, <1>5 DEF Doing
<1>10. \A k \in Slot \ {current} : Doing(k)' = Doing(k)
  BY <1>1 DEF Doing
<1>11. [i \in Slot |-> Ctx(i)][current] = Ctx(current)
  BY <1>2
<1>12. Contexts!Fork(current, j)
  BY Zenon, <1>2, <1>4, <1>6, <1>7, <1>8, <1>9, <1>10, <1>11 DEF Contexts!Fork
<1>13. QED
  BY <1>2, <1>4, <1>12 DEF ContextsStep, Contexts!Next

(* schedule(): the frame of the process that loses the hart is already in  *)
(* the table, and the one that gets the hart finds its own on its stack.   *)
LEMMA SwitchView ==
  ASSUME ContextInv, phase = "handler", power = "on", Switch, current' \in Slot,
         power' # "on" => current' = current
  PROVE  /\ \A k \in Slot : Ctx(k)' = Ctx(k)
         /\ power' = "on" => \A k \in Slot : Doing(k)' = "user"
         /\ power' # "on" => \A k \in Slot : Doing(k)' = Doing(k)
<1>1. current \in Slot /\ Saved \in [Slot -> Frame]
  BY HandlerFacts
<1>2. /\ \A k \in Slot \ {current} : record'[k] = record[k]
      /\ record'[current] = stackFrame[current]
      /\ record' \in [Slot -> Frame]
  BY <1>1 DEF Switch, Saved, ContextInv, TypeOK
<1>3. \A k \in Slot : Ctx(k) = FrameContext(record'[k])
  BY <1>1, <1>2 DEF Ctx
<1>4. CASE power' = "on"
  <2>1. /\ stackFrame' = [stackFrame EXCEPT ![current'] = record'[current']]
        /\ phase' = "restore"
    BY <1>4 DEF Switch
  <2>2. stackFrame'[current'] = record'[current']
    BY <2>1 DEF ContextInv, TypeOK
  <2>3. \A k \in Slot : Ctx(k)' = FrameContext(record'[k])
    BY <2>1, <2>2 DEF Ctx, FrameContext
  <2>4. \A k \in Slot : Doing(k)' = "user"
    BY <2>1 DEF Doing
  <2>5. QED
    BY <1>3, <1>4, <2>3, <2>4
<1>5. CASE power' # "on"
  <2>1. stackFrame' = stackFrame /\ phase' = phase /\ current' = current
    BY <1>5 DEF Switch
  <2>2. \A k \in Slot : Ctx(k)' = FrameContext(record'[k])
    BY <1>2, <2>1 DEF Ctx, FrameContext
  <2>3. \A k \in Slot : Doing(k)' = Doing(k)
    BY <2>1 DEF Doing
  <2>4. QED
    BY <1>3, <1>5, <2>2, <2>3
<1>6. QED
  BY <1>4, <1>5

(* exit and a wait that sleeps end the call; a segmentation fault shows    *)
(* its process nothing at all.                                             *)
LEMMA RescheduleMapped ==
  ASSUME ContextInv, (\E c \in ExitCode : Exit(c)) \/ WaitBlock \/ Segfault,
         current' \in Slot, power' # "on" => current' = current
  PROVE  ContextsStep
<1>1. phase = "handler" /\ power = "on" /\ Switch
  BY DEF Exit, WaitBlock, Segfault, Handling
<1>2. current \in Slot /\ OnStack(regs["sp"]) = current
  BY <1>1, HandlerFacts
<1>3. /\ \A k \in Slot : Ctx(k)' = Ctx(k)
      /\ power' = "on" => \A k \in Slot : Doing(k)' = "user"
      /\ power' # "on" => \A k \in Slot : Doing(k)' = Doing(k)
  BY <1>1, SwitchView
<1>4. \A k \in Slot \ {current} : Doing(k) = "user"
  BY DEF Doing
<1>5. CASE power' # "on"
  BY <1>3, <1>5, StaysMapped DEF Stays
<1>6. CASE power' = "on" /\ Segfault
  <2>1. Doing(current) = "user"
    BY <1>2, <1>6 DEF Segfault, Handling, Doing
  <2>2. QED
    BY <1>3, <1>4, <1>6, <2>1, StaysMapped DEF Stays
<1>7. CASE power' = "on" /\ ~Segfault
  <2>1. Doing(current) = "call"
    BY <1>7, HandlerView DEF Exit, WaitBlock
  <2>2. QED
    BY <1>2, <1>3, <1>4, <1>7, <2>1, LeaveMapped DEF Moves
<1>8. QED
  BY <1>5, <1>6, <1>7

(* Traps before they have been saved, interrupts and repaired page faults, *)
(* restoring a frame, sret and the ways the machine stops show nothing.    *)
LEMMA HiddenMapped ==
  ASSUME ContextInv, current' = current,
         \/ \E cause \in Cause : UserTrap(cause)
         \/ Resume \/ HandlerTraps \/ Stops \/ KernelTrapEntry
         \/ Restore \/ Sret \/ UNCHANGED vars
  PROVE  ContextsStep
<1> SUFFICES Stays
  BY StaysMapped
<1>1. current \in Slot
  BY TableFacts DEF ContextInv
<1>2. ASSUME NEW cause \in Cause, UserTrap(cause) PROVE Stays
  BY Zenon, <1>2 DEF UserTrap, HardwareTrap, Stays, Ctx, Doing
<1>3. CASE Resume
  <2>1. phase = "handler" /\ phase' = "epilogue" /\ record' = Saved
        /\ stackFrame' = stackFrame /\ power = "on"
        /\ stackFrame[OnStack(regs["sp"])].scause # "ecall"
    BY Zenon, <1>3 DEF Resume, Handling, Returns
  <2>2. stackFrame[current].scause # "ecall"
    BY Zenon, <2>1, HandlerFacts
  <2>3. \A k \in Slot \ {current} : record'[k] = record[k]
    BY <2>1 DEF Saved, ContextInv, TypeOK
  <2>4. QED
    BY Zenon, <2>1, <2>2, <2>3 DEF Stays, Ctx, Doing, FrameContext
<1>4. CASE HandlerTraps
  <2>0. PICK p \in Pc : HardwareTrap("page_fault", p, TRUE)
    BY Zenon, <1>4 DEF HandlerTraps
  <2>1. phase = "handler" /\ phase' = "entry" /\ record' = Saved
        /\ stackFrame' = stackFrame
    BY <1>4, <2>0 DEF HandlerTraps, Handling, HardwareTrap
  <2>2. sstatus'.spp = TRUE
    BY <2>0 DEF HardwareTrap
  <2>3. \A k \in Slot \ {current} : record'[k] = record[k]
    BY <2>1 DEF Saved, ContextInv, TypeOK
  <2>4. QED
    BY Zenon, <2>1, <2>2, <2>3 DEF Stays, Ctx, Doing, FrameContext
<1>5. CASE Stops \/ KernelTrapEntry
  <2>1. \A k \in Slot \ {current} : record'[k] = record[k]
    BY <1>5 DEF Stops, KernelTrapEntry, Saved, ContextInv, TypeOK
  <2>2. UNCHANGED <<phase, regs, pc, sepc, sstatus, stackFrame>>
    BY <1>5 DEF Stops, KernelTrapEntry, csrs
  <2>3. QED
    BY <2>1, <2>2 DEF Stays, Ctx, Doing, FrameContext
<1>6. CASE Restore
  <2>1. power = "on"
    BY <1>6 DEF Restore, ContextInv, StopsInKernel
  <2>2. OnStack(regs["sp"]) = current
    BY <1>1, <1>6, <2>1, StackOf DEF Restore, ContextInv, OnLiveStack
  <2>3. /\ phase = "restore" /\ phase' = "sret" /\ stackFrame' = stackFrame
        /\ record' = record /\ regs' = stackFrame[current].regs
        /\ sepc' = stackFrame[current].sepc
    BY <1>6, <2>2 DEF Restore
  <2>4. QED
    BY Zenon, <2>3 DEF Stays, Ctx, Doing, FrameContext
<1>7. CASE Sret
  BY <1>7 DEF Sret, Stays, Ctx, Doing
<1>8. CASE UNCHANGED vars
  BY <1>8 DEF vars, csrs, Stays, Ctx, Doing, FrameContext
<1>9. QED
  BY <1>2, <1>3, <1>4, <1>5, <1>6, <1>7, <1>8

(* The assembly behind the handler: the call returns, with its result.     *)
LEMMA EpilogueMapped ==
  ASSUME ContextInv, Epilogue
  PROVE  ContextsStep
<1>1. /\ phase = "epilogue" /\ phase' = "restore" /\ regs' = regs
      /\ record' = record /\ UNCHANGED procVars
  BY DEF Epilogue
<1>2. current' = current /\ current \in Slot /\ power = "on"
  BY <1>1, TableUnchanged DEF ContextInv, StopsInKernel
<1>3. OnStack(regs["sp"]) = current
  BY <1>1, <1>2, StackOf DEF ContextInv, OnLiveStack
<1> DEFINE f == stackFrame[current]
<1>4. f \in Frame
  BY <1>2 DEF ContextInv, TypeOK
<1>5. stackFrame'[current] = AfterHandler(f)
  BY <1>2, <1>3 DEF Epilogue, ContextInv, TypeOK
<1>6. Ctx(current) = FrameContext(f)
  BY <1>1 DEF Ctx
<1>7. \A k \in Slot \ {current} : Ctx(k)' = Ctx(k) /\ Doing(k)' = Doing(k)
  BY <1>1, <1>2 DEF Ctx, Doing, FrameContext
<1>8. \A k \in Slot : k = current => /\ Ctx(k)' = FrameContext(AfterHandler(f))
                                     /\ Doing(k)' = "user"
  BY <1>1, <1>2, <1>5 DEF Ctx, Doing, FrameContext
<1>9. CASE f.scause # "ecall"
  <2>1. AfterHandler(f) = f /\ Doing(current) = "user"
    BY <1>9 DEF AfterHandler, Doing
  <2>2. QED
    BY <1>6, <1>7, <1>8, <2>1, StaysMapped DEF Stays
<1>10. CASE f.scause = "ecall"
  <2>1. Doing(current) = "done"
    BY <1>1, <1>10 DEF Doing
  <2> HIDE DEF f
  <2>2. /\ AfterHandler(f).regs = [f.regs EXCEPT !["a0"] = regs["a0"]]
        /\ AfterHandler(f).sepc = NextPc(f.sepc)
    BY <1>4, <1>10 DEF AfterHandler, Frame
  <2>3. Ctx(current).regs = f.regs /\ Ctx(current).pc = f.sepc
    BY <1>6 DEF FrameContext
  <2>4. FrameContext(AfterHandler(f)) = AfterCall(Ctx(current), regs["a0"])
    BY <2>2, <2>3 DEF FrameContext, AfterCall
  <2>5. [i \in Slot |-> Ctx(i)][current] = Ctx(current)
    BY <1>2
  <2>6. Contexts!Return(current)
    BY <1>2, <1>7, <1>8, <2>1, <2>4, <2>5 DEF Contexts!Return, Contexts!Only
  <2>7. QED
    BY <1>2, <2>6 DEF ContextsStep, Contexts!Next
<1>11. QED
  BY <1>9, <1>10

-----------------------------------------------------------------------------
P == INSTANCE ProcessTableProofs

(* The inductive invariant: the table's own, and the one about contexts.   *)
IInv == P!IInv /\ ContextInv

-----------------------------------------------------------------------------
(* The table.                                                              *)

(* The steps of the table that the handlers take are those of the module   *)
(* its proofs are about.                                                   *)
LEMMA TableSteps ==
  ASSUME \/ PT!Fork \/ PT!ForkNoSlot \/ PT!ForkPanic
         \/ \E c \in ExitCode : PT!Exit(c)
         \/ PT!Segfault \/ PT!WaitReap \/ PT!WaitFault \/ PT!WaitBlock
         \/ PT!WaitNoChild \/ PT!FatalTrap \/ PT!ShutDown
  PROVE  P!Next
<1> USE DEF PT!EmptySlots, P!EmptySlots, PT!InUser, P!InUser, PT!Slot, P!Slot,
            PT!Min, P!Min, PT!vars, P!vars
<1>1. CASE PT!Fork
  BY <1>1 DEF PT!Fork, PT!AddChild, P!Fork, P!AddChild, P!Next
<1>2. CASE PT!ForkNoSlot \/ PT!ForkPanic
  BY <1>2 DEF PT!ForkNoSlot, P!ForkNoSlot, PT!ForkPanic, P!ForkPanic, P!Next
<1>3. ASSUME NEW c \in ExitCode, PT!Terminate(c)
      PROVE  P!Terminate(c)
  BY Zenon, <1>3 DEF PT!Terminate, P!Terminate, PT!ReparentOrphansToInit,
     P!ReparentOrphansToInit, PT!Schedule, P!Schedule, PT!WakeParent,
     P!WakeParent, PT!PickNext, P!PickNext, PT!ReadyDistances,
     P!ReadyDistances, PT!Exists, P!Exists, PT!InitPid, P!InitPid
<1>4. ASSUME NEW c \in ExitCode, PT!Exit(c)
      PROVE  P!Next
  BY <1>3, <1>4 DEF PT!Exit, P!Exit, P!Next
<1>5. CASE PT!Segfault
  BY <1>3, <1>5, TableAssumption DEF PT!Segfault, P!Segfault, P!Next
<1>6. CASE PT!WaitReap
  BY <1>6 DEF PT!WaitReap, P!WaitReap, PT!ZombieChildren, P!ZombieChildren, P!Next
<1>7. CASE PT!WaitFault
  BY <1>7 DEF PT!WaitFault, P!WaitFault, PT!ZombieChildren, P!ZombieChildren,
              P!Next
<1>8. CASE PT!WaitBlock
  <2>1. P!WaitBlock
    BY Zenon, <1>8 DEF PT!WaitBlock, P!WaitBlock, PT!ZombieChildren,
       P!ZombieChildren, PT!LiveChildren, P!LiveChildren, PT!Live, P!Live, PT!Exists, P!Exists,
       PT!Schedule, P!Schedule, PT!PickNext, P!PickNext, PT!ReadyDistances,
       P!ReadyDistances
  <2>2. QED
    BY <2>1 DEF P!Next
<1>9. CASE PT!WaitNoChild
  BY <1>9 DEF PT!WaitNoChild, P!WaitNoChild, PT!ZombieChildren,
     P!ZombieChildren, PT!LiveChildren, P!LiveChildren, PT!Live, P!Live,
     PT!Exists, P!Exists, P!Next
<1>10. CASE PT!FatalTrap \/ PT!ShutDown
  BY <1>10 DEF PT!FatalTrap, P!FatalTrap, PT!ShutDown, P!ShutDown, P!Next
<1>11. QED
  BY <1>1, <1>2, <1>4, <1>5, <1>6, <1>7, <1>8, <1>9, <1>10

(* A table that satisfies its invariant is sound.                          *)
LEMMA TableIsSound == P!IInv => TableSound
<1> SUFFICES ASSUME P!IInv PROVE TableSound
  OBVIOUS
<1>1. PT!TypeOK /\ current \in Slot
  BY DEF P!IInv, P!TypeOK, PT!TypeOK, P!Slot, PT!Slot, Slot, P!ProcessState,
         PT!ProcessState
<1>2. power = "on" => state[current] = "Running"
  BY <1>1 DEF P!IInv, P!RunningIsCurrent, P!Slot, PT!Slot, Slot
<1>3. QED
  BY <1>1, <1>2 DEF TableSound, PT!Live, PT!Exists

(* It stays so: a step of the system is a step of the table or leaves the  *)
(* table alone.                                                            *)
LEMMA TableKept ==
  ASSUME IInv, [Next]_vars
  PROVE  P!IInv' /\ TableSound'
<1>1. [P!Next]_(P!vars)
  <2>1. CASE \/ (\E s \in UserState : Compute(s)) \/ (\E c \in Cause : UserTrap(c))
             \/ TrapEntry \/ (\E n \in CallResult : PlainCall(n))
             \/ Exec \/ Resume \/ HandlerTraps
             \/ Epilogue \/ Restore \/ Sret \/ ShutDown \/ UNCHANGED vars
    <3>1. UNCHANGED procVars
      BY Zenon, <2>1 DEF Compute, UserTrap, TrapEntry, PlainCall, Exec, Resume,
         HandlerTraps, Epilogue, Restore, Sret, ShutDown, vars
    <3>2. QED
      BY <3>1 DEF procVars, P!vars
  <2>2. CASE \/ Fork \/ ForkNoSlot \/ WaitReap \/ WaitNoChild
             \/ (\E c \in ExitCode : Exit(c)) \/ WaitBlock \/ Segfault
             \/ KernelTrapEntry \/ Stops
    <3>1. \/ PT!Fork \/ PT!ForkNoSlot \/ PT!ForkPanic
          \/ \E c \in ExitCode : PT!Exit(c)
          \/ PT!Segfault \/ PT!WaitReap \/ PT!WaitFault \/ PT!WaitBlock
          \/ PT!WaitNoChild \/ PT!FatalTrap
      BY <2>2 DEF Fork, ForkNoSlot, WaitReap, WaitNoChild, Exit, WaitBlock,
         Segfault, KernelTrapEntry, Stops
    <3>2. QED
      BY <3>1, TableSteps
  <2>3. QED
    BY <2>1, <2>2 DEF Next
<1>2. P!IInv'
  BY <1>1, P!Inductive, TableAssumption DEF IInv
<1>3. QED
  BY <1>2, TableIsSound, PTL

(* wait collects a process of the table.                                   *)
LEMMA ReapedInTable ==
  ASSUME WaitReap
  PROVE  Min(PT!ZombieChildren) \in Slot
<1>1. PT!ZombieChildren \in SUBSET Nat /\ PT!ZombieChildren # {}
  <2>1. PT!WaitReap
    BY DEF WaitReap
  <2>2. PT!Slot \subseteq Nat
    BY TableAssumption DEF PT!Slot
  <2>3. PT!ZombieChildren \subseteq PT!Slot
    BY DEF PT!ZombieChildren
  <2>4. PT!ZombieChildren # {}
    BY <2>1 DEF PT!WaitReap
  <2>5. QED
    BY <2>2, <2>3, <2>4
<1>2. P!Min(PT!ZombieChildren) \in PT!ZombieChildren
  BY <1>1, P!MinInSet, TableAssumption
<1>3. QED
  BY <1>2 DEF P!Min, Min, PT!ZombieChildren, PT!Slot, Slot

-----------------------------------------------------------------------------
(* What rust_main leaves behind satisfies the invariant.                   *)
LEMMA InitIInv == Init => IInv
<1> SUFFICES ASSUME Init PROVE IInv
  OBVIOUS
<1>1. P!Init
  BY DEF Init, PT!Init, P!Init, PT!Slot, P!Slot, PT!InitPid, P!InitPid
<1>2. P!IInv
  BY <1>1, P!InitIInv, TableAssumption
<1>3. QED
  BY <1>2, TableIsSound, InitContext DEF IInv

(* Every step of the entry and exit code, the handlers and the programs    *)
(* keeps the invariant.                                                    *)
THEOREM Inductive == IInv /\ [Next]_vars => IInv'
<1> SUFFICES ASSUME IInv, [Next]_vars PROVE IInv'
  OBVIOUS
<1>0. ContextInv /\ P!IInv' /\ TableSound'
  BY TableKept DEF IInv
<1> SUFFICES ContextInv'
  BY <1>0 DEF IInv
<1>1. ASSUME NEW s \in UserState, Compute(s) PROVE ContextInv'
  BY <1>0, <1>1, ComputeStep
<1>2. ASSUME NEW cause \in Cause, UserTrap(cause) PROVE ContextInv'
  BY <1>0, <1>2, UserTrapStep
<1>3. CASE TrapEntry
  BY <1>0, <1>3, TrapEntryStep
<1>4. CASE (\E n \in CallResult : PlainCall(n)) \/ Exec \/ Resume
  BY <1>0, <1>4, PlainStep
<1>5. CASE Fork
  BY <1>0, <1>5, ForkStep
<1>6. CASE ForkNoSlot \/ WaitReap \/ WaitNoChild
  BY <1>0, <1>6, AnswerStep, ReapedInTable
<1>7. CASE (\E c \in ExitCode : Exit(c)) \/ WaitBlock \/ Segfault
  BY <1>0, <1>7, RescheduleStep
<1>8. CASE HandlerTraps
  BY <1>0, <1>8, HandlerTrapsStep
<1>9. CASE KernelTrapEntry \/ Stops
  BY <1>0, <1>9, StopStep
<1>10. CASE Epilogue
  BY <1>0, <1>10, EpilogueStep
<1>11. CASE Restore
  BY <1>0, <1>11, RestoreStep
<1>12. CASE Sret
  BY <1>0, <1>12, SretStep
<1>13. CASE ShutDown \/ UNCHANGED vars
  BY <1>0, <1>13, StutterStep DEF ShutDown
<1>14. QED
  BY <1>1, <1>2, <1>3, <1>4, <1>5, <1>6, <1>7, <1>8, <1>9, <1>10, <1>11, <1>12,
     <1>13 DEF Next

(* The invariant holds whatever programs, traps and switches do.           *)
THEOREM Invariance == Spec => []IInv
BY InitIInv, Inductive, PTL DEF Spec

(* Registers, frames and control registers keep their types: no address of *)
(* a kernel stack and no value of the kernel is ever in a saved frame.     *)
THEOREM TypeCorrect == Spec => []TypeOK
BY Invariance, PTL DEF IInv, ContextInv

(* Interrupts are off from the trap to sret, and on in user mode.          *)
THEOREM NeverInterrupted == Spec => []KernelNotInterrupted
BY Invariance, PTL DEF IInv, ContextInv

(* sscratch tells trap_entry where the trap came from and which stack to   *)
(* use.                                                                    *)
THEOREM StackFound == Spec => []TrapFindsItsStack
BY Invariance, PTL DEF IInv, ContextInv

(* The kernel runs on the stack of a process that is alive.                *)
THEOREM StackAlive == Spec => []OnLiveStack
BY Invariance, PTL DEF IInv, ContextInv

-----------------------------------------------------------------------------
(* The refinement of UserContexts.                                         *)

(* fork takes a slot that is not the caller's, and a pid that is not zero. *)
LEMMA ForkedInTable ==
  ASSUME IInv, Fork
  PROVE  nextPid # 0 /\ Min(PT!EmptySlots) \in Slot \ {current}
<1>1. PT!EmptySlots \in SUBSET Nat /\ PT!EmptySlots # {}
  <2>1. PT!Fork
    BY DEF Fork
  <2>2. PT!Slot \subseteq Nat
    BY TableAssumption DEF PT!Slot
  <2>3. PT!EmptySlots \subseteq PT!Slot
    BY DEF PT!EmptySlots
  <2>4. PT!EmptySlots # {}
    BY <2>1 DEF PT!Fork, PT!AddChild
  <2>5. QED
    BY <2>2, <2>3, <2>4
<1>2. P!Min(PT!EmptySlots) \in PT!EmptySlots
  BY <1>1, P!MinInSet, TableAssumption
<1>3. Min(PT!EmptySlots) \in Slot /\ ~PT!Exists(Min(PT!EmptySlots))
  BY <1>2 DEF P!Min, Min, PT!EmptySlots, PT!Exists, PT!Slot, Slot
<1>4. PT!Exists(current)
  BY TableIsSound, TableFacts DEF IInv, Fork, Handling, PT!Live
<1>5. 0 \in P!Slot /\ pid[0] \in Nat /\ nextPid \in Nat
  BY TableAssumption DEF P!Slot, IInv, P!IInv, P!TypeOK
<1>6. pid[0] < nextPid
  BY <1>5 DEF IInv, P!IInv, P!InitStays, P!PidTree, P!Exists
<1>7. nextPid # 0
  BY <1>5, <1>6
<1>8. QED
  BY <1>3, <1>4, <1>7

(* wait hands out a pid that fork has handed out.                          *)
LEMMA ReapedPid ==
  ASSUME IInv, WaitReap
  PROVE  pid[Min(PT!ZombieChildren)] \in 0 .. PidBound
<1> DEFINE z == Min(PT!ZombieChildren)
<1>1. z \in Slot
  BY ReapedInTable
<1> HIDE DEF z
<1>2. pid[z] \in Nat /\ pid[z] <= PidBound
  BY <1>1 DEF IInv, ContextInv, TypeOK, PT!TypeOK, Slot, PidsBounded
<1>3. pid[z] \in 0 .. PidBound
  BY <1>2, TableAssumption
<1>4. QED
  BY <1>3 DEF z

(* init starts with the registers new_user gives it.                       *)
LEMMA ContextsInit == Init => Contexts!Init
<1> SUFFICES ASSUME Init PROVE Contexts!Init
  OBVIOUS
<1>1. current = 0 /\ 0 \in Slot /\ phase = "restore"
      /\ stackFrame = [i \in Slot |-> NewUser]
  <2>1. PT!Init /\ phase = "restore" /\ stackFrame = [i \in Slot |-> NewUser]
    BY DEF Init
  <2>2. current = 0
    BY <2>1 DEF PT!Init
  <2>3. 0 \in Slot
    BY TableAssumption DEF Slot, PT!Slot
  <2>4. QED
    BY <2>1, <2>2, <2>3
<1>2. Ctx(0) = FrameContext(NewUser)
  BY <1>1 DEF Ctx
<1>3. \A i \in Slot : Doing(i) = "user"
  BY <1>1 DEF Doing
<1>4. QED
  BY <1>1, <1>2, <1>3 DEF Contexts!Init

(* Every step is one that UserContexts allows, or shows programs nothing.  *)
LEMMA ContextsNext ==
  ASSUME IInv, IInv', [Next]_vars
  PROVE  ContextsStep
<1>0. ContextInv /\ current' \in Slot
  <2>1. ContextInv /\ TableSound'
    BY DEF IInv, ContextInv
  <2>2. current' \in Slot
    BY <2>1 DEF TableSound, PT!TypeOK, PT!Slot, Slot
  <2>3. QED
    BY <2>1, <2>2
<1>1. ASSUME NEW s \in UserState, Compute(s) PROVE ContextsStep
  BY <1>0, <1>1, ComputeMapped
<1>2. CASE TrapEntry
  BY <1>0, <1>2, EntryMapped
<1>3. CASE Epilogue
  BY <1>0, <1>3, EpilogueMapped
<1>4. CASE Fork
  BY <1>0, <1>4, ForkedInTable, ForkMapped
<1>5. CASE (\E c \in ExitCode : Exit(c)) \/ WaitBlock \/ Segfault
  <2>1. power' # "on" => current' = current
    BY <1>5 DEF Exit, WaitBlock, Segfault, Handling, PT!Exit, PT!WaitBlock,
                PT!Segfault, PT!Terminate, PT!Schedule
  <2>2. QED
    BY <1>0, <1>5, <2>1, RescheduleMapped
<1>6. CASE \/ \E cause \in Cause : UserTrap(cause)
           \/ Resume \/ HandlerTraps \/ Stops \/ KernelTrapEntry
           \/ Restore \/ Sret \/ ShutDown \/ UNCHANGED vars
  <2>1. current' = current
    BY Zenon, <1>6 DEF UserTrap, Resume, HandlerTraps, Stops, KernelTrapEntry,
                Restore, Sret, ShutDown, vars, procVars, PT!FatalTrap, PT!ForkPanic,
                PT!WaitFault
  <2>2. QED
    BY <1>0, <1>6, <2>1, HiddenMapped DEF ShutDown
<1>7. CASE \/ \E n \in CallResult : PlainCall(n)
           \/ Exec \/ ForkNoSlot \/ WaitReap \/ WaitNoChild
  <2>1. Handling("ecall") /\ current' = current
    BY <1>7 DEF PlainCall, Exec, ForkNoSlot, WaitReap, WaitNoChild, procVars,
                PT!ForkNoSlot, PT!vars, PT!WaitReap, PT!WaitNoChild
  <2>2. \A k \in Slot \ {current} : record'[k] = record[k]
    BY <1>0, <1>7 DEF PlainCall, Exec, ForkNoSlot, WaitReap, WaitNoChild, Saved,
                      ContextInv, TypeOK
  <2>3. \E n \in CallResult \cup 0 .. PidBound \cup {EAGAIN, ECHILD} : Returns(n)
    <3>1. CASE (\E n \in CallResult : PlainCall(n)) \/ ForkNoSlot \/ WaitNoChild
      BY <3>1 DEF PlainCall, ForkNoSlot, WaitNoChild
    <3>2. CASE Exec
      BY <3>2, TableAssumption DEF Exec
    <3>3. CASE WaitReap
      BY <3>3, ReapedPid DEF WaitReap
    <3>4. QED
      BY <1>7, <3>1, <3>2, <3>3
  <2>4. QED
    BY <1>0, <2>1, <2>2, <2>3, AnswerMapped
<1>8. QED
  BY <1>1, <1>2, <1>3, <1>4, <1>5, <1>6, <1>7 DEF Next

(* Every process has registers of its own: trap_entry, the handlers, the   *)
(* two copies of the frame, schedule() and trap_exit_restore implement     *)
(* UserContexts, for any number of processes and any programs.             *)
THEOREM ImplementsContexts == Spec => ContextsSpec
<1>1. IInv /\ IInv' /\ [Next]_vars =>
        [Contexts!Next]_<<[i \in Slot |-> Ctx(i)], [i \in Slot |-> Doing(i)]>>
  BY ContextsNext DEF ContextsStep
<1>2. QED
  BY <1>1, ContextsInit, Invariance, PTL DEF Spec, ContextsSpec, Contexts!Spec
=============================================================================
