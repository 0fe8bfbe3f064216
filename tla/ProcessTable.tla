---------------------------- MODULE ProcessTable ----------------------------
(***************************************************************************)
(* The process table and the cooperative scheduler of the kernel:          *)
(* task/scheduler.rs, the life-cycle part of sys_fork, sys_exit and        *)
(* sys_wait (syscall.rs) and do_segfault (trap.rs).                        *)
(*                                                                         *)
(* One hart; interrupts are off in the kernel and the timer never          *)
(* reschedules, so a handler is one atomic step and only the process in    *)
(* slot `current` takes steps.  Memory is left to other modules: here an   *)
(* allocation that an `expect` guards either succeeds or panics.           *)
(***************************************************************************)
EXTENDS Integers, FiniteSetsExt

CONSTANTS
  MAX_PROCESSES,   \* number of slots of PROCESS_LIST
  PidBound,        \* bound: the last pid a behaviour hands out
  ExitCode         \* codes a program passes to exit()

ASSUME SlotsAssumption == MAX_PROCESSES \in Nat \ {0}
ASSUME PidBoundAssumption == PidBound \in Nat
ASSUME ExitCodeAssumption == ExitCode \subseteq Nat /\ 1 \in ExitCode

VARIABLES
  state,       \* state[i]: Process.state of slot i, "None" for an empty slot
  pid,         \* Process.pid
  parent_pid,  \* Process.parent_pid
  code,        \* the payload of ProcessState::Zombie
  atWait,      \* atWait[i]: slot i's saved sepc is still on its wait ecall
  current,     \* CURRENT
  nextPid,     \* NEXT_PID
  power        \* "on", "idle" (schedule() found nothing) or "fault": the
               \* kernel has panicked, trapped in S-mode or overwritten its
               \* own memory, and what it does then is not followed further

vars == <<state, pid, parent_pid, code, atWait, current, nextPid, power>>

Slot == 0 .. MAX_PROCESSES - 1
InitPid == 1
ProcessState == {"Ready", "Running", "Blocked", "Zombie", "Gone"}

TypeOK ==
  /\ state \in [Slot -> ProcessState \cup {"None"}]
  /\ pid \in [Slot -> Nat]
  /\ parent_pid \in [Slot -> Nat]
  /\ code \in [Slot -> ExitCode \cup {0}]
  /\ atWait \in [Slot -> BOOLEAN]
  /\ current \in Slot
  /\ nextPid \in Nat
  /\ power \in {"on", "idle", "fault"}

Exists(i) == state[i] \notin {"None", "Gone"}   \* occupied and not reaped
Live(i) == Exists(i) /\ state[i] # "Zombie"

(* What rust_main leaves behind: init is pid 1 in slot 0, running.         *)
Init ==
  /\ state = [i \in Slot |-> IF i = 0 THEN "Running" ELSE "None"]
  /\ pid = [i \in Slot |-> IF i = 0 THEN InitPid ELSE 0]
  /\ parent_pid = [i \in Slot |-> 0]
  /\ code = [i \in Slot |-> 0]
  /\ atWait = [i \in Slot |-> FALSE]
  /\ current = 0
  /\ nextPid = InitPid + 1
  /\ power = "on"

-----------------------------------------------------------------------------
(* The scheduler's helpers.  st stands for the table's states as they are  *)
(* when the helper is called in the middle of a handler.                   *)

(* Mutant: the slot of a child that has exited counts as empty.            *)
EmptySlotsOrZombies ==
  {i \in Slot : \/ state[i] \in {"None", "Gone"}
                \/ state[i] = "Zombie" /\ parent_pid[i] = pid[current]}

EmptySlots == {i \in Slot : state[i] \in {"None", "Gone"}}

(* Mutant: children that are zombies already keep their parent.            *)
ReparentLiveOrphans ==
  [i \in Slot |-> IF Live(i) /\ parent_pid[i] = pid[current]
                  THEN InitPid ELSE parent_pid[i]]

(* reparent_orphans_to_init: the parents after the current process's       *)
(* children, zombies included, have been given to init.                    *)
ReparentOrphansToInit ==
  [i \in Slot |-> IF Exists(i) /\ parent_pid[i] = pid[current]
                  THEN InitPid ELSE parent_pid[i]]

(* Mutants: exit wakes nobody; exit wakes every sleeper.                   *)
WakeNobody(st, parent) == st
WakeEverybody(st, parent) ==
  [i \in Slot |-> IF st[i] = "Blocked" THEN "Ready" ELSE st[i]]

(* wake_parent: the first slot that holds the parent, if it is blocked.    *)
WakeParent(st, parent) ==
  LET waiting == {i \in Slot : /\ st[i] = "Blocked"
                               /\ pid[i] = parent}
  IN  IF waiting = {} THEN st ELSE [st EXCEPT ![Min(waiting)] = "Ready"]

(* Mutant: the search stops at the end of the table.                       *)
ReadyDistancesNoWrap(st) ==
  {d \in 1 .. MAX_PROCESSES - 1 - current : st[current + d] = "Ready"}

(* pick_next: the first ready slot after the current one, in cyclic order; *)
(* MAX_PROCESSES when there is none.                                       *)
ReadyDistances(st) ==
  {d \in 1 .. MAX_PROCESSES : st[(current + d) % MAX_PROCESSES] = "Ready"}

(* Mutant: the search starts at slot 0.                                    *)
PickLowest(st) ==
  IF ReadyDistances(st) = {}
  THEN MAX_PROCESSES
  ELSE Min({i \in Slot : st[i] = "Ready"})

PickNext(st) ==
  IF ReadyDistances(st) = {}
  THEN MAX_PROCESSES
  ELSE (current + Min(ReadyDistances(st))) % MAX_PROCESSES

(* Mutant: the process that gets the hart is not marked Running.           *)
ScheduleUnmarked(st) ==
  LET next == PickNext(st)
  IN  IF next = MAX_PROCESSES
      THEN state' = st /\ power' = "idle" /\ UNCHANGED current
      ELSE state' = st /\ current' = next /\ UNCHANGED power

(* schedule(): never returns to its caller.                                *)
Schedule(st) ==
  LET next == PickNext(st)
  IN  IF next = MAX_PROCESSES
      THEN /\ state' = st
           /\ power' = "idle"
           /\ UNCHANGED current
      ELSE /\ state' = [st EXCEPT ![next] = "Running"]
           /\ current' = next
           /\ UNCHANGED power

-----------------------------------------------------------------------------
(* The handlers.  A process resumed inside a blocked wait re-executes its  *)
(* ecall before anything else: schedule() saved the frame with the sepc of *)
(* the ecall itself.                                                       *)

InUser == power = "on" /\ ~atWait[current]

ForkNoSlot ==   \* EAGAIN
  /\ InUser
  /\ EmptySlots = {}
  /\ UNCHANGED vars

(* The process sys_fork puts into the first empty slot.                    *)
AddChild(p) ==
  LET idx == Min(EmptySlots)
  IN  /\ state' = [state EXCEPT ![idx] = "Ready"]
      /\ pid' = [pid EXCEPT ![idx] = p]
      /\ parent_pid' = [parent_pid EXCEPT ![idx] = pid[current]]
      /\ code' = [code EXCEPT ![idx] = 0]
      /\ atWait' = [atWait EXCEPT ![idx] = FALSE]

(* Mutant: alloc_pid does not advance NEXT_PID.                            *)
ForkSamePid ==
  /\ InUser
  /\ nextPid <= PidBound
  /\ EmptySlots # {}
  /\ AddChild(nextPid)
  /\ UNCHANGED <<nextPid, current, power>>

Fork ==
  /\ InUser
  /\ nextPid <= PidBound
  /\ EmptySlots # {}
  /\ AddChild(nextPid)
  /\ nextPid' = nextPid + 1
  /\ UNCHANGED <<current, power>>

ForkPanic ==   \* no frame for the root table or the kernel stack
  /\ InUser
  /\ nextPid <= PidBound
  /\ EmptySlots # {}
  /\ nextPid' = nextPid + 1
  /\ power' = "fault"
  /\ UNCHANGED <<state, pid, parent_pid, code, atWait, current>>

(* The tail that sys_exit and do_segfault share.                           *)
Terminate(c) ==
  /\ parent_pid' = ReparentOrphansToInit
  /\ code' = [code EXCEPT ![current] = c]
  /\ Schedule(WakeParent([state EXCEPT ![current] = "Zombie"],
                         parent_pid'[current]))
  /\ UNCHANGED <<pid, atWait, nextPid>>

Exit(c) == InUser /\ Terminate(c)

Segfault == InUser /\ Terminate(1)

ZombieChildren ==
  {i \in Slot : state[i] = "Zombie" /\ parent_pid[i] = pid[current]}

LiveChildren == {i \in Slot : Live(i) /\ parent_pid[i] = pid[current]}

WaitReap ==
  /\ power = "on"
  /\ ZombieChildren # {}
  /\ state' = [state EXCEPT ![Min(ZombieChildren)] = "Gone"]
  /\ atWait' = [atWait EXCEPT ![current] = FALSE]
  /\ UNCHANGED <<pid, parent_pid, code, current, nextPid, power>>

(* The store through the user's pointer traps in S-mode, the copy of the   *)
(* page it is on panics, or it goes to memory of the kernel's own.         *)
WaitFault ==
  /\ power = "on"
  /\ ZombieChildren # {}
  /\ power' = "fault"
  /\ UNCHANGED <<state, pid, parent_pid, code, atWait, current, nextPid>>

WaitBlock ==
  /\ power = "on"
  /\ ZombieChildren = {}
  /\ LiveChildren # {}
  /\ atWait' = [atWait EXCEPT ![current] = TRUE]
  /\ Schedule([state EXCEPT ![current] = "Blocked"])
  /\ UNCHANGED <<pid, parent_pid, code, nextPid>>

WaitNoChild ==   \* ECHILD
  /\ power = "on"
  /\ ZombieChildren = {}
  /\ LiveChildren = {}
  /\ atWait' = [atWait EXCEPT ![current] = FALSE]
  /\ UNCHANGED <<state, pid, parent_pid, code, current, nextPid, power>>

(* The handler of a trap panics or traps itself: it does not know the      *)
(* exception, has no frame for a copy-on-write page, or faults in a copy   *)
(* to or from the program's memory or in a message to the console.         *)
FatalTrap ==
  /\ InUser
  /\ power' = "fault"
  /\ UNCHANGED <<state, pid, parent_pid, code, atWait, current, nextPid>>

ShutDown ==   \* sbi::shutdown() does not return
  /\ power # "on"
  /\ UNCHANGED vars

Next ==
  \/ ForkNoSlot \/ Fork \/ ForkPanic
  \/ \E c \in ExitCode : Exit(c)
  \/ Segfault
  \/ WaitReap \/ WaitFault \/ WaitBlock \/ WaitNoChild
  \/ FatalTrap \/ ShutDown

Spec == Init /\ [][Next]_vars

-----------------------------------------------------------------------------
(* While the machine is on, the slot CURRENT names is the one and only     *)
(* Running process: every handler reaches schedule() or returns to user    *)
(* mode with the table in that shape.                                      *)
OneRunning ==
  power = "on" => \A i \in Slot : state[i] = "Running" <=> i = current

(* Pids of occupied slots, reaped ones included, are distinct, were handed *)
(* out by alloc_pid, and a parent is older than its child, so parent links *)
(* cannot form a cycle even after orphans were given to init.              *)
PidTree ==
  \A i \in Slot : state[i] # "None" =>
    /\ pid[i] < nextPid
    /\ parent_pid[i] < pid[i]
    /\ \A j \in Slot : state[j] # "None" /\ pid[j] = pid[i] => j = i

(* No process is left with a parent that can never wait for it: the parent *)
(* of every unreaped process other than init exists, and has not           *)
(* terminated unless it is init (reparent_orphans_to_init).                *)
ParentCanWait ==
  \A i \in Slot \ {0} : Exists(i) =>
    \E j \in Slot : /\ Exists(j)
                    /\ pid[j] = parent_pid[i]
                    /\ j = 0 \/ Live(j)

BlockedHasLiveChild ==
  \A i \in Slot : state[i] = "Blocked" =>
    \E j \in Slot : Live(j) /\ parent_pid[j] = pid[i]

WokenWaiterHasZombie ==
  \A i \in Slot : atWait[i] /\ state[i] \in {"Ready", "Running"} =>
    \E j \in Slot : state[j] = "Zombie" /\ parent_pid[j] = pid[i]

(* A process sleeps in wait only while a child of it can still terminate   *)
(* and wake it: no wake-up is lost between sys_wait's scan and schedule(). *)
(* And once woken it finds a zombie when it re-executes the ecall: the     *)
(* child that woke it is still there for it.                               *)
WaitersServed == BlockedHasLiveChild /\ WokenWaiterHasZombie

(* schedule() powers the machine off only when nothing is left to run:     *)
(* no ready process was overlooked and no process still sleeps in wait.    *)
IdleOnlyWhenDone ==
  power = "idle" =>
    \A i \in Slot : state[i] \in {"None", "Zombie", "Gone"}

(* An exit code is kept for the parent: a zombie's slot is neither reused  *)
(* nor changed until its parent's wait collects it.                        *)
ZombieKeptForParent ==
  [][\A i \in Slot : state[i] = "Zombie" =>
       \/ /\ state'[i] = "Zombie"
          /\ pid'[i] = pid[i]
          /\ code'[i] = code[i]
       \/ /\ state'[i] = "Gone"
          /\ current' = current
          /\ parent_pid[i] = pid[current]]_vars

(* How far pick_next has to go from slot c to reach slot i.                *)
CyclicDistance(c, i) == IF i > c THEN i - c ELSE i - c + MAX_PROCESSES

(* Bounded bypass: whenever schedule() passes over a ready process the     *)
(* hart moves strictly closer to it, so it is passed over fewer than       *)
(* MAX_PROCESSES times.                                                    *)
RoundRobin ==
  [][\A i \in Slot :
       state[i] = "Ready" /\ state'[i] = "Ready" /\ current' # current
         => CyclicDistance(current', i) < CyclicDistance(current, i)]_vars
=============================================================================
