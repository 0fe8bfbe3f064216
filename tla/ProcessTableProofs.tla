------------------------- MODULE ProcessTableProofs -------------------------
(***************************************************************************)
(* Proofs about ProcessTable, for any number of slots.  The safety         *)
(* invariants are not inductive one by one: that a sleeper has a live      *)
(* child survives the exit of that child only because pids are unique (the *)
(* wake-up reaches this sleeper and no other) and because orphans are      *)
(* given to init, who exists.  IInv is their conjunction with three facts  *)
(* about the handlers that no property states.                             *)
(***************************************************************************)
EXTENDS ProcessTable, WellFoundedInduction, TLAPS

(* A non-empty set of naturals has a least element; Min picks it.  The     *)
(* kernel's searches of PROCESS_LIST return the lowest index that matches. *)
LEMMA LeastExists ==
  ASSUME NEW S \in SUBSET Nat, S # {}
  PROVE  \E x \in S : \A y \in S : x <= y
<1> DEFINE R == OpToRel(<, Nat)
<1>1. \A x, y \in Nat : <<y, x>> \notin R => x <= y
  <2>1. R = {ss \in Nat \X Nat : ss[1] < ss[2]}
    BY Zenon DEF OpToRel
  <2> HIDE DEF R
  <2>2. QED
    BY <2>1
<1>2. PICK x \in S : \A y \in S : <<y, x>> \notin R
  <2> HIDE DEF R
  <2>1. IsWellFoundedOn(R, Nat)
    BY Zenon, NatLessThanWellFounded DEF R
  <2>2. QED
    BY Zenon, <2>1, WFMin
<1>3. QED
  <2> HIDE DEF R
  <2>1. QED
    BY Zenon, <1>1, <1>2

(* The lowest index that matches does match.                               *)
LEMMA MinInSet ==
  ASSUME NEW S \in SUBSET Nat, S # {}
  PROVE  Min(S) \in S /\ \A y \in S : Min(S) <= y
BY Zenon, LeastExists DEF Min

(* pick_next's index arithmetic stays in the table ...                     *)
LEMMA ModRange ==
  ASSUME NEW a \in Nat, NEW n \in Nat \ {0}
  PROVE  a % n \in 0 .. n - 1
OBVIOUS

(* ... and wraps round once at most.                                       *)
LEMMA ModSmall ==
  ASSUME NEW n \in Nat \ {0}, NEW a \in 0 .. n - 1
  PROVE  a % n = a /\ (a + n) % n = a
OBVIOUS

-----------------------------------------------------------------------------
(* The current process is the one that runs, until schedule() gives up.    *)
RunningIsCurrent ==
  \A i \in Slot : state[i] = "Running" <=> (i = current /\ power # "idle")

(* Slot 0 is init's for ever: nobody is its parent, so nobody reaps it.    *)
InitStays ==
  pid[0] = InitPid /\ parent_pid[0] = 0 /\ Exists(0)

(* Who is inside a wait ecall.                                             *)
WaitFlag ==
  \A i \in Slot : /\ state[i] = "Blocked" => atWait[i]
                  /\ atWait[i] => state[i] \in {"Blocked", "Ready", "Running"}

(* The inductive invariant.                                                *)
IInv ==
  /\ TypeOK
  /\ RunningIsCurrent
  /\ InitStays
  /\ WaitFlag
  /\ PidTree
  /\ ParentCanWait
  /\ BlockedHasLiveChild
  /\ WokenWaiterHasZombie
  /\ IdleOnlyWhenDone

(* What TypeOK allows in a slot of the table.                              *)
States == ProcessState \cup {"None"}

-----------------------------------------------------------------------------
(* What the scheduler's helpers do.                                        *)

(* pick_next misses no ready slot and picks only ready ones.               *)
LEMMA PickNextCorrect ==
  ASSUME current \in Slot, NEW st \in [Slot -> States]
  PROVE  \/ PickNext(st) = MAX_PROCESSES /\ \A i \in Slot : st[i] # "Ready"
         \/ PickNext(st) \in Slot /\ st[PickNext(st)] = "Ready"
<1> USE SlotsAssumption
<1>1. CASE ReadyDistances(st) = {}
  <2>1. SUFFICES ASSUME NEW i \in Slot, st[i] = "Ready" PROVE FALSE
    BY <1>1 DEF PickNext
  <2> DEFINE d == CyclicDistance(current, i)
  <2>2. d \in 1 .. MAX_PROCESSES /\ (current + d = i \/ current + d = i + MAX_PROCESSES)
    BY DEF CyclicDistance, Slot
  <2>3. (current + d) % MAX_PROCESSES = i
    BY Zenon, <2>2, ModSmall DEF Slot
  <2>4. QED
    BY <1>1, <2>1, <2>2, <2>3 DEF ReadyDistances
<1>2. CASE ReadyDistances(st) # {}
  <2> DEFINE d == Min(ReadyDistances(st))
  <2>1. ReadyDistances(st) \in SUBSET Nat
    BY DEF ReadyDistances
  <2>2. d \in ReadyDistances(st)
    BY <1>2, <2>1, MinInSet
  <2>3. PickNext(st) = (current + d) % MAX_PROCESSES
    BY <1>2 DEF PickNext
  <2> HIDE DEF d
  <2>4. d \in 1 .. MAX_PROCESSES /\ st[(current + d) % MAX_PROCESSES] = "Ready"
    BY <2>2 DEF ReadyDistances
  <2>5. current + d \in Nat
    BY <2>4 DEF Slot
  <2>6. (current + d) % MAX_PROCESSES \in Slot
    BY Zenon, <2>5, ModRange DEF Slot
  <2>7. QED
    BY <2>3, <2>4, <2>6
<1>3. QED
  BY <1>1, <1>2

(* schedule() either finds nothing ready, or lets one ready slot run.      *)
LEMMA ScheduleEffect ==
  ASSUME current \in Slot, NEW st \in [Slot -> States], Schedule(st)
  PROVE  \/ /\ power' = "idle" /\ current' = current /\ state' = st
            /\ \A i \in Slot : st[i] # "Ready"
         \/ /\ power' = power /\ current' \in Slot /\ st[current'] = "Ready"
            /\ state' = [st EXCEPT ![current'] = "Running"]
<1>1. MAX_PROCESSES \notin Slot
  BY SlotsAssumption DEF Slot
<1>2. QED
  BY <1>1, PickNextCorrect DEF Schedule

(* Going d <= e steps round a ring of n slots from c, towards the slot i   *)
(* that is e steps away, ends at i or strictly closer to it.               *)
LEMMA CyclicCloser ==
  ASSUME NEW n \in Nat \ {0}, NEW c \in 0 .. n - 1, NEW b \in 0 .. n - 1,
         NEW i \in 0 .. n - 1, NEW d \in 1 .. n, NEW e \in 1 .. n,
         d <= e, b # i,
         c + e = i \/ c + e = i + n,
         b = c + d \/ b = c + d - n
  PROVE  (IF i > b THEN i - b ELSE i - b + n) < e
OBVIOUS

(* schedule() moves the hart closer to every ready slot it passes over.    *)
LEMMA ScheduleComesCloser ==
  ASSUME current \in Slot, NEW st \in [Slot -> States], Schedule(st),
         NEW i \in Slot, st[i] = "Ready", state'[i] = "Ready"
  PROVE  CyclicDistance(current', i) < CyclicDistance(current, i)
<1> USE SlotsAssumption
<1> DEFINE d == Min(ReadyDistances(st))
           e == CyclicDistance(current, i)
<1>1. /\ e \in 1 .. MAX_PROCESSES
      /\ current + e = i \/ current + e = i + MAX_PROCESSES
  BY DEF CyclicDistance, Slot
<1>2. e \in ReadyDistances(st)
  <2>1. (current + e) % MAX_PROCESSES = i
    BY Zenon, <1>1, ModSmall DEF Slot
  <2>2. QED
    BY <1>1, <2>1 DEF ReadyDistances
<1>3. d \in ReadyDistances(st) /\ d <= e
  <2>1. ReadyDistances(st) \in SUBSET Nat
    BY DEF ReadyDistances
  <2>2. QED
    BY <1>2, <2>1, MinInSet
<1>4. /\ d \in 1 .. MAX_PROCESSES
      /\ st[(current + d) % MAX_PROCESSES] = "Ready"
  BY <1>3 DEF ReadyDistances
<1>5. current' = (current + d) % MAX_PROCESSES
  <2>1. PickNext(st) = (current + d) % MAX_PROCESSES
    BY <1>2 DEF PickNext
  <2>2. PickNext(st) # MAX_PROCESSES
    <3>1. MAX_PROCESSES \notin Slot
      BY DEF Slot
    <3>2. QED
      BY <3>1, PickNextCorrect
  <2>3. current' = PickNext(st)
    BY <2>2 DEF Schedule
  <2>4. QED
    BY <2>1, <2>3
<1>6. current' # i
  BY ScheduleEffect
<1> HIDE DEF d, e
<1>7. current' = current + d \/ current' = current + d - MAX_PROCESSES
  <2>1. CASE current + d < MAX_PROCESSES
    <3>1. current + d \in 0 .. MAX_PROCESSES - 1
      BY <1>4, <2>1 DEF Slot
    <3>2. QED
      BY <1>5, <3>1, ModSmall
  <2>2. CASE current + d >= MAX_PROCESSES
    <3>1. current + d - MAX_PROCESSES \in 0 .. MAX_PROCESSES - 1
      BY <1>4, <2>2 DEF Slot
    <3>2. (current + d - MAX_PROCESSES) + MAX_PROCESSES = current + d
      BY <1>4 DEF Slot
    <3>3. QED
      BY <1>5, <3>1, <3>2, ModSmall
  <2>3. QED
    BY <1>4, <2>1, <2>2 DEF Slot
<1>8. current' \in Slot
  BY ScheduleEffect
<1>9. CyclicDistance(current', i) < e
  <2>1. /\ current \in 0 .. MAX_PROCESSES - 1 /\ current' \in 0 .. MAX_PROCESSES - 1
        /\ i \in 0 .. MAX_PROCESSES - 1
        /\ d \in 1 .. MAX_PROCESSES /\ e \in 1 .. MAX_PROCESSES /\ d <= e
    BY <1>1, <1>3, <1>4, <1>8 DEF Slot
  <2>2. (IF i > current' THEN i - current' ELSE i - current' + MAX_PROCESSES) < e
    <3>1. \A c, b \in 0 .. MAX_PROCESSES - 1, x, y \in 1 .. MAX_PROCESSES :
            /\ x <= y /\ b # i
            /\ c + y = i \/ c + y = i + MAX_PROCESSES
            /\ b = c + x \/ b = c + x - MAX_PROCESSES
            => (IF i > b THEN i - b ELSE i - b + MAX_PROCESSES) < y
      BY <2>1, CyclicCloser
    <3>2. QED
      BY ONLY Zenon, <1>1, <1>6, <1>7, <2>1, <3>1
  <2>3. QED
    BY <2>2 DEF CyclicDistance
<1>10. QED
  BY <1>9 DEF e

(* wake_parent wakes the parent, the only one with its pid, if it sleeps.  *)
LEMMA WakeParentEffect ==
  ASSUME NEW st \in [Slot -> States], NEW parent \in Nat,
         pid \in [Slot -> Nat],
         \A i, j \in Slot : /\ st[i] = "Blocked" /\ st[j] = "Blocked"
                            /\ pid[i] = pid[j]
                            => i = j
  PROVE  WakeParent(st, parent) =
           [i \in Slot |-> IF st[i] = "Blocked" /\ pid[i] = parent
                           THEN "Ready" ELSE st[i]]
<1> DEFINE waiting == {i \in Slot : st[i] = "Blocked" /\ pid[i] = parent}
<1>1. CASE waiting = {}
  <2>1. WakeParent(st, parent) = st
    BY <1>1 DEF WakeParent
  <2>2. QED
    BY <1>1, <2>1
<1>2. CASE waiting # {}
  <2>1. Min(waiting) \in waiting
    <3>1. waiting \in SUBSET Nat
      BY DEF Slot
    <3> HIDE DEF waiting
    <3>2. QED
      BY <1>2, <3>1, MinInSet
  <2>2. waiting = {Min(waiting)}
    BY <2>1
  <2> DEFINE m == Min(waiting)
  <2>3. WakeParent(st, parent) = [st EXCEPT ![m] = "Ready"]
    BY <1>2 DEF WakeParent
  <2> HIDE DEF m
  <2>4. \A i \in Slot : i = m <=> st[i] = "Blocked" /\ pid[i] = parent
    BY <2>1, <2>2 DEF m
  <2>5. QED
    BY Zenon, <2>3, <2>4
<1>3. QED
  BY <1>1, <1>2

(* Nobody sleeps if every sleeper has a child, younger than it, that       *)
(* sleeps: the youngest sleeper would have none.                           *)
LEMMA NoSleepersOnly ==
  ASSUME NEW st \in [Slot -> States], NEW par \in [Slot -> Nat],
         pid \in [Slot -> Nat], NEW bound \in Nat,
         \A i \in Slot : st[i] = "Blocked" =>
           /\ pid[i] < bound
           /\ \E j \in Slot : /\ st[j] = "Blocked" /\ par[j] = pid[i]
                              /\ par[j] < pid[j]
  PROVE  \A i \in Slot : st[i] # "Blocked"
<1> DEFINE ages == {bound - pid[i] : i \in {j \in Slot : st[j] = "Blocked"}}
<1>1. SUFFICES ASSUME ages # {} PROVE FALSE
  OBVIOUS
<1>2. ages \subseteq Nat
  OBVIOUS
<1>3. PICK a \in ages : \A b \in ages : a <= b
  BY Zenon, <1>1, <1>2, LeastExists
<1>4. PICK i \in Slot : st[i] = "Blocked" /\ a = bound - pid[i]
  BY <1>3
<1>5. PICK j \in Slot : st[j] = "Blocked" /\ pid[i] < pid[j]
  BY <1>4
<1>6. bound - pid[j] \in ages
  BY <1>5
<1> HIDE DEF ages
<1>7. bound - pid[i] <= bound - pid[j]
  BY <1>3, <1>4, <1>6
<1>8. QED
  BY <1>5, <1>7

-----------------------------------------------------------------------------
(* The steps.                                                              *)

(* What rust_main leaves behind satisfies the invariant.                   *)
LEMMA InitIInv == Init => IInv
<1> SUFFICES ASSUME Init PROVE IInv
  OBVIOUS
<1> USE SlotsAssumption DEF Init, Slot
<1>1. TypeOK
  BY DEF TypeOK, ProcessState, InitPid
<1>2. RunningIsCurrent /\ InitStays /\ WaitFlag
  BY DEF RunningIsCurrent, InitStays, WaitFlag, Exists
<1>3. PidTree
  BY DEF PidTree, InitPid
<1>4. ParentCanWait /\ BlockedHasLiveChild
  BY DEF ParentCanWait, BlockedHasLiveChild, Exists
<1>5. WokenWaiterHasZombie /\ IdleOnlyWhenDone
  BY DEF WokenWaiterHasZombie, IdleOnlyWhenDone
<1>6. QED
  BY <1>1, <1>2, <1>3, <1>4, <1>5 DEF IInv

(* sys_fork: the child's pid is new, so no other process's parent changes. *)
LEMMA ForkStep ==
  ASSUME IInv, Fork
  PROVE  IInv'
<1> DEFINE idx == Min(EmptySlots)
<1>1. idx \in Slot /\ state[idx] \in {"None", "Gone"}
  <2>1. EmptySlots \in SUBSET Nat /\ EmptySlots # {}
    BY DEF EmptySlots, Slot, Fork
  <2>2. idx \in EmptySlots
    BY <2>1, MinInSet
  <2>3. QED
    BY <2>2 DEF EmptySlots
<1>2. /\ state' = [state EXCEPT ![idx] = "Ready"]
      /\ pid' = [pid EXCEPT ![idx] = nextPid]
      /\ parent_pid' = [parent_pid EXCEPT ![idx] = pid[current]]
      /\ code' = [code EXCEPT ![idx] = 0]
      /\ atWait' = [atWait EXCEPT ![idx] = FALSE]
      /\ nextPid' = nextPid + 1
      /\ current' = current
      /\ power' = power
      /\ power = "on"
  BY DEF Fork, AddChild, InUser
<1> HIDE DEF idx
<1>3. TypeOK /\ current \in Slot /\ 0 \in Slot
  BY SlotsAssumption DEF IInv, TypeOK, Slot
<1>4. idx # current /\ idx # 0
  BY <1>1, <1>2, <1>3 DEF IInv, RunningIsCurrent, InitStays, Exists
<1>5. TypeOK'
  BY <1>1, <1>2, <1>3 DEF TypeOK, ProcessState
<1>6. RunningIsCurrent' /\ InitStays' /\ WaitFlag'
  BY <1>1, <1>2, <1>3, <1>4
     DEF IInv, TypeOK, RunningIsCurrent, InitStays, WaitFlag, Exists
<1>7. state[current] = "Running"
  BY <1>2, <1>3 DEF IInv, RunningIsCurrent
<1>8. PidTree'
  BY <1>1, <1>2, <1>3, <1>4, <1>7 DEF IInv, TypeOK, PidTree
<1>9. ParentCanWait'
  BY <1>1, <1>2, <1>3, <1>4, <1>7 DEF IInv, TypeOK, ParentCanWait, Exists, Live
<1>10. BlockedHasLiveChild'
  BY <1>1, <1>2, <1>3 DEF IInv, TypeOK, BlockedHasLiveChild, Exists, Live
<1>11. WokenWaiterHasZombie' /\ IdleOnlyWhenDone'
  BY <1>1, <1>2, <1>3 DEF IInv, TypeOK, WokenWaiterHasZombie, IdleOnlyWhenDone
<1>12. QED
  BY <1>5, <1>6, <1>8, <1>9, <1>10, <1>11 DEF IInv

(* exit and segmentation faults, slot by slot.                             *)
LEMMA TerminateEffect ==
  ASSUME IInv, InUser, NEW c \in ExitCode, Terminate(c)
  PROVE  /\ parent_pid' = [i \in Slot |->
                           IF Exists(i) /\ parent_pid[i] = pid[current]
                           THEN InitPid ELSE parent_pid[i]]
         /\ parent_pid'[current] = parent_pid[current]
         /\ code' = [code EXCEPT ![current] = c]
         /\ pid' = pid /\ atWait' = atWait /\ nextPid' = nextPid
         /\ state'[current] = "Zombie"
         /\ \A i \in Slot \ {current} :
              /\ state[i] \in {"None", "Gone", "Zombie"} => state'[i] = state[i]
              /\ state[i] = "Ready" => state'[i] \in {"Ready", "Running"}
              /\ state[i] = "Blocked" /\ pid[i] # parent_pid[current]
                   => state'[i] = "Blocked"
              /\ state[i] = "Blocked" /\ pid[i] = parent_pid[current]
                   => state'[i] \in {"Ready", "Running"}
              /\ state[i] # "Running"
         /\ state' \in [Slot -> States]
         /\ current' \in Slot
         /\ power' \in {"on", "idle"}
         /\ power' = "idle" => \A i \in Slot : state'[i] \notin {"Ready", "Running"}
         /\ \A i \in Slot :
              state'[i] = "Running" <=> (i = current' /\ power' # "idle")
         /\ \E st \in [Slot -> States] :
              Schedule(st) /\ \A i \in Slot : state[i] = "Ready" => st[i] = "Ready"
<1> DEFINE parent == parent_pid[current]
           woken == [i \in Slot |->
                       IF i = current THEN "Zombie"
                       ELSE IF state[i] = "Blocked" /\ pid[i] = parent
                       THEN "Ready" ELSE state[i]]
<1>1. /\ TypeOK /\ current \in Slot /\ 0 \in Slot
      /\ state[current] = "Running" /\ ~atWait[current] /\ power = "on"
  BY SlotsAssumption DEF IInv, TypeOK, Slot, RunningIsCurrent, InUser
<1>2. /\ parent_pid' = [i \in Slot |-> IF Exists(i) /\ parent_pid[i] = pid[current]
                                       THEN InitPid ELSE parent_pid[i]]
      /\ parent_pid'[current] = parent
      /\ code' = [code EXCEPT ![current] = c]
      /\ pid' = pid /\ atWait' = atWait /\ nextPid' = nextPid
  <2>1. parent_pid[current] # pid[current]
    BY <1>1 DEF IInv, PidTree, TypeOK
  <2>2. QED
    BY <1>1, <2>1 DEF Terminate, ReparentOrphansToInit
<1>3. Schedule(woken)
  <2> DEFINE dead == [state EXCEPT ![current] = "Zombie"]
  <2>1. dead \in [Slot -> States] /\ pid \in [Slot -> Nat] /\ parent \in Nat
    BY <1>1 DEF TypeOK, States, ProcessState
  <2>2. \A i, j \in Slot : /\ dead[i] = "Blocked" /\ dead[j] = "Blocked"
                           /\ pid[i] = pid[j]
                           => i = j
    BY <1>1 DEF IInv, PidTree, TypeOK
  <2>3. WakeParent(dead, parent) =
          [i \in Slot |-> IF dead[i] = "Blocked" /\ pid[i] = parent
                          THEN "Ready" ELSE dead[i]]
    <3> HIDE DEF dead, parent
    <3>1. QED
      BY <2>1, <2>2, WakeParentEffect
  <2>4. WakeParent(dead, parent) = woken
    BY <1>1, <2>3 DEF TypeOK
  <2>5. Schedule(WakeParent(dead, parent))
    BY <1>2 DEF Terminate
  <2>6. QED
    BY <2>4, <2>5
<1>4. /\ state'[current] = "Zombie"
      /\ \A i \in Slot \ {current} :
           /\ state[i] \in {"None", "Gone", "Zombie"} => state'[i] = state[i]
           /\ state[i] = "Ready" => state'[i] \in {"Ready", "Running"}
           /\ state[i] = "Blocked" /\ pid[i] # parent => state'[i] = "Blocked"
           /\ state[i] = "Blocked" /\ pid[i] = parent
                => state'[i] \in {"Ready", "Running"}
           /\ state[i] # "Running"
      /\ state' \in [Slot -> States]
      /\ current' \in Slot
      /\ power' \in {"on", "idle"}
      /\ power' = "idle" => \A i \in Slot : state'[i] \notin {"Ready", "Running"}
      /\ \A i \in Slot : state'[i] = "Running" <=> (i = current' /\ power' # "idle")
  <2>1. woken \in [Slot -> States]
    BY <1>1 DEF TypeOK, States, ProcessState
  <2>2. \A i \in Slot : woken[i] # "Running"
    BY <1>1 DEF IInv, RunningIsCurrent
  <2>3. \/ /\ power' = "idle" /\ current' = current /\ state' = woken
           /\ \A i \in Slot : woken[i] # "Ready"
        \/ /\ power' = power /\ current' \in Slot /\ woken[current'] = "Ready"
           /\ state' = [woken EXCEPT ![current'] = "Running"]
    <3> HIDE DEF woken
    <3>1. QED
      BY <1>1, <1>3, <2>1, ScheduleEffect
  <2>4. QED
    BY <1>1, <2>1, <2>2, <2>3, SMTT(60)
       DEF IInv, RunningIsCurrent, States, ProcessState
<1>5. woken \in [Slot -> States]
  BY <1>1 DEF TypeOK, States, ProcessState
<1>6. \A i \in Slot : state[i] = "Ready" => woken[i] = "Ready"
  BY <1>1
<1> HIDE DEF woken
<1>7. QED
  BY <1>2, <1>3, <1>4, <1>5, <1>6

(* exit and segmentation faults: the children move to init, and the parent, *)
(* if it sleeps, is woken to a zombie of its own.                          *)
LEMMA TerminateStep ==
  ASSUME IInv, InUser, NEW c \in ExitCode, Terminate(c)
  PROVE  IInv'
<1> DEFINE parent == parent_pid[current]
<1>1. /\ TypeOK /\ current \in Slot /\ 0 \in Slot
      /\ state[current] = "Running" /\ ~atWait[current] /\ power = "on"
  BY SlotsAssumption DEF IInv, TypeOK, Slot, RunningIsCurrent, InUser
<1>2. /\ parent_pid' = [i \in Slot |->
                        IF Exists(i) /\ parent_pid[i] = pid[current]
                        THEN InitPid ELSE parent_pid[i]]
      /\ parent_pid'[current] = parent_pid[current]
      /\ code' = [code EXCEPT ![current] = c]
      /\ pid' = pid /\ atWait' = atWait /\ nextPid' = nextPid
  BY TerminateEffect
<1>4. /\ state'[current] = "Zombie"
      /\ \A i \in Slot \ {current} :
           /\ state[i] \in {"None", "Gone", "Zombie"} => state'[i] = state[i]
           /\ state[i] = "Ready" => state'[i] \in {"Ready", "Running"}
           /\ state[i] = "Blocked" /\ pid[i] # parent_pid[current]
                => state'[i] = "Blocked"
           /\ state[i] = "Blocked" /\ pid[i] = parent_pid[current]
                => state'[i] \in {"Ready", "Running"}
           /\ state[i] # "Running"
      /\ state' \in [Slot -> States]
      /\ current' \in Slot
      /\ power' \in {"on", "idle"}
      /\ power' = "idle" => \A i \in Slot : state'[i] \notin {"Ready", "Running"}
      /\ \A i \in Slot :
           state'[i] = "Running" <=> (i = current' /\ power' # "idle")
  BY TerminateEffect
<1>5. TypeOK'
  BY Zenon, <1>1, <1>2, <1>4, ExitCodeAssumption DEF TypeOK, States, InitPid
<1>6. RunningIsCurrent'
  BY <1>4 DEF RunningIsCurrent
<1>7. InitStays'
  BY <1>1, <1>2, <1>4 DEF IInv, InitStays, TypeOK, PidTree, ProcessState, Exists
<1>8. WaitFlag'
  BY <1>1, <1>2, <1>4 DEF IInv, WaitFlag, TypeOK, ProcessState
<1>9. PidTree'
  <2>1. \A i \in Slot : state'[i] # "None" <=> state[i] # "None"
    BY <1>1, <1>4 DEF TypeOK, ProcessState
  <2>2. \A i \in Slot : state[i] # "None" /\ parent_pid[i] = pid[current]
                          => InitPid < pid[i]
    BY <1>1 DEF IInv, PidTree, TypeOK, InitPid
  <2>3. QED
    BY <1>1, <1>2, <2>1, <2>2 DEF IInv, PidTree, TypeOK, Exists
<1>10. ParentCanWait'
  <2>1. SUFFICES ASSUME NEW i \in Slot \ {0}, Exists(i)'
                 PROVE  \E j \in Slot : /\ Exists(j)'
                                        /\ pid'[j] = parent_pid'[i]
                                        /\ j = 0 \/ Live(j)'
    BY DEF ParentCanWait
  <2>2. Exists(i)
    BY <1>1, <1>4, <2>1 DEF Exists, TypeOK, ProcessState
  <2>3. CASE parent_pid[i] = pid[current]
    <3>1. parent_pid'[i] = pid'[0] /\ Exists(0)'
      BY <1>1, <1>2, <1>7, <2>2, <2>3 DEF InitStays
    <3>2. QED
      BY <1>1, <3>1
  <2>4. CASE parent_pid[i] # pid[current]
    <3>1. PICK j \in Slot : /\ Exists(j) /\ pid[j] = parent_pid[i]
                            /\ j = 0 \/ Live(j)
      BY <2>2 DEF IInv, ParentCanWait
    <3>2. j # current /\ parent_pid'[i] = parent_pid[i]
      BY <1>1, <1>2, <2>4, <3>1
    <3>3. Exists(j)' /\ (j = 0 \/ Live(j)')
      BY <1>1, <1>4, <3>1, <3>2 DEF Exists, Live, TypeOK, ProcessState
    <3>4. QED
      BY <1>2, <3>1, <3>2, <3>3
  <2>5. QED
    BY <2>3, <2>4
<1>11. BlockedHasLiveChild'
  <2>1. SUFFICES ASSUME NEW i \in Slot, state'[i] = "Blocked"
                 PROVE  \E j \in Slot : Live(j)' /\ parent_pid'[j] = pid'[i]
    BY DEF BlockedHasLiveChild
  <2>2. i # current /\ state[i] = "Blocked" /\ pid[i] # parent
    BY <1>1, <1>4, <2>1 DEF TypeOK, ProcessState
  <2>3. PICK j \in Slot : Live(j) /\ parent_pid[j] = pid[i]
    BY <2>2 DEF IInv, BlockedHasLiveChild
  <2>4. j # current /\ pid[i] # pid[current]
    BY <1>1, <2>2, <2>3 DEF IInv, PidTree
  <2>5. Live(j)' /\ parent_pid'[j] = pid'[i]
    BY <1>1, <1>2, <1>4, <2>3, <2>4 DEF Live, Exists, TypeOK, ProcessState
  <2>6. QED
    BY <2>5
<1>12. WokenWaiterHasZombie'
  <2>1. SUFFICES ASSUME NEW i \in Slot, atWait'[i], state'[i] \in {"Ready", "Running"}
                 PROVE  \E j \in Slot : state'[j] = "Zombie" /\ parent_pid'[j] = pid'[i]
    BY DEF WokenWaiterHasZombie
  <2>2. i # current /\ atWait[i]
    BY <1>1, <1>2, <2>1
  <2>3. CASE state[i] = "Blocked"
    BY <1>1, <1>2, <1>4, <2>1, <2>2, <2>3
  <2>4. CASE state[i] = "Ready"
    <3>1. PICK j \in Slot : state[j] = "Zombie" /\ parent_pid[j] = pid[i]
      BY <2>2, <2>4 DEF IInv, WokenWaiterHasZombie
    <3>2. pid[i] # pid[current]
      BY <1>1, <2>2, <2>4 DEF IInv, PidTree
    <3>3. QED
      BY <1>1, <1>2, <1>4, <3>1, <3>2
  <2>5. QED
    BY <1>1, <1>4, <2>1, <2>2, <2>3, <2>4 DEF TypeOK, ProcessState
<1>13. IdleOnlyWhenDone'
  <2>1. SUFFICES ASSUME power' = "idle"
                 PROVE  \A i \in Slot : state'[i] # "Blocked"
    BY <1>4 DEF IdleOnlyWhenDone, States, ProcessState
  <2>2. \A i \in Slot : state'[i] = "Blocked" =>
          /\ pid[i] < nextPid
          /\ \E j \in Slot : /\ state'[j] = "Blocked"
                             /\ parent_pid'[j] = pid[i]
                             /\ parent_pid'[j] < pid[j]
    BY <1>2, <1>4, <1>9, <1>11, <2>1, SMTT(60)
       DEF BlockedHasLiveChild, PidTree, Live, Exists, States, ProcessState
  <2>3. state' \in [Slot -> States] /\ parent_pid' \in [Slot -> Nat]
        /\ pid \in [Slot -> Nat] /\ nextPid \in Nat
    BY <1>1, <1>4, <1>5 DEF TypeOK
  <2>4. QED
    BY <2>2, <2>3, NoSleepersOnly
<1>14. QED
  BY <1>5, <1>6, <1>7, <1>8, <1>9, <1>10, <1>11, <1>12, <1>13 DEF IInv

(* sys_wait goes to sleep: it has a live child, so pick_next finds a process *)
(* unless every live process sleeps, which NoSleepersOnly excludes.        *)
LEMMA WaitBlockStep ==
  ASSUME IInv, WaitBlock
  PROVE  IInv'
<1> DEFINE asleep == [state EXCEPT ![current] = "Blocked"]
<1>1. /\ TypeOK /\ current \in Slot /\ 0 \in Slot
      /\ state[current] = "Running" /\ power = "on"
  BY SlotsAssumption DEF IInv, TypeOK, Slot, RunningIsCurrent, WaitBlock
<1>2. /\ atWait' = [atWait EXCEPT ![current] = TRUE]
      /\ pid' = pid /\ parent_pid' = parent_pid /\ code' = code
      /\ nextPid' = nextPid
      /\ Schedule(asleep)
  BY DEF WaitBlock
<1>3. PICK child \in Slot : Live(child) /\ parent_pid[child] = pid[current]
  BY DEF WaitBlock, LiveChildren
<1>4. /\ state'[current] = "Blocked"
      /\ \A i \in Slot \ {current} :
           /\ state[i] # "Ready" => state'[i] = state[i]
           /\ state[i] = "Ready" => state'[i] \in {"Ready", "Running"}
           /\ state[i] # "Running"
      /\ state' \in [Slot -> States]
      /\ current' \in Slot
      /\ power' \in {"on", "idle"}
      /\ power' = "idle" => \A i \in Slot : state'[i] \notin {"Ready", "Running"}
      /\ \A i \in Slot : state'[i] = "Running" <=> (i = current' /\ power' # "idle")
  <2>1. asleep \in [Slot -> States]
    BY <1>1 DEF TypeOK, States, ProcessState
  <2>2. \A i \in Slot : asleep[i] # "Running"
    BY <1>1 DEF IInv, RunningIsCurrent, TypeOK
  <2>3. asleep[current] = "Blocked"
        /\ \A i \in Slot \ {current} : asleep[i] = state[i]
    BY <1>1 DEF TypeOK
  <2>4. \/ /\ power' = "idle" /\ current' = current /\ state' = asleep
           /\ \A i \in Slot : asleep[i] # "Ready"
        \/ /\ power' = power /\ current' \in Slot /\ asleep[current'] = "Ready"
           /\ state' = [asleep EXCEPT ![current'] = "Running"]
    <3> HIDE DEF asleep
    <3>1. QED
      BY <1>1, <1>2, <2>1, ScheduleEffect
  <2> HIDE DEF asleep
  <2>5. QED
    BY <1>1, <2>1, <2>2, <2>3, <2>4 DEF States, ProcessState
<1> HIDE DEF asleep
<1>5. TypeOK'
  BY Zenon, <1>1, <1>2, <1>4 DEF TypeOK, States
<1>6. RunningIsCurrent'
  BY <1>4 DEF RunningIsCurrent
<1>7. InitStays' /\ WaitFlag'
  BY <1>1, <1>2, <1>4 DEF IInv, InitStays, WaitFlag, TypeOK, Exists
<1>8. PidTree'
  BY <1>1, <1>2, <1>4 DEF IInv, PidTree
<1>9. \A i \in Slot : (Exists(i)' <=> Exists(i)) /\ (Live(i)' <=> Live(i))
  BY <1>1, <1>4 DEF Exists, Live
<1>10. ParentCanWait'
  BY <1>2, <1>9 DEF IInv, ParentCanWait
<1>11. BlockedHasLiveChild'
  <2> SUFFICES ASSUME NEW i \in Slot, state'[i] = "Blocked"
               PROVE  \E j \in Slot : Live(j)' /\ parent_pid'[j] = pid'[i]
    BY DEF BlockedHasLiveChild
  <2>1. CASE i = current
    BY <2>1, <1>2, <1>3, <1>9
  <2>2. CASE i # current
    <3>1. state[i] = "Blocked"
      BY <2>2, <1>4
    <3>2. PICK j \in Slot : Live(j) /\ parent_pid[j] = pid[i]
      BY <3>1 DEF IInv, BlockedHasLiveChild
    <3>3. QED
      BY <3>2, <1>2, <1>9
  <2>3. QED
    BY <2>1, <2>2
<1>12. WokenWaiterHasZombie'
  <2>1. SUFFICES ASSUME NEW i \in Slot, atWait'[i], state'[i] \in {"Ready", "Running"}
                 PROVE  \E j \in Slot : state'[j] = "Zombie" /\ parent_pid'[j] = pid'[i]
    BY DEF WokenWaiterHasZombie
  <2>2. i # current /\ atWait[i] /\ state[i] = "Ready"
    BY <1>1, <1>2, <1>4, <2>1 DEF TypeOK
  <2>3. PICK j \in Slot : state[j] = "Zombie" /\ parent_pid[j] = pid[i]
    BY <2>2 DEF IInv, WokenWaiterHasZombie
  <2>4. QED
    BY <1>1, <1>2, <1>4, <2>3
<1>13. IdleOnlyWhenDone'
  <2>1. SUFFICES ASSUME power' = "idle"
                 PROVE  \A i \in Slot : state'[i] # "Blocked"
    BY <1>4 DEF IdleOnlyWhenDone, States, ProcessState
  <2>2. \A i \in Slot : state'[i] = "Blocked" =>
          /\ pid[i] < nextPid
          /\ \E j \in Slot : /\ state'[j] = "Blocked"
                             /\ parent_pid'[j] = pid[i]
                             /\ parent_pid'[j] < pid[j]
    BY <1>2, <1>4, <1>8, <1>11, <2>1, SMTT(60)
       DEF BlockedHasLiveChild, PidTree, Live, Exists, States, ProcessState
  <2>3. state' \in [Slot -> States] /\ parent_pid' \in [Slot -> Nat]
        /\ pid \in [Slot -> Nat] /\ nextPid \in Nat
    BY <1>1, <1>4, <1>5 DEF TypeOK
  <2>4. QED
    BY <2>2, <2>3, NoSleepersOnly
<1>14. QED
  BY <1>5, <1>6, <1>7, <1>8, <1>10, <1>11, <1>12, <1>13 DEF IInv

(* sys_wait collects a zombie: a zombie has no children, and other waiters *)
(* wait for zombies of their own.                                          *)
LEMMA WaitReapStep ==
  ASSUME IInv, WaitReap
  PROVE  IInv'
<1> DEFINE z == Min(ZombieChildren)
<1>1. z \in Slot /\ state[z] = "Zombie" /\ parent_pid[z] = pid[current]
  <2>1. ZombieChildren \in SUBSET Nat /\ ZombieChildren # {}
    BY DEF ZombieChildren, Slot, WaitReap
  <2>2. z \in ZombieChildren
    BY <2>1, MinInSet
  <2>3. QED
    BY <2>2 DEF ZombieChildren
<1>2. /\ state' = [state EXCEPT ![z] = "Gone"]
      /\ atWait' = [atWait EXCEPT ![current] = FALSE]
      /\ pid' = pid /\ parent_pid' = parent_pid /\ code' = code
      /\ current' = current /\ nextPid' = nextPid /\ power' = power
      /\ power = "on"
  BY DEF WaitReap
<1> HIDE DEF z
<1>3. /\ TypeOK /\ current \in Slot /\ 0 \in Slot
      /\ state[current] = "Running"
  BY <1>2, SlotsAssumption DEF IInv, TypeOK, Slot, RunningIsCurrent
<1>4. z # current /\ z # 0
  BY <1>1, <1>3 DEF IInv, InitStays, PidTree, TypeOK
<1>5. TypeOK'
  BY <1>1, <1>2, <1>3 DEF TypeOK, ProcessState
<1>6. RunningIsCurrent' /\ InitStays' /\ WaitFlag'
  BY <1>1, <1>2, <1>3, <1>4
     DEF IInv, TypeOK, RunningIsCurrent, InitStays, WaitFlag, Exists
<1>7. PidTree'
  BY <1>1, <1>2, <1>3 DEF IInv, TypeOK, PidTree
<1>8. ParentCanWait'
  BY <1>1, <1>2, <1>3, <1>4 DEF IInv, TypeOK, ParentCanWait, Exists, Live
<1>9. BlockedHasLiveChild'
  BY <1>1, <1>2, <1>3 DEF IInv, TypeOK, BlockedHasLiveChild, Exists, Live
<1>10. WokenWaiterHasZombie'
  <2>1. SUFFICES ASSUME NEW i \in Slot, atWait'[i], state'[i] \in {"Ready", "Running"}
                 PROVE  \E j \in Slot : state'[j] = "Zombie" /\ parent_pid'[j] = pid'[i]
    BY DEF WokenWaiterHasZombie
  <2>2. i # current /\ i # z /\ atWait[i] /\ state[i] \in {"Ready", "Running"}
    BY <1>1, <1>2, <1>3, <2>1 DEF TypeOK
  <2>3. PICK j \in Slot : state[j] = "Zombie" /\ parent_pid[j] = pid[i]
    BY <2>2 DEF IInv, WokenWaiterHasZombie
  <2>4. j # z
    BY <1>1, <1>3, <2>2, <2>3 DEF IInv, PidTree
  <2>5. QED
    BY <1>2, <1>3, <2>3, <2>4 DEF TypeOK
<1>11. IdleOnlyWhenDone'
  BY <1>2 DEF IdleOnlyWhenDone
<1>12. QED
  BY <1>5, <1>6, <1>7, <1>8, <1>9, <1>10, <1>11 DEF IInv

(* sys_wait returns ECHILD: a woken waiter never gets here.                *)
LEMMA WaitNoChildStep ==
  ASSUME IInv, WaitNoChild
  PROVE  IInv'
<1> USE DEF WaitNoChild
<1>1. TypeOK' /\ RunningIsCurrent' /\ InitStays' /\ IdleOnlyWhenDone'
  BY DEF IInv, TypeOK, RunningIsCurrent, InitStays, Exists, IdleOnlyWhenDone
<1>2. WaitFlag'
  BY DEF IInv, TypeOK, WaitFlag, RunningIsCurrent
<1>3. PidTree' /\ ParentCanWait' /\ BlockedHasLiveChild'
  BY DEF IInv, PidTree, ParentCanWait, BlockedHasLiveChild, Exists, Live
<1>4. WokenWaiterHasZombie'
  BY DEF IInv, TypeOK, WokenWaiterHasZombie
<1>5. QED
  BY <1>1, <1>2, <1>3, <1>4 DEF IInv

(* The machine stops in the middle of a handler: the table is left as is.  *)
LEMMA FaultStep ==
  ASSUME IInv, power = "on", power' = "fault", nextPid' \in {nextPid, nextPid + 1},
         UNCHANGED <<state, pid, parent_pid, code, atWait, current>>
  PROVE  IInv'
<1>1. TypeOK' /\ RunningIsCurrent' /\ InitStays' /\ IdleOnlyWhenDone'
  BY DEF IInv, TypeOK, RunningIsCurrent, InitStays, Exists, IdleOnlyWhenDone
<1>2. PidTree'
  BY DEF IInv, TypeOK, PidTree
<1>3. WaitFlag' /\ ParentCanWait'
  BY DEF IInv, WaitFlag, ParentCanWait, Exists, Live
<1>4. BlockedHasLiveChild' /\ WokenWaiterHasZombie'
  BY DEF IInv, BlockedHasLiveChild, WokenWaiterHasZombie, Exists, Live
<1>5. QED
  BY <1>1, <1>2, <1>3, <1>4 DEF IInv

(* Handlers that change nothing.                                           *)
LEMMA StutterStep ==
  ASSUME IInv, UNCHANGED vars
  PROVE  IInv'
<1>1. TypeOK' /\ RunningIsCurrent' /\ InitStays' /\ IdleOnlyWhenDone'
  BY DEF IInv, vars, TypeOK, RunningIsCurrent, InitStays, Exists, IdleOnlyWhenDone
<1>2. PidTree'
  BY DEF IInv, vars, TypeOK, PidTree
<1>3. WaitFlag' /\ ParentCanWait'
  BY DEF IInv, vars, WaitFlag, ParentCanWait, Exists, Live
<1>4. BlockedHasLiveChild' /\ WokenWaiterHasZombie'
  BY DEF IInv, vars, BlockedHasLiveChild, WokenWaiterHasZombie, Exists, Live
<1>5. QED
  BY <1>1, <1>2, <1>3, <1>4 DEF IInv

(* Every step of the kernel preserves the inductive invariant.             *)
THEOREM Inductive == IInv /\ [Next]_vars => IInv'
<1> SUFFICES ASSUME IInv, [Next]_vars PROVE IInv'
  OBVIOUS
<1>1. CASE ForkNoSlot
  BY <1>1, StutterStep DEF ForkNoSlot
<1>2. CASE Fork
  BY <1>2, ForkStep
<1>3. CASE ForkPanic
  BY <1>3, FaultStep DEF ForkPanic, InUser
<1>4. CASE \E c \in ExitCode : Exit(c)
  BY <1>4, TerminateStep DEF Exit
<1>5. CASE Segfault
  BY <1>5, TerminateStep, ExitCodeAssumption DEF Segfault
<1>6. CASE WaitReap
  BY <1>6, WaitReapStep
<1>7. CASE WaitFault
  BY <1>7, FaultStep DEF WaitFault
<1>8. CASE WaitBlock
  BY <1>8, WaitBlockStep
<1>9. CASE WaitNoChild
  BY <1>9, WaitNoChildStep
<1>10. CASE FatalTrap
  BY <1>10, FaultStep DEF FatalTrap, InUser
<1>11. CASE ShutDown \/ UNCHANGED vars
  BY <1>11, StutterStep DEF ShutDown
<1>12. QED
  BY <1>1, <1>2, <1>3, <1>4, <1>5, <1>6, <1>7, <1>8, <1>9, <1>10, <1>11 DEF Next

(* The inductive invariant holds in every reachable state.                 *)
THEOREM Invariance == Spec => []IInv
BY InitIInv, Inductive, PTL DEF Spec

-----------------------------------------------------------------------------
(* The properties, for any number of slots, pids and exit codes.           *)

(* The table keeps its shape.                                              *)
THEOREM TypeCorrect == Spec => []TypeOK
BY Invariance, PTL DEF IInv

(* Exactly the process CURRENT names is Running while the machine is on.   *)
THEOREM OneRunningHolds == Spec => []OneRunning
<1>1. IInv => OneRunning
  BY DEF IInv, RunningIsCurrent, OneRunning
<1>2. QED
  BY <1>1, Invariance, PTL

(* Pids are unique and parents are older than their children.              *)
THEOREM PidTreeHolds == Spec => []PidTree
BY Invariance, PTL DEF IInv

(* Every process that can exit has a parent that can collect it.           *)
THEOREM ParentCanWaitHolds == Spec => []ParentCanWait
BY Invariance, PTL DEF IInv

(* No wake-up is lost: whoever sleeps in wait has a child that can still   *)
(* exit and wake it, and whoever was woken finds its zombie when it makes  *)
(* the call again.                                                         *)
THEOREM NoLostWakeUp == Spec => []WaitersServed
<1>1. IInv => WaitersServed
  BY DEF IInv, WaitersServed
<1>2. QED
  BY <1>1, Invariance, PTL

(* The machine is not switched off while a process is ready or sleeping.   *)
THEOREM IdleOnlyWhenDoneHolds == Spec => []IdleOnlyWhenDone
BY Invariance, PTL DEF IInv

(* Only the parent's wait takes a zombie, with its code, from the table.   *)
THEOREM ZombieKept == Spec => ZombieKeptForParent
<1> DEFINE Kept == \A i \in Slot : state[i] = "Zombie" =>
                     \/ /\ state'[i] = "Zombie"
                        /\ pid'[i] = pid[i]
                        /\ code'[i] = code[i]
                     \/ /\ state'[i] = "Gone"
                        /\ current' = current
                        /\ parent_pid[i] = pid[current]
<1>1. ASSUME IInv, [Next]_vars PROVE Kept
  <2> SUFFICES ASSUME NEW i \in Slot, state[i] = "Zombie"
               PROVE  \/ /\ state'[i] = "Zombie"
                         /\ pid'[i] = pid[i]
                         /\ code'[i] = code[i]
                      \/ /\ state'[i] = "Gone"
                         /\ current' = current
                         /\ parent_pid[i] = pid[current]
    OBVIOUS
  <2>1. TypeOK /\ current \in Slot
    BY <1>1 DEF IInv, TypeOK
  <2>2. ASSUME power = "on" PROVE i # current
    BY <1>1, <2>2 DEF IInv, RunningIsCurrent
  <2>3. CASE Fork
    <3>1. EmptySlots \in SUBSET Nat /\ EmptySlots # {}
      BY <2>3 DEF EmptySlots, Slot, Fork
    <3>2. Min(EmptySlots) # i
      BY <3>1, MinInSet DEF EmptySlots
    <3>3. QED
      BY <2>1, <2>3, <3>2 DEF Fork, AddChild, TypeOK
  <2>4. ASSUME NEW c \in ExitCode, InUser, Terminate(c)
        PROVE  state'[i] = "Zombie" /\ pid'[i] = pid[i] /\ code'[i] = code[i]
    <3>1. i # current
      BY <2>2, <2>4 DEF InUser
    <3>2. /\ state'[i] = state[i] /\ pid' = pid
          /\ code' = [code EXCEPT ![current] = c]
      BY <1>1, <2>4, <3>1, TerminateEffect
    <3>3. QED
      BY <2>1, <3>1, <3>2 DEF TypeOK
  <2>5. CASE WaitReap
    <3>1. ZombieChildren \in SUBSET Nat /\ ZombieChildren # {}
      BY <2>5 DEF ZombieChildren, Slot, WaitReap
    <3>2. Min(ZombieChildren) \in ZombieChildren
      BY <3>1, MinInSet
    <3>3. QED
      BY <2>1, <2>5, <3>2, SMTT(60) DEF WaitReap, ZombieChildren, TypeOK
  <2>6. CASE WaitBlock
    <3>1. i # current
      BY <2>2, <2>6 DEF WaitBlock
    <3>2. [state EXCEPT ![current] = "Blocked"] \in [Slot -> States]
      BY <2>1 DEF TypeOK, States, ProcessState
    <3>3. state'[i] = "Zombie"
      BY Zenon, <2>1, <2>6, <3>1, <3>2, ScheduleEffect DEF WaitBlock, TypeOK
    <3>4. QED
      BY <2>6, <3>3 DEF WaitBlock
  <2>7. CASE \/ ForkNoSlot \/ ForkPanic \/ WaitFault \/ WaitNoChild
             \/ FatalTrap \/ ShutDown \/ UNCHANGED vars
    BY <2>7 DEF ForkNoSlot, ForkPanic, WaitFault, WaitNoChild, FatalTrap,
                ShutDown, vars
  <2>8. QED
    BY <1>1, <2>3, <2>4, <2>5, <2>6, <2>7, ExitCodeAssumption
       DEF Next, Exit, Segfault
<1>2. QED
  BY <1>1, Invariance, PTL DEF Spec, ZombieKeptForParent

(* Bounded bypass: a ready process is passed over fewer than MAX_PROCESSES *)
(* times, because every schedule() brings the hart closer to it.           *)
THEOREM RoundRobinHolds == Spec => RoundRobin
<1> DEFINE Closer == \A i \in Slot :
       state[i] = "Ready" /\ state'[i] = "Ready" /\ current' # current
         => CyclicDistance(current', i) < CyclicDistance(current, i)
<1>1. ASSUME IInv, [Next]_vars PROVE Closer
  <2> SUFFICES ASSUME NEW i \in Slot, state[i] = "Ready", state'[i] = "Ready",
                      current' # current
               PROVE  CyclicDistance(current', i) < CyclicDistance(current, i)
    OBVIOUS
  <2>1. TypeOK /\ current \in Slot
    BY <1>1 DEF IInv, TypeOK
  <2>2. ASSUME NEW c \in ExitCode, InUser, Terminate(c)
        PROVE  CyclicDistance(current', i) < CyclicDistance(current, i)
    <3>1. PICK st \in [Slot -> States] : Schedule(st) /\ st[i] = "Ready"
      BY <1>1, <2>2, TerminateEffect
    <3>2. QED
      BY <2>1, <3>1, ScheduleComesCloser
  <2>3. CASE WaitBlock
    <3> DEFINE asleep == [state EXCEPT ![current] = "Blocked"]
    <3>1. i # current
      BY <1>1, <2>3 DEF IInv, RunningIsCurrent, WaitBlock
    <3>2. asleep \in [Slot -> States] /\ asleep[i] = "Ready" /\ Schedule(asleep)
      BY <2>1, <2>3, <3>1 DEF TypeOK, States, ProcessState, WaitBlock
    <3> HIDE DEF asleep
    <3>3. QED
      BY <2>1, <3>2, ScheduleComesCloser
  <2>4. CASE \/ ForkNoSlot \/ Fork \/ ForkPanic \/ WaitReap \/ WaitFault
             \/ WaitNoChild \/ FatalTrap \/ ShutDown \/ UNCHANGED vars
    BY <2>4 DEF ForkNoSlot, Fork, AddChild, ForkPanic, WaitReap, WaitFault,
                WaitNoChild, FatalTrap, ShutDown, vars
  <2>5. QED
    BY <1>1, <2>2, <2>3, <2>4, ExitCodeAssumption DEF Next, Exit, Segfault
<1>2. QED
  BY <1>1, Invariance, PTL DEF Spec, RoundRobin
=============================================================================
