-------------------------- MODULE ProcessLiveness ---------------------------
(***************************************************************************)
(* What the processes of ProcessTable can count on in the long run.        *)
(*                                                                         *)
(* A bound on the pids would end every behaviour's forks and so make       *)
(* processes come to an end that need not.  Here programs fork as often as *)
(* they like.  The kernel compares pids with each other and with init's    *)
(* for equality and does nothing else with them, so a new process may as   *)
(* well get any name that no slot mentions: what is left of pids is which  *)
(* of them are equal, and finitely many names are enough.                  *)
(***************************************************************************)
EXTENDS ProcessTable

PidName == 1 .. 2 * MAX_PROCESSES + 1
Mentioned == {pid[i] : i \in Slot} \cup {parent_pid[i] : i \in Slot}
NewPids == PidName \ ({InitPid} \cup Mentioned)

ForkAnew ==
  /\ InUser
  /\ EmptySlots # {}
  /\ AddChild(Min(NewPids))
  /\ UNCHANGED <<nextPid, current, power>>

End == (\E c \in ExitCode : Exit(c)) \/ Segfault

LiveNext ==
  \/ ForkNoSlot \/ ForkAnew \/ ForkPanic
  \/ End
  \/ WaitReap \/ WaitFault \/ WaitBlock \/ WaitNoChild
  \/ FatalTrap \/ ShutDown

LiveSpec == Init /\ [][LiveNext]_vars

(* The hardware re-executes the ecall of a resumed wait.                   *)
RestartedWait ==
  atWait[current] /\ (WaitReap \/ WaitFault \/ WaitBlock \/ WaitNoChild)

(* What is assumed of programs, since the timer does not take the hart     *)
(* from a program that loops.  The weaker assumption is that whoever has   *)
(* the hart gives it up in the end, by exit, by a fault or by a wait that  *)
(* blocks.  The stronger one is that a program does not go on for ever: if *)
(* it gets the hart again and again, it exits or faults some time.         *)
FairSpec ==
  LiveSpec /\ WF_vars(End \/ WaitBlock) /\ WF_vars(RestartedWait)

EndingSpec ==
  LiveSpec /\ (\A i \in Slot : SF_vars(current = i /\ End)) /\ WF_vars(RestartedWait)

-----------------------------------------------------------------------------
(* Every ready process gets the hart, in whatever order the others fork,   *)
(* exit and wait for each other, and however often, unless the machine     *)
(* faults: pick_next overlooks none.                                       *)
ReadyRuns ==
  \A i \in Slot :
    state[i] = "Ready" ~> (state[i] = "Running" \/ power = "fault")

(* A wait that sleeps completes, if programs end: some child exits, wakes  *)
(* it, and it runs again and gets past its ecall, unless the machine       *)
(* faults.  Each child may itself have to wait for children of its own,    *)
(* and for as many of them as it likes to fork.                            *)
WaitCompletes ==
  \A i \in Slot :
    state[i] = "Blocked"
      ~> ((state[i] = "Running" /\ ~atWait[i]) \/ power = "fault")
=============================================================================
