---------------------------- MODULE UserContexts ----------------------------
(***************************************************************************)
(* What a program may rely on about its registers: they are its own.  Only *)
(* its own instructions change them, and the return of a system call,      *)
(* which puts the result in a0 and continues after the ecall.  Interrupts, *)
(* page faults that are repaired and the processes that ran in between     *)
(* leave no trace; a wait that has to sleep is called again from the same  *)
(* registers; a child starts as a copy of its parent, after the fork, with *)
(* zero in a0.                                                             *)
(***************************************************************************)
EXTENDS Integers

CONSTANTS Proc, Entry, UserState, Result, AfterCall(_, _), Zero

VARIABLES
  ctx,    \* ctx[i]: registers and program counter of process slot i
  doing,  \* "user", "call" (in the kernel on its behalf) or "done"
  owed,   \* the result of the finished system call
  hart,   \* the process that has the hart
  again   \* again[i]: i is to repeat the call in which it went to sleep

Init ==
  /\ ctx[0] = Entry
  /\ doing = [i \in Proc |-> "user"]

(* Nothing but slot i's registers and activity changes.                    *)
Only(i) == \A k \in Proc \ {i} : ctx'[k] = ctx[k] /\ doing'[k] = doing[k]

Compute(i) ==
  /\ hart = i /\ hart' = i
  /\ ~again[i] /\ ~again'[i]
  /\ doing[i] = "user" /\ doing'[i] = "user"
  /\ ctx'[i] \in UserState
  /\ Only(i)

Call(i) ==
  /\ hart = i
  /\ doing[i] = "user" /\ doing'[i] = "call"
  /\ ctx'[i] = ctx[i]
  /\ Only(i)

Serve(i) ==
  /\ doing[i] = "call" /\ doing'[i] = "done"
  /\ owed' \in Result
  /\ ctx'[i] = ctx[i]
  /\ Only(i)

Fork(i, j) ==
  /\ doing[i] = "call" /\ doing'[i] = "done"
  /\ owed' \in Result \ {Zero}
  /\ ctx'[j] = AfterCall(ctx[i], Zero)
  /\ \A k \in Proc \ {j} : ctx'[k] = ctx[k]
  /\ \A k \in Proc \ {i} : doing'[k] = doing[k]

Return(i) ==
  /\ doing[i] = "done" /\ doing'[i] = "user"
  /\ ctx'[i] = AfterCall(ctx[i], owed)
  /\ Only(i)

(* The call ends without a result: exit, or a wait to be called again.     *)
Leave(i) ==
  /\ doing[i] = "call" /\ doing'[i] = "user"
  /\ ctx'[i] = ctx[i]
  /\ Only(i)

Next ==
  \E i \in Proc :
    \/ Compute(i) \/ Call(i) \/ Serve(i) \/ Return(i) \/ Leave(i)
    \/ \E j \in Proc \ {i} : Fork(i, j)

Spec == Init /\ [][Next]_<<ctx, doing>>
=============================================================================
