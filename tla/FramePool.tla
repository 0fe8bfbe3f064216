------------------------------ MODULE FramePool ------------------------------
(***************************************************************************)
(* What the frame allocator promises its callers, without a free list, a   *)
(* bump pointer or reference words: a pool of frames, each held by some    *)
(* number of owners.                                                       *)
(***************************************************************************)
EXTENDS Naturals

CONSTANTS Frame,    \* the frames of the pool
          NoFrame,  \* stands for None
          MaxRun    \* bound: the longest contiguous run asked for

VARIABLES held,     \* held[f]: how many owners frame f has
          result    \* the last call and what it returned

vars == <<held, result>>

Free(f) == held[f] = 0
Run(f, n) == f .. f + n - 1
Void == [op |-> "void", ret |-> NoFrame]

Init == held = [f \in Frame |-> 0] /\ result = Void

(* A frame handed out had no owner, and now has one.                       *)
AllocFrame ==
  \E f \in Frame :
    /\ Free(f)
    /\ held' = [held EXCEPT ![f] = 1]
    /\ result' = [op |-> "alloc_frame", ret |-> f]

(* An allocation fails only when every frame is owned.                     *)
AllocNone ==
  /\ \A f \in Frame : ~Free(f)
  /\ result' = [op |-> "alloc_frame", ret |-> NoFrame]
  /\ UNCHANGED held

(* A contiguous run had no owner at all.                                   *)
AllocContiguous(n) ==
  \E f \in Frame :
    /\ Run(f, n) \subseteq Frame
    /\ \A g \in Run(f, n) : Free(g)
    /\ held' = [g \in Frame |-> IF g \in Run(f, n) THEN 1 ELSE held[g]]
    /\ result' = [op |-> "alloc_contiguous_frames", ret |-> f]

(* Nothing is promised about when a contiguous run can be had.             *)
ContiguousNone ==
  /\ result' = [op |-> "alloc_contiguous_frames", ret |-> NoFrame]
  /\ UNCHANGED held

Share(f) ==
  /\ ~Free(f)
  /\ held' = [held EXCEPT ![f] = @ + 1]
  /\ result' = Void

Release(f) ==
  /\ ~Free(f)
  /\ held' = [held EXCEPT ![f] = @ - 1]
  /\ result' = Void

Use == result' = Void /\ UNCHANGED held   \* an owner writes to its frame

Next ==
  \/ AllocFrame \/ AllocNone
  \/ \E n \in 1 .. MaxRun : AllocContiguous(n)
  \/ ContiguousNone
  \/ \E f \in Frame : Share(f) \/ Release(f)
  \/ Use

Spec == Init /\ [][Next]_vars
=============================================================================
