--------------------------- MODULE FrameAllocator ---------------------------
(***************************************************************************)
(* The physical frame allocator, mm/frame.rs: a bump pointer, a free list  *)
(* threaded through the first word of the free frames themselves, and one  *)
(* reference word per frame.  Addresses are frame numbers (address >> 12), *)
(* and 0, which is not RAM, ends the list.                                 *)
(*                                                                         *)
(* The callers are part of the model as far as they matter: each frame has *)
(* a number of owners, an owner may write to its frame, and releases what  *)
(* it owns once.                                                           *)
(***************************************************************************)
EXTENDS Integers, Sequences

CONSTANTS
  RAM_BASE,     \* first frame of RAM
  RAM_FRAMES,   \* RAM_SIZE / 4096
  FIRST_FRAME,  \* first whole frame after the kernel image
  RefModulus,   \* 2^32: FRAME_REFS holds AtomicU32
  MaxOwners,    \* bound: owners a frame has at the same time
  MaxRun        \* bound: pages asked of alloc_contiguous_frames

RAM_END == RAM_BASE + RAM_FRAMES
Ram == RAM_BASE .. RAM_END - 1
Frame == FIRST_FRAME .. RAM_END - 1   \* what is ever handed out
NoFrame == 0

ASSUME RamAssumption ==
  /\ RAM_BASE \in Nat \ {0}
  /\ RAM_FRAMES \in Nat
  /\ FIRST_FRAME \in RAM_BASE .. RAM_END
ASSUME RefsAssumption ==
  /\ RefModulus \in Nat
  /\ MaxOwners \in Nat \ {0}
  /\ 1 < RefModulus
  /\ MaxOwners < RefModulus
ASSUME RunAssumption == MaxRun \in Nat

VARIABLES
  nextFrame,  \* NEXT_FRAME
  head,       \* FREE_LIST_HEAD
  word,       \* word[f]: the first word of frame f's memory
  refs,       \* FRAME_REFS
  result,     \* the last call and what it returned
  held,       \* history: how many owners frame f has
  freeStack   \* history: the frames freed and not yet reused, last on top

vars == <<nextFrame, head, word, refs, result, held, freeStack>>

Word == {NoFrame} \cup Ram

TypeOK ==
  /\ nextFrame \in FIRST_FRAME .. RAM_END
  /\ head \in {NoFrame} \cup Frame
  /\ word \in [Ram -> Word]
  /\ refs \in [Ram -> 0 .. RefModulus - 1]
  /\ result \in [op : {"void", "alloc_frame", "alloc_contiguous_frames"},
                 ret : {NoFrame} \cup Frame]
  /\ held \in [Frame -> 0 .. MaxOwners]
  /\ freeStack \in Seq(Frame)

Void == [op |-> "void", ret |-> NoFrame]
Returns(op, f) == result' = [op |-> op, ret |-> f]

(* frame_init, on a zeroed BSS.                                            *)
Init ==
  /\ nextFrame = FIRST_FRAME
  /\ head = NoFrame
  /\ word = [f \in Ram |-> NoFrame]
  /\ refs = [f \in Ram |-> 0]
  /\ result = Void
  /\ held = [f \in Frame |-> 0]
  /\ freeStack = << >>

-----------------------------------------------------------------------------
Top(s) == s[Len(s)]
Pop(s) == SubSeq(s, 1, Len(s) - 1)

AllocFromList ==
  /\ head # NoFrame
  /\ head' = word[head]
  /\ refs' = [refs EXCEPT ![head] = 1]
  /\ Returns("alloc_frame", head)
  /\ held' = [held EXCEPT ![head] = 1]
  /\ freeStack' = Pop(freeStack)
  /\ UNCHANGED <<nextFrame, word>>

AllocFresh ==
  /\ head = NoFrame
  /\ nextFrame < RAM_END
  /\ nextFrame' = nextFrame + 1
  /\ refs' = [refs EXCEPT ![nextFrame] = 1]
  /\ Returns("alloc_frame", nextFrame)
  /\ held' = [held EXCEPT ![nextFrame] = 1]
  /\ UNCHANGED <<head, word, freeStack>>

(* Mutant: gives up when the fresh frames are used up, free list or not.   *)
AllocNoneEarly ==
  /\ nextFrame >= RAM_END
  /\ Returns("alloc_frame", NoFrame)
  /\ UNCHANGED <<nextFrame, head, word, refs, held, freeStack>>

AllocNone ==
  /\ head = NoFrame
  /\ nextFrame >= RAM_END
  /\ Returns("alloc_frame", NoFrame)
  /\ UNCHANGED <<nextFrame, head, word, refs, held, freeStack>>

(* Mutants: only the first frame of the run gets its reference; NEXT_FRAME *)
(* is moved past one frame more than the run has.                          *)
AllocContiguousOneRef(pages) ==
  LET run == nextFrame .. nextFrame + pages - 1
  IN  /\ pages # 0
      /\ nextFrame + pages <= RAM_END
      /\ nextFrame' = nextFrame + pages
      /\ refs' = [refs EXCEPT ![nextFrame] = 1]
      /\ Returns("alloc_contiguous_frames", nextFrame)
      /\ held' = [f \in Frame |-> IF f \in run THEN 1 ELSE held[f]]
      /\ UNCHANGED <<head, word, freeStack>>
AllocContiguousSkips(pages) ==
  LET run == nextFrame .. nextFrame + pages - 1
  IN  /\ pages # 0
      /\ nextFrame + pages < RAM_END
      /\ nextFrame' = nextFrame + pages + 1
      /\ refs' = [f \in Ram |-> IF f \in run THEN 1 ELSE refs[f]]
      /\ Returns("alloc_contiguous_frames", nextFrame)
      /\ held' = [f \in Frame |-> IF f \in run THEN 1 ELSE held[f]]
      /\ UNCHANGED <<head, word, freeStack>>

(* alloc_contiguous_frames takes fresh frames only, never the free list.   *)
AllocContiguous(pages) ==
  LET run == nextFrame .. nextFrame + pages - 1
  IN  /\ pages # 0
      /\ nextFrame + pages <= RAM_END
      /\ nextFrame' = nextFrame + pages
      /\ refs' = [f \in Ram |-> IF f \in run THEN 1 ELSE refs[f]]
      /\ Returns("alloc_contiguous_frames", nextFrame)
      /\ held' = [f \in Frame |-> IF f \in run THEN 1 ELSE held[f]]
      /\ UNCHANGED <<head, word, freeStack>>

ContiguousNone(pages) ==
  /\ pages = 0 \/ nextFrame + pages > RAM_END
  /\ Returns("alloc_contiguous_frames", NoFrame)
  /\ UNCHANGED <<nextFrame, head, word, refs, held, freeStack>>

IncRef(f) ==
  /\ held[f] \in 1 .. MaxOwners - 1
  /\ refs' = [refs EXCEPT ![f] = (@ + 1) % RefModulus]
  /\ held' = [held EXCEPT ![f] = @ + 1]
  /\ result' = Void
  /\ UNCHANGED <<nextFrame, head, word, freeStack>>

(* Mutant: the link is not written into the frame.                         *)
PushFreeNoLink(f, rs) ==
  /\ head' = f
  /\ refs' = [rs EXCEPT ![f] = 0]
  /\ freeStack' = Append(freeStack, f)
  /\ UNCHANGED word

(* free_frame, given the reference words as its caller left them.          *)
PushFree(f, rs) ==
  /\ word' = [word EXCEPT ![f] = head]
  /\ head' = f
  /\ refs' = [rs EXCEPT ![f] = 0]
  /\ freeStack' = Append(freeStack, f)

FreeFrame(f) ==   \* page tables, kernel stacks, an unused new frame
  /\ held[f] = 1
  /\ PushFree(f, refs)
  /\ held' = [held EXCEPT ![f] = 0]
  /\ result' = Void
  /\ UNCHANGED nextFrame

DecRef(f) ==
  LET rs == [refs EXCEPT ![f] = (@ - 1) % RefModulus]
  IN  /\ held[f] > 0
      /\ \/ refs[f] = 1 /\ PushFree(f, rs)
         \/ /\ refs[f] # 1
            /\ refs' = rs
            /\ UNCHANGED <<head, word, freeStack>>
      /\ held' = [held EXCEPT ![f] = @ - 1]
      /\ result' = Void
      /\ UNCHANGED nextFrame

(* An owner stores any value in the word the free list would use.          *)
OwnerStore(f, w) ==
  /\ held[f] > 0
  /\ word' = [word EXCEPT ![f] = w]
  /\ result' = Void
  /\ UNCHANGED <<nextFrame, head, refs, held, freeStack>>

Next ==
  \/ AllocFromList \/ AllocFresh \/ AllocNone
  \/ \E n \in 0 .. MaxRun : AllocContiguous(n) \/ ContiguousNone(n)
  \/ \E f \in Frame : IncRef(f) \/ DecRef(f) \/ FreeFrame(f)
  \/ \E f \in Frame, w \in Word : OwnerStore(f, w)

Spec == Init /\ [][Next]_vars

-----------------------------------------------------------------------------
FreeListInMemory ==
  /\ head = IF freeStack = << >> THEN NoFrame ELSE Top(freeStack)
  /\ \A i \in 1 .. Len(freeStack) :
       word[freeStack[i]] = IF i = 1 THEN NoFrame ELSE freeStack[i - 1]

FreeListUnowned ==
  /\ \A i, j \in 1 .. Len(freeStack) :
       freeStack[i] = freeStack[j] => i = j
  /\ \A i \in 1 .. Len(freeStack) : held[freeStack[i]] = 0

(* The list in memory is the stack of freed frames: from FREE_LIST_HEAD    *)
(* each free frame's first word leads to the one freed before it and the   *)
(* last holds 0, whatever owners stored in their frames.  No frame is on   *)
(* the list twice, and none that is on it has an owner.                    *)
FreeListIntact == FreeListInMemory /\ FreeListUnowned

(* No frame is lost: one below NEXT_FRAME is on the list or has an owner,  *)
(* and those from NEXT_FRAME on were never handed out.                     *)
NoFrameLost ==
  \A f \in Frame :
    IF f < nextFrame
    THEN held[f] = 0 => \E i \in 1 .. Len(freeStack) : freeStack[i] = f
    ELSE held[f] = 0 /\ \A i \in 1 .. Len(freeStack) : freeStack[i] # f

(* The reference word counts the owners, so get_ref tells a shared frame   *)
(* from one that is not.                                                   *)
RefsCountOwners == \A f \in Frame : refs[f] = held[f]

(* The allocator does what FramePool promises.                             *)
Pool == INSTANCE FramePool
PoolSpec == Pool!Spec

(* "fork: no frames for kernel stack" (syscall.rs:564) and "no frames for  *)
(* init kernel stack" (main.rs:576): alloc_contiguous_frames returns None  *)
(* for a run the model asks for only when no such run of frames is free.   *)
ContiguousNoneMeansNoFrames ==
  [][\A n \in 1 .. MaxRun : ContiguousNone(n) =>
       ~\E f \in Frame : /\ f + n <= RAM_END
                         /\ \A g \in f .. f + n - 1 : held[g] = 0]_vars
=============================================================================
