------------------------ MODULE FrameAllocatorProofs ------------------------
(***************************************************************************)
(* Proofs about FrameAllocator, for any amount of RAM, any number of       *)
(* owners the reference words can count and any length of run.  The four   *)
(* properties are inductive together and only together: the free list      *)
(* survives an owner's store because no frame on it has an owner, it has   *)
(* no owner because the reference word told dec_ref so, and a fresh frame  *)
(* is not on it because what is on it lies below NEXT_FRAME.               *)
(***************************************************************************)
EXTENDS FrameAllocator, SequenceTheorems, TLAPS

(* The inductive invariant.                                                *)
IInv ==
  /\ TypeOK
  /\ FreeListInMemory
  /\ FreeListUnowned
  /\ NoFrameLost
  /\ RefsCountOwners

-----------------------------------------------------------------------------
(* The frames that are handed out are RAM, and none of them is 0.          *)
LEMMA FrameFacts ==
  /\ RAM_END \in Nat /\ FIRST_FRAME \in Nat /\ RAM_BASE \in Nat
  /\ FIRST_FRAME <= RAM_END
  /\ Frame \subseteq Ram /\ Frame \subseteq Nat
  /\ NoFrame \notin Frame
BY RamAssumption DEF Frame, Ram, RAM_END, NoFrame

(* Taking the top off the stack of free frames.                            *)
LEMMA PopFacts ==
  ASSUME NEW S, NEW s \in Seq(S), s # << >>
  PROVE  /\ Len(s) \in Nat \ {0}
         /\ Top(s) \in S
         /\ Pop(s) \in Seq(S)
         /\ Len(Pop(s)) = Len(s) - 1
         /\ \A i \in 1 .. Len(s) - 1 : Pop(s)[i] = s[i]
         /\ Pop(s) # << >> => Top(Pop(s)) = s[Len(s) - 1]
         /\ Pop(s) = << >> => Len(s) = 1
<1>1. Len(s) \in Nat \ {0}
  OBVIOUS
<1>2. /\ Pop(s) \in Seq(S)
      /\ Len(Pop(s)) = Len(s) - 1
      /\ \A i \in 1 .. Len(s) - 1 : Pop(s)[i] = s[i]
  <2> DEFINE n == Len(s) - 1
  <2>1. n \in Nat /\ Len(s) = n + 1 /\ \A i \in 1 .. n : s[i] \in S
    BY <1>1
  <2>2. Pop(s) = SubSeq(s, 1, n)
    BY DEF Pop
  <2> HIDE DEF n
  <2>3. SubSeq(s, 1, n) \in Seq(S)
    BY <2>1, SubSeqProperties
  <2>4. Len(SubSeq(s, 1, n)) = n
    BY <2>1, SubSeqProperties
  <2>5. \A i \in 1 .. n : SubSeq(s, 1, n)[i] = s[i]
    BY <2>1, SubSeqProperties
  <2>6. QED
    BY <2>2, <2>3, <2>4, <2>5 DEF n
<1>3. QED
  BY <1>1, <1>2 DEF Top

(* Putting a frame on top of it.                                           *)
LEMMA PushFacts ==
  ASSUME NEW S, NEW s \in Seq(S), NEW f \in S
  PROVE  /\ Append(s, f) \in Seq(S)
         /\ Append(s, f) # << >>
         /\ Len(s) \in Nat
         /\ Len(Append(s, f)) = Len(s) + 1
         /\ \A i \in 1 .. Len(s) : Append(s, f)[i] = s[i] /\ s[i] \in S
         /\ Append(s, f)[Len(s) + 1] = f
         /\ Top(Append(s, f)) = f
BY DEF Top

(* Where the frames on the list lie, and what FREE_LIST_HEAD tells of it.  *)
LEMMA ListFacts ==
  ASSUME IInv
  PROVE  /\ Len(freeStack) \in Nat
         /\ \A i \in 1 .. Len(freeStack) :
              freeStack[i] \in Frame /\ freeStack[i] < nextFrame
         /\ head = NoFrame => freeStack = << >>
         /\ head # NoFrame => /\ freeStack # << >> /\ head \in Frame
                              /\ head = freeStack[Len(freeStack)]
<1>1. freeStack \in Seq(Frame) /\ nextFrame \in Nat
  BY FrameFacts DEF IInv, TypeOK
<1>2. Len(freeStack) \in Nat /\ \A i \in 1 .. Len(freeStack) : freeStack[i] \in Frame
  BY <1>1
<1>3. \A i \in 1 .. Len(freeStack) : freeStack[i] < nextFrame
  BY Zenon, <1>1, <1>2, FrameFacts DEF IInv, NoFrameLost
<1>4. freeStack # << >> => Top(freeStack) \in Frame
  BY <1>1, PopFacts
<1>5. QED
  BY <1>2, <1>3, <1>4, FrameFacts DEF IInv, FreeListInMemory, Top

-----------------------------------------------------------------------------
(* frame_init establishes the invariant.                                   *)
LEMMA InitIInv == Init => IInv
<1> SUFFICES ASSUME Init PROVE IInv
  OBVIOUS
<1>1. Len(freeStack) = 0 /\ freeStack \in Seq(Frame)
  BY DEF Init
<1>2. TypeOK
  BY <1>1, FrameFacts, RefsAssumption DEF Init, TypeOK, Word, Void, RAM_END, Frame
<1>3. FreeListInMemory /\ FreeListUnowned /\ NoFrameLost /\ RefsCountOwners
  BY <1>1, FrameFacts
     DEF Init, FreeListInMemory, FreeListUnowned, NoFrameLost, RefsCountOwners, Frame
<1>4. QED
  BY <1>2, <1>3 DEF IInv

(* alloc_frame takes the head off the list: the next frame is in its word. *)
LEMMA AllocFromListStep ==
  ASSUME IInv, AllocFromList
  PROVE  IInv'
<1> DEFINE n == Len(freeStack)
<1>1. /\ TypeOK /\ FreeListInMemory /\ FreeListUnowned /\ NoFrameLost
      /\ RefsCountOwners /\ freeStack \in Seq(Frame)
  BY DEF IInv, TypeOK
<1>2. /\ n \in Nat \ {0} /\ freeStack # << >>
      /\ \A i \in 1 .. n : freeStack[i] \in Frame /\ freeStack[i] < nextFrame
      /\ head \in Frame /\ head = freeStack[n]
  BY ListFacts, PopFacts, <1>1 DEF AllocFromList
<1>3. /\ freeStack' \in Seq(Frame)
      /\ Len(freeStack') = n - 1
      /\ \A i \in 1 .. n - 1 : freeStack'[i] = freeStack[i]
      /\ freeStack' # << >> => Top(freeStack') = freeStack[n - 1]
      /\ freeStack' = << >> => n = 1
  BY Zenon, <1>1, <1>2, PopFacts DEF AllocFromList
<1>4. head' = IF n = 1 THEN NoFrame ELSE freeStack[n - 1]
  <2>1. word[freeStack[n]] = IF n = 1 THEN NoFrame ELSE freeStack[n - 1]
    <3>1. \A i \in 1 .. n : word[freeStack[i]] = IF i = 1 THEN NoFrame
                                                         ELSE freeStack[i - 1]
      BY <1>1 DEF FreeListInMemory
    <3> HIDE DEF n
    <3>2. n \in 1 .. n
      BY <1>2
    <3>3. QED
      BY <3>1, <3>2
  <2>2. QED
    BY <1>2, <2>1 DEF AllocFromList
<1>5. /\ held' = [held EXCEPT ![head] = 1] /\ refs' = [refs EXCEPT ![head] = 1]
      /\ nextFrame' = nextFrame /\ word' = word
      /\ result' = [op |-> "alloc_frame", ret |-> head]
  BY DEF AllocFromList, Returns
<1>6. \A i \in 1 .. n - 1 : freeStack[i] # head
  BY <1>1, <1>2 DEF FreeListUnowned
<1>7. n = 1 => freeStack' = << >>
  BY <1>3
<1> HIDE DEF n
<1>8. TypeOK'
  <2>1. nextFrame' \in FIRST_FRAME .. RAM_END /\ head' \in {NoFrame} \cup Frame
    BY <1>1, <1>2, <1>4, <1>5, FrameFacts DEF TypeOK
  <2>2. word' \in [Ram -> Word] /\ freeStack' \in Seq(Frame)
    BY <1>1, <1>3, <1>5 DEF TypeOK
  <2>3. /\ refs' \in [Ram -> 0 .. RefModulus - 1]
        /\ held' \in [Frame -> 0 .. MaxOwners]
    BY <1>1, <1>2, <1>5, FrameFacts, RefsAssumption DEF TypeOK
  <2>4. result' \in [op : {"void", "alloc_frame", "alloc_contiguous_frames"},
                     ret : {NoFrame} \cup Frame]
    BY <1>1, <1>2, <1>5 DEF TypeOK
  <2>5. QED
    BY <2>1, <2>2, <2>3, <2>4 DEF TypeOK
<1>9. FreeListInMemory'
  BY <1>1, <1>2, <1>3, <1>4, <1>5, <1>7 DEF FreeListInMemory, n
<1>10. FreeListUnowned'
  <2>1. \A i, j \in 1 .. n - 1 : freeStack'[i] = freeStack'[j] => i = j
    BY <1>1, <1>2, <1>3 DEF FreeListUnowned, n
  <2>2. \A i \in 1 .. n - 1 : held[freeStack[i]] = 0 /\ freeStack[i] \in Frame
    BY <1>1, <1>2 DEF FreeListUnowned, n
  <2>3. \A i \in 1 .. n - 1 : held'[freeStack'[i]] = 0
    BY <1>1, <1>3, <1>5, <1>6, <2>2 DEF TypeOK
  <2>4. QED
    BY <1>3, <2>1, <2>3 DEF FreeListUnowned
<1>11. NoFrameLost'
  <2> SUFFICES ASSUME NEW f \in Frame
               PROVE  IF f < nextFrame
                      THEN held'[f] = 0 => \E i \in 1 .. n - 1 : freeStack'[i] = f
                      ELSE held'[f] = 0 /\ \A i \in 1 .. n - 1 : freeStack'[i] # f
    BY <1>3, <1>5 DEF NoFrameLost
  <2>1. CASE f = head
    BY <1>1, <1>2, <1>5, <2>1 DEF TypeOK
  <2>2. CASE f # head
    <3>1. held'[f] = held[f]
      BY <1>1, <1>5, <2>2 DEF TypeOK
    <3>2. IF f < nextFrame
          THEN held[f] = 0 => \E i \in 1 .. n : freeStack[i] = f
          ELSE held[f] = 0 /\ \A i \in 1 .. n : freeStack[i] # f
      BY <1>1 DEF NoFrameLost, n
    <3>3. \A i \in 1 .. n : freeStack[i] = f => i \in 1 .. n - 1
      BY <1>2, <2>2
    <3>4. QED
      BY <1>2, <1>3, <3>1, <3>2, <3>3
  <2>3. QED
    BY <2>1, <2>2
<1>12. RefsCountOwners'
  BY <1>1, <1>5, FrameFacts DEF RefsCountOwners, TypeOK
<1>13. QED
  BY <1>8, <1>9, <1>10, <1>11, <1>12 DEF IInv

(* alloc_frame takes a fresh frame, which was never on the list.           *)
LEMMA AllocFreshStep ==
  ASSUME IInv, AllocFresh
  PROVE  IInv'
<1> DEFINE n == Len(freeStack)
<1>1. /\ TypeOK /\ FreeListInMemory /\ FreeListUnowned /\ NoFrameLost
      /\ RefsCountOwners
  BY DEF IInv
<1>2. /\ n \in Nat /\ \A i \in 1 .. n : freeStack[i] \in Frame /\ freeStack[i] < nextFrame
      /\ nextFrame \in Frame /\ nextFrame \in Nat
  BY <1>1, ListFacts, FrameFacts DEF TypeOK, AllocFresh, Frame
<1>3. /\ held' = [held EXCEPT ![nextFrame] = 1]
      /\ refs' = [refs EXCEPT ![nextFrame] = 1]
      /\ nextFrame' = nextFrame + 1
      /\ word' = word /\ freeStack' = freeStack /\ head' = head
      /\ result' = [op |-> "alloc_frame", ret |-> nextFrame]
  BY DEF AllocFresh, Returns
<1>4. TypeOK'
  BY <1>1, <1>2, <1>3, FrameFacts, RefsAssumption DEF TypeOK, AllocFresh
<1>5. FreeListInMemory'
  BY <1>1, <1>3 DEF FreeListInMemory
<1>6. FreeListUnowned'
  BY <1>1, <1>2, <1>3 DEF FreeListUnowned, TypeOK
<1>7. NoFrameLost'
  <2> SUFFICES ASSUME NEW f \in Frame
               PROVE  IF f < nextFrame + 1
                      THEN held'[f] = 0 => \E i \in 1 .. n : freeStack[i] = f
                      ELSE held'[f] = 0 /\ \A i \in 1 .. n : freeStack[i] # f
    BY <1>3 DEF NoFrameLost
  <2>1. CASE f = nextFrame
    BY <1>1, <1>2, <1>3, <2>1 DEF TypeOK
  <2>2. CASE f # nextFrame
    <3>1. held'[f] = held[f] /\ f \in Nat
      BY <1>1, <1>3, <2>2, FrameFacts DEF TypeOK
    <3>2. QED
      BY <1>1, <1>2, <2>2, <3>1 DEF NoFrameLost
  <2>3. QED
    BY <2>1, <2>2
<1>8. RefsCountOwners'
  BY <1>1, <1>2, <1>3, FrameFacts DEF RefsCountOwners, TypeOK
<1>9. QED
  BY <1>4, <1>5, <1>6, <1>7, <1>8 DEF IInv

(* alloc_contiguous_frames takes a run of fresh frames.                    *)
LEMMA AllocContiguousStep ==
  ASSUME IInv, NEW k \in 0 .. MaxRun, AllocContiguous(k)
  PROVE  IInv'
<1> DEFINE n == Len(freeStack)
           run == nextFrame .. nextFrame + k - 1
<1>1. /\ TypeOK /\ FreeListInMemory /\ FreeListUnowned /\ NoFrameLost
      /\ RefsCountOwners /\ k \in Nat
  BY RunAssumption DEF IInv
<1>2. /\ n \in Nat /\ \A i \in 1 .. n : freeStack[i] \in Frame /\ freeStack[i] < nextFrame
      /\ nextFrame \in Nat
  BY <1>1, ListFacts, FrameFacts DEF TypeOK
<1>3. run \subseteq Frame /\ nextFrame \in run /\ nextFrame + k \in FIRST_FRAME .. RAM_END
  BY <1>1, <1>2, FrameFacts DEF AllocContiguous, TypeOK, Frame
<1>4. /\ held' = [f \in Frame |-> IF f \in run THEN 1 ELSE held[f]]
      /\ refs' = [f \in Ram |-> IF f \in run THEN 1 ELSE refs[f]]
      /\ nextFrame' = nextFrame + k
      /\ word' = word /\ freeStack' = freeStack /\ head' = head
      /\ result' = [op |-> "alloc_contiguous_frames", ret |-> nextFrame]
  BY DEF AllocContiguous, Returns
<1>5. TypeOK'
  <2>1. held' \in [Frame -> 0 .. MaxOwners]
    BY <1>1, <1>4, RefsAssumption DEF TypeOK
  <2>2. refs' \in [Ram -> 0 .. RefModulus - 1]
    BY <1>1, <1>4, RefsAssumption DEF TypeOK
  <2>3. QED
    BY <1>1, <1>3, <1>4, <2>1, <2>2 DEF TypeOK
<1>6. FreeListInMemory'
  BY <1>1, <1>4 DEF FreeListInMemory
<1>7. FreeListUnowned'
  BY <1>1, <1>2, <1>4 DEF FreeListUnowned
<1>8. NoFrameLost'
  <2> SUFFICES ASSUME NEW f \in Frame
               PROVE  IF f < nextFrame + k
                      THEN held'[f] = 0 => \E i \in 1 .. n : freeStack[i] = f
                      ELSE held'[f] = 0 /\ \A i \in 1 .. n : freeStack[i] # f
    BY <1>4 DEF NoFrameLost
  <2>1. f \in Nat /\ (f \in run <=> nextFrame <= f /\ f < nextFrame + k)
    BY <1>1, <1>2, FrameFacts
  <2>2. held'[f] = IF f \in run THEN 1 ELSE held[f]
    BY <1>4
  <2> HIDE DEF run
  <2>3. QED
    BY <1>1, <1>2, <2>1, <2>2 DEF NoFrameLost
<1>9. RefsCountOwners'
  BY <1>1, <1>4, FrameFacts DEF RefsCountOwners
<1>10. QED
  BY <1>5, <1>6, <1>7, <1>8, <1>9 DEF IInv

(* inc_ref adds an owner to a frame that has one.                          *)
LEMMA IncRefStep ==
  ASSUME IInv, NEW f \in Frame, IncRef(f)
  PROVE  IInv'
<1>1. /\ TypeOK /\ FreeListInMemory /\ FreeListUnowned /\ NoFrameLost
      /\ RefsCountOwners /\ f \in Ram /\ f \in Nat
  BY FrameFacts DEF IInv
<1>2. /\ held[f] \in 1 .. MaxOwners - 1
      /\ refs' = [refs EXCEPT ![f] = (refs[f] + 1) % RefModulus]
      /\ held' = [held EXCEPT ![f] = held[f] + 1]
      /\ nextFrame' = nextFrame /\ head' = head /\ word' = word
      /\ freeStack' = freeStack /\ result' = Void
  BY <1>1 DEF IncRef, TypeOK
<1>3. (refs[f] + 1) % RefModulus = held[f] + 1
  <2>1. refs[f] = held[f] /\ held[f] + 1 \in 0 .. RefModulus - 1
    BY <1>1, <1>2, RefsAssumption DEF RefsCountOwners, TypeOK
  <2>2. QED
    BY <2>1, RefsAssumption
<1>4. TypeOK'
  <2>1. held[f] + 1 \in 0 .. MaxOwners /\ held[f] + 1 \in 0 .. RefModulus - 1
    BY <1>2, RefsAssumption
  <2>2. QED
    BY <1>1, <1>2, <1>3, <2>1, FrameFacts DEF TypeOK, Void
<1>5. FreeListInMemory'
  BY <1>1, <1>2 DEF FreeListInMemory
<1>6. \A i \in 1 .. Len(freeStack) : freeStack[i] \in Frame /\ freeStack[i] # f
  BY <1>1, <1>2, ListFacts DEF FreeListUnowned
<1>7. FreeListUnowned'
  BY <1>1, <1>2, <1>6 DEF FreeListUnowned, TypeOK
<1>8. NoFrameLost'
  <2>1. held'[f] # 0 /\ held[f] # 0 /\ \A g \in Frame \ {f} : held'[g] = held[g]
    BY <1>1, <1>2 DEF TypeOK
  <2>2. QED
    BY <1>1, <1>2, <2>1 DEF NoFrameLost
<1>9. RefsCountOwners'
  BY <1>1, <1>2, <1>3, FrameFacts DEF RefsCountOwners, TypeOK
<1>10. QED
  BY <1>4, <1>5, <1>7, <1>8, <1>9 DEF IInv

(* free_frame: the only owner's frame goes on top of the list.             *)
LEMMA PushFreeStep ==
  ASSUME IInv, NEW f \in Frame, held[f] = 1,
         NEW rs \in [Ram -> 0 .. RefModulus - 1],
         \A g \in Frame \ {f} : rs[g] = refs[g],
         PushFree(f, rs), held' = [held EXCEPT ![f] = 0],
         result' = Void, nextFrame' = nextFrame
  PROVE  IInv'
<1> DEFINE n == Len(freeStack)
<1>1. /\ TypeOK /\ FreeListInMemory /\ FreeListUnowned /\ NoFrameLost
      /\ RefsCountOwners /\ freeStack \in Seq(Frame) /\ f \in Ram /\ f \in Nat
  BY FrameFacts DEF IInv, TypeOK
<1>2. /\ n \in Nat
      /\ \A i \in 1 .. n : /\ freeStack[i] \in Frame /\ freeStack[i] # f
                           /\ freeStack[i] < nextFrame
  BY <1>1, ListFacts DEF FreeListUnowned
<1>3. /\ freeStack' \in Seq(Frame) /\ freeStack' # << >>
      /\ Len(freeStack') = n + 1
      /\ \A i \in 1 .. n : freeStack'[i] = freeStack[i]
      /\ freeStack'[n + 1] = f
      /\ Top(freeStack') = f
  BY <1>1, PushFacts DEF PushFree
<1>4. /\ word' = [word EXCEPT ![f] = head] /\ head' = f
      /\ refs' = [rs EXCEPT ![f] = 0]
  BY DEF PushFree
<1>5. /\ \A i \in 1 .. n : word[freeStack[i]] = IF i = 1 THEN NoFrame
                                                ELSE freeStack[i - 1]
      /\ head = IF n = 0 THEN NoFrame ELSE freeStack[n]
  <2>1. n = 0 <=> freeStack = << >>
    BY <1>1
  <2>2. QED
    BY <1>1, <2>1 DEF FreeListInMemory, Top
<1>6. /\ \A i, j \in 1 .. n : freeStack[i] = freeStack[j] => i = j
      /\ \A i \in 1 .. n : held[freeStack[i]] = 0
  BY <1>1 DEF FreeListUnowned
<1>7. \A g \in Frame :
        IF g < nextFrame
        THEN held[g] = 0 => \E i \in 1 .. n : freeStack[i] = g
        ELSE held[g] = 0 /\ \A i \in 1 .. n : freeStack[i] # g
  BY <1>1 DEF NoFrameLost
<1>8. TypeOK'
  <2>1. word' \in [Ram -> Word] /\ head' \in {NoFrame} \cup Frame
    BY Zenon, <1>1, <1>4, FrameFacts DEF TypeOK, Word
  <2>2. refs' \in [Ram -> 0 .. RefModulus - 1] /\ held' \in [Frame -> 0 .. MaxOwners]
    BY <1>1, <1>4, RefsAssumption DEF TypeOK
  <2>3. result' \in [op : {"void", "alloc_frame", "alloc_contiguous_frames"},
                     ret : {NoFrame} \cup Frame]
    BY DEF Void
  <2>4. QED
    BY <1>1, <1>3, <2>1, <2>2, <2>3 DEF TypeOK
<1> HIDE DEF n
<1>9. FreeListInMemory'
  <2>1. \A i \in 1 .. n + 1 : word'[freeStack'[i]] = IF i = 1 THEN NoFrame
                                                     ELSE freeStack'[i - 1]
    <3>1. \A i \in 1 .. n : word'[freeStack'[i]] = word[freeStack[i]]
      BY <1>1, <1>2, <1>3, <1>4, FrameFacts DEF TypeOK
    <3>2. word'[freeStack'[n + 1]] = head
      BY <1>1, <1>3, <1>4 DEF TypeOK
    <3>3. \A i \in 1 .. n + 1 : i \in 1 .. n \/ i = n + 1
      BY <1>2
    <3>4. \A i \in 1 .. n + 1 : i # 1 => freeStack'[i - 1] = freeStack[i - 1]
      BY <1>2, <1>3
    <3>5. QED
      BY <1>2, <1>5, <3>1, <3>2, <3>3, <3>4
  <2>2. QED
    BY <1>3, <1>4, <2>1 DEF FreeListInMemory
<1>10. FreeListUnowned'
  <2>1. \A i, j \in 1 .. n + 1 : freeStack'[i] = freeStack'[j] => i = j
    BY <1>2, <1>3, <1>6
  <2>2. \A i \in 1 .. n + 1 : held'[freeStack'[i]] = 0
    BY <1>1, <1>2, <1>3, <1>6 DEF TypeOK
  <2>3. QED
    BY <1>3, <2>1, <2>2 DEF FreeListUnowned
<1>11. NoFrameLost'
  <2> SUFFICES ASSUME NEW g \in Frame
               PROVE  IF g < nextFrame
                      THEN held'[g] = 0 => \E i \in 1 .. n + 1 : freeStack'[i] = g
                      ELSE held'[g] = 0 /\ \A i \in 1 .. n + 1 : freeStack'[i] # g
    BY <1>3 DEF NoFrameLost
  <2>1. CASE g = f
    <3>1. f < nextFrame /\ n + 1 \in 1 .. n + 1
      BY <1>2, <1>7
    <3>2. QED
      BY <1>3, <2>1, <3>1
  <2>2. CASE g # f
    <3>1. held'[g] = held[g]
      BY <1>1, <2>2 DEF TypeOK
    <3>2. \A i \in 1 .. n : i \in 1 .. n + 1 /\ freeStack'[i] = freeStack[i]
      BY <1>2, <1>3
    <3>3. \A i \in 1 .. n + 1 : i \in 1 .. n \/ freeStack'[i] = f
      BY <1>2, <1>3
    <3>4. QED
      BY <1>7, <2>2, <3>1, <3>2, <3>3
  <2>3. QED
    BY <2>1, <2>2
<1>12. RefsCountOwners'
  BY <1>1, <1>4, FrameFacts DEF RefsCountOwners, TypeOK
<1>13. QED
  BY <1>8, <1>9, <1>10, <1>11, <1>12 DEF IInv

(* free_frame called on its own, for a frame that is never shared.         *)
LEMMA FreeFrameStep ==
  ASSUME IInv, NEW f \in Frame, FreeFrame(f)
  PROVE  IInv'
<1>1. refs \in [Ram -> 0 .. RefModulus - 1]
  BY DEF IInv, TypeOK
<1>2. QED
  BY Zenon, <1>1, PushFreeStep DEF FreeFrame

(* dec_ref frees exactly when the last owner lets go.                      *)
LEMMA DecRefStep ==
  ASSUME IInv, NEW f \in Frame, DecRef(f)
  PROVE  IInv'
<1> DEFINE rs == [refs EXCEPT ![f] = (refs[f] - 1) % RefModulus]
<1>1. /\ TypeOK /\ FreeListInMemory /\ FreeListUnowned /\ NoFrameLost
      /\ RefsCountOwners /\ f \in Ram
  BY FrameFacts DEF IInv
<1>2. /\ refs[f] = held[f] /\ held[f] \in 1 .. MaxOwners
      /\ held[f] - 1 \in 0 .. RefModulus - 1
  BY <1>1, RefsAssumption DEF DecRef, RefsCountOwners, TypeOK
<1>3. (refs[f] - 1) % RefModulus = held[f] - 1
  BY <1>2, RefsAssumption
<1>4. rs \in [Ram -> 0 .. RefModulus - 1] /\ \A g \in Frame \ {f} : rs[g] = refs[g]
  BY <1>1, <1>2, <1>3, FrameFacts DEF TypeOK
<1>5. /\ held' = [held EXCEPT ![f] = held[f] - 1]
      /\ result' = Void /\ nextFrame' = nextFrame
      /\ \/ refs[f] = 1 /\ PushFree(f, rs)
         \/ /\ refs[f] # 1 /\ refs' = rs
            /\ head' = head /\ word' = word /\ freeStack' = freeStack
  BY <1>1 DEF DecRef, TypeOK
<1>6. CASE refs[f] = 1
  <2>1. held' = [held EXCEPT ![f] = 0] /\ PushFree(f, rs)
    BY <1>2, <1>5, <1>6
  <2> HIDE DEF rs
  <2>2. QED
    BY Zenon, <1>2, <1>4, <1>5, <1>6, <2>1, PushFreeStep
<1>7. CASE refs[f] # 1
  <2>1. /\ refs' = [refs EXCEPT ![f] = held[f] - 1] /\ held[f] - 1 \in 1 .. MaxOwners
        /\ head' = head /\ word' = word /\ freeStack' = freeStack
    <3>1. rs = [refs EXCEPT ![f] = held[f] - 1]
      BY Zenon, <1>3
    <3> HIDE DEF rs
    <3>2. held[f] - 1 \in 1 .. MaxOwners
      BY <1>2, <1>7, RefsAssumption
    <3>3. QED
      BY <1>5, <1>7, <3>1, <3>2
  <2>2. TypeOK'
    BY <1>1, <1>2, <1>5, <2>1 DEF TypeOK, Void
  <2>3. FreeListInMemory'
    BY <1>1, <2>1 DEF FreeListInMemory
  <2>4. \A i \in 1 .. Len(freeStack) : freeStack[i] \in Frame /\ freeStack[i] # f
    BY <1>1, <1>2, ListFacts DEF FreeListUnowned
  <2>5. FreeListUnowned'
    BY <1>1, <1>5, <2>1, <2>4, SMTT(60) DEF FreeListUnowned, TypeOK
  <2>6. NoFrameLost'
    <3>1. held'[f] # 0 /\ held[f] # 0 /\ \A g \in Frame \ {f} : held'[g] = held[g]
      BY <1>1, <1>2, <1>5, <2>1 DEF TypeOK
    <3>2. QED
      BY <1>1, <1>5, <2>1, <3>1 DEF NoFrameLost
  <2>7. RefsCountOwners'
    BY <1>1, <1>5, <2>1, FrameFacts DEF RefsCountOwners, TypeOK
  <2>8. QED
    BY <2>2, <2>3, <2>5, <2>6, <2>7 DEF IInv
<1>8. QED
  BY <1>6, <1>7

(* An owner's store cannot touch the list: no frame on it has an owner.    *)
LEMMA OwnerStoreStep ==
  ASSUME IInv, NEW f \in Frame, NEW w \in Word, OwnerStore(f, w)
  PROVE  IInv'
<1>1. /\ TypeOK /\ FreeListInMemory /\ FreeListUnowned /\ NoFrameLost
      /\ RefsCountOwners
  BY DEF IInv
<1>2. /\ word' = [word EXCEPT ![f] = w] /\ nextFrame' = nextFrame /\ head' = head
      /\ refs' = refs /\ held' = held /\ freeStack' = freeStack /\ result' = Void
  BY DEF OwnerStore
<1>3. \A i \in 1 .. Len(freeStack) : freeStack[i] \in Frame /\ freeStack[i] # f
  BY <1>1, ListFacts DEF FreeListUnowned, OwnerStore, TypeOK
<1>4. TypeOK'
  BY Zenon, <1>1, <1>2 DEF TypeOK, Void
<1>5. FreeListInMemory'
  BY <1>1, <1>2, <1>3, FrameFacts DEF FreeListInMemory, TypeOK
<1>6. QED
  BY <1>1, <1>2, <1>4, <1>5
     DEF IInv, FreeListUnowned, NoFrameLost, RefsCountOwners

(* Calls that return None change nothing.                                  *)
LEMMA NoneStep ==
  ASSUME IInv, AllocNone \/ \E k \in 0 .. MaxRun : ContiguousNone(k)
  PROVE  IInv'
<1>1. /\ nextFrame' = nextFrame /\ head' = head /\ word' = word /\ refs' = refs
      /\ held' = held /\ freeStack' = freeStack
      /\ \E op \in {"alloc_frame", "alloc_contiguous_frames"} :
           result' = [op |-> op, ret |-> NoFrame]
  BY DEF AllocNone, ContiguousNone, Returns
<1>2. TypeOK'
  BY <1>1 DEF IInv, TypeOK
<1>3. FreeListInMemory' /\ FreeListUnowned'
  BY <1>1 DEF IInv, FreeListInMemory, FreeListUnowned
<1>4. NoFrameLost' /\ RefsCountOwners'
  BY <1>1 DEF IInv, NoFrameLost, RefsCountOwners
<1>5. QED
  BY <1>2, <1>3, <1>4 DEF IInv

(* Every call preserves the inductive invariant.                           *)
THEOREM Inductive == IInv /\ [Next]_vars => IInv'
<1> SUFFICES ASSUME IInv, [Next]_vars PROVE IInv'
  OBVIOUS
<1>1. CASE Next
  BY <1>1, AllocFromListStep, AllocFreshStep, AllocContiguousStep, IncRefStep,
     FreeFrameStep, DecRefStep, OwnerStoreStep, NoneStep DEF Next
<1>2. CASE UNCHANGED vars
  BY <1>2 DEF vars, IInv, TypeOK, FreeListInMemory, FreeListUnowned, NoFrameLost,
              RefsCountOwners
<1>3. QED
  BY <1>1, <1>2

(* The inductive invariant holds in every reachable state.                 *)
THEOREM Invariance == Spec => []IInv
BY InitIInv, Inductive, PTL DEF Spec

-----------------------------------------------------------------------------
(* The allocator's state keeps its shape; a frame it returns is RAM.       *)
THEOREM TypeCorrect == Spec => []TypeOK
BY Invariance, PTL DEF IInv

(* Reading the words of the free frames from FREE_LIST_HEAD on gives back  *)
(* the freed frames, in the order they were freed, none twice and none     *)
(* with an owner.                                                          *)
THEOREM FreeListSound == Spec => []FreeListIntact
<1>1. IInv => FreeListIntact
  BY DEF IInv, FreeListIntact
<1>2. QED
  BY <1>1, Invariance, PTL

(* A frame that was handed out and has no owner can be handed out again.   *)
THEOREM NoFrameLostHolds == Spec => []NoFrameLost
BY Invariance, PTL DEF IInv

(* The reference words count the owners.                                   *)
THEOREM RefsCountOwnersHolds == Spec => []RefsCountOwners
BY Invariance, PTL DEF IInv

(* The allocator implements FramePool: what alloc_frame returns had no     *)
(* owner, it returns None only when every frame has one, and nothing but   *)
(* the calls changes who owns what.                                        *)
THEOREM ImplementsPool == Spec => PoolSpec
<1>1. Init => Pool!Init
  BY DEF Init, Pool!Init, Void, Pool!Void
<1>2. ASSUME IInv, [Next]_vars PROVE [Pool!Next]_(Pool!vars)
  <2>1. /\ nextFrame \in Nat /\ nextFrame \in FIRST_FRAME .. RAM_END
        /\ NoFrameLost /\ held \in [Frame -> 0 .. MaxOwners]
    BY <1>2, FrameFacts DEF IInv, TypeOK
  <2>2. CASE AllocFromList
    <3>1. head \in Frame /\ held[head] = 0
      BY <1>2, <2>2, ListFacts DEF AllocFromList, IInv, FreeListUnowned
    <3>2. Pool!AllocFrame
      BY Zenon, <2>2, <3>1 DEF AllocFromList, Returns, Pool!AllocFrame, Pool!Free
    <3>3. QED
      BY <3>2 DEF Pool!Next
  <2>3. CASE AllocFresh
    <3>1. nextFrame \in Frame
      BY <2>1, <2>3, FrameFacts DEF AllocFresh, Frame
    <3>2. held[nextFrame] = 0
      BY <2>1, <3>1 DEF NoFrameLost
    <3>3. Pool!AllocFrame
      BY Zenon, <2>3, <3>1, <3>2 DEF AllocFresh, Returns, Pool!AllocFrame, Pool!Free
    <3>4. QED
      BY <3>3 DEF Pool!Next
  <2>4. CASE AllocNone
    <3>1. Len(freeStack) = 0
      BY <1>2, <2>4, ListFacts DEF AllocNone
    <3>2. \A f \in Frame : f < nextFrame
      BY <2>1, <2>4, FrameFacts DEF AllocNone, Frame
    <3>3. \A f \in Frame : held[f] # 0
      BY <2>1, <3>1, <3>2 DEF NoFrameLost
    <3>4. Pool!AllocNone
      BY <2>4, <3>3 DEF AllocNone, Returns, Pool!AllocNone, Pool!Free
    <3>5. QED
      BY <3>4 DEF Pool!Next
  <2>5. ASSUME NEW k \in 0 .. MaxRun, AllocContiguous(k)
        PROVE  Pool!Next
    <3> DEFINE run == nextFrame .. nextFrame + k - 1
    <3>1. k \in 1 .. MaxRun
      BY <2>5, RunAssumption DEF AllocContiguous
    <3>2. nextFrame \in Frame /\ run \subseteq Frame
      BY <2>1, <2>5, <3>1, RunAssumption, FrameFacts DEF AllocContiguous, Frame
    <3>3. \A g \in run : held[g] = 0
      BY <2>1, <3>1, <3>2 DEF NoFrameLost
    <3>4. /\ held' = [g \in Frame |-> IF g \in run THEN 1 ELSE held[g]]
          /\ result' = [op |-> "alloc_contiguous_frames", ret |-> nextFrame]
      BY <2>5 DEF AllocContiguous, Returns
    <3>5. run = Pool!Run(nextFrame, k)
      BY DEF Pool!Run
    <3> HIDE DEF run
    <3>6. Pool!AllocContiguous(k)
      BY <3>2, <3>3, <3>4, <3>5 DEF Pool!AllocContiguous, Pool!Free
    <3>7. QED
      BY <3>1, <3>6 DEF Pool!Next
  <2>6. ASSUME NEW k \in 0 .. MaxRun, ContiguousNone(k)
        PROVE  Pool!Next
    BY <2>6 DEF ContiguousNone, Returns, Pool!Next, Pool!ContiguousNone
  <2>7. ASSUME NEW f \in Frame, IncRef(f)
        PROVE  Pool!Next
    <3>1. Pool!Share(f)
      BY <2>1, <2>7 DEF IncRef, Pool!Share, Pool!Free, Void, Pool!Void
    <3>2. QED
      BY <3>1 DEF Pool!Next
  <2>8. ASSUME NEW f \in Frame, DecRef(f) \/ FreeFrame(f)
        PROVE  Pool!Next
    <3>1. held[f] # 0 /\ held' = [held EXCEPT ![f] = held[f] - 1] /\ result' = Void
      BY <2>1, <2>8 DEF DecRef, FreeFrame
    <3>2. Pool!Release(f)
      BY <3>1 DEF Pool!Release, Pool!Free, Void, Pool!Void
    <3>3. QED
      BY <3>2 DEF Pool!Next
  <2>9. ASSUME NEW f \in Frame, NEW w \in Word, OwnerStore(f, w)
        PROVE  Pool!Next
    BY <2>9 DEF OwnerStore, Pool!Next, Pool!Use, Void, Pool!Void
  <2>10. CASE UNCHANGED vars
    BY <2>10 DEF vars, Pool!vars
  <2>11. QED
    BY <1>2, <2>2, <2>3, <2>4, <2>5, <2>6, <2>7, <2>8, <2>9, <2>10 DEF Next
<1>3. QED
  BY <1>1, <1>2, Invariance, PTL DEF Spec, PoolSpec, Pool!Spec
=============================================================================
