---------------------------- MODULE KernelProofs ----------------------------
(***************************************************************************)
(* Proofs about Kernel, for any number of processes, pages and frames.     *)
(* What sharing frames by copy-on-write does to reference counts and       *)
(* contents is proved in SharedFrames and CopyOnWrite, and what handlers   *)
(* do with frames in KernelFrames; here it is shown that the handlers      *)
(* share them in that way, so implement the private memories of            *)
(* PrivateMemory, and that the allocator's books always balance.  What     *)
(* holds of the process table is taken from ProcessTableProofs: every      *)
(* handler is a step of the table or leaves it alone.                      *)
(***************************************************************************)
EXTENDS KernelFrames, CopyOnWrite

(* The handlers.  Each keeps the invariant and takes a step of the private *)
(* memories.                                                               *)

(* What the handlers that only store have in common.                       *)
LEMMA StoreDone ==
  ASSUME MemoryInv, TableFacts, NoneEmptied, StillThere(current), NEW W, NEW v,
         Fill(W, v), stored' \in StoreNote,
         SoundState(pt', refs', leaked', data'), Elsewhere(pt, pt', {current}),
         Stores(pt, data, pt', data', current, W, v)
  PROVE  MemoryInv' /\ Private!Store(current)
<1>1. current \in Slot
  BY DEF TableFacts
<1>2. MemoryInv'
  BY EmptyKept DEF MemoryInv
<1>3. Private!OthersKeep({current})
  BY OthersKeepMemory DEF Stores
<1>4. Private!Stored(current)
  BY <1>1, StoredMemory DEF Stores
<1>5. QED
  BY <1>2, <1>3, <1>4 DEF Private!Store

(* Breaking copy-on-write on some pages and filling some of these.         *)
LEMMA MakeWritableStep ==
  ASSUME MemoryInv, TableFacts, PT!InUser, NEW B \in SUBSET Page,
         NEW W \in SUBSET B, \A p \in W : CanWrite(p), NEW v \in Value,
         NEW g \in CowFrames(B), MakeWritable(B, g, W, v), Fills(W, v),
         UNCHANGED <<state, leaked>>
  PROVE  MemoryInv' /\ Private!Store(current)
<1> DEFINE T == AfterCow(B, g)
           C == CowPages(B)
           X == SharedPages(B)
<1>1. SoundState(pt, refs, leaked, data) /\ current \in Slot
  BY DEF MemoryInv, TableFacts
<1>2. /\ Replaced(pt, pt', current, T) /\ refs' = RefsAfterCow(B, g)
      /\ StoredOver(B, g, T, W, v, data')
  BY DEF MakeWritable, Replaced, StoredOver
<1>3. /\ CowBroken(pt, refs, current, T, C, X, g)
      /\ refs' = RefsBroken(pt, refs, current, X, g)
      /\ CanStore(T, W) /\ OnFrames(data')
      /\ DataBroken(pt, current, T, X, g, W, v, data, data')
  BY <1>2, MadeWritable
<1> HIDE DEF T, C, X
<1>4. /\ SoundState(pt', refs', leaked, data')
      /\ Stores(pt, data, pt', data', current, W, v)
      /\ Elsewhere(pt, pt', {current})
  BY <1>1, <1>2, <1>3, CowStep
<1>5. W \in SUBSET Page
  OBVIOUS
<1>6. Fill(W, v) /\ stored' \in StoreNote
  BY <1>5, FillsFill
<1>7. NoneEmptied /\ StillThere(current)
  BY TableUnchanged
<1>8. QED
  BY <1>4, <1>6, <1>7, StoreDone

(* A store by the program to a page it can write.                          *)
LEMMA UserStoreStep ==
  ASSUME MemoryInv, TableFacts, NEW p \in Page, NEW v \in Value, UserStore(p, v)
  PROVE  MemoryInv' /\ Private!Store(current)
<1> DEFINE T == pt[current]
           E == {}
           W == {p}
<1>1. SoundState(pt, refs, leaked, data) /\ current \in Slot
  BY DEF MemoryInv, TableFacts
<1>2. /\ pt \in [Slot -> [Page -> PTE]] /\ refs \in [Frame -> Nat]
      /\ data \in [Frame -> Value]
      /\ \A q \in Page : T[q].u => T[q].v /\ T[q].f \in Frame
  BY <1>1 DEF SoundState, Sound, LeavesTyped
<1>3. UNCHANGED <<pt, refs, leaked, state>> /\ PT!InUser
  BY DEF UserStore, procVars
<1>4. /\ T[p].f \in Frame /\ data' = [data EXCEPT ![T[p].f] = v]
  BY <1>2 DEF UserStore
<1>5. CowBroken(pt, refs, current, T, E, E, T)
  BY <1>1, <1>2 DEF CowBroken
<1>6. Replaced(pt, pt', current, T)
  BY <1>1, <1>2, <1>3 DEF Replaced
<1>7. refs' = RefsBroken(pt, refs, current, E, T)
  BY <1>2, <1>3 DEF RefsBroken, FramesOf
<1>8. CanStore(T, W)
  BY <1>2 DEF CanStore, UserStore, UserPagesOf
<1>9. DataBroken(pt, current, T, E, T, W, v, data, data')
  BY <1>2, <1>4 DEF DataBroken
<1>10. OnFrames(data')
  BY Zenon, <1>2, <1>4 DEF OnFrames
<1>11. W \in SUBSET Page /\ Fills(W, v)
  BY DEF UserStore
<1> HIDE DEF T, E, W
<1>12. /\ SoundState(pt', refs', leaked, data')
       /\ Stores(pt, data, pt', data', current, W, v)
       /\ Elsewhere(pt, pt', {current})
  BY <1>1, <1>5, <1>6, <1>7, <1>8, <1>9, <1>10, CowStep
<1>13. Fill(W, v) /\ stored' \in StoreNote
  BY <1>11, FillsFill
<1>14. NoneEmptied /\ StillThere(current)
  BY <1>3, TableUnchanged
<1>15. QED
  BY <1>3, <1>12, <1>13, <1>14, StoreDone

(* A write fault on a copy-on-write page.                                  *)
LEMMA CowFaultStep ==
  ASSUME MemoryInv, TableFacts, NEW p \in Page, CowFault(p)
  PROVE  MemoryInv' /\ Private!Store(current)
<1> DEFINE B == {p}
           W == {}
<1>1. PICK g \in CowFrames(B) : MakeWritable(B, g, W, 0)
  BY DEF CowFault
<1>2. /\ B \in SUBSET Page /\ W \in SUBSET B /\ \A q \in W : CanWrite(q)
      /\ 0 \in Value
  BY MemoryAssumption
<1>3. PT!InUser /\ Fills(W, 0) /\ UNCHANGED <<state, leaked>>
  BY DEF CowFault, procVars
<1> HIDE DEF B, W
<1>4. QED
  BY <1>1, <1>2, <1>3, MakeWritableStep

(* The kernel's copies into a user buffer.                                 *)
LEMMA CopyOutStep ==
  ASSUME MemoryInv, TableFacts, NEW B0 \in SUBSET Page, NEW v \in Value,
         CopyOut(B0, v)
  PROVE  MemoryInv' /\ Private!Store(current)
<1> DEFINE bad == {p \in B0 : ~CanWrite(p)}
           B == {p \in B0 : \A b \in bad : p < b}
           W == IF bad = {} THEN B0 ELSE {}
<1>1. PICK g \in CowFrames(B) : MakeWritable(B, g, W, v)
  BY Zenon DEF CopyOut
<1>2. PT!InUser /\ Fills(W, v) /\ UNCHANGED <<state, leaked>>
  BY DEF CopyOut, procVars
<1>3. B \in SUBSET Page
  OBVIOUS
<1>4. W \in SUBSET B /\ \A q \in W : CanWrite(q)
  <2>1. CASE bad = {}
    BY <2>1
  <2>2. CASE bad # {}
    BY <2>2
  <2>3. QED
    BY <2>1, <2>2
<1> HIDE DEF B, W
<1>5. QED
  BY <1>1, <1>2, <1>3, <1>4, MakeWritableStep

(* A step that leaves memory alone.                                        *)
LEMMA QuietStep ==
  ASSUME MemoryInv, TableFacts, NoneEmptied,
         UNCHANGED <<pt, refs, data, leaked>>, Fills({}, 0)
  PROVE  MemoryInv' /\ Private!Store(current)
<1>1. current \in Slot /\ SoundState(pt', refs', leaked', data')
  BY DEF MemoryInv, TableFacts
<1>2. Fill({}, 0) /\ stored' \in StoreNote
  BY FillsNothing
<1>3. EmptySlotsEmpty'
  BY DEF MemoryInv, EmptySlotsEmpty, NoneEmptied
<1>4. Private!OthersKeep({current})
  BY OthersKeepMemory DEF OthersSee
<1>5. StoresIn(pt[current], data, pt'[current], data', {}, 0)
  BY DEF StoresIn, Read
<1>6. Private!Stored(current)
  BY <1>1, <1>2, <1>5, StoredMemory
<1>7. QED
  BY <1>1, <1>2, <1>3, <1>4, <1>6 DEF MemoryInv, Private!Store

(* brk and mmap of a page.                                                 *)
LEMMA MapZeroedStep ==
  ASSUME MemoryInv, TableFacts, NEW p \in Page, NEW w \in BOOLEAN,
         MapZeroed(p, w)
  PROVE  MemoryInv' /\ Private!MapZeroed(current)
<1>1. SoundState(pt, refs, leaked, data) /\ current \in Slot
  BY DEF MemoryInv, TableFacts
<1>2. pt \in [Slot -> [Page -> PTE]] /\ data \in [Frame -> Value]
  BY <1>1 DEF SoundState, Sound, LeavesTyped
<1>3. PICK f \in FreeFrames :
        /\ pt' = [pt EXCEPT ![current][p] = Leaf(f, w, FALSE, TRUE)]
        /\ refs' = [refs EXCEPT ![f] = 1]
        /\ data' = [data EXCEPT ![f] = 0]
  BY Zenon DEF MapZeroed
<1> DEFINE T == [pt[current] EXCEPT ![p] = Leaf(f, w, FALSE, TRUE)]
<1>4. f \in Frame /\ refs[f] = 0 /\ 0 \in Value
  BY MemoryAssumption DEF FreeFrames
<1>5. Added(pt, current, T, p, f)
  <2>1. ~pt[current][p].v /\ pt[current] \in [Page -> PTE]
    BY <1>1, <1>2 DEF MapZeroed
  <2>2. Leaf(f, w, FALSE, TRUE) \in PTE
    BY <1>4 DEF Leaf, PTE
  <2>3. T \in [Page -> PTE] /\ T[p] = Leaf(f, w, FALSE, TRUE)
        /\ \A q \in Page \ {p} : T[q] = pt[current][q]
    BY Zenon, <2>1, <2>2
  <2> HIDE DEF T
  <2>4. QED
    BY <2>1, <2>3 DEF Added, Leaf
<1>6. Replaced(pt, pt', current, T)
  BY <1>1, <1>2, <1>3 DEF Replaced
<1>7. refs' = RefsAdded(refs, f)
  BY <1>3 DEF RefsAdded
<1>8. OneFilled(data, data', f, 0)
  BY <1>2, <1>3, <1>4 DEF OneFilled
<1> HIDE DEF T
<1>9. /\ SoundState(pt', refs', leaked, data')
      /\ Maps(pt, data, pt', data', current, p, 0)
      /\ Elsewhere(pt, pt', {current})
  BY <1>1, <1>4, <1>5, <1>6, <1>7, <1>8, AddStep
<1>10. PT!InUser /\ UNCHANGED <<state, leaked>> /\ Fills({}, 0)
  BY DEF MapZeroed, procVars
<1>11. /\ stored' \in StoreNote
       /\ Private!NothingStored
  BY <1>10, FillsNothing
<1>12. EmptySlotsEmpty'
  BY <1>9, <1>10, TableUnchanged, EmptyKept
<1>13. MemoryInv'
  BY <1>9, <1>10, <1>11, <1>12 DEF MemoryInv
<1>14. Private!OthersKeep({current})
  BY <1>9, OthersKeepMemory DEF Maps
<1>15. /\ Mem[current][p] = Unmapped
       /\ Mem'[current] = [Mem[current] EXCEPT ![p] = 0]
       /\ Writable'[current] \ {p} = Writable[current] \ {p}
  BY <1>1, <1>9, Views DEF Maps
<1>16. p \in Page \ Private!Mapped(current)
  BY <1>15 DEF Private!Mapped
<1>17. QED
  BY Zenon, <1>11, <1>13, <1>14, <1>15, <1>16 DEF Private!MapZeroed

(* Unmapping some of the current process's pages.                          *)
LEMMA UnmapDone ==
  ASSUME MemoryInv, TableFacts, NEW G, NEW T,
         Without(pt, current, T, G), Replaced(pt, pt', current, T),
         refs' = DecRefs(refs, FramesAt(current, G)),
         data' = DataAfterDec(FramesAt(current, G)),
         UNCHANGED leaked, Fills({}, 0), NoneEmptied, StillThere(current)
  PROVE  MemoryInv' /\ Private!Unmap(current)
<1> DEFINE F == FramesOf(pt, current, G)
<1>1. SoundState(pt, refs, leaked, data) /\ current \in Slot
  BY DEF MemoryInv, TableFacts
<1>2. FramesAt(current, G) = F
  BY DEF FramesAt, FramesOf
<1> HIDE DEF F
<1>3. OneLess(refs, refs', F)
  BY <1>2 DEF DecRefs, OneLess
<1>4. Freed(refs, data, data', F)
  BY <1>1, <1>2, MemoryAssumption DEF DataAfterDec, Freed, SoundState
<1>5. /\ SoundState(pt', refs', leaked, data')
      /\ Unmaps(pt, data, pt', data', current)
      /\ Elsewhere(pt, pt', {current})
  BY Zenon, <1>1, <1>3, <1>4, DropStep DEF F
<1>6. /\ stored' \in StoreNote
      /\ Private!NothingStored
  BY FillsNothing
<1>7. MemoryInv'
  BY <1>5, <1>6, EmptyKept DEF MemoryInv
<1>8. Private!OthersKeep({current})
  BY <1>5, OthersKeepMemory DEF Unmaps
<1>9. /\ \A p \in Page : Mem'[current][p] \in {Mem[current][p], Unmapped}
      /\ Writable'[current] =
           {p \in Writable[current] : Mem'[current][p] # Unmapped}
  BY <1>1, <1>5, PartMemory DEF Unmaps
<1>10. QED
  BY <1>6, <1>7, <1>8, <1>9 DEF Private!Unmap

(* munmap and a shrinking break.                                           *)
LEMMA UnmapStep ==
  ASSUME MemoryInv, TableFacts, NEW B \in SUBSET Page, UnmapUserPages(B)
  PROVE  MemoryInv' /\ Private!Unmap(current)
<1> DEFINE G == B \cap UserPages(current)
           T == [p \in Page |-> IF p \in G THEN NoLeaf ELSE pt[current][p]]
<1>1. /\ pt \in [Slot -> [Page -> PTE]] /\ current \in Slot
      /\ \A p \in Page : pt[current][p].u => pt[current][p].v
  BY DEF MemoryInv, SoundState, TableFacts, Sound, LeavesTyped
<1>2. Without(pt, current, T, G)
  <2>1. NoLeaf \in PTE /\ ~NoLeaf.u /\ ~NoLeaf.v
    BY DEF NoLeaf, PTE
  <2>2. G \subseteq UserPagesOf(pt[current])
    BY DEF UserPages, UserPagesOf
  <2> HIDE DEF G
  <2>3. T \in [Page -> PTE]
    BY <1>1, <2>1
  <2>4. \A p \in Page : T[p] = IF p \in G THEN NoLeaf ELSE pt[current][p]
    OBVIOUS
  <2> HIDE DEF T
  <2>5. QED
    BY <1>1, <2>1, <2>2, <2>3, <2>4 DEF Without, UserPagesOf
<1>3. Replaced(pt, pt', current, T)
  BY DEF UnmapUserPages, Replaced
<1>4. /\ refs' = DecRefs(refs, FramesAt(current, G))
      /\ data' = DataAfterDec(FramesAt(current, G))
      /\ PT!InUser /\ UNCHANGED <<state, leaked>> /\ Fills({}, 0)
  BY DEF UnmapUserPages, procVars
<1>5. NoneEmptied /\ StillThere(current)
  BY <1>4, TableUnchanged
<1> HIDE DEF G, T
<1>6. QED
  BY <1>2, <1>3, <1>4, <1>5, UnmapDone

(* exit unmaps all user pages.                                             *)
LEMMA ExitStep ==
  ASSUME MemoryInv, TableFacts, NEW c, Exit(c)
  PROVE  MemoryInv' /\ Private!Unmap(current)
<1> DEFINE G == UserPages(current)
           T == [p \in Page |-> IF pt[current][p].u THEN NoLeaf
                                ELSE pt[current][p]]
<1>1. /\ pt \in [Slot -> [Page -> PTE]] /\ current \in Slot
      /\ \A p \in Page : pt[current][p].u => pt[current][p].v
  BY DEF MemoryInv, SoundState, TableFacts, Sound, LeavesTyped
<1>2. Without(pt, current, T, G)
  <2>1. NoLeaf \in PTE /\ ~NoLeaf.u /\ ~NoLeaf.v
    BY DEF NoLeaf, PTE
  <2>2. G = UserPagesOf(pt[current])
    BY DEF UserPages, UserPagesOf
  <2> HIDE DEF G
  <2>3. T \in [Page -> PTE]
    BY <1>1, <2>1
  <2>4. \A p \in Page : T[p] = IF pt[current][p].u THEN NoLeaf
                               ELSE pt[current][p]
    OBVIOUS
  <2> HIDE DEF T
  <2>5. QED
    BY <1>1, <2>1, <2>2, <2>3, <2>4 DEF Without, UserPagesOf
<1>3. Replaced(pt, pt', current, T)
  BY DEF Exit, Replaced
<1>4. /\ refs' = DecRefs(refs, FramesAt(current, G))
      /\ data' = DataAfterDec(FramesAt(current, G))
      /\ UNCHANGED leaked /\ Fills({}, 0) /\ PT!Terminate(c)
  BY DEF Exit, PT!Exit
<1>5. NoneEmptied /\ StillThere(current)
  BY <1>4, TerminateKeepsSlots
<1> HIDE DEF G, T
<1>6. QED
  BY <1>2, <1>3, <1>4, <1>5, UnmapDone

-----------------------------------------------------------------------------
(* fork and wait change two address spaces.                                *)

(* fork.                                                                   *)
LEMMA ForkedStep ==
  ASSUME MemoryInv, TableFacts, Fork
  PROVE  /\ MemoryInv'
         /\ \E j \in Slot \ {current} : Private!Fork(current, j)
<1> DEFINE x == Min(PT!EmptySlots)
           got == ForkTables(spare - 1 - KERNEL_STACK_PAGES)
           H == SharedTable
           N == ChildTable(got)
           L == LostPages(got)
<1>1. /\ SoundState(pt, refs, leaked, data) /\ Sound(pt, refs, leaked)
      /\ current \in Slot /\ state \in [Slot -> PT!ProcessState \cup {"None"}]
  BY DEF MemoryInv, SoundState, TableFacts
<1>2. /\ PT!InUser /\ PT!EmptySlots # {}
      /\ state' = [state EXCEPT ![x] = "Ready"]
  BY Zenon, SameMin DEF Fork, PT!Fork, PT!AddChild
<1>3. x \in PT!EmptySlots
  BY <1>2 DEF TableFacts
<1>4. x \in Slot /\ state[x] \in {"None", "Gone"} /\ state[current] = "Running"
  BY <1>2, <1>3 DEF PT!EmptySlots, PT!InUser, TableFacts, PT!Slot, Slot
<1>5. x \in Slot \ {current} /\ UserPagesOf(pt[x]) = {}
  BY <1>4 DEF MemoryInv, EmptySlotsEmpty
<1>6. /\ ReplacedTwo(pt, pt', current, H, x, N)
      /\ refs' = [f \in Frame |-> IF f \in FramesAt(current, UserPages(current))
                                  THEN refs[f] + 1 ELSE refs[f]]
      /\ leaked' = [f \in Frame |-> IF f \in FramesAt(current, L)
                                    THEN leaked[f] + 1 ELSE leaked[f]]
      /\ UNCHANGED data /\ Fills({}, 0)
  BY DEF Fork, ReplacedTwo, SharedTable, ChildTable, LostPages
<1> HIDE DEF x, got
<1>7. Forked(pt, current, x, H, N, L)
  BY <1>1, <1>4, <1>5, ForkedTables
<1>8. /\ UserPages(current) = UserPagesOf(pt[current])
      /\ L \subseteq UserPagesOf(pt[current])
  BY DEF UserPages, UserPagesOf, LostPages
<1> HIDE DEF H, N, L
<1>9. /\ OneMore(refs, refs', FramesOf(pt, current, UserPagesOf(pt[current])))
      /\ OneMore(leaked, leaked', FramesOf(pt, current, L))
  BY <1>6, <1>8 DEF OneMore, FramesOf, FramesAt
<1>10. /\ SoundState(pt', refs', leaked', data)
       /\ Forks(pt, data, pt', current, x)
       /\ Elsewhere(pt, pt', {current, x})
  BY Zenon, <1>1, <1>5, <1>6, <1>7, <1>8, <1>9, ForkStep
<1>11. /\ stored' \in StoreNote
       /\ Private!NothingStored
  BY <1>6, FillsNothing
<1>12. EmptySlotsEmpty'
  <2>1. \A i \in Slot : state'[i] \in {"None", "Gone"} =>
          i \notin {current, x} /\ state[i] \in {"None", "Gone"}
    BY <1>1, <1>2, <1>4
  <2>2. QED
    BY <1>10, <2>1 DEF MemoryInv, EmptySlotsEmpty, Elsewhere
<1>13. MemoryInv'
  BY <1>6, <1>10, <1>11, <1>12 DEF MemoryInv
<1>14. Private!OthersKeep({x})
  BY <1>6, <1>10, OthersKeepMemory DEF Forks
<1>15. \A p \in Page : Mem[x][p] = Unmapped
  BY <1>4, <1>10, Views DEF Forks
<1>16. /\ \A p \in Page : Mem'[x][p] \in {Mem[current][p], Unmapped}
       /\ Writable'[x] = {p \in Writable[current] : Mem'[x][p] # Unmapped}
  BY Zenon, <1>1, <1>4, <1>6, <1>10, PartMemory DEF Forks
<1>17. Private!Mapped(x) = {}
  BY <1>15 DEF Private!Mapped
<1>18. Private!Fork(current, x)
  BY <1>11, <1>14, <1>16, <1>17 DEF Private!Fork
<1>19. QED
  BY <1>5, <1>13, <1>18

(* wait collects a child.                                                  *)
LEMMA WaitReapStep ==
  ASSUME MemoryInv, TableFacts, NEW W \in SUBSET Page, WaitReap(W)
  PROVE  /\ MemoryInv'
         /\ \E j \in Slot \ {current} : Private!Reap(current, j)
<1> DEFINE x == Min(PT!ZombieChildren)
           v == code[x]
           C == CowPages(W)
           X == SharedPages(W)
<1>1. /\ SoundState(pt, refs, leaked, data)
      /\ current \in Slot /\ state \in [Slot -> PT!ProcessState \cup {"None"}]
  BY DEF MemoryInv, TableFacts
<1>2. /\ power = "on" /\ PT!ZombieChildren # {}
      /\ state' = [state EXCEPT ![x] = "Gone"]
  BY Zenon, SameMin DEF WaitReap, PT!WaitReap
<1>3. x \in PT!ZombieChildren
  BY <1>2 DEF TableFacts
<1>4. x \in Slot /\ state[x] = "Zombie" /\ state[current] = "Running"
  BY <1>2, <1>3 DEF PT!ZombieChildren, TableFacts, PT!Slot, Slot
<1>5. x \in Slot \ {current} /\ v \in Value
  BY <1>4 DEF TableFacts
<1>6. PICK g \in CowFrames(W) :
        /\ pt' = [pt EXCEPT ![current] = AfterCow(W, g), ![x] = EmptyTable]
        /\ refs' = RefsAfterCow(W, g)
        /\ data' = [f \in Frame |->
                      IF f \in {AfterCow(W, g)[p].f : p \in W} THEN v
                      ELSE DataAfterCow(W, g)[f]]
  BY Zenon DEF WaitReap
<1> DEFINE T == AfterCow(W, g)
           Z == EmptyTable
<1>7. /\ Fills(W, v) /\ \A p \in W : CanWrite(p)
      /\ leaked' = [f \in Frame |-> IF f \in FramesAt(x, UserPages(x))
                                    THEN leaked[f] + 1 ELSE leaked[f]]
  BY DEF WaitReap
<1>8. StoredOver(W, g, T, W, v, data')
  BY <1>6 DEF StoredOver
<1>9. /\ CowBroken(pt, refs, current, T, C, X, g)
      /\ refs' = RefsBroken(pt, refs, current, X, g)
      /\ CanStore(T, W) /\ OnFrames(data')
      /\ DataBroken(pt, current, T, X, g, W, v, data, data')
  <2>1. /\ refs' = RefsAfterCow(W, g) /\ \A p \in W : CanWrite(p)
        /\ W \in SUBSET W
    BY <1>6, <1>7
  <2> HIDE DEF x, v
  <2>2. QED
    BY <1>8, <2>1, MadeWritable
<1>10. ReplacedTwo(pt, pt', current, T, x, Z)
  BY <1>6 DEF ReplacedTwo
<1>11. NoUserPages(Z)
  BY DEF NoUserPages, EmptyTable, NoLeaf, PTE, UserPagesOf
<1> HIDE DEF x, v, C, X, T, Z
<1>12. UserPages(x) = UserPagesOf(pt[x])
  BY DEF UserPages, UserPagesOf
<1>13. OneMore(leaked, leaked', FramesOf(pt, x, UserPagesOf(pt[x])))
  BY <1>7, <1>12 DEF OneMore, FramesOf, FramesAt
<1>14. /\ SoundState(pt', refs', leaked', data')
       /\ Reaps(pt, data, pt', data', current, x, W, v)
       /\ Elsewhere(pt, pt', {current, x})
  BY Zenon, <1>1, <1>5, <1>9, <1>10, <1>11, <1>13, ReapStep
<1>15. Fill(W, v) /\ stored' \in StoreNote
  BY <1>5, <1>7, FillsFill
<1>16. EmptySlotsEmpty'
  <2>1. pt'[x] = Z /\ UserPagesOf(Z) = {}
    BY <1>1, <1>4, <1>10, <1>11
       DEF SoundState, Sound, LeavesTyped, ReplacedTwo, NoUserPages
  <2>2. \A i \in Slot \ {x} : state'[i] \in {"None", "Gone"} =>
          i # current /\ state[i] \in {"None", "Gone"}
    BY <1>1, <1>2, <1>4
  <2>3. QED
    BY Zenon, <1>14, <2>1, <2>2 DEF MemoryInv, EmptySlotsEmpty, Elsewhere
<1>17. MemoryInv'
  BY <1>14, <1>15, <1>16 DEF MemoryInv
<1>18. Private!OthersKeep({current, x})
  BY <1>14, OthersKeepMemory DEF Reaps
<1>19. Private!Stored(current)
  BY <1>1, <1>14, <1>15, StoredMemory DEF Reaps
<1>20. Writable'[x] = {} /\ \A p \in Page : Mem'[x][p] = Unmapped
  BY Zenon, <1>4, <1>14, Views DEF Reaps
<1>21. Private!Reap(current, x)
  BY <1>18, <1>19, <1>20 DEF Private!Reap, Private!Gone
<1>22. QED
  BY <1>5, <1>17, <1>21

(* wait collects a child, the code stored through the kernel's map of RAM. *)
LEMMA WaitReapToRamStep ==
  ASSUME MemoryInv, TableFacts, NEW n \in Frame, WaitReapToRam(n)
  PROVE  MemoryInv' /\ \E j \in Slot : Private!Overwrite(j)
<1> DEFINE x == Min(PT!ZombieChildren)
           v == code[x]
           Z == EmptyTable
<1>1. /\ SoundState(pt, refs, leaked, data)
      /\ state \in [Slot -> PT!ProcessState \cup {"None"}]
  BY DEF MemoryInv, TableFacts
<1>2. PT!ZombieChildren # {} /\ state' = [state EXCEPT ![x] = "Gone"]
  BY Zenon, SameMin DEF WaitReapToRam, PT!WaitReap
<1>3. x \in PT!ZombieChildren
  BY <1>2 DEF TableFacts
<1>4. x \in Slot /\ v \in Value
  BY <1>3 DEF PT!ZombieChildren, TableFacts, PT!Slot, Slot
<1>5. /\ Replaced(pt, pt', x, Z) /\ OneFilled(data, data', n, v) /\ refs' = refs
      /\ stored' = [pages |-> {}, v |-> v, ram |-> TRUE]
      /\ leaked' = [f \in Frame |-> IF f \in FramesAt(x, UserPages(x))
                                    THEN leaked[f] + 1 ELSE leaked[f]]
  BY DEF WaitReapToRam, Replaced, OneFilled
<1>6. NoUserPages(Z)
  BY DEF NoUserPages, EmptyTable, NoLeaf, PTE, UserPagesOf
<1> HIDE DEF x, v, Z
<1>7. UserPages(x) = UserPagesOf(pt[x])
  BY DEF UserPages, UserPagesOf
<1>8. OneMore(leaked, leaked', FramesOf(pt, x, UserPagesOf(pt[x])))
  BY <1>5, <1>7 DEF OneMore, FramesOf, FramesAt
<1>9. /\ SoundState(pt', refs', leaked', data')
      /\ Overwrites(pt, data, pt', data', x, v)
      /\ Elsewhere(pt, pt', {x})
  BY Zenon, <1>1, <1>4, <1>5, <1>6, <1>8, OverwriteStep
<1>10. /\ stored' \in StoreNote
       /\ stored'.ram /\ stored'.pages = {} /\ stored'.v = v
  BY <1>4, <1>5 DEF StoreNote
<1>11. EmptySlotsEmpty'
  <2>1. pt'[x] = Z /\ UserPagesOf(Z) = {}
    BY <1>1, <1>4, <1>5, <1>6
       DEF SoundState, Sound, LeavesTyped, Replaced, NoUserPages
  <2>2. \A i \in Slot \ {x} : state'[i] \in {"None", "Gone"} =>
          state[i] \in {"None", "Gone"}
    BY <1>1, <1>2, <1>4
  <2>3. QED
    BY Zenon, <1>9, <2>1, <2>2 DEF MemoryInv, EmptySlotsEmpty, Elsewhere
<1>12. MemoryInv'
  BY <1>9, <1>10, <1>11 DEF MemoryInv
<1>13. \A i \in Slot : /\ Mem[i] = Read(pt[i], data) /\ Mem'[i] = Read(pt'[i], data')
                       /\ Writable[i] = MayWrite(pt[i])
                       /\ Writable'[i] = MayWrite(pt'[i])
  BY Views
<1>14. Private!Gone(x)
  BY Zenon, <1>4, <1>9, <1>13 DEF Overwrites, Private!Gone
<1>15. \A i \in Slot \ {x} : Writable'[i] = Writable[i]
  <2>1. \A i \in Slot \ {x} : MayWrite(pt'[i]) = MayWrite(pt[i])
    BY Zenon, <1>9 DEF Overwrites
  <2>2. QED
    BY <1>13, <2>1
<1>16. \A i \in Slot : Private!Changed(i) = Altered(pt, data, pt', data', i)
  BY Zenon, <1>13 DEF Private!Changed, Altered
<1>17. ASSUME NEW i \in Slot \ {x}, NEW p \in Private!Changed(i)
       PROVE  /\ p \in Private!Mapped(i) /\ Mem'[i][p] = stored'.v
              /\ \A j \in Slot \ {x} : \A q \in Private!Changed(j) :
                   Mem[j][q] = Mem[i][p] /\ (j = i => q = p)
  <2>1. p \in Page /\ p \in Altered(pt, data, pt', data', i)
    BY Zenon, <1>16, <1>17 DEF Private!Changed
  <2>2. /\ Read(pt[i], data)[p] # Unmapped /\ Read(pt'[i], data')[p] = v
        /\ \A j \in Slot \ {x} : \A q \in Altered(pt, data, pt', data', j) :
             Read(pt[j], data)[q] = Read(pt[i], data)[p] /\ (j = i => q = p)
    BY Zenon, <1>9, <2>1 DEF Overwrites
  <2>3. p \in Private!Mapped(i) /\ Mem'[i][p] = stored'.v
    BY Zenon, <1>10, <1>13, <2>1, <2>2 DEF Private!Mapped
  <2>4. ASSUME NEW j \in Slot \ {x}, NEW q \in Private!Changed(j)
        PROVE  Mem[j][q] = Mem[i][p] /\ (j = i => q = p)
    <3>1. q \in Altered(pt, data, pt', data', j)
      BY Zenon, <1>16, <2>4
    <3>2. Read(pt[j], data)[q] = Read(pt[i], data)[p] /\ (j = i => q = p)
      BY Zenon, <2>2, <3>1
    <3>3. QED
      BY <1>13, <3>2
  <2>5. QED
    BY Zenon, <2>3, <2>4
<1>18. Private!Overwrite(x)
  BY Zenon, <1>10, <1>14, <1>15, <1>17 DEF Private!Overwrite
<1>19. QED
  BY <1>4, <1>12, <1>18

-----------------------------------------------------------------------------
(* All handlers together.                                                  *)

(* Handlers that touch no user page: calls that fail, blocking, a killed   *)
(* process, a panic.                                                       *)
LEMMA QuietHandlers ==
  ASSUME MemoryInv, TableFacts,
         \/ (\E p \in Page : MapZeroedFails(p)) \/ WaitFault
         \/ \E B \in Interval : CowPanic(B)
         \/ Segfault
         \/ /\ PT!ForkNoSlot \/ PT!ForkPanic \/ PT!WaitBlock \/ PT!WaitNoChild
               \/ PT!FatalTrap \/ PT!ShutDown
            /\ MemoryUnchanged
  PROVE  MemoryInv' /\ Private!Store(current)
<1>1. UNCHANGED <<pt, refs, data, leaked>> /\ Fills({}, 0)
  BY DEF MapZeroedFails, WaitFault, CowPanic, Panic, Segfault, MemoryUnchanged,
         memVars
<1>2. NoneEmptied
  <2>1. CASE Segfault
    BY <2>1, TerminateKeepsSlots DEF Segfault, PT!Segfault
  <2>2. CASE PT!WaitBlock
    BY <2>2, BlockKeepsSlots
  <2>3. CASE UNCHANGED state
    BY <2>3 DEF NoneEmptied
  <2>4. QED
    BY <2>1, <2>2, <2>3 DEF MapZeroedFails, WaitFault, CowPanic, Panic, procVars,
       PT!WaitFault, PT!ForkNoSlot, PT!ForkPanic, PT!WaitNoChild, PT!FatalTrap,
       PT!ShutDown, PT!vars
<1>3. QED
  BY <1>1, <1>2, QuietStep

(* A step that keeps the invariant maps to well-typed memories.            *)
LEMMA PrivateStep ==
  ASSUME MemoryInv', current \in Slot,
         \/ Private!Store(current) \/ Private!MapZeroed(current)
         \/ Private!Unmap(current)
         \/ \E j \in Slot \ {current} :
              Private!Fork(current, j) \/ Private!Reap(current, j)
         \/ \E j \in Slot : Private!Overwrite(j)
  PROVE  Private!Next
<1>1. Private!Typed'
  BY ViewsTyped, PTL
<1>2. QED
  BY <1>1 DEF Private!Next

(* Every handler keeps the invariant and is a step of the private          *)
(* memories.                                                               *)
LEMMA HandlerIsPrivate ==
  ASSUME MemoryInv, TableFacts, Next
  PROVE  MemoryInv' /\ Private!Next
<1>1. current \in Slot
  BY DEF TableFacts
<1>2. \A B \in Interval : B \in SUBSET Page
  BY DEF Interval
<1>3. CASE \/ \E p \in Page, v \in Value : UserStore(p, v)
           \/ \E p \in Page : CowFault(p)
           \/ \E B \in Interval, v \in Value : CopyOut(B, v)
  <2>1. MemoryInv' /\ Private!Store(current)
    BY <1>2, <1>3, UserStoreStep, CowFaultStep, CopyOutStep
  <2>2. QED
    BY <1>1, <2>1, PrivateStep
<1>4. CASE \E p \in Page, w \in BOOLEAN : MapZeroed(p, w)
  <2>1. MemoryInv' /\ Private!MapZeroed(current)
    BY <1>4, MapZeroedStep
  <2>2. QED
    BY <1>1, <2>1, PrivateStep
<1>5. CASE \/ \E B \in Interval : UnmapUserPages(B)
           \/ \E c \in ExitCode : Exit(c)
  <2>1. MemoryInv' /\ Private!Unmap(current)
    BY <1>2, <1>5, UnmapStep, ExitStep
  <2>2. QED
    BY <1>1, <2>1, PrivateStep
<1>6. CASE Fork
  <2>1. MemoryInv' /\ \E j \in Slot \ {current} : Private!Fork(current, j)
    BY <1>6, ForkedStep
  <2>2. QED
    BY <1>1, <2>1, PrivateStep
<1>7. CASE \E W \in {{}} \cup {{p} : p \in Page} : WaitReap(W)
  <2>1. \A W \in {{}} \cup {{p} : p \in Page} : W \in SUBSET Page
    OBVIOUS
  <2>2. MemoryInv' /\ \E j \in Slot \ {current} : Private!Reap(current, j)
    BY <1>7, <2>1, WaitReapStep
  <2>3. QED
    BY <1>1, <2>2, PrivateStep
<1>8. CASE \E n \in Frame : WaitReapToRam(n)
  <2>1. MemoryInv' /\ \E j \in Slot : Private!Overwrite(j)
    BY <1>8, WaitReapToRamStep
  <2>2. QED
    BY <1>1, <2>1, PrivateStep
<1>9. CASE \/ (\E p \in Page : MapZeroedFails(p)) \/ WaitFault
           \/ \E B \in Interval : CowPanic(B)
           \/ Segfault
           \/ /\ PT!ForkNoSlot \/ PT!ForkPanic \/ PT!WaitBlock \/ PT!WaitNoChild
                 \/ PT!FatalTrap \/ PT!ShutDown
              /\ MemoryUnchanged
  <2>1. MemoryInv' /\ Private!Store(current)
    BY <1>9, QuietHandlers
  <2>2. QED
    BY <1>1, <2>1, PrivateStep
<1>10. QED
  BY <1>3, <1>4, <1>5, <1>6, <1>7, <1>8, <1>9 DEF Next

-----------------------------------------------------------------------------
(* The process table.                                                      *)

P == INSTANCE ProcessTableProofs

(* The inductive invariant: the table's own, and the one about memory.     *)
IInv == P!IInv /\ MemoryInv

(* The steps of the table that the handlers take are those of the module   *)
(* its proofs are about.                                                   *)
LEMMA TableSteps ==
  ASSUME \/ PT!Fork \/ PT!ForkNoSlot \/ PT!ForkPanic
         \/ \E c \in ExitCode : PT!Exit(c)
         \/ PT!Segfault \/ PT!WaitReap \/ PT!WaitFault \/ PT!WaitBlock
         \/ PT!WaitNoChild \/ PT!FatalTrap \/ PT!ShutDown
  PROVE  P!Next
<1> USE DEF PT!EmptySlots, P!EmptySlots, PT!InUser, P!InUser, PT!Slot, P!Slot,
            PT!Min, P!Min, PT!vars, P!vars
<1>1. CASE PT!Fork
  BY <1>1 DEF PT!Fork, PT!AddChild, P!Fork, P!AddChild, P!Next
<1>2. CASE PT!ForkNoSlot \/ PT!ForkPanic
  BY <1>2 DEF PT!ForkNoSlot, P!ForkNoSlot, PT!ForkPanic, P!ForkPanic, P!Next
<1>3. ASSUME NEW c \in ExitCode, PT!Terminate(c)
      PROVE  P!Terminate(c)
  BY Zenon, <1>3 DEF PT!Terminate, P!Terminate, PT!ReparentOrphansToInit,
     P!ReparentOrphansToInit, PT!Schedule, P!Schedule, PT!WakeParent,
     P!WakeParent, PT!PickNext, P!PickNext, PT!ReadyDistances,
     P!ReadyDistances, PT!Exists, P!Exists, PT!InitPid, P!InitPid
<1>4. ASSUME NEW c \in ExitCode, PT!Exit(c)
      PROVE  P!Next
  BY SMTT(20), <1>3, <1>4 DEF PT!Exit, P!Exit, P!Next
<1>5. CASE PT!Segfault
  BY SMTT(20), <1>3, <1>5, TableAssumption DEF PT!Segfault, P!Segfault, P!Next
<1>6. CASE PT!WaitReap
  BY <1>6 DEF PT!WaitReap, P!WaitReap, PT!ZombieChildren, P!ZombieChildren, P!Next
<1>7. CASE PT!WaitFault
  BY <1>7 DEF PT!WaitFault, P!WaitFault, PT!ZombieChildren, P!ZombieChildren,
              P!Next
<1>8. CASE PT!WaitBlock
  <2>1. P!WaitBlock
    BY Zenon, <1>8 DEF PT!WaitBlock, P!WaitBlock, PT!ZombieChildren,
       P!ZombieChildren, PT!LiveChildren, P!LiveChildren, PT!Live, P!Live, PT!Exists, P!Exists,
       PT!Schedule, P!Schedule, PT!PickNext, P!PickNext, PT!ReadyDistances,
       P!ReadyDistances
  <2>2. QED
    BY SMTT(20), <2>1 DEF P!Next
<1>9. CASE PT!WaitNoChild
  BY <1>9 DEF PT!WaitNoChild, P!WaitNoChild, PT!ZombieChildren,
     P!ZombieChildren, PT!LiveChildren, P!LiveChildren, PT!Live, P!Live,
     PT!Exists, P!Exists, P!Next
<1>10. CASE PT!FatalTrap \/ PT!ShutDown
  BY <1>10 DEF PT!FatalTrap, P!FatalTrap, PT!ShutDown, P!ShutDown, P!Next
<1>11. QED
  BY <1>1, <1>2, <1>4, <1>5, <1>6, <1>7, <1>8, <1>9, <1>10

(* A handler is a step of the table or leaves the table alone: a panic in  *)
(* a copy looks like a fatal trap or a fault in wait.                      *)
LEMMA HandlerInTable ==
  ASSUME [Next]_vars
  PROVE  [P!Next]_(P!vars)
<1>1. CASE \/ \E p \in Page, v \in Value : UserStore(p, v)
           \/ \E p \in Page : CowFault(p) \/ MapZeroedFails(p)
           \/ \E B \in Interval, v \in Value : CopyOut(B, v)
           \/ \E p \in Page, w \in BOOLEAN : MapZeroed(p, w)
           \/ \E B \in Interval : UnmapUserPages(B)
           \/ UNCHANGED vars
  <2>1. UNCHANGED procVars
    BY Zenon, <1>1 DEF UserStore, CowFault, MapZeroedFails, CopyOut, MapZeroed,
                UnmapUserPages, vars
  <2>2. QED
    BY SMTT(20), <2>1 DEF procVars, P!vars
<1>2. CASE \E B \in Interval : CowPanic(B)
  <2>1. PT!FatalTrap \/ PT!WaitFault
    BY SMTT(20), <1>2 DEF CowPanic, Panic, PT!FatalTrap, PT!WaitFault
  <2>2. QED
    BY <2>1, TableSteps
<1>3. CASE \/ WaitFault \/ (\E n \in Frame : WaitReapToRam(n))
           \/ Fork \/ (\E c \in ExitCode : Exit(c)) \/ Segfault
           \/ \E W \in {{}} \cup {{p} : p \in Page} : WaitReap(W)
           \/ /\ PT!ForkNoSlot \/ PT!ForkPanic \/ PT!WaitBlock \/ PT!WaitNoChild
                 \/ PT!FatalTrap \/ PT!ShutDown
              /\ MemoryUnchanged
  <2>1. \/ PT!Fork \/ PT!ForkNoSlot \/ PT!ForkPanic
        \/ \E c \in ExitCode : PT!Exit(c)
        \/ PT!Segfault \/ PT!WaitReap \/ PT!WaitFault \/ PT!WaitBlock
        \/ PT!WaitNoChild \/ PT!FatalTrap \/ PT!ShutDown
    BY Zenon, <1>3 DEF WaitFault, Fork, Exit, Segfault, WaitReap, WaitReapToRam
  <2>2. QED
    BY <2>1, TableSteps
<1>4. QED
  BY SMTT(20), <1>1, <1>2, <1>3 DEF Next

(* What the table's invariant says of the table.                           *)
LEMMA FactsOfTable ==
  ASSUME P!IInv
  PROVE  TableFacts
<1>1. /\ current \in Slot /\ state \in [Slot -> PT!ProcessState \cup {"None"}]
      /\ code \in [Slot -> ExitCode \cup {0}]
  BY DEF P!IInv, P!TypeOK, P!Slot, Slot, P!ProcessState, PT!ProcessState
<1>2. code \in [Slot -> Value]
  BY <1>1, MemoryAssumption
<1>3. power = "on" => state[current] = "Running"
  BY <1>1 DEF P!IInv, P!RunningIsCurrent, P!Slot, Slot
<1>4. PT!EmptySlots \in SUBSET Nat /\ PT!ZombieChildren \in SUBSET Nat
  <2>1. PT!Slot \subseteq Nat
    BY TableAssumption DEF PT!Slot
  <2>2. PT!EmptySlots \subseteq PT!Slot /\ PT!ZombieChildren \subseteq PT!Slot
    BY DEF PT!EmptySlots, PT!ZombieChildren
  <2>3. QED
    BY <2>1, <2>2
<1>5. \A A \in SUBSET Nat : A # {} => Min(A) \in A
  <2>1. \A A : P!Min(A) = Min(A)
    BY DEF P!Min, Min
  <2>2. QED
    BY <2>1, P!MinInSet, TableAssumption
<1>6. QED
  BY <1>1, <1>2, <1>3, <1>4, <1>5 DEF TableFacts

(* The table's invariant is kept.                                          *)
LEMMA TableKept ==
  ASSUME IInv, [Next]_vars
  PROVE  P!IInv'
BY HandlerInTable, P!Inductive, TableAssumption DEF IInv

-----------------------------------------------------------------------------
(* The theorems.                                                           *)

(* Every handler keeps it.                                                 *)
THEOREM Inductive == IInv /\ [Next]_vars => IInv'
<1> SUFFICES ASSUME IInv, [Next]_vars PROVE IInv'
  OBVIOUS
<1>1. P!IInv'
  BY TableKept
<1>2. CASE Next
  <2>1. MemoryInv /\ TableFacts
    BY FactsOfTable DEF IInv
  <2>2. MemoryInv'
    BY <1>2, <2>1, HandlerIsPrivate
  <2>3. QED
    BY <1>1, <2>2 DEF IInv
<1>3. CASE UNCHANGED vars
  <2>1. UNCHANGED <<state, pt, refs, data, leaked, stored>>
    BY <1>3 DEF vars, procVars, memVars
  <2>2. MemoryInv'
    BY <2>1 DEF IInv, MemoryInv, EmptySlotsEmpty
  <2>3. QED
    BY <1>1, <2>2 DEF IInv
<1>4. QED
  BY <1>2, <1>3

(* What the invariant says in the module's own words.                      *)
LEMMA InvariantsHold == IInv => WritableIsExclusive /\ RefsExact
<1> SUFFICES ASSUME IInv PROVE WritableIsExclusive /\ RefsExact
  OBVIOUS
<1>1. Exclusive(pt) /\ Counted(pt, refs, leaked)
  BY DEF IInv, MemoryInv, SoundState, Sound
<1>2. \A i : UserPages(i) = UserPagesOf(pt[i])
  BY DEF UserPages, UserPagesOf
<1>3. \A f : MappedBy(f) = Mappers(pt, f)
  BY <1>2 DEF MappedBy, Mappers
<1>4. WritableIsExclusive
  BY <1>1, <1>2 DEF WritableIsExclusive, Exclusive
<1>5. RefsExact
  BY <1>1, <1>3 DEF RefsExact, Counted
<1>6. QED
  BY <1>4, <1>5

F == INSTANCE FiniteSetTheorems

(* The slots are finitely many.                                            *)
LEMMA SlotsCountable == Countable
<1>1. \A A : F!Cardinality(A) = Cardinality(A)
  BY DEF F!Cardinality, Cardinality, F!IsFiniteSet, IsFiniteSet
<1>2. F!IsFiniteSet(Slot)
  BY F!FS_Interval, TableAssumption DEF Slot
<1>3. ASSUME NEW A \in SUBSET Slot
      PROVE  /\ Cardinality(A) \in Nat
             /\ Cardinality(A) = 0 <=> A = {}
             /\ \A x \in Slot \ A : Cardinality(A \cup {x}) = Cardinality(A) + 1
  <2>1. F!IsFiniteSet(A)
    BY <1>2, F!FS_Subset
  <2>2. F!Cardinality(A) \in Nat /\ (F!Cardinality(A) = 0 <=> A = {})
    BY <2>1, F!FS_CardinalityType, F!FS_EmptySet
  <2>3. \A x \in Slot \ A : F!Cardinality(A \cup {x}) = F!Cardinality(A) + 1
    BY <2>1, F!FS_AddElement
  <2>4. QED
    BY <1>1, <2>2, <2>3
<1>4. QED
  BY <1>3 DEF Countable

(* Slots, pages, places of tables and frames are finitely many, and so     *)
(* their parts can be counted.                                             *)
LEMMA PartsCounted == Counting
<1>1. /\ \A A : F!Cardinality(A) = Cardinality(A)
      /\ \A A : F!IsFiniteSet(A) <=> IsFiniteSet(A)
  BY DEF F!Cardinality, Cardinality, F!IsFiniteSet, IsFiniteSet
<1>2. IsFiniteSet(Slot) /\ IsFiniteSet(Page) /\ IsFiniteSet(Frame)
  BY <1>1, F!FS_Interval, TableAssumption, FramesAssumption DEF Slot
<1>3. IsFiniteSet(TableId)
  <2> DEFINE R == {Level1(p) : p \in Page}
             h == [p \in Page |-> Level1(p)]
  <2>1. h \in F!Surjection(Page, R)
    BY DEF F!Surjection
  <2>2. F!IsFiniteSet(R)
    BY <1>1, <1>2, <2>1, F!FS_Surjection
  <2>3. F!IsFiniteSet(R \cup {Level2})
    BY <2>2, F!FS_AddElement
  <2>4. TableId = R \cup {Level2}
    BY DEF TableId
  <2>5. QED
    BY <1>1, <2>3, <2>4
<1>4. IsFiniteSet(Slot \X TableId)
  BY <1>1, <1>2, <1>3, F!FS_Product
<1>5. ASSUME NEW A, NEW B, IsFiniteSet(A), B \subseteq A
      PROVE  /\ IsFiniteSet(B) /\ Cardinality(B) \in Nat
             /\ Cardinality(B) <= Cardinality(A)
  <2>1. F!IsFiniteSet(A) /\ B \in SUBSET A
    BY <1>1, <1>5
  <2>2. F!IsFiniteSet(B) /\ F!Cardinality(B) <= F!Cardinality(A)
    BY <2>1, F!FS_Subset
  <2>3. F!Cardinality(B) \in Nat
    BY <2>2, F!FS_CardinalityType
  <2>4. QED
    BY <1>1, <2>2, <2>3
<1>6. ASSUME NEW A, NEW B, IsFiniteSet(A), IsFiniteSet(B), A \cap B = {}
      PROVE  Cardinality(A \cup B) = Cardinality(A) + Cardinality(B)
  <2>1. F!IsFiniteSet(A) /\ F!IsFiniteSet(B)
    BY <1>1, <1>6
  <2>2. F!Cardinality(A \cup B)
          = F!Cardinality(A) + F!Cardinality(B) - F!Cardinality(A \cap B)
    BY <2>1, F!FS_Union
  <2>3. F!Cardinality(A \cap B) = 0
    BY <1>6, F!FS_EmptySet
  <2>4. F!Cardinality(A) \in Nat /\ F!Cardinality(B) \in Nat
    BY <2>1, F!FS_CardinalityType
  <2>5. QED
    BY <1>1, <2>2, <2>3, <2>4
<1>7. ASSUME NEW A, NEW B, NEW h, IsFiniteSet(A), h \in [A -> B],
             \A x, y \in A : h[x] = h[y] => x = y,
             \A b \in B : \E x \in A : h[x] = b
      PROVE  Cardinality(B) = Cardinality(A)
  <2>1. h \in F!Bijection(A, B)
    BY <1>7 DEF F!Bijection, F!Injection, F!Surjection, F!IsInjective
  <2>2. F!ExistsBijection(A, B)
    BY <2>1 DEF F!ExistsBijection
  <2>3. QED
    BY <1>1, <1>7, <2>2, F!FS_Bijection
<1>8. /\ Cardinality({}) = 0 /\ \A x : IsFiniteSet({x}) /\ Cardinality({x}) = 1
  BY Zenon, <1>1, F!FS_EmptySet, F!FS_Singleton
<1>9. \A A \in SUBSET Nat : A # {} => Min(A) \in A /\ \A a \in A : Min(A) <= a
  <2>1. \A A : P!Min(A) = Min(A)
    BY DEF P!Min, Min
  <2>2. QED
    BY <2>1, P!MinInSet, TableAssumption
<1>10. \A A, B : IsFiniteSet(A) /\ B \subseteq A =>
         /\ IsFiniteSet(B) /\ Cardinality(B) \in Nat
         /\ Cardinality(B) <= Cardinality(A)
  BY <1>5
<1>11. \A A, B : IsFiniteSet(A) /\ IsFiniteSet(B) /\ A \cap B = {} =>
         Cardinality(A \cup B) = Cardinality(A) + Cardinality(B)
  BY <1>6
<1>12. \A A, B, h : /\ IsFiniteSet(A) /\ h \in [A -> B]
                    /\ \A x, y \in A : h[x] = h[y] => x = y
                    /\ \A b \in B : \E x \in A : h[x] = b
                    => Cardinality(B) = Cardinality(A)
  BY <1>7
<1>13. QED
  BY <1>2, <1>3, <1>4, <1>8, <1>9, <1>10, <1>11, <1>12, Zenon DEF Counting

(* A mapped frame is referenced.                                           *)
LEMMA MappedReferred ==
  ASSUME MemoryInv
  PROVE  Referred
<1>1. Sound(pt, refs, leaked)
  BY DEF MemoryInv, SoundState
<1>2. ASSUME NEW i \in Slot, NEW p \in UserPages(i)
      PROVE  refs[pt[i][p].f] > 0
  <2> DEFINE f == pt[i][p].f
  <2>1. p \in UserPagesOf(pt[i]) /\ f \in Frame
    BY <1>1 DEF UserPages, UserPagesOf, Sound, LeavesTyped
  <2>2. i \in Mappers(pt, f)
    BY <2>1 DEF Mappers
  <2> HIDE DEF f
  <2>3. refs[f] \in Nat \ {0}
    BY Zenon, <1>1, <2>1, <2>2, MappedIsCounted
  <2>4. QED
    BY <2>3 DEF f
<1>3. QED
  BY <1>2 DEF Referred

(* rust_main establishes the invariant.                                    *)
THEOREM InitIInv == Init => IInv
<1> SUFFICES ASSUME Init PROVE IInv
  OBVIOUS
<1>1. P!Init
  BY DEF Init, PT!Init, P!Init, PT!Slot, P!Slot, PT!InitPid, P!InitPid
<1>2. P!IInv
  BY <1>1, P!InitIInv, TableAssumption
<1>3. MemoryInv
  BY InitMemory, SlotsCountable
<1>4. QED
  BY <1>2, <1>3 DEF IInv

(* The invariant holds always.                                             *)
THEOREM Invariance == Spec => []IInv
BY InitIInv, Inductive, PTL DEF Spec

(* However many processes fork, store, unmap, exit and wait, and in any    *)
(* order: a frame that one can store to is nobody else's.                  *)
THEOREM AlwaysExclusive == Spec => []WritableIsExclusive
BY Invariance, InvariantsHold, PTL

(* FRAME_REFS counts the processes that map a frame and the references     *)
(* that were lost, and nothing else.                                       *)
THEOREM AlwaysCounted == Spec => []RefsExact
BY Invariance, InvariantsHold, PTL

(* The allocator's books: every handler keeps them, and a fork that is not *)
(* complete has used up the frames.                                        *)
LEMMA FramesStep ==
  ASSUME IInv, FramesInv, [Next]_vars
  PROVE  FramesInv' /\ (CompleteOrDry \/ UNCHANGED vars)
<1>1. CASE Next
  <2>1. Before
    BY FactsOfTable, PartsCounted, MappedReferred DEF IInv, Before
  <2>2. QED
    BY <1>1, <2>1, HandlerFrames
<1>2. CASE UNCHANGED vars
  <2>1. UNCHANGED <<state, pt, tables, refs, spare>>
    BY <1>2 DEF vars, procVars, memVars
  <2>2. Before /\ SlotsKept
    BY <2>1, FactsOfTable, PartsCounted, MappedReferred, SlotsUnchanged DEF IInv, Before
  <2>3. QED
    BY <1>2, <2>1, <2>2, QuietKept
<1>3. QED
  BY <1>1, <1>2

(* They balance always.                                                    *)
THEOREM FramesInvariance == Spec => []FramesInv
<1>1. Init => FramesInv
  BY InitFrames, PartsCounted
<1>2. IInv /\ FramesInv /\ [Next]_vars => FramesInv'
  BY FramesStep
<1>3. QED
  BY <1>1, <1>2, Invariance, PTL DEF Spec

(* No frame is lost and none is handed out twice: those the allocator can  *)
(* hand out, those of roots, kernel stacks and tables and the referenced   *)
(* ones are all frames, whatever forks and waits have done.                *)
THEOREM AlwaysBalanced == Spec => []FramesBalance
<1>1. IInv /\ FramesInv => FramesBalance
  <2> SUFFICES ASSUME IInv, FramesInv PROVE FramesBalance
    OBVIOUS
  <2>1. PT!TypeOK
    BY DEF IInv, P!IInv, P!TypeOK, PT!TypeOK, P!Slot, PT!Slot,
           P!ProcessState, PT!ProcessState
  <2>2. /\ pt \in [Slot -> [Page -> PTE]] /\ refs \in [Frame -> Nat]
        /\ leaked \in [Frame -> Nat] /\ data \in [Frame -> Value]
        /\ stored \in StoreNote
    BY DEF IInv, MemoryInv, SoundState, Sound, LeavesTyped
  <2>3. QED
    BY <2>1, <2>2 DEF FramesInv, BalanceInv, FramesBalance, TypeOK
<1>2. QED
  BY <1>1, Invariance, FramesInvariance, PTL

(* A child lacks a page of its parent only if fork took the last frame.    *)
THEOREM ForksCompleteOrDry == Spec => ForkIsCompleteOrDry
<1>1. IInv /\ FramesInv /\ [Next]_vars
        => [CompleteOrDry]_vars
  BY FramesStep
<1>2. QED
  BY <1>1, Invariance, FramesInvariance, PTL
     DEF Spec, ForkIsCompleteOrDry, CompleteOrDry

(* Copy-on-write is invisible: the kernel with its shared frames           *)
(* implements private memories.  A wait whose pointer is into the kernel's *)
(* map of RAM is the one step at which a memory changes that is not the    *)
(* caller's, and then by one page, the same for all who share it.          *)
THEOREM ImplementsPrivateMemories == Spec => PrivateSpec
<1>1. Init => Private!Init
  <2>1. Init => MemoryInv
    BY InitIInv DEF IInv
  <2>2. QED
    BY <2>1, ViewsTyped DEF Private!Init
<1>2. IInv /\ [Next]_vars => [Private!Next]_(Private!vars)
  <2> SUFFICES ASSUME IInv, [Next]_vars PROVE [Private!Next]_(Private!vars)
    OBVIOUS
  <2>1. CASE Next
    <3>1. MemoryInv /\ TableFacts
      BY FactsOfTable DEF IInv
    <3>2. QED
      BY <2>1, <3>1, HandlerIsPrivate
  <2>2. CASE UNCHANGED vars
    BY <2>2 DEF vars, memVars, Private!vars, Mem, Writable, UserPages
  <2>3. QED
    BY <2>1, <2>2
<1>3. QED
  BY <1>1, <1>2, Invariance, PTL DEF Spec, PrivateSpec, Private!Spec

(* The handlers' effect on the process table alone is ProcessTable's, so   *)
(* what is proved of the table holds of the kernel as a whole.             *)
THEOREM ImplementsProcessTable == Spec => P!Spec
<1>1. Init => P!Init
  BY DEF Init, PT!Init, P!Init, PT!Slot, P!Slot, PT!InitPid, P!InitPid
<1>2. [Next]_vars => [P!Next]_(P!vars)
  BY HandlerInTable
<1>3. QED
  BY <1>1, <1>2, PTL DEF Spec, P!Spec
=============================================================================
