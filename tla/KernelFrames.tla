---------------------------- MODULE KernelFrames ----------------------------
(***************************************************************************)
(* What the handlers of Kernel do with frames.  First, how they share      *)
(* them, in the terms of Sharing, and how what the processes see of it is  *)
(* the private memories of PrivateMemory.  Then, how they take frames from *)
(* the allocator and give them back, so that the allocator's books always  *)
(* balance.  KernelProofs puts these facts together.                       *)
(***************************************************************************)
EXTENDS Sharing, Kernel, TLAPS

(* The invariant about memory: leaves name frames, a process has a frame   *)
(* at one page only, what one can write nobody else has and counts are     *)
(* exact (Sound), contents are contents, and a slot without a process maps *)
(* no user page, which fork relies on.                                     *)
EmptySlotsEmpty ==
  \A i \in Slot : state[i] \in {"None", "Gone"} => UserPagesOf(pt[i]) = {}

MemoryInv ==
  /\ SoundState(pt, refs, leaked, data)
  /\ stored \in StoreNote
  /\ EmptySlotsEmpty

(* What is used of the process table.                                      *)
TableFacts ==
  /\ current \in Slot
  /\ state \in [Slot -> PT!ProcessState \cup {"None"}]
  /\ code \in [Slot -> Value]
  /\ power = "on" => state[current] = "Running"
  /\ PT!EmptySlots # {} => Min(PT!EmptySlots) \in PT!EmptySlots
  /\ PT!ZombieChildren # {} => Min(PT!ZombieChildren) \in PT!ZombieChildren

-----------------------------------------------------------------------------
(* The two ways of writing what a process sees.                            *)
LEMMA Views ==
  ASSUME NEW i \in Slot
  PROVE  /\ Mem[i] = Read(pt[i], data) /\ Mem'[i] = Read(pt'[i], data')
         /\ Writable[i] = MayWrite(pt[i]) /\ Writable'[i] = MayWrite(pt'[i])
<1>1. UserPages(i) = UserPagesOf(pt[i]) /\ UserPages(i)' = UserPagesOf(pt'[i])
  BY DEF UserPages, UserPagesOf
<1>2. Mem[i] = Read(pt[i], data) /\ Writable[i] = MayWrite(pt[i])
  BY <1>1 DEF Mem, Writable, Read, MayWrite, UserPagesOf
<1>3. Mem'[i] = Read(pt'[i], data') /\ Writable'[i] = MayWrite(pt'[i])
  BY <1>1 DEF Mem, Writable, Read, MayWrite, UserPagesOf
<1>4. QED
  BY <1>2, <1>3

-----------------------------------------------------------------------------
(* Breaking copy-on-write.                                                 *)

(* The leaves handle_cow_fault leaves behind, one by one.                  *)
LEMMA CowLeaves ==
  ASSUME Sound(pt, refs, leaked), current \in Slot, NEW B \in SUBSET Page,
         NEW g, \A p \in SharedPages(B) : g[p] \in Frame, NEW p \in Page
  PROVE  /\ AfterCow(B, g)[p] \in PTE
         /\ AfterCow(B, g)[p].u = pt[current][p].u
         /\ AfterCow(B, g)[p].v = pt[current][p].v
         /\ AfterCow(B, g)[p].f = IF p \in SharedPages(B)
                                  THEN g[p] ELSE pt[current][p].f
         /\ AfterCow(B, g)[p].w <=> p \in CowPages(B) \/ pt[current][p].w
         /\ AfterCow(B, g)[p].w \/ AfterCow(B, g)[p].cow
              <=> pt[current][p].w \/ pt[current][p].cow
<1> DEFINE T == AfterCow(B, g)
           e == pt[current][p]
<1>1. e \in PTE /\ (e.u => e.v)
  BY DEF Sound, LeavesTyped
<1>2. SharedPages(B) \subseteq CowPages(B)
  BY DEF SharedPages
<1>3. CASE p \in SharedPages(B)
  <2>1. T[p] = Leaf(g[p], TRUE, FALSE, TRUE) /\ g[p] \in Frame
    BY <1>3 DEF AfterCow
  <2>2. e.u = TRUE /\ e.cow /\ e.v = TRUE
    BY <1>1, <1>2, <1>3 DEF CowPages, PTE
  <2> HIDE DEF T, e
  <2>3. /\ T[p] \in PTE /\ T[p].u = TRUE /\ T[p].v = TRUE /\ T[p].f = g[p]
        /\ T[p].w = TRUE
    BY <2>1 DEF Leaf, PTE
  <2>4. QED
    BY Zenon, <1>2, <1>3, <2>2, <2>3 DEF T, e
<1>4. CASE p \in CowPages(B) \ SharedPages(B)
  <2>1. T[p] = [e EXCEPT !.w = TRUE, !.cow = FALSE]
    BY <1>4 DEF AfterCow
  <2>2. e.cow
    BY <1>4 DEF CowPages
  <2> HIDE DEF T, e
  <2>3. /\ T[p] \in PTE /\ T[p].w = TRUE /\ T[p].u = e.u /\ T[p].v = e.v
        /\ T[p].f = e.f
    BY Zenon, <1>1, <2>1 DEF PTE
  <2>4. QED
    BY <1>4, <2>2, <2>3 DEF T, e
<1>5. CASE p \notin CowPages(B)
  <2>1. T[p] = e
    BY Zenon, <1>2, <1>5 DEF AfterCow
  <2>2. QED
    BY <1>1, <1>2, <1>5, <2>1
<1>6. QED
  BY <1>3, <1>4, <1>5

(* What handle_cow_fault does to the pages B.                              *)
LEMMA CowFacts ==
  ASSUME Sound(pt, refs, leaked), current \in Slot, NEW B \in SUBSET Page,
         NEW g \in Injection(SharedPages(B), FreeFrames)
  PROVE  /\ CowBroken(pt, refs, current, AfterCow(B, g), CowPages(B),
                        SharedPages(B), g)
         /\ RefsAfterCow(B, g) =
              RefsBroken(pt, refs, current, SharedPages(B), g)
<1> DEFINE T == AfterCow(B, g)
           X == SharedPages(B)
           C == CowPages(B)
<1>1. /\ \A p \in Page : pt[current][p].u => pt[current][p].v
  BY DEF Sound, LeavesTyped
<1>2. X \subseteq C /\ C \subseteq UserPagesOf(pt[current])
  BY <1>1 DEF SharedPages, CowPages, UserPagesOf
<1>3. g \in [X -> FreeFrames] /\ \A p, q \in X : g[p] = g[q] => p = q
  BY DEF Injection, IsInjective
<1>4. \A p \in X : g[p] \in Frame /\ refs[g[p]] = 0
  BY <1>3 DEF FreeFrames
<1>5. \A p \in C \ X : ~(refs[pt[current][p].f] > 1)
  BY DEF SharedPages
<1>6. T = [p \in Page |-> T[p]]
  BY DEF AfterCow
<1>7. RefsAfterCow(B, g) = RefsBroken(pt, refs, current, X, g)
  <2>1. \A f : f \in Range(g) <=> \E p \in X : g[p] = f
    BY <1>3 DEF Range
  <2>2. QED
    BY <2>1 DEF RefsAfterCow, DecRefs, FramesAt, RefsBroken, FramesOf
<1> HIDE DEF X, C, T
<1>8. ASSUME NEW p \in Page
      PROVE  /\ T[p] \in PTE
             /\ T[p].u = pt[current][p].u
             /\ T[p].v = pt[current][p].v
             /\ T[p].f = IF p \in X THEN g[p] ELSE pt[current][p].f
             /\ T[p].w <=> p \in C \/ pt[current][p].w
             /\ T[p].w \/ T[p].cow <=> pt[current][p].w \/ pt[current][p].cow
  BY <1>4, CowLeaves DEF T, X, C
<1>9. T \in [Page -> PTE]
  BY <1>6, <1>8
<1>10. UserPagesOf(T) = UserPagesOf(pt[current])
       /\ UserPagesOf(T) \subseteq Page
  BY <1>8 DEF UserPagesOf
<1>11. \A p \in Page : T[p].u => T[p].v
  BY <1>1, <1>8
<1>12. CowBroken(pt, refs, current, T, C, X, g)
  BY <1>2, <1>3, <1>4, <1>5, <1>8, <1>9, <1>10, <1>11 DEF CowBroken
<1>13. QED
  BY <1>7, <1>12 DEF T, X, C

(* The contents after it, and after storing v in the pages W.              *)
LEMMA CowData ==
  ASSUME NEW B, NEW g \in Injection(SharedPages(B), FreeFrames), NEW W, NEW v,
         NEW T, T = AfterCow(B, g), \A p \in W : T[p].f \in Frame, NEW d2,
         d2 = [f \in Frame |-> IF f \in {T[p].f : p \in W} THEN v
                               ELSE DataAfterCow(B, g)[f]]
  PROVE  DataBroken(pt, current, T, SharedPages(B), g, W, v, data, d2)
<1> DEFINE X == SharedPages(B)
<1>1. DOMAIN g = X /\ \A p, q \in X : g[p] = g[q] => p = q
  BY DEF Injection, IsInjective
<1>2. \A f : f \in Range(g) <=> \E p \in X : g[p] = f
  BY <1>1 DEF Range
<1> HIDE DEF X
<1>3. \A p \in W : d2[T[p].f] = v
  OBVIOUS
<1>4. ASSUME NEW f \in Frame, \A p \in W : T[p].f # f
      PROVE  d2[f] = DataAfterCow(B, g)[f]
  BY <1>4
<1>5. ASSUME NEW f \in Frame, NEW p \in X, g[p] = f
      PROVE  DataAfterCow(B, g)[f] = data[pt[current][p].f]
  <2>1. (CHOOSE q \in X : g[q] = f) = p
    BY <1>1, <1>5
  <2>2. QED
    BY <1>1, <1>2, <1>5, <2>1 DEF DataAfterCow
<1>6. ASSUME NEW f \in Frame, \A p \in X : g[p] # f
      PROVE  DataAfterCow(B, g)[f] = data[f]
  BY <1>2, <1>6 DEF DataAfterCow
<1>7. QED
  BY <1>3, <1>4, <1>5, <1>6 DEF DataBroken, X

-----------------------------------------------------------------------------
(* Steps of the private memories.                                          *)

(* What the others see is kept.                                            *)
LEMMA OthersKeepMemory ==
  ASSUME NEW K, OthersSee(pt, data, pt', data', K)
  PROVE  Private!OthersKeep(K)
<1>1. ASSUME NEW i \in Slot \ K
      PROVE  Mem'[i] = Mem[i] /\ Writable'[i] = Writable[i]
  BY Views DEF OthersSee
<1>2. QED
  BY <1>1 DEF Private!OthersKeep

Fill(W, v) ==
  ~stored'.ram /\ W = stored'.pages /\ (W # {} => v = stored'.v)

(* A store of v to the pages W of slot i.                                  *)
LEMMA StoredMemory ==
  ASSUME NEW i \in Slot, NEW W, NEW v, Fill(W, v),
         StoresIn(pt[i], data, pt'[i], data', W, v)
  PROVE  Private!Stored(i)
<1>1. /\ W \subseteq Writable[i] /\ Writable'[i] = Writable[i]
      /\ Mem'[i] = [p \in Page |-> IF p \in W THEN v ELSE Mem[i][p]]
  BY Views DEF StoresIn
<1>2. Mem'[i] = [p \in Page |-> IF p \in stored'.pages THEN stored'.v
                                ELSE Mem[i][p]]
  <2>1. CASE W = {}
    BY <1>1, <2>1 DEF Fill
  <2>2. CASE W # {}
    BY <1>1, <2>2 DEF Fill
  <2>3. QED
    BY <2>1, <2>2
<1>3. QED
  BY <1>1, <1>2 DEF Private!Stored, Fill

(* A table that shows part of another.                                     *)
LEMMA PartMemory ==
  ASSUME NEW i \in Slot, NEW j \in Slot, ShowsPart(pt[i], data, pt'[j], data')
  PROVE  /\ \A p \in Page : Mem'[j][p] \in {Mem[i][p], Unmapped}
         /\ Writable'[j] = {p \in Writable[i] : Mem'[j][p] # Unmapped}
BY Views DEF ShowsPart

(* The abstract specification's types.                                     *)
LEMMA ViewsTyped == MemoryInv => Private!Typed
<1> SUFFICES ASSUME MemoryInv PROVE Private!Typed
  OBVIOUS
<1>1. Sound(pt, refs, leaked) /\ data \in [Frame -> Value]
      /\ stored \in StoreNote
  BY DEF MemoryInv, SoundState
<1>2. \A i \in Slot, p \in Page : pt[i][p].v /\ pt[i][p].u => pt[i][p].f \in Frame
  BY <1>1 DEF Sound, LeavesTyped
<1>3. Mem \in [Slot -> [Page -> Value \cup {Unmapped}]]
  BY <1>1, <1>2 DEF Mem
<1>4. Writable \in [Slot -> SUBSET Page]
  BY DEF Writable, UserPages
<1>5. QED
  BY <1>1, <1>3, <1>4 DEF Private!Typed, StoreNote

-----------------------------------------------------------------------------
(* Slots that are and stay empty, and what the handlers note about stores. *)

NoneEmptied == \A i \in Slot : state'[i] \in {"None", "Gone"}
                                 => state[i] \in {"None", "Gone"}
StillThere(i) == state'[i] \notin {"None", "Gone"}

(* Handlers that leave the tables of other slots alone and empty no slot   *)
(* keep the empty slots empty.                                             *)
LEMMA EmptyKept ==
  ASSUME MemoryInv, NoneEmptied, StillThere(current),
         Elsewhere(pt, pt', {current})
  PROVE  EmptySlotsEmpty'
BY DEF MemoryInv, EmptySlotsEmpty, NoneEmptied, StillThere, Elsewhere

(* A handler that leaves the process table alone empties none.             *)
LEMMA TableUnchanged ==
  ASSUME TableFacts, PT!InUser, UNCHANGED state
  PROVE  NoneEmptied /\ StillThere(current)
BY DEF TableFacts, PT!InUser, NoneEmptied, StillThere

(* What the handlers note about stores.                                    *)
LEMMA FillsFill ==
  ASSUME NEW W \in SUBSET Page, NEW v \in Value, Fills(W, v)
  PROVE  Fill(W, v) /\ stored' \in StoreNote
<1>1. 0 \in Value
  BY MemoryAssumption
<1>2. CASE W = {}
  BY <1>1, <1>2 DEF Fills, Nothing, Fill, StoreNote
<1>3. CASE W # {}
  BY <1>3 DEF Fills, Fill, StoreNote
<1>4. QED
  BY <1>2, <1>3

(* A handler that stores nothing fills nothing.                             *)
LEMMA FillsNothing ==
  ASSUME Fills({}, 0)
  PROVE  /\ stored' \in StoreNote
         /\ Private!NothingStored /\ Fill({}, 0)
BY MemoryAssumption DEF Fills, Nothing, Private!NothingStored, Fill, StoreNote

StoredOver(B, g, T, W, v, d2) ==
  d2 = [f \in Frame |-> IF f \in {T[p].f : p \in W} THEN v
                        ELSE DataAfterCow(B, g)[f]]

(* Making pages of the current process writable and storing to some: what  *)
(* CopyOnWrite asks for.                                                   *)
LEMMA MadeWritable ==
  ASSUME MemoryInv, TableFacts, NEW B \in SUBSET Page,
         NEW W \in SUBSET B, \A p \in W : CanWrite(p),
         NEW g \in CowFrames(B), NEW T, T = AfterCow(B, g), NEW v, NEW d2,
         StoredOver(B, g, T, W, v, d2)
  PROVE  /\ CowBroken(pt, refs, current, T, CowPages(B), SharedPages(B), g)
         /\ RefsAfterCow(B, g) = RefsBroken(pt, refs, current, SharedPages(B), g)
         /\ CanStore(T, W) /\ OnFrames(d2)
         /\ DataBroken(pt, current, T, SharedPages(B), g, W, v, data, d2)
<1> DEFINE C == CowPages(B)
           X == SharedPages(B)
<1>1. Sound(pt, refs, leaked) /\ current \in Slot
  BY DEF MemoryInv, SoundState, TableFacts
<1>2. g \in Injection(X, FreeFrames)
  BY DEF CowFrames
<1>3. /\ CowBroken(pt, refs, current, T, C, X, g)
      /\ RefsAfterCow(B, g) = RefsBroken(pt, refs, current, X, g)
  BY <1>1, <1>2, CowFacts
<1>4. \A p \in W : p \in UserPagesOf(pt[current]) /\ pt[current][p].f \in Frame
                   /\ (p \in C \/ pt[current][p].w)
  BY <1>1 DEF CanWrite, CowPages, UserPagesOf, Sound, LeavesTyped
<1> HIDE DEF C, X
<1>5. CanStore(T, W)
  BY <1>3, <1>4 DEF CowBroken, CanStore
<1>6. \A p \in W : T[p].f \in Frame
  BY <1>3, <1>4 DEF CowBroken
<1>7. DataBroken(pt, current, T, X, g, W, v, data, d2)
  BY <1>2, <1>6, CowData DEF X, StoredOver
<1>8. OnFrames(d2)
  BY DEF OnFrames, StoredOver
<1>9. QED
  BY <1>3, <1>5, <1>7, <1>8 DEF C, X

-----------------------------------------------------------------------------
(* Slots through schedule(), and the tables that fork makes.               *)

(* Neither schedule() nor the tail of exit and of a segmentation fault     *)
(* empties a slot.                                                         *)
LEMMA ScheduleKeepsSlots ==
  ASSUME NEW st, st \in [Slot -> PT!ProcessState \cup {"None"}], PT!Schedule(st),
         NEW i \in Slot, state'[i] \in {"None", "Gone"}
  PROVE  st[i] \in {"None", "Gone"}
<1>1. PICK n : state' = st \/ state' = [st EXCEPT ![n] = "Running"]
  BY DEF PT!Schedule
<1>2. QED
  BY <1>1

(* Nor does the end of a process: its slot holds a zombie.                  *)
LEMMA TerminateKeepsSlots ==
  ASSUME TableFacts, NEW c, PT!Terminate(c)
  PROVE  NoneEmptied /\ StillThere(current)
<1> DEFINE dead == [state EXCEPT ![current] = "Zombie"]
           woken == PT!WakeParent(dead, parent_pid'[current])
<1>1. current \in Slot /\ state \in [Slot -> PT!ProcessState \cup {"None"}]
  BY DEF TableFacts
<1>2. dead \in [Slot -> PT!ProcessState \cup {"None"}]
      /\ \A i \in Slot : dead[i] \in {"None", "Gone"} =>
           i # current /\ state[i] \in {"None", "Gone"}
  BY <1>1 DEF PT!ProcessState
<1>3. PICK n : woken = dead \/ woken = [dead EXCEPT ![n] = "Ready"]
  BY Zenon DEF PT!WakeParent
<1>4. PT!Schedule(woken)
  BY DEF PT!Terminate
<1> HIDE DEF dead, woken
<1>5. woken \in [Slot -> PT!ProcessState \cup {"None"}]
      /\ \A i \in Slot : woken[i] \in {"None", "Gone"} =>
           dead[i] \in {"None", "Gone"}
  BY <1>2, <1>3 DEF PT!ProcessState
<1>6. \A i \in Slot : state'[i] \in {"None", "Gone"} =>
        i # current /\ state[i] \in {"None", "Gone"}
  BY <1>2, <1>4, <1>5, ScheduleKeepsSlots
<1>7. QED
  BY <1>1, <1>6 DEF NoneEmptied, StillThere

(* Nor does a wait that blocks.                                            *)
LEMMA BlockKeepsSlots ==
  ASSUME TableFacts, PT!WaitBlock
  PROVE  NoneEmptied
<1> DEFINE st == [state EXCEPT ![current] = "Blocked"]
<1>1. current \in Slot /\ state \in [Slot -> PT!ProcessState \cup {"None"}]
  BY DEF TableFacts
<1>2. /\ st \in [Slot -> PT!ProcessState \cup {"None"}]
      /\ \A i \in Slot : st[i] \in {"None", "Gone"} => state[i] \in {"None", "Gone"}
  BY <1>1 DEF PT!ProcessState
<1>3. PT!Schedule(st)
  BY DEF PT!WaitBlock
<1> HIDE DEF st
<1>4. QED
  BY <1>2, <1>3, ScheduleKeepsSlots DEF NoneEmptied

(* The two modules pick the same least slot.                               *)
LEMMA SameMin == \A A : PT!Min(A) = Min(A)
BY DEF PT!Min, Min

(* fork's first pass, one leaf.                                            *)
LEMMA CowLeafEffect ==
  ASSUME NEW e \in PTE
  PROVE  /\ CowLeaf(e) \in PTE
         /\ CowLeaf(e).v = e.v /\ CowLeaf(e).u = e.u /\ CowLeaf(e).f = e.f
         /\ e.v /\ e.u => ~CowLeaf(e).w
         /\ CowLeaf(e).w \/ CowLeaf(e).cow <=> e.w \/ e.cow
<1>1. CASE e.v /\ e.u /\ e.w
  <2>1. CowLeaf(e) = [e EXCEPT !.w = FALSE, !.cow = TRUE]
    BY <1>1 DEF CowLeaf
  <2>2. QED
    BY Zenon, <1>1, <2>1 DEF PTE
<1>2. CASE ~(e.v /\ e.u /\ e.w)
  BY <1>2 DEF CowLeaf
<1>3. QED
  BY <1>1, <1>2

SharedTable == [p \in Page |-> CowLeaf(pt[current][p])]
ChildTable(got) == [p \in Page |-> IF Level1(p) \in got
                                   THEN SharedTable[p] ELSE NoLeaf]
LostPages(got) == {p \in UserPages(current) : Level1(p) \notin got}

(* The tables of parent and child after fork, and what the child lacks.    *)
LEMMA ForkedTables ==
  ASSUME Sound(pt, refs, leaked), current \in Slot, NEW got,
         NEW x \in Slot, UserPagesOf(pt[x]) = {}
  PROVE  Forked(pt, current, x, SharedTable, ChildTable(got), LostPages(got))
<1> DEFINE H == SharedTable
           N == ChildTable(got)
           old == pt[current]
<1>1. /\ \A p \in Page : old[p] \in PTE
      /\ \A p \in Page : old[p].u => old[p].v
  BY DEF Sound, LeavesTyped
<1>2. H = [p \in Page |-> H[p]] /\ N = [p \in Page |-> N[p]]
  BY DEF SharedTable, ChildTable
<1>3. NoLeaf \in PTE /\ ~NoLeaf.u
  BY DEF NoLeaf, PTE
<1>4. ASSUME NEW p \in Page
      PROVE  /\ H[p] = CowLeaf(old[p])
             /\ Level1(p) \in got => N[p] = H[p]
             /\ Level1(p) \notin got => N[p] = NoLeaf
  BY DEF SharedTable, ChildTable
<1> HIDE DEF H, N, old
<1>5. ASSUME NEW p \in Page
      PROVE  /\ H[p] \in PTE /\ H[p].v = old[p].v /\ H[p].u = old[p].u
             /\ H[p].f = old[p].f
             /\ old[p].v /\ old[p].u => ~H[p].w
             /\ H[p].w \/ H[p].cow <=> old[p].w \/ old[p].cow
  BY SMTT(20), <1>1, <1>4, CowLeafEffect
<1>6. H \in [Page -> PTE] /\ N \in [Page -> PTE]
  <2>1. \A p \in Page : H[p] \in PTE /\ N[p] \in PTE
    BY <1>3, <1>4, <1>5
  <2>2. QED
    BY <1>2, <2>1
<1>7. \A p \in Page : (H[p].u => H[p].v) /\ (N[p].u => N[p].v)
  BY <1>1, <1>3, <1>4, <1>5
<1>8. UserPagesOf(H) = UserPagesOf(old) /\ UserPagesOf(old) \subseteq Page
  BY <1>5 DEF UserPagesOf
<1>9. \A p \in UserPagesOf(H) : /\ H[p].f = old[p].f /\ ~H[p].w
                                /\ H[p].cow <=> old[p].w \/ old[p].cow
  BY <1>5, <1>8 DEF UserPagesOf
<1>10. LostPages(got) = {p \in UserPagesOf(old) : Level1(p) \notin got}
  BY DEF LostPages, UserPages, UserPagesOf, old
<1>11. ASSUME NEW p \in Page
       PROVE  p \in UserPagesOf(N) <=> p \in UserPagesOf(old) /\ Level1(p) \in got
  <2>1. CASE Level1(p) \in got
    BY <2>1, <1>4, <1>5 DEF UserPagesOf
  <2>2. CASE Level1(p) \notin got
    BY <2>2, <1>3, <1>4 DEF UserPagesOf
  <2>3. QED
    BY <2>1, <2>2
<1>12. UserPagesOf(N) \subseteq Page
  BY DEF UserPagesOf
<1>13. UserPagesOf(N) = UserPagesOf(old) \ LostPages(got)
  BY <1>8, <1>10, <1>11, <1>12
<1>14. \A p \in UserPagesOf(N) : N[p] = H[p]
  BY <1>4, <1>11, <1>12
<1>15. QED
  BY <1>6, <1>7, <1>8, <1>9, <1>13, <1>14 DEF Forked, H, N, old

-----------------------------------------------------------------------------
(* The page tables that rust_main leaves behind: those of free slots have  *)
(* no leaf.                                                                *)
LEMMA EmptyTableFacts ==
  EmptyTable \in [Page -> PTE] /\ UserPagesOf(EmptyTable) = {}
    /\ \A p \in Page : ~EmptyTable[p].u
BY DEF EmptyTable, NoLeaf, PTE, UserPagesOf

StartsOn(g) ==
  pt = [i \in Slot |-> IF i # 0 THEN EmptyTable ELSE
         [p \in Page |-> IF p \in DOMAIN InitPages
                         THEN Leaf(g[p], InitPages[p], FALSE, TRUE)
                         ELSE IF p = UartPage THEN UartLeaf ELSE NoLeaf]]

(* init's page table, whose pages have a frame each.                       *)
LEMMA InitTables ==
  ASSUME NEW g \in Injection(DOMAIN InitPages, Frame), MAX_PROCESSES \in Nat \ {0},
         StartsOn(g)
  PROVE  /\ LeavesTyped(pt) /\ OncePerSpace(pt) /\ Exclusive(pt)
         /\ \A i \in Slot \ {0} : UserPagesOf(pt[i]) = {}
         /\ \A f \in Frame : Mappers(pt, f) = IF f \in Range(g) THEN {0} ELSE {}
<1> DEFINE D == DOMAIN InitPages
           T == pt[0]
<1>1. /\ g \in [D -> Frame] /\ \A p, q \in D : g[p] = g[q] => p = q
      /\ D \subseteq Page /\ 0 \in Slot
  BY MemoryAssumption DEF Injection, IsInjective, Slot
<1>2. /\ \A i \in Slot \ {0} : pt[i] = EmptyTable
      /\ T = [p \in Page |-> IF p \in D
                             THEN Leaf(g[p], InitPages[p], FALSE, TRUE)
                             ELSE IF p = UartPage THEN UartLeaf ELSE NoLeaf]
      /\ pt = [i \in Slot |-> pt[i]]
  BY <1>1 DEF StartsOn
<1>3. \A p \in D : InitPages[p] \in BOOLEAN
  BY MemoryAssumption
<1> HIDE DEF D, T
<1>4. ASSUME NEW p \in Page
      PROVE  /\ T[p] \in PTE /\ (T[p].u <=> p \in D) /\ (T[p].u => T[p].v)
             /\ p \in D => T[p].f = g[p]
  <2>1. CASE p \in D
    <3>1. T[p] = Leaf(g[p], InitPages[p], FALSE, TRUE) /\ g[p] \in Frame
      BY <1>1, <1>2, <2>1
    <3>2. QED
      BY <1>3, <2>1, <3>1 DEF Leaf, PTE
  <2>2. CASE p \notin D
    <3>1. T[p] = UartLeaf \/ T[p] = NoLeaf
      BY <1>2, <2>2
    <3>2. UartLeaf \in PTE /\ ~UartLeaf.u
      BY DEF UartLeaf, Leaf, PTE
    <3>3. NoLeaf \in PTE /\ ~NoLeaf.u
      BY DEF NoLeaf, PTE
    <3>4. QED
      BY <2>2, <3>1, <3>2, <3>3
  <2>3. QED
    BY <2>1, <2>2
<1>5. T \in [Page -> PTE]
  BY Zenon, <1>2, <1>4
<1>6. UserPagesOf(T) = D
  BY <1>1, <1>4 DEF UserPagesOf
<1>7. \A i \in Slot \ {0} : UserPagesOf(pt[i]) = {}
  BY <1>2, EmptyTableFacts
<1>8. pt \in [Slot -> [Page -> PTE]]
  <2>1. \A i \in Slot : pt[i] \in [Page -> PTE]
    BY Zenon, <1>2, <1>5, EmptyTableFacts DEF T
  <2>2. QED
    BY <1>2, <2>1
<1>9. LeavesTyped(pt)
  <2>1. \A i \in Slot, p \in Page : pt[i][p].u => i = 0
    BY <1>2, EmptyTableFacts
  <2>2. \A p \in Page : T[p].u => T[p].v /\ T[p].f \in Frame
    BY <1>1, <1>4
  <2>3. QED
    BY <1>8, <2>1, <2>2 DEF LeavesTyped, T
<1>10. \A i \in Slot : \A p \in UserPagesOf(pt[i]) :
         i = 0 /\ p \in D /\ pt[i][p].f = g[p]
  <2>1. \A i \in Slot : \A p \in UserPagesOf(pt[i]) : i = 0
    BY <1>7
  <2>2. \A p \in UserPagesOf(pt[0]) : p \in D /\ pt[0][p].f = g[p]
    BY <1>1, <1>4, <1>6 DEF T
  <2>3. QED
    BY <2>1, <2>2
<1>11. OncePerSpace(pt) /\ Exclusive(pt)
  <2>1. OncePerSpace(pt)
    BY <1>1, <1>10 DEF OncePerSpace
  <2>2. Exclusive(pt)
    BY <1>1, <1>10 DEF Exclusive
  <2>3. QED
    BY <2>1, <2>2
<1>12. ASSUME NEW f \in Frame
       PROVE  Mappers(pt, f) = IF f \in Range(g) THEN {0} ELSE {}
  <2>1. f \in Range(g) <=> \E p \in D : g[p] = f
    BY <1>1 DEF Range
  <2>2. \A i \in Slot : i \in Mappers(pt, f) <=> i = 0 /\ f \in Range(g)
    <3>1. 0 \in Mappers(pt, f) <=> \E p \in D : T[p].f = f
      BY <1>1, <1>6 DEF Mappers, T
    <3>2. \A p \in D : T[p].f = g[p]
      BY <1>1, <1>4
    <3>3. \A i \in Slot \ {0} : i \notin Mappers(pt, f)
      BY <1>7 DEF Mappers
    <3>4. QED
      BY <2>1, <3>1, <3>2, <3>3
  <2>3. Mappers(pt, f) \subseteq Slot
    BY DEF Mappers
  <2>4. QED
    BY <1>1, <2>2, <2>3
<1>13. QED
  BY <1>7, <1>9, <1>11, <1>12

(* The invariant holds when the kernel starts.                              *)
LEMMA InitMemory ==
  ASSUME Init, Countable
  PROVE  MemoryInv
<1>1. PICK g \in Injection(DOMAIN InitPages, Frame) :
        StartsOn(g) /\ refs = [f \in Frame |-> IF f \in Range(g) THEN 1 ELSE 0]
  BY Zenon DEF Init, StartsOn
<1>2. MAX_PROCESSES \in Nat \ {0} /\ 0 \in Slot
  BY TableAssumption DEF Slot
<1>3. /\ LeavesTyped(pt) /\ OncePerSpace(pt) /\ Exclusive(pt)
      /\ \A i \in Slot \ {0} : UserPagesOf(pt[i]) = {}
      /\ \A f \in Frame : Mappers(pt, f) = IF f \in Range(g) THEN {0} ELSE {}
  BY Zenon, <1>1, <1>2, InitTables
<1>4. /\ data = [f \in Frame |-> IF refs[f] = 0 THEN Junk ELSE 0]
      /\ leaked = [f \in Frame |-> 0] /\ stored = Nothing /\ PT!Init
  BY DEF Init
<1>5. Cardinality({}) = 0 /\ Cardinality({0}) = 1
  <2>1. {} \in SUBSET Slot /\ 0 \in Slot \ {} /\ {} \cup {0} = {0}
    BY <1>2
  <2>2. Cardinality({}) = 0 /\ Cardinality({} \cup {0}) = Cardinality({}) + 1
    BY <2>1 DEF Countable
  <2>3. QED
    BY <2>1, <2>2
<1>6. Counted(pt, refs, leaked)
  <2>1. ASSUME NEW f \in Frame
        PROVE  refs[f] = Cardinality(Mappers(pt, f)) + leaked[f]
    <3>1. leaked[f] = 0 /\ refs[f] = IF f \in Range(g) THEN 1 ELSE 0
      BY <1>1, <1>4
    <3>2. Mappers(pt, f) = IF f \in Range(g) THEN {0} ELSE {}
      BY <1>3
    <3>3. QED
      BY <1>5, <3>1, <3>2
  <2>2. QED
    BY <2>1 DEF Counted
<1>7. refs \in [Frame -> Nat] /\ leaked \in [Frame -> Nat]
  BY <1>1, <1>4
<1>8. Sound(pt, refs, leaked)
  BY <1>3, <1>6, <1>7 DEF Sound
<1>9. data \in [Frame -> Value] /\ Unmapped \notin Value
  BY <1>4, MemoryAssumption DEF Unmapped
<1>10. stored \in StoreNote
  BY <1>4, MemoryAssumption DEF Nothing, StoreNote
<1>11. EmptySlotsEmpty
  <2>1. state[0] = "Running"
    BY <1>2, <1>4 DEF PT!Init, PT!Slot, Slot
  <2>2. QED
    BY <1>3, <2>1 DEF EmptySlotsEmpty
<1>12. QED
  BY <1>8, <1>9, <1>10, <1>11 DEF MemoryInv, SoundState

-----------------------------------------------------------------------------
(* Counting frames.                                                        *)

(* What is used of counting and of the numbers.                            *)
Counting ==
  /\ IsFiniteSet(Slot) /\ IsFiniteSet(Page) /\ IsFiniteSet(Frame)
  /\ IsFiniteSet(TableId) /\ IsFiniteSet(Slot \X TableId)
  /\ \A A, B : IsFiniteSet(A) /\ B \subseteq A =>
       /\ IsFiniteSet(B) /\ Cardinality(B) \in Nat
       /\ Cardinality(B) <= Cardinality(A)
  /\ \A A, B : IsFiniteSet(A) /\ IsFiniteSet(B) /\ A \cap B = {} =>
       Cardinality(A \cup B) = Cardinality(A) + Cardinality(B)
  /\ \A A, B, h : /\ IsFiniteSet(A) /\ h \in [A -> B]
                  /\ \A x, y \in A : h[x] = h[y] => x = y
                  /\ \A b \in B : \E x \in A : h[x] = b
                  => Cardinality(B) = Cardinality(A)
  /\ Cardinality({}) = 0 /\ \A x : IsFiniteSet({x}) /\ Cardinality({x}) = 1
  /\ \A A \in SUBSET Nat : A # {} => Min(A) \in A /\ \A a \in A : Min(A) <= a

(* Every frame is spare, a root's, a kernel stack's, a table's or          *)
(* referenced.                                                             *)
BalanceInv ==
  /\ tables \in [Slot -> SUBSET TableId]
  /\ spare \in Nat
  /\ spare + (1 + KERNEL_STACK_PAGES) * Cardinality(Occupied)
           + Cardinality(TablesInUse) + Cardinality(Referenced) = TotalFrames

(* The parts of what is counted are finite.                                *)
LEMMA Counts ==
  ASSUME Counting
  PROVE  /\ IsFiniteSet(Occupied) /\ Cardinality(Occupied) \in Nat
         /\ IsFiniteSet(TablesInUse) /\ Cardinality(TablesInUse) \in Nat
         /\ IsFiniteSet(Referenced) /\ Cardinality(Referenced) \in Nat
<1>1. Occupied \subseteq Slot /\ TablesInUse \subseteq Slot \X TableId
      /\ Referenced \subseteq Frame
  BY DEF Occupied, TablesInUse, Referenced
<1>2. QED
  BY Zenon, <1>1 DEF Counting

(* A set that gains some members.                                          *)
LEMMA CountGrown ==
  ASSUME Counting, NEW A, NEW N, IsFiniteSet(A), IsFiniteSet(N), A \cap N = {}
  PROVE  /\ Cardinality(A \cup N) = Cardinality(A) + Cardinality(N)
         /\ Cardinality(A) \in Nat /\ Cardinality(N) \in Nat
<1>1. Cardinality(A) \in Nat /\ Cardinality(N) \in Nat
  BY DEF Counting
<1>2. QED
  BY <1>1 DEF Counting

(* As many pages as frames that a mapping of one to the other names.       *)
LEMMA CountRange ==
  ASSUME Counting, NEW X \in SUBSET Page, NEW g \in Injection(X, Frame)
  PROVE  /\ Range(g) \in SUBSET Frame /\ IsFiniteSet(Range(g))
         /\ Cardinality(Range(g)) = Cardinality(X) /\ Cardinality(X) \in Nat
<1>1. /\ g \in [X -> Frame] /\ \A x, y \in X : g[x] = g[y] => x = y
      /\ DOMAIN g = X
  BY DEF Injection, IsInjective
<1>2. Range(g) \in SUBSET Frame /\ g \in [X -> Range(g)]
      /\ \A b \in Range(g) : \E x \in X : g[x] = b
  BY <1>1 DEF Range
<1>3. IsFiniteSet(X) /\ Cardinality(X) \in Nat /\ IsFiniteSet(Range(g))
  BY Zenon, <1>2 DEF Counting
<1>4. Cardinality(Range(g)) = Cardinality(X)
  BY SMTT(20), <1>1, <1>2, <1>3 DEF Counting
<1>5. QED
  BY <1>2, <1>3, <1>4

(* As many pairs of a slot and a place as places.                          *)
LEMMA CountPlaces ==
  ASSUME Counting, NEW c \in Slot, NEW K \in SUBSET TableId
  PROVE  /\ IsFiniteSet({c} \X K) /\ IsFiniteSet(K)
         /\ Cardinality({c} \X K) = Cardinality(K) /\ Cardinality(K) \in Nat
<1> DEFINE L == {c} \X K
           h == [x \in L |-> x[2]]
<1>1. L \subseteq Slot \X TableId
  OBVIOUS
<1>2. IsFiniteSet(L) /\ Cardinality(L) \in Nat
  BY Zenon, <1>1 DEF Counting
<1>3. h \in [L -> K] /\ (\A x, y \in L : h[x] = h[y] => x = y)
      /\ \A b \in K : \E x \in L : h[x] = b
  <2>1. h \in [L -> K] /\ \A x, y \in L : h[x] = h[y] => x = y
    OBVIOUS
  <2>2. ASSUME NEW b \in K PROVE \E x \in L : h[x] = b
    <3>1. <<c, b>> \in L /\ h[<<c, b>>] = b
      OBVIOUS
    <3>2. QED
      BY <3>1
  <2>3. QED
    BY <2>1, <2>2
<1> HIDE DEF h
<1>4. Cardinality(K) = Cardinality(L)
  <2> HIDE DEF L
  <2>1. \A A, B, g : /\ IsFiniteSet(A) /\ g \in [A -> B]
                     /\ \A x, y \in A : g[x] = g[y] => x = y
                     /\ \A y \in B : \E x \in A : g[x] = y
                     => Cardinality(B) = Cardinality(A)
    BY Zenon DEF Counting
  <2>2. QED
    BY Zenon, <1>2, <1>3, <2>1
<1>5. IsFiniteSet(K)
  BY DEF Counting
<1>6. QED
  BY <1>2, <1>4, <1>5
-----------------------------------------------------------------------------
(* Slots: only fork fills one and only wait empties one.                   *)
SlotsKept == \A i \in Slot : state'[i] \in {"None", "Gone"}
                               <=> state[i] \in {"None", "Gone"}

(* schedule() marks a slot Running that was Ready.                         *)
LEMMA ScheduleFillsNone ==
  ASSUME Counting, NEW st, st \in [Slot -> PT!ProcessState \cup {"None"}],
         PT!Schedule(st), NEW i \in Slot, st[i] \in {"None", "Gone"}
  PROVE  state'[i] = st[i]
<1> DEFINE R == PT!ReadyDistances(st)
           n == PT!PickNext(st)
<1>1. CASE n = MAX_PROCESSES
  BY <1>1 DEF PT!Schedule
<1>2. CASE n # MAX_PROCESSES
  <2>1. R # {} /\ R \in SUBSET Nat
    BY <1>2 DEF PT!PickNext, PT!ReadyDistances
  <2>2. Min(R) \in R
    BY <2>1 DEF Counting
  <2>3. n = (current + Min(R)) % MAX_PROCESSES
    BY <2>1, SameMin DEF PT!PickNext
  <2>4. st[n] = "Ready"
    BY <2>2, <2>3 DEF PT!ReadyDistances
  <2>5. state' = [st EXCEPT ![n] = "Running"]
    BY <1>2 DEF PT!Schedule
  <2> HIDE DEF n, R
  <2>6. i # n
    BY <2>4
  <2>7. QED
    BY <2>5, <2>6
<1>3. QED
  BY <1>1, <1>2

(* The end of a process fills none.                                        *)
LEMMA TerminateFillsNone ==
  ASSUME Counting, TableFacts, state[current] = "Running", NEW c, PT!Terminate(c)
  PROVE  SlotsKept
<1> DEFINE dead == [state EXCEPT ![current] = "Zombie"]
           woken == PT!WakeParent(dead, parent_pid'[current])
           Wt == {i \in PT!Slot : dead[i] = "Blocked" /\ pid[i] = parent_pid'[current]}
<1>1. current \in Slot /\ state \in [Slot -> PT!ProcessState \cup {"None"}]
  BY DEF TableFacts
<1>2. dead \in [Slot -> PT!ProcessState \cup {"None"}]
      /\ \A i \in Slot : state[i] \in {"None", "Gone"} => dead[i] = state[i]
  BY <1>1 DEF PT!ProcessState
<1>3. woken = IF Wt = {} THEN dead ELSE [dead EXCEPT ![Min(Wt)] = "Ready"]
  BY Zenon, SameMin DEF PT!WakeParent
<1>4. Wt # {} => dead[Min(Wt)] = "Blocked"
  <2>1. Wt \in SUBSET Nat
    BY TableAssumption DEF PT!Slot
  <2>2. Wt # {} => Min(Wt) \in Wt
    BY <2>1 DEF Counting
  <2>3. QED
    BY <2>2
<1>5. PT!Schedule(woken)
  BY DEF PT!Terminate
<1>6. NoneEmptied
  BY TerminateKeepsSlots
<1> HIDE DEF dead, woken, Wt
<1>7. woken \in [Slot -> PT!ProcessState \cup {"None"}]
      /\ \A i \in Slot : dead[i] \in {"None", "Gone"} => woken[i] = dead[i]
  BY Zenon, <1>2, <1>3, <1>4 DEF PT!ProcessState
<1>8. \A i \in Slot : state[i] \in {"None", "Gone"} => state'[i] = state[i]
  BY <1>2, <1>5, <1>7, ScheduleFillsNone
<1>9. QED
  BY <1>6, <1>8 DEF SlotsKept, NoneEmptied

(* Nor does a wait that blocks.                                            *)
LEMMA BlockFillsNone ==
  ASSUME Counting, TableFacts, PT!WaitBlock
  PROVE  SlotsKept
<1> DEFINE st == [state EXCEPT ![current] = "Blocked"]
<1>1. /\ current \in Slot /\ state \in [Slot -> PT!ProcessState \cup {"None"}]
      /\ state[current] = "Running"
  BY DEF TableFacts, PT!WaitBlock
<1>2. /\ st \in [Slot -> PT!ProcessState \cup {"None"}]
      /\ \A i \in Slot : state[i] \in {"None", "Gone"} => st[i] = state[i]
  BY <1>1 DEF PT!ProcessState
<1>3. PT!Schedule(st)
  BY DEF PT!WaitBlock
<1>4. NoneEmptied
  BY BlockKeepsSlots
<1> HIDE DEF st
<1>5. \A i \in Slot : state[i] \in {"None", "Gone"} => state'[i] = state[i]
  BY <1>2, <1>3, ScheduleFillsNone
<1>6. QED
  BY <1>4, <1>5 DEF SlotsKept, NoneEmptied

(* A frame that a process maps is referenced, and what is not mapped is    *)
(* not there at all.                                                       *)
Referred ==
  \A i \in Slot : \A p \in UserPages(i) : refs[pt[i][p].f] > 0

HolesEmpty ==
  \A i \in Slot, p \in Page : ~pt[i][p].v => pt[i][p] = NoLeaf

FramesInv == BalanceInv /\ HolesEmpty

(* The slots and tables that are counted, in the terms of the table.       *)
LEMMA InUse ==
  /\ \A i : i \in Occupied <=> i \in Slot /\ state[i] \notin {"None", "Gone"}
  /\ \A i : i \in Occupied' <=> i \in Slot /\ state'[i] \notin {"None", "Gone"}
  /\ \A i, t : <<i, t>> \in TablesInUse <=>
       i \in Occupied /\ t \in TableId /\ t \in tables[i]
  /\ \A i, t : <<i, t>> \in TablesInUse' <=>
       i \in Occupied' /\ t \in TableId /\ t \in tables'[i]
  /\ TablesInUse \subseteq Slot \X TableId /\ TablesInUse' \subseteq Slot \X TableId
<1>1. \A i : i \in Occupied <=> i \in Slot /\ state[i] \notin {"None", "Gone"}
  BY DEF Occupied, PT!Exists
<1>2. \A i : i \in Occupied' <=> i \in Slot /\ state'[i] \notin {"None", "Gone"}
  BY DEF Occupied, PT!Exists
<1>3. \A i, t : <<i, t>> \in TablesInUse <=>
       i \in Occupied /\ t \in TableId /\ t \in tables[i]
  BY <1>1 DEF TablesInUse
<1>4. \A i, t : <<i, t>> \in TablesInUse' <=>
       i \in Occupied' /\ t \in TableId /\ t \in tables'[i]
  BY <1>2 DEF TablesInUse
<1>5. TablesInUse \subseteq Slot \X TableId /\ TablesInUse' \subseteq Slot \X TableId
  BY DEF TablesInUse
<1>6. QED
  BY <1>1, <1>2, <1>3, <1>4, <1>5

-----------------------------------------------------------------------------
(* What a handler takes from the allocator is what is in use afterwards.   *)

(* The books after a step that fills a (or, if a is negative, empties -a)  *)
(* slots and gains b tables and c frames.                                  *)
LEMMA Ledger ==
  ASSUME Counting, BalanceInv, tables' \in [Slot -> SUBSET TableId],
         NEW a \in {-1, 0, 1}, NEW b \in Int, NEW c \in Int,
         Cardinality(Occupied') = Cardinality(Occupied) + a,
         Cardinality(TablesInUse') = Cardinality(TablesInUse) + b,
         Cardinality(Referenced') = Cardinality(Referenced) + c,
         spare' = spare - (1 + KERNEL_STACK_PAGES) * a - b - c, spare' \in Nat
  PROVE  BalanceInv'
<1> DEFINE k == 1 + KERNEL_STACK_PAGES
           n == Cardinality(Occupied)
<1>1. k \in Nat /\ n \in Nat /\ Cardinality(TablesInUse) \in Nat
      /\ Cardinality(Referenced) \in Nat /\ spare \in Nat /\ TotalFrames \in Nat
  BY Counts, MemoryAssumption DEF BalanceInv
<1>2. spare + k * n + Cardinality(TablesInUse) + Cardinality(Referenced) = TotalFrames
  BY DEF BalanceInv
<1>3. k * (n + a) = k * n + k * a /\ k * n \in Nat /\ k * a \in Int
  <2> HIDE DEF k, n
  <2>1. CASE a = 0
    BY <1>1, <2>1
  <2>2. CASE a = 1
    BY <1>1, <2>2
  <2>3. CASE a = -1
    BY <1>1, <2>3
  <2>4. QED
    BY <2>1, <2>2, <2>3
<1>4. spare' + k * (n + a) + Cardinality(TablesInUse') + Cardinality(Referenced')
        = TotalFrames
  <2>1. /\ spare' = spare - k * a - b - c
        /\ Cardinality(TablesInUse') = Cardinality(TablesInUse) + b
        /\ Cardinality(Referenced') = Cardinality(Referenced) + c
    OBVIOUS
  <2> DEFINE x == k * n
             y == k * a
             z == k * (n + a)
  <2>2. /\ z = x + y /\ x \in Nat /\ y \in Int /\ spare' = spare - y - b - c
        /\ spare + x + Cardinality(TablesInUse) + Cardinality(Referenced)
             = TotalFrames
    BY <1>2, <1>3, <2>1
  <2> HIDE DEF x, y, z
  <2>3. spare' + z + Cardinality(TablesInUse') + Cardinality(Referenced')
          = TotalFrames
    BY SMTT(20), <1>1, <2>1, <2>2
  <2>4. QED
    BY <2>3 DEF z
<1>5. QED
  BY <1>4 DEF BalanceInv

(* No slot and no table changes hands.                                     *)
LEMMA SameTables ==
  ASSUME SlotsKept, UNCHANGED tables
  PROVE  Occupied' = Occupied /\ TablesInUse' = TablesInUse
<1>1. Occupied' = Occupied
  BY InUse DEF SlotsKept
<1>2. TablesInUse' = {x \in Slot \X TableId : x[1] \in Occupied' /\ x[2] \in tables'[x[1]]}
  BY DEF TablesInUse
<1>3. QED
  BY <1>1, <1>2 DEF TablesInUse

(* A process gets the tables N.                                            *)
LEMMA MoreTables ==
  ASSUME Counting, BalanceInv, SlotsKept, NEW i \in Occupied,
         NEW N \in SUBSET TableId, N \cap tables[i] = {},
         tables' = [tables EXCEPT ![i] = @ \cup N]
  PROVE  /\ Occupied' = Occupied
         /\ Cardinality(TablesInUse') = Cardinality(TablesInUse) + Cardinality(N)
         /\ tables' \in [Slot -> SUBSET TableId] /\ Cardinality(N) \in Nat
<1>1. Occupied' = Occupied /\ i \in Slot
  BY Zenon, InUse DEF SlotsKept
<1>2. tables \in [Slot -> SUBSET TableId]
  BY DEF BalanceInv
<1>3. tables' \in [Slot -> SUBSET TableId]
  BY <1>1, <1>2
<1>4. \A j \in Slot, t \in TableId : <<j, t>> \in TablesInUse' <=>
        <<j, t>> \in TablesInUse \/ (j = i /\ t \in N)
  BY Zenon, <1>1, <1>2, InUse
<1>5. \A j, t : <<j, t>> \in {i} \X N <=> j = i /\ t \in N
  OBVIOUS
<1>6. {i} \X N \subseteq Slot \X TableId
  BY <1>1
<1>7. TablesInUse' = TablesInUse \cup ({i} \X N)
  BY <1>4, <1>5, <1>6, InUse
<1>8. TablesInUse \cap ({i} \X N) = {}
  <2>1. \A t \in N : <<i, t>> \notin TablesInUse
    BY InUse
  <2>2. QED
    BY <2>1
<1>9. /\ Cardinality({i} \X N) = Cardinality(N) /\ Cardinality(N) \in Nat
      /\ IsFiniteSet({i} \X N)
  BY Zenon, <1>1, CountPlaces
<1>10. Cardinality(TablesInUse') = Cardinality(TablesInUse) + Cardinality(N)
  BY SMTT(20), <1>7, <1>8, <1>9, Counts, CountGrown
<1>11. QED
  BY <1>1, <1>3, <1>9, <1>10

(* A slot is filled, with the tables N.                                    *)
LEMMA SlotFilled ==
  ASSUME Counting, BalanceInv, NEW i \in Slot \ Occupied,
         Occupied' = Occupied \cup {i}, NEW N \in SUBSET TableId,
         tables' = [tables EXCEPT ![i] = N]
  PROVE  /\ Cardinality(Occupied') = Cardinality(Occupied) + 1
         /\ Cardinality(TablesInUse') = Cardinality(TablesInUse) + Cardinality(N)
         /\ tables' \in [Slot -> SUBSET TableId] /\ Cardinality(N) \in Nat
<1>1. tables \in [Slot -> SUBSET TableId]
  BY DEF BalanceInv
<1>2. tables' \in [Slot -> SUBSET TableId]
  BY <1>1
<1>3. Cardinality(Occupied') = Cardinality(Occupied) + 1
  <2>1. IsFiniteSet({i}) /\ Cardinality({i}) = 1 /\ Occupied \cap {i} = {}
    BY Zenon DEF Counting
  <2>2. QED
    BY <2>1, Counts, CountGrown
<1>4. \A j \in Slot, t \in TableId : <<j, t>> \in TablesInUse' <=>
        <<j, t>> \in TablesInUse \/ (j = i /\ t \in N)
  BY Zenon, <1>1, InUse
<1>5. \A j, t : <<j, t>> \in {i} \X N <=> j = i /\ t \in N
  OBVIOUS
<1>6. {i} \X N \subseteq Slot \X TableId
  OBVIOUS
<1>7. TablesInUse' = TablesInUse \cup ({i} \X N)
  BY <1>4, <1>5, <1>6, InUse
<1>8. TablesInUse \cap ({i} \X N) = {}
  <2>1. \A t \in N : <<i, t>> \notin TablesInUse
    BY InUse
  <2>2. QED
    BY <2>1
<1>9. /\ Cardinality({i} \X N) = Cardinality(N) /\ Cardinality(N) \in Nat
      /\ IsFiniteSet({i} \X N)
  BY Zenon, CountPlaces
<1>10. Cardinality(TablesInUse') = Cardinality(TablesInUse) + Cardinality(N)
  BY Zenon, <1>7, <1>8, <1>9, Counts, CountGrown
<1>11. QED
  BY <1>2, <1>3, <1>9, <1>10

(* A slot is emptied.                                                      *)
LEMMA SlotEmptied ==
  ASSUME Counting, BalanceInv, NEW i \in Occupied, Occupied' = Occupied \ {i},
         tables' = [tables EXCEPT ![i] = {}]
  PROVE  /\ Cardinality(Occupied) = Cardinality(Occupied') + 1
         /\ Cardinality(TablesInUse)
              = Cardinality(TablesInUse') + Cardinality(tables[i])
         /\ tables' \in [Slot -> SUBSET TableId]
         /\ Cardinality(tables[i]) \in Nat
         /\ Cardinality(Occupied') \in Nat /\ Cardinality(TablesInUse') \in Nat
<1> DEFINE N == tables[i]
<1>1. tables \in [Slot -> SUBSET TableId] /\ i \in Slot
  BY InUse DEF BalanceInv
<1>2. tables' \in [Slot -> SUBSET TableId] /\ N \in SUBSET TableId
  BY <1>1
<1>3. \A j \in Slot, t \in TableId : <<j, t>> \in TablesInUse <=>
        <<j, t>> \in TablesInUse' \/ (j = i /\ t \in N)
  BY Zenon, <1>1, InUse
<1> HIDE DEF N
<1>4. /\ IsFiniteSet(Occupied') /\ Cardinality(Occupied') \in Nat
      /\ IsFiniteSet(TablesInUse') /\ Cardinality(TablesInUse') \in Nat
  <2>1. Occupied' \subseteq Slot /\ TablesInUse' \subseteq Slot \X TableId
    BY InUse
  <2>2. QED
    BY Zenon, <2>1 DEF Counting
<1>5. Cardinality(Occupied) = Cardinality(Occupied') + 1
  <2>1. IsFiniteSet({i}) /\ Cardinality({i}) = 1 /\ Occupied' \cap {i} = {}
        /\ Occupied = Occupied' \cup {i}
    BY Zenon DEF Counting
  <2> DEFINE O == Occupied'
  <2>2. IsFiniteSet(O) /\ O \cap {i} = {} /\ Occupied = O \cup {i}
    BY <1>4, <2>1
  <2> HIDE DEF O
  <2>3. Cardinality(O \cup {i}) = Cardinality(O) + Cardinality({i})
    BY <2>1, <2>2, CountGrown
  <2>4. QED
    BY <2>1, <2>2, <2>3 DEF O
<1>6. \A j, t : <<j, t>> \in {i} \X N <=> j = i /\ t \in N
  OBVIOUS
<1>7. {i} \X N \subseteq Slot \X TableId
  BY <1>1, <1>2
<1>8. TablesInUse = TablesInUse' \cup ({i} \X N)
  BY <1>3, <1>6, <1>7, InUse
<1>9. TablesInUse' \cap ({i} \X N) = {}
  <2>1. \A t \in N : <<i, t>> \notin TablesInUse'
    BY InUse
  <2>2. QED
    BY <2>1
<1>10. /\ Cardinality({i} \X N) = Cardinality(N) /\ Cardinality(N) \in Nat
       /\ IsFiniteSet({i} \X N)
  BY <1>1, <1>2, CountPlaces
<1>11. Cardinality(TablesInUse) = Cardinality(TablesInUse') + Cardinality(N)
  <2> DEFINE O == TablesInUse'
             M == {i} \X N
  <2>1. IsFiniteSet(O) /\ O \cap M = {} /\ TablesInUse = O \cup M /\ IsFiniteSet(M)
        /\ Cardinality(M) = Cardinality(N)
    BY <1>4, <1>8, <1>9, <1>10
  <2> HIDE DEF O, M
  <2>2. Cardinality(O \cup M) = Cardinality(O) + Cardinality(M)
    BY <2>1, CountGrown
  <2>3. QED
    BY <2>1, <2>2 DEF O
<1>12. QED
  BY <1>2, <1>4, <1>5, <1>10, <1>11 DEF N

(* Breaking copy-on-write references as many new frames as it copies.      *)
LEMMA CowReferenced ==
  ASSUME Counting, refs \in [Frame -> Nat], spare \in Nat, NEW B \in SUBSET Page,
         NEW g \in CowFrames(B), refs' = RefsAfterCow(B, g)
  PROVE  /\ Cardinality(Referenced')
              = Cardinality(Referenced) + Cardinality(SharedPages(B))
         /\ Cardinality(SharedPages(B)) \in Nat
         /\ Cardinality(SharedPages(B)) <= spare
<1> DEFINE X == SharedPages(B)
           D == FramesAt(current, X)
<1>1. Cardinality(X) <= spare /\ g \in Injection(X, FreeFrames)
  BY DEF CowFrames
<1>2. X \in SUBSET Page /\ \A f \in D : refs[f] > 1
  BY DEF SharedPages, CowPages, FramesAt
<1>3. refs' = [f \in Frame |-> IF f \in Range(g) THEN 1
                               ELSE IF f \in D THEN refs[f] - 1 ELSE refs[f]]
  BY DEF RefsAfterCow, DecRefs
<1> HIDE DEF X, D
<1>4. g \in Injection(X, Frame) /\ Range(g) \subseteq FreeFrames
  BY <1>1 DEF Injection, IsInjective, FreeFrames, Range
<1>5. /\ Range(g) \in SUBSET Frame /\ IsFiniteSet(Range(g))
      /\ Cardinality(Range(g)) = Cardinality(X) /\ Cardinality(X) \in Nat
  BY <1>2, <1>4, CountRange
<1>6. Referenced \cap Range(g) = {}
  BY <1>4 DEF Referenced, FreeFrames
<1>7. Referenced' = Referenced \cup Range(g)
  <2>1. Referenced' = {f \in Frame : refs'[f] > 0}
    BY DEF Referenced
  <2>2. \A f \in Frame : refs'[f] > 0 <=> refs[f] > 0 \/ f \in Range(g)
    BY <1>2, <1>3
  <2>3. QED
    BY <1>5, <2>1, <2>2 DEF Referenced
<1>8. Cardinality(Referenced') = Cardinality(Referenced) + Cardinality(Range(g))
  BY <1>5, <1>6, <1>7, Counts, CountGrown
<1>9. QED
  BY <1>1, <1>5, <1>8 DEF X

(* Unmapping frees the frames that had one reference.                      *)
LEMMA LessReferenced ==
  ASSUME Counting, refs \in [Frame -> Nat], Referred, current \in Slot,
         NEW G \in SUBSET UserPages(current), NEW D, D = FramesAt(current, G),
         \A f \in D : f \in Frame, refs' = DecRefs(refs, D)
  PROVE  /\ Cardinality(Referenced) = Cardinality(Referenced') + FreedBy(D)
         /\ FreedBy(D) \in Nat /\ Cardinality(Referenced') \in Nat
<1> DEFINE N == {f \in D : refs[f] = 1}
           O == Referenced'
<1>1. \A f \in D : f \in Frame /\ refs[f] > 0
  BY DEF Referred, FramesAt
<1>2. \A f \in Frame : refs'[f] = IF f \in D THEN refs[f] - 1 ELSE refs[f]
  BY DEF DecRefs
<1>3. O = {f \in Frame : refs'[f] > 0}
  BY DEF Referenced
<1>4. Referenced = O \cup N /\ O \cap N = {}
  <2>1. \A f \in Frame : refs[f] > 0 <=> refs'[f] > 0 \/ f \in N
    BY <1>1, <1>2
  <2>2. \A f \in N : f \in Frame /\ ~(refs'[f] > 0)
    BY <1>1, <1>2
  <2> HIDE DEF N
  <2>3. QED
    BY <1>3, <2>1, <2>2 DEF Referenced
<1>5. O \subseteq Frame /\ N \subseteq Frame
  BY <1>1, <1>3
<1>6. FreedBy(D) = Cardinality(N)
  BY DEF FreedBy
<1> HIDE DEF N, O
<1>7. /\ IsFiniteSet(O) /\ Cardinality(O) \in Nat
      /\ IsFiniteSet(N) /\ Cardinality(N) \in Nat
  BY Zenon, <1>5 DEF Counting
<1>8. Cardinality(O \cup N) = Cardinality(O) + Cardinality(N)
  BY <1>4, <1>7, CountGrown
<1>9. QED
  BY <1>4, <1>6, <1>7, <1>8 DEF O

-----------------------------------------------------------------------------
(* The handlers balance the books.                                         *)

(* What is known before a step.                                            *)
Before == Counting /\ FramesInv /\ Referred /\ TableFacts /\ MemoryInv

(* Consequences used throughout.                                           *)
LEMMA BeforeFacts ==
  ASSUME Before
  PROVE  /\ Counting /\ BalanceInv /\ HolesEmpty /\ Referred /\ TableFacts
         /\ refs \in [Frame -> Nat] /\ pt \in [Slot -> [Page -> PTE]]
         /\ current \in Slot /\ spare \in Nat
         /\ tables \in [Slot -> SUBSET TableId]
         /\ \A i \in Slot, p \in Page : pt[i][p].u => pt[i][p].v /\ pt[i][p].f \in Frame
         /\ power = "on" => current \in Occupied
         /\ KERNEL_STACK_PAGES \in Nat
<1>1. /\ Counting /\ BalanceInv /\ HolesEmpty /\ Referred /\ TableFacts
      /\ current \in Slot
  BY DEF Before, FramesInv, TableFacts
<1>2. spare \in Nat /\ tables \in [Slot -> SUBSET TableId]
  BY <1>1 DEF BalanceInv
<1>3. /\ refs \in [Frame -> Nat] /\ pt \in [Slot -> [Page -> PTE]]
      /\ \A i \in Slot, p \in Page : pt[i][p].u => pt[i][p].v /\ pt[i][p].f \in Frame
  BY DEF Before, MemoryInv, SoundState, Sound, LeavesTyped
<1>4. power = "on" => current \in Occupied
  BY <1>1, InUse DEF TableFacts
<1>5. QED
  BY <1>1, <1>2, <1>3, <1>4, MemoryAssumption

(* A step that leaves the frames alone.                                    *)
LEMMA QuietBalance ==
  ASSUME Before, SlotsKept, UNCHANGED <<tables, spare, refs>>
  PROVE  BalanceInv'
<1>1. Occupied' = Occupied /\ TablesInUse' = TablesInUse
  BY SameTables
<1>2. Referenced' = Referenced
  BY DEF Referenced
<1>3. tables \in [Slot -> SUBSET TableId] /\ spare \in Nat
      /\ spare + (1 + KERNEL_STACK_PAGES) * Cardinality(Occupied)
           + Cardinality(TablesInUse) + Cardinality(Referenced) = TotalFrames
  BY BeforeFacts DEF BalanceInv
<1>4. QED
  BY <1>1, <1>2, <1>3 DEF BalanceInv

(* One that breaks copy-on-write only.                                     *)
LEMMA CowBalance ==
  ASSUME Before, SlotsKept, NEW B \in SUBSET Page, NEW g \in CowFrames(B),
         refs' = RefsAfterCow(B, g), UNCHANGED tables,
         spare' = spare - Cardinality(SharedPages(B))
  PROVE  BalanceInv'
<1> DEFINE n == Cardinality(SharedPages(B))
<1>1. /\ Cardinality(Referenced') = Cardinality(Referenced) + n
      /\ n \in Nat /\ n <= spare
  BY BeforeFacts, CowReferenced
<1>2. Occupied' = Occupied /\ TablesInUse' = TablesInUse
  BY SameTables
<1> HIDE DEF n
<1>3. /\ Cardinality(Occupied') = Cardinality(Occupied) + 0
      /\ Cardinality(TablesInUse') = Cardinality(TablesInUse) + 0
  BY SMTT(20), <1>2, Counts, BeforeFacts
<1>4. spare' = spare - (1 + KERNEL_STACK_PAGES) * 0 - 0 - n /\ spare' \in Nat
  BY SMTT(20), <1>1, BeforeFacts DEF n
<1>5. QED
  BY SMTT(20), <1>1, <1>3, <1>4, BeforeFacts, Ledger

(* One that unmaps pages only.                                             *)
LEMMA UnmapBalance ==
  ASSUME Before, SlotsKept, NEW G \in SUBSET UserPages(current),
         refs' = DecRefs(refs, FramesAt(current, G)), UNCHANGED tables,
         spare' = spare + FreedBy(FramesAt(current, G))
  PROVE  BalanceInv'
<1> DEFINE D == FramesAt(current, G)
           n == FreedBy(D)
<1>1. \A f \in D : f \in Frame
  BY BeforeFacts DEF FramesAt, UserPages
<1>2. /\ Cardinality(Referenced) = Cardinality(Referenced') + n
      /\ n \in Nat /\ Cardinality(Referenced') \in Nat
  <2> HIDE DEF n
  <2>1. refs' = DecRefs(refs, D)
    OBVIOUS
  <2> HIDE DEF D
  <2>2. QED
    BY <1>1, <2>1, BeforeFacts, LessReferenced DEF D, n
<1>3. Occupied' = Occupied /\ TablesInUse' = TablesInUse
  BY SameTables
<1>4. spare' = spare + n
  OBVIOUS
<1> HIDE DEF n, D
<1>5. /\ Cardinality(Occupied') = Cardinality(Occupied) + 0
      /\ Cardinality(TablesInUse') = Cardinality(TablesInUse) + 0
      /\ Cardinality(Referenced') = Cardinality(Referenced) + (-n)
  BY SMTT(20), <1>2, <1>3, Counts, BeforeFacts
<1>6. spare' = spare - (1 + KERNEL_STACK_PAGES) * 0 - 0 - (-n) /\ spare' \in Nat
  BY SMTT(20), <1>2, <1>4, BeforeFacts
<1>7. QED
  BY SMTT(20), <1>2, <1>5, <1>6, BeforeFacts, Ledger

-----------------------------------------------------------------------------
(* The tables that fork gets.                                              *)

Ordered(U, before) ==
  /\ before \in [U -> SUBSET U]
  /\ \A s, t \in U : s # t => s \in before[t] \/ t \in before[s]
  /\ \A t \in U : t \notin before[t]
  /\ \A s, t \in U : s \in before[t] => before[s] \subseteq before[t]

(* Of tables that are asked for in some order, the first m are got, all of *)
(* them if there are no more than m.                                       *)
LEMMA FirstInOrder ==
  ASSUME Counting, NEW U \in SUBSET TableId, NEW before, Ordered(U, before),
         NEW m \in Nat, NEW K, K = {t \in U : Cardinality(before[t]) + 1 <= m}
  PROVE  /\ Cardinality(K) \in Nat /\ Cardinality(K) <= m
         /\ K # U => Cardinality(K) = m
<1> DEFINE c(t) == Cardinality(before[t])
<1>1. IsFiniteSet(U) /\ IsFiniteSet(K) /\ Cardinality(K) \in Nat
  BY Zenon DEF Counting
<1>2. ASSUME NEW t \in U
      PROVE  IsFiniteSet(before[t]) /\ c(t) \in Nat /\ before[t] \subseteq U
  BY <1>1 DEF Counting, Ordered
<1>3. ASSUME NEW t \in U
      PROVE  /\ Cardinality(before[t] \cup {t}) = c(t) + 1
             /\ IsFiniteSet(before[t] \cup {t})
  <2>1. IsFiniteSet({t}) /\ Cardinality({t}) = 1 /\ before[t] \cap {t} = {}
    BY Zenon DEF Counting, Ordered
  <2>2. Cardinality(before[t] \cup {t}) = c(t) + 1
    BY Zenon, <1>2, <2>1, CountGrown
  <2>3. before[t] \cup {t} \subseteq U
    BY <1>2
  <2>4. QED
    BY Zenon, <1>1, <2>2, <2>3 DEF Counting
<1>4. ASSUME NEW s \in U, NEW t \in U, s \in before[t]
      PROVE  c(s) < c(t)
  <2>1. before[s] \cup {s} \subseteq before[t]
    BY <1>4 DEF Ordered
  <2>2. Cardinality(before[s] \cup {s}) <= c(t)
    BY <1>2, <2>1 DEF Counting
  <2>3. QED
    BY SMTT(20), <1>2, <1>3, <2>2
<1> HIDE DEF c
<1>5. \A t \in U : t \in K <=> c(t) + 1 <= m
  BY DEF c
<1>6. Cardinality(K) <= m
  <2>1. CASE K = {}
    BY SMTT(20), <2>1 DEF Counting
  <2>2. CASE K # {}
    <3> DEFINE A == {m - c(t) : t \in K}
    <3>1. A # {} /\ A \in SUBSET Nat
      BY <1>2, <1>5, <2>2
    <3>2. Min(A) \in A /\ \A a \in A : Min(A) <= a
      BY Zenon, <3>1 DEF Counting
    <3>3. PICK t \in K : Min(A) = m - c(t)
      BY Zenon, <3>2
    <3>4. ASSUME NEW s \in K PROVE c(s) <= c(t)
      <4>1. m - c(s) \in A
        OBVIOUS
      <4>2. m - c(t) <= m - c(s)
        BY <3>2, <3>3, <4>1
      <4>3. c(s) \in Nat /\ c(t) \in Nat
        BY <1>2
      <4>4. QED
        BY <4>2, <4>3
    <3>5. K \subseteq before[t] \cup {t}
      <4>1. ASSUME NEW s \in K, s # t, s \notin before[t] PROVE FALSE
        <5>1. t \in before[s]
          BY <4>1 DEF Ordered
        <5>2. c(t) < c(s) /\ c(s) <= c(t) /\ c(s) \in Nat /\ c(t) \in Nat
          BY <1>2, <1>4, <3>4, <5>1
        <5>3. QED
          BY <5>2
      <4>2. QED
        BY <4>1
    <3>6. Cardinality(K) <= Cardinality(before[t] \cup {t})
      BY Zenon, <1>3, <3>5 DEF Counting
    <3>7. Cardinality(before[t] \cup {t}) = c(t) + 1 /\ c(t) + 1 <= m
      BY <1>3, <1>5
    <3>8. c(t) \in Nat
      BY <1>2
    <3>9. QED
      BY SMTT(20), <1>1, <3>6, <3>7, <3>8
  <2>3. QED
    BY <2>1, <2>2
<1>7. ASSUME K # U PROVE m <= Cardinality(K)
  <2> DEFINE R == U \ K
             A == {c(t) : t \in R}
  <2>1. A # {} /\ A \in SUBSET Nat
    BY <1>2, <1>7
  <2>2. Min(A) \in A /\ \A a \in A : Min(A) <= a
    BY Zenon, <2>1 DEF Counting
  <2>3. PICK t \in R : Min(A) = c(t)
    BY <2>2
  <2>4. \A s \in R : c(t) <= c(s)
    BY SMTT(20), <2>2, <2>3
  <2>5. before[t] \subseteq K
    <3>1. ASSUME NEW s \in before[t], s \notin K PROVE FALSE
      <4>1. s \in U /\ c(s) < c(t) /\ c(s) \in Nat /\ c(t) \in Nat
        BY <1>2, <1>4
      <4>2. c(t) <= c(s)
        BY <2>4, <3>1, <4>1
      <4>3. QED
        BY <4>1, <4>2
    <3>2. QED
      BY <3>1
  <2>6. c(t) <= Cardinality(K)
    BY <1>1, <2>5 DEF Counting, c
  <2>7. c(t) \in Nat /\ m <= c(t)
    BY <1>2, <1>5
  <2>8. QED
    BY <1>1, <2>6, <2>7
<1>8. QED
  BY <1>1, <1>6, <1>7

UserTables == {Level1(p) : p \in UserPages(current)}
OtherTables == {Level1(p) : p \in {q \in Page : pt[current][q].v}} \ UserTables
AskedBefore ==
  [t \in UserTables \cup OtherTables |->
     IF t \in UserTables THEN {s \in UserTables : s < t}
     ELSE UserTables \cup {s \in OtherTables : s < t}]

(* Places of last-level tables are numbers.                                *)
LEMMA Level1Nat ==
  ASSUME NEW p \in Page
  PROVE  Level1(p) \in TableId \ {Level2} /\ Level1(p) \in Nat
<1>1. p \in Nat /\ PagesPerTable \in Nat /\ PagesPerTable > 0
  BY MemoryAssumption
<1>2. p \div PagesPerTable \in Nat
  BY <1>1
<1>3. QED
  BY <1>2 DEF Level1, Level2, TableId

(* Both passes of fork ask for tables in one order.                        *)
LEMMA AskedInOrder ==
  /\ UserTables \cup OtherTables \in SUBSET (TableId \ {Level2})
  /\ Ordered(UserTables \cup OtherTables, AskedBefore)
<1> DEFINE V == UserTables
           O == OtherTables
           U == V \cup O
           b == AskedBefore
<1>1. V \subseteq TableId \ {Level2} /\ V \subseteq Nat
  BY Level1Nat DEF UserTables, UserPages
<1>2. O \subseteq TableId \ {Level2} /\ O \subseteq Nat /\ V \cap O = {}
  BY Level1Nat DEF OtherTables
<1>3. b = [t \in U |-> IF t \in V THEN {s \in V : s < t}
                       ELSE V \cup {s \in O : s < t}]
  BY DEF AskedBefore
<1> HIDE DEF V, O, b
<1>4. \A t \in V : b[t] = {s \in V : s < t}
  BY <1>3
<1>5. \A t \in O : b[t] = V \cup {s \in O : s < t}
  BY <1>2, <1>3
<1>6. b \in [U -> SUBSET U]
  BY <1>3
<1>7. \A s, t \in U : s # t => s \in b[t] \/ t \in b[s]
  BY <1>1, <1>2, <1>4, <1>5
<1>8. \A t \in U : t \notin b[t]
  <2>1. \A t \in V : t \notin b[t]
    BY <1>1, <1>4
  <2>2. \A t \in O : t \notin b[t]
    BY <1>2, <1>5
  <2>3. QED
    BY <2>1, <2>2
<1>9. ASSUME NEW s \in U, NEW t \in U, s \in b[t], NEW r \in b[s]
      PROVE  r \in b[t]
  <2>1. CASE t \in V
    <3>1. s \in V /\ s < t /\ r \in V /\ r < s
      BY <1>4, <1>9, <2>1
    <3>2. QED
      BY <1>1, <1>4, <2>1, <3>1
  <2>2. CASE t \in O
    <3>1. CASE s \in V
      BY <1>4, <1>5, <1>9, <2>2, <3>1
    <3>2. CASE s \in O
      <4>1. s < t /\ (r \in V \/ (r \in O /\ r < s))
        BY <1>2, <1>5, <1>9, <2>2, <3>2
      <4>2. CASE r \in V
        BY <1>5, <2>2, <4>2
      <4>3. CASE r \in O /\ r < s
        <5>1. r < t
          BY <1>2, <2>2, <3>2, <4>1, <4>3
        <5>2. QED
          BY <1>5, <2>2, <4>3, <5>1
      <4>4. QED
        BY <4>1, <4>2, <4>3
    <3>3. QED
      BY <3>1, <3>2
  <2>3. QED
    BY <2>1, <2>2
<1>10. Ordered(U, b)
  BY <1>6, <1>7, <1>8, <1>9 DEF Ordered
<1>11. QED
  BY <1>1, <1>2, <1>10 DEF V, O, b

(* fork gets no more tables than there are frames for them, and either all *)
(* that it asks for or as many as there are frames.                        *)
LEMMA ForkGets ==
  ASSUME Counting, NEW avail \in Nat
  PROVE  /\ ForkTables(avail) \in SUBSET TableId
         /\ Cardinality(ForkTables(avail)) \in Nat
         /\ Cardinality(ForkTables(avail)) <= avail
         /\ \/ \A p \in Page : pt[current][p].v => Level1(p) \in ForkTables(avail)
            \/ Cardinality(ForkTables(avail)) = avail
<1> DEFINE U == UserTables \cup OtherTables
           b == AskedBefore
           K == {t \in U : Cardinality(b[t]) + 2 <= avail}
           L == IF avail >= 1 /\ U # {} THEN {Level2} ELSE {}
           got == ForkTables(avail)
<1>1. got = K \cup L
  BY Zenon DEF ForkTables, UserTables, OtherTables, AskedBefore
<1>2. U \in SUBSET (TableId \ {Level2}) /\ Ordered(U, b) /\ Level2 \in TableId
  BY AskedInOrder DEF TableId
<1>3. \A p \in Page : pt[current][p].v => Level1(p) \in U
  BY DEF UserTables, OtherTables
<1>4. \A t \in U : Cardinality(b[t]) \in Nat
  BY Zenon, <1>2 DEF Counting, Ordered
<1>5. K \subseteq U
  OBVIOUS
<1> HIDE DEF U, b, got
<1>6. CASE avail = 0 \/ U = {}
  <2>1. got = {}
    BY <1>1, <1>4, <1>6
  <2>2. Cardinality(got) = 0
    BY <2>1 DEF Counting
  <2>3. QED
    BY SMTT(20), <1>3, <1>6, <2>1, <2>2 DEF got
<1>7. CASE avail > 0 /\ U # {}
  <2>1. avail - 1 \in Nat /\ L = {Level2}
    BY <1>7
  <2>2. K = {t \in U : Cardinality(b[t]) + 1 <= avail - 1}
    BY <1>4
  <2> HIDE DEF K, L
  <2>3. /\ Cardinality(K) \in Nat /\ Cardinality(K) <= avail - 1
        /\ K # U => Cardinality(K) = avail - 1
    <3>1. U \in SUBSET TableId /\ Ordered(U, b)
      BY <1>2
    <3>2. QED
      BY SMTT(20), <2>1, <2>2, <3>1, FirstInOrder
  <2>4. /\ IsFiniteSet(K) /\ IsFiniteSet({Level2}) /\ Cardinality({Level2}) = 1
        /\ K \cap {Level2} = {}
    BY Zenon, <1>2, <1>5 DEF Counting
  <2>5. Cardinality(got) = Cardinality(K) + 1
    BY <1>1, <2>1, <2>4, CountGrown
  <2>6. got \in SUBSET TableId
    BY <1>1, <1>2, <1>5, <2>1
  <2>7. K = U => \A p \in Page : pt[current][p].v => Level1(p) \in got
    BY <1>1, <1>3
  <2>8. QED
    BY SMTT(20), <2>3, <2>5, <2>6, <2>7 DEF got
<1>8. QED
  BY SMTT(20), <1>6, <1>7

-----------------------------------------------------------------------------
(* The other handlers balance the books too.                               *)

(* The slots when the process table is left alone.                         *)
LEMMA SlotsUnchanged ==
  ASSUME UNCHANGED state
  PROVE  SlotsKept
BY DEF SlotsKept

(* The tables that walk() finds missing.                                   *)
LEMMA Missing ==
  ASSUME Counting, NEW p \in Page
  PROVE  /\ MissingTables(p) \in SUBSET TableId
         /\ MissingTables(p) \cap tables[current] = {}
         /\ Cardinality(MissingTables(p)) \in Nat
<1>1. MissingTables(p) \in SUBSET TableId
  BY Level1Nat DEF MissingTables, TableId
<1>2. QED
  BY SMTT(20), <1>1 DEF MissingTables, Counting

(* brk and mmap of a page.                                                 *)
LEMMA MapZeroedBalance ==
  ASSUME Before, NEW p \in Page, NEW w \in BOOLEAN, MapZeroed(p, w)
  PROVE  BalanceInv'
<1> DEFINE N == MissingTables(p)
           n == Cardinality(N)
<1>1. PICK f \in FreeFrames : refs' = [refs EXCEPT ![f] = 1]
  BY Zenon DEF MapZeroed
<1>2. /\ N \in SUBSET TableId /\ N \cap tables[current] = {} /\ n \in Nat
  BY BeforeFacts, Missing
<1>3. /\ tables' = [tables EXCEPT ![current] = @ \cup N] /\ spare >= 1 + n
      /\ spare' = spare - 1 - n /\ UNCHANGED state /\ PT!InUser
  BY DEF MapZeroed, procVars
<1>4. current \in Occupied /\ SlotsKept
  BY <1>3, BeforeFacts, SlotsUnchanged DEF PT!InUser
<1> HIDE DEF n, N
<1>5. /\ Occupied' = Occupied
      /\ Cardinality(TablesInUse') = Cardinality(TablesInUse) + n
      /\ tables' \in [Slot -> SUBSET TableId]
  BY Zenon, <1>2, <1>3, <1>4, BeforeFacts, MoreTables DEF n
<1>6. Cardinality(Referenced') = Cardinality(Referenced) + 1
  <2>1. f \in Frame /\ refs[f] = 0
    BY DEF FreeFrames
  <2>2. Referenced' = Referenced \cup {f} /\ Referenced \cap {f} = {}
    BY SMTT(20), <1>1, <2>1, BeforeFacts DEF Referenced
  <2>3. IsFiniteSet({f}) /\ Cardinality({f}) = 1
    BY Zenon, BeforeFacts DEF Counting
  <2>4. QED
    BY <2>2, <2>3, BeforeFacts, Counts, CountGrown
<1>7. Cardinality(Occupied') = Cardinality(Occupied) + 0
  BY SMTT(20), <1>5, Counts, BeforeFacts
<1>8. spare' = spare - (1 + KERNEL_STACK_PAGES) * 0 - n - 1 /\ spare' \in Nat
  BY SMTT(20), <1>2, <1>3, BeforeFacts
<1>9. QED
  BY SMTT(20), <1>2, <1>5, <1>6, <1>7, <1>8, BeforeFacts, Ledger

(* ... and when there is no frame for the page or its tables.              *)
LEMMA MapFailsBalance ==
  ASSUME Before, NEW p \in Page, MapZeroedFails(p)
  PROVE  BalanceInv'
<1> DEFINE N == IF spare >= 2 /\ Level2 \in MissingTables(p) THEN {Level2} ELSE {}
           n == Cardinality(N)
<1>1. /\ N \in SUBSET TableId /\ N \cap tables[current] = {}
  BY BeforeFacts, Missing DEF TableId
<1>2. n \in Nat /\ n <= spare
  <2>1. N = {} \/ (N = {Level2} /\ spare >= 2)
    OBVIOUS
  <2>2. Cardinality({}) = 0 /\ Cardinality({Level2}) = 1 /\ spare \in Nat
    BY Zenon, BeforeFacts DEF Counting
  <2> HIDE DEF N
  <2>3. QED
    BY <2>1, <2>2
<1>3. /\ tables' = [tables EXCEPT ![current] = @ \cup N]
      /\ spare' = spare - n /\ UNCHANGED <<state, refs>> /\ PT!InUser
  BY DEF MapZeroedFails, procVars
<1>4. current \in Occupied /\ SlotsKept
  BY <1>3, BeforeFacts, SlotsUnchanged DEF PT!InUser
<1> HIDE DEF n, N
<1>5. /\ Occupied' = Occupied
      /\ Cardinality(TablesInUse') = Cardinality(TablesInUse) + n
      /\ tables' \in [Slot -> SUBSET TableId]
  BY Zenon, <1>1, <1>3, <1>4, BeforeFacts, MoreTables DEF n
<1>6. Referenced' = Referenced
  BY <1>3 DEF Referenced
<1>7. /\ Cardinality(Occupied') = Cardinality(Occupied) + 0
      /\ Cardinality(Referenced') = Cardinality(Referenced) + 0
  BY SMTT(20), <1>5, <1>6, Counts, BeforeFacts
<1>8. spare' = spare - (1 + KERNEL_STACK_PAGES) * 0 - n - 0 /\ spare' \in Nat
  BY SMTT(20), <1>2, <1>3, BeforeFacts
<1>9. QED
  BY SMTT(20), <1>2, <1>5, <1>7, <1>8, BeforeFacts, Ledger

(* fork: a root, a kernel stack and the tables it gets.                    *)
LEMMA ForkBalance ==
  ASSUME Before, Fork
  PROVE  BalanceInv'
<1> DEFINE x == Min(PT!EmptySlots)
           k == 1 + KERNEL_STACK_PAGES
           avail == spare - 1 - KERNEL_STACK_PAGES
           got == ForkTables(avail)
           n == Cardinality(got)
<1>1. /\ PT!InUser /\ PT!EmptySlots # {} /\ state' = [state EXCEPT ![x] = "Ready"]
      /\ tables' = [tables EXCEPT ![x] = got] /\ avail >= 0 /\ spare' = avail - n
  BY Zenon, SameMin DEF Fork, PT!Fork, PT!AddChild
<1>2. x \in PT!EmptySlots
  BY <1>1, BeforeFacts DEF TableFacts
<1>3. x \in Slot \ Occupied
  BY <1>2, InUse DEF PT!EmptySlots, PT!Slot, Slot
<1>4. refs' = [f \in Frame |-> IF f \in FramesAt(current, UserPages(current))
                               THEN refs[f] + 1 ELSE refs[f]]
  BY DEF Fork
<1>5. avail \in Nat /\ k \in Nat /\ avail = spare - k
  BY SMTT(20), <1>1, BeforeFacts
<1> HIDE DEF x, avail
<1>6. got \in SUBSET TableId /\ n \in Nat /\ n <= avail
  BY <1>5, BeforeFacts, ForkGets
<1>7. Occupied' = Occupied \cup {x}
  <2>1. state \in [Slot -> PT!ProcessState \cup {"None"}]
    BY BeforeFacts DEF TableFacts
  <2>2. \A i \in Slot : state'[i] = IF i = x THEN "Ready" ELSE state[i]
    BY <1>1, <1>3, <2>1
  <2>3. QED
    BY <1>3, <2>2, InUse
<1> HIDE DEF got, k
<1>8. /\ Cardinality(Occupied') = Cardinality(Occupied) + 1
      /\ Cardinality(TablesInUse') = Cardinality(TablesInUse) + n
      /\ tables' \in [Slot -> SUBSET TableId]
  BY Zenon, <1>1, <1>3, <1>6, <1>7, BeforeFacts, SlotFilled
<1>9. Referenced' = Referenced
  <2>1. \A f \in FramesAt(current, UserPages(current)) : refs[f] > 0
    BY BeforeFacts DEF Referred, FramesAt
  <2>2. \A f \in Frame : refs'[f] > 0 <=> refs[f] > 0
    BY SMTT(20), <1>4, <2>1, BeforeFacts
  <2>3. QED
    BY <2>2 DEF Referenced
<1>10. Cardinality(Referenced') = Cardinality(Referenced) + 0
  BY SMTT(20), <1>9, Counts, BeforeFacts
<1> HIDE DEF n
<1>11. spare' = spare - k * 1 - n - 0 /\ spare' \in Nat
  BY SMTT(20), <1>1, <1>5, <1>6, BeforeFacts
<1>12. spare' = spare - (1 + KERNEL_STACK_PAGES) * 1 - n - 0
  BY <1>11 DEF k
<1>13. QED
  BY SMTT(20), <1>6, <1>8, <1>10, <1>11, <1>12, BeforeFacts, Ledger

(* What wait gives back, whatever frames its store has taken.              *)
LEMMA EmptiedBalance ==
  ASSUME Before, NEW x \in Slot, x \in Occupied,
         state' = [state EXCEPT ![x] = "Gone"],
         tables' = [tables EXCEPT ![x] = {}],
         NEW m \in Nat, m <= spare, spare' = spare - m + Owned(x),
         Cardinality(Referenced') = Cardinality(Referenced) + m
  PROVE  BalanceInv'
<1> DEFINE k == 1 + KERNEL_STACK_PAGES
           n == Cardinality(tables[x])
<1>1. spare' = spare - m + (k + n)
  BY DEF Owned
<1>2. k \in Nat
  BY BeforeFacts
<1>3. Occupied' = Occupied \ {x}
  <2>1. state \in [Slot -> PT!ProcessState \cup {"None"}]
    BY BeforeFacts DEF TableFacts
  <2>2. \A i \in Slot : state'[i] = IF i = x THEN "Gone" ELSE state[i]
    BY <2>1
  <2>3. QED
    BY Zenon, <2>2, InUse
<1>4. /\ Cardinality(Occupied) = Cardinality(Occupied') + 1
      /\ Cardinality(TablesInUse) = Cardinality(TablesInUse') + n
      /\ tables' \in [Slot -> SUBSET TableId] /\ n \in Nat
      /\ Cardinality(Occupied') \in Nat /\ Cardinality(TablesInUse') \in Nat
  BY Zenon, <1>3, BeforeFacts, SlotEmptied
<1> HIDE DEF k, n
<1>5. /\ Cardinality(Occupied') = Cardinality(Occupied) + (-1)
      /\ Cardinality(TablesInUse') = Cardinality(TablesInUse) + (-n)
  BY <1>4
<1>6. spare' = spare - k * (-1) - (-n) - m /\ spare' \in Nat
  BY SMTT(20), <1>1, <1>2, <1>4, BeforeFacts
<1>7. spare' = spare - (1 + KERNEL_STACK_PAGES) * (-1) - (-n) - m
  BY <1>6 DEF k
<1>8. QED
  BY SMTT(20), <1>4, <1>5, <1>6, <1>7, BeforeFacts, Ledger

(* wait gives the child's root, kernel stack and tables back.              *)
LEMMA ReapBalance ==
  ASSUME Before, NEW W \in SUBSET Page, WaitReap(W)
  PROVE  BalanceInv'
<1> DEFINE x == Min(PT!ZombieChildren)
           m == Cardinality(SharedPages(W))
<1>1. /\ PT!ZombieChildren # {} /\ state' = [state EXCEPT ![x] = "Gone"]
      /\ tables' = [tables EXCEPT ![x] = {}] /\ spare' = spare - m + Owned(x)
  BY Zenon, SameMin DEF WaitReap, PT!WaitReap
<1>2. x \in PT!ZombieChildren
  BY <1>1, BeforeFacts DEF TableFacts
<1>3. x \in Occupied /\ x \in Slot
  BY Zenon, <1>2, InUse DEF PT!ZombieChildren, PT!Slot, Slot
<1>4. PICK g \in CowFrames(W) : refs' = RefsAfterCow(W, g)
  BY Zenon DEF WaitReap
<1> HIDE DEF x
<1>5. /\ Cardinality(Referenced') = Cardinality(Referenced) + m
      /\ m \in Nat /\ m <= spare
  BY <1>4, BeforeFacts, CowReferenced
<1> HIDE DEF m
<1>6. QED
  BY Zenon, <1>1, <1>3, <1>5, EmptiedBalance

(* So does a wait that stores through the kernel's map of RAM.             *)
LEMMA RamBalance ==
  ASSUME Before, NEW n \in Frame, WaitReapToRam(n)
  PROVE  BalanceInv'
<1> DEFINE x == Min(PT!ZombieChildren)
<1>1. /\ PT!ZombieChildren # {} /\ state' = [state EXCEPT ![x] = "Gone"]
      /\ tables' = [tables EXCEPT ![x] = {}] /\ spare' = spare + Owned(x)
      /\ refs' = refs
  BY Zenon, SameMin DEF WaitReapToRam, PT!WaitReap
<1>2. x \in PT!ZombieChildren
  BY <1>1, BeforeFacts DEF TableFacts
<1>3. x \in Occupied /\ x \in Slot
  BY Zenon, <1>2, InUse DEF PT!ZombieChildren, PT!Slot, Slot
<1> HIDE DEF x
<1>4. spare \in Nat /\ Owned(x) \in Nat /\ Cardinality(Referenced) \in Nat
  <2>1. tables[x] \in SUBSET TableId /\ Referenced \in SUBSET Frame
    BY <1>3, BeforeFacts DEF Referenced
  <2>2. Cardinality(tables[x]) \in Nat /\ Cardinality(Referenced) \in Nat
    BY Zenon, <2>1, BeforeFacts DEF Counting
  <2>3. QED
    BY <2>2, BeforeFacts DEF Owned
<1>5. Cardinality(Referenced') = Cardinality(Referenced) + 0
  BY <1>1, <1>4 DEF Referenced
<1>6. spare' = spare - 0 + Owned(x) /\ 0 <= spare /\ 0 \in Nat
  BY <1>1, <1>4
<1>7. QED
  BY Zenon, <1>1, <1>3, <1>5, <1>6, EmptiedBalance

-----------------------------------------------------------------------------
(* An entry that is not valid is zero.                                     *)

NoHalfLeaf(T) == \A p \in Page : ~T[p].v => T[p] = NoLeaf

(* Every handler writes whole entries: in one table,                       *)
LEMMA OneTableHoles ==
  ASSUME Before, NEW T, NoHalfLeaf(T), pt' = [pt EXCEPT ![current] = T]
  PROVE  HolesEmpty'
<1>1. \A i \in Slot : pt'[i] = IF i = current THEN T ELSE pt[i]
  BY BeforeFacts
<1>2. QED
  BY <1>1, BeforeFacts DEF HolesEmpty, NoHalfLeaf

(* or in two.                                                              *)
LEMMA TwoTablesHoles ==
  ASSUME Before, NEW T, NoHalfLeaf(T), NEW N, NoHalfLeaf(N), NEW x \in Slot,
         pt' = [pt EXCEPT ![current] = T, ![x] = N]
  PROVE  HolesEmpty'
<1>1. \A i \in Slot : pt'[i] = IF i = x THEN N ELSE IF i = current THEN T ELSE pt[i]
  BY BeforeFacts
<1>2. QED
  BY <1>1, BeforeFacts DEF HolesEmpty, NoHalfLeaf

(* handle_cow_fault leaves no half entry.                                  *)
LEMMA CowHoles ==
  ASSUME Before, NEW B \in SUBSET Page, NEW g
  PROVE  NoHalfLeaf(AfterCow(B, g))
<1> SUFFICES ASSUME NEW p \in Page, ~AfterCow(B, g)[p].v
             PROVE  AfterCow(B, g)[p] = NoLeaf
  BY DEF NoHalfLeaf
<1> DEFINE e == pt[current][p]
<1>1. e \in PTE /\ (e.u => e.v) /\ (~e.v => e = NoLeaf)
  BY BeforeFacts DEF HolesEmpty
<1>2. CASE p \in SharedPages(B)
  <2>1. AfterCow(B, g)[p] = Leaf(g[p], TRUE, FALSE, TRUE)
    BY <1>2 DEF AfterCow
  <2>2. QED
    BY Zenon, <2>1, Leaf(g[p], TRUE, FALSE, TRUE).v = TRUE DEF Leaf
<1>3. CASE p \in CowPages(B) \ SharedPages(B)
  <2>1. AfterCow(B, g)[p] = [e EXCEPT !.w = TRUE, !.cow = FALSE] /\ e.u
    BY <1>3 DEF AfterCow, CowPages
  <2> HIDE DEF e
  <2>2. AfterCow(B, g)[p].v = e.v
    BY <1>1, <2>1 DEF PTE
  <2>3. QED
    BY <1>1, <2>1, <2>2
<1>4. CASE p \notin CowPages(B)
  <2>1. AfterCow(B, g)[p] = e
    BY <1>4 DEF AfterCow, SharedPages
  <2>2. QED
    BY <1>1, <2>1
<1>5. QED
  BY <1>2, <1>3, <1>4

(* Nor does the change of an entry by fork.                                *)
LEMMA SharedHoles ==
  ASSUME Before, NEW got
  PROVE  /\ NoHalfLeaf(SharedTable) /\ NoHalfLeaf(ChildTable(got))
         /\ \A p \in Page : ~pt[current][p].v => SharedTable[p] = NoLeaf
<1>1. ASSUME NEW p \in Page
      PROVE  /\ SharedTable[p].v = pt[current][p].v
             /\ ~pt[current][p].v => SharedTable[p] = NoLeaf
  <2>1. pt[current][p] \in PTE /\ (~pt[current][p].v => pt[current][p] = NoLeaf)
    BY BeforeFacts DEF HolesEmpty
  <2>2. SharedTable[p] = CowLeaf(pt[current][p])
    BY DEF SharedTable
  <2>3. SharedTable[p].v = pt[current][p].v
    BY <2>1, <2>2, CowLeafEffect
  <2>4. ASSUME ~pt[current][p].v PROVE SharedTable[p] = NoLeaf
    BY <2>1, <2>2, <2>4 DEF CowLeaf
  <2>5. QED
    BY <2>3, <2>4
<1>2. NoHalfLeaf(SharedTable)
  BY <1>1 DEF NoHalfLeaf
<1>3. NoHalfLeaf(ChildTable(got))
  BY <1>2 DEF NoHalfLeaf, ChildTable
<1>4. QED
  BY Zenon, <1>1, <1>2, <1>3

-----------------------------------------------------------------------------
(* The handlers one by one: each keeps the invariant, and none but fork    *)
(* fills a slot.                                                           *)

(* A handler that changes one table.                                       *)
LEMMA OneTableKept ==
  ASSUME Before, SlotsKept, BalanceInv', NEW T, NoHalfLeaf(T),
         pt' = [pt EXCEPT ![current] = T]
  PROVE  FramesInv' /\ SlotsKept
BY Zenon, OneTableHoles DEF FramesInv

(* Handlers that leave page tables alone.                                  *)
LEMMA QuietKept ==
  ASSUME Before, SlotsKept, UNCHANGED <<pt, tables, spare, refs>>
  PROVE  FramesInv' /\ SlotsKept
<1>1. HolesEmpty'
  BY BeforeFacts DEF HolesEmpty
<1>2. QED
  BY <1>1, QuietBalance DEF FramesInv

(* CowFault and CopyOut.                                                   *)
LEMMA CowKept ==
  ASSUME Before, UNCHANGED <<state, tables>>, NEW B \in SUBSET Page,
         NEW g \in CowFrames(B), NEW W, NEW v, MakeWritable(B, g, W, v),
         spare' = spare - Cardinality(SharedPages(B))
  PROVE  FramesInv' /\ SlotsKept
<1>1. pt' = [pt EXCEPT ![current] = AfterCow(B, g)] /\ refs' = RefsAfterCow(B, g)
  BY DEF MakeWritable
<1>2. SlotsKept
  BY SlotsUnchanged
<1>3. BalanceInv'
  BY <1>1, <1>2, CowBalance
<1>4. QED
  BY Zenon, <1>1, <1>2, <1>3, CowHoles, OneTableKept

(* A write fault and the kernel's copies into a buffer.                    *)
LEMMA CowHandlersKept ==
  ASSUME Before,
         \/ \E p \in Page : CowFault(p)
         \/ \E B \in Interval, v \in Value : CopyOut(B, v)
  PROVE  FramesInv' /\ SlotsKept
<1>1. CASE \E p \in Page : CowFault(p)
  <2>1. PICK p \in Page : CowFault(p)
    BY <1>1
  <2> DEFINE B == {p}
  <2>2. PICK g \in CowFrames(B) : MakeWritable(B, g, {}, 0)
    BY <2>1 DEF CowFault
  <2>3. /\ spare' = spare - Cardinality(SharedPages(B)) /\ UNCHANGED <<state, tables>>
        /\ B \in SUBSET Page
    BY <2>1 DEF CowFault, procVars
  <2> HIDE DEF B
  <2>4. QED
    BY <2>2, <2>3, CowKept
<1>2. CASE \E B \in Interval, v \in Value : CopyOut(B, v)
  <2>1. PICK B0 \in Interval, v \in Value : CopyOut(B0, v)
    BY <1>2
  <2> DEFINE bad == {p \in B0 : ~CanWrite(p)}
             B == {p \in B0 : \A b \in bad : p < b}
             W == IF bad = {} THEN B0 ELSE {}
  <2>2. PICK g \in CowFrames(B) : MakeWritable(B, g, W, v)
    BY Zenon, <2>1 DEF CopyOut
  <2>3. /\ spare' = spare - Cardinality(SharedPages(B)) /\ UNCHANGED <<state, tables>>
        /\ B \in SUBSET Page
    BY <2>1 DEF CopyOut, procVars, Interval
  <2> HIDE DEF B, W
  <2>4. QED
    BY <2>2, <2>3, CowKept
<1>3. QED
  BY <1>1, <1>2

(* brk and mmap.                                                           *)
LEMMA MapKept ==
  ASSUME Before, NEW p \in Page,
         MapZeroedFails(p) \/ \E w \in BOOLEAN : MapZeroed(p, w)
  PROVE  FramesInv' /\ SlotsKept
<1>1. SlotsKept
  BY Zenon, SlotsUnchanged DEF MapZeroedFails, MapZeroed, procVars
<1>2. CASE MapZeroedFails(p)
  <2>1. BalanceInv' /\ UNCHANGED pt
    BY Zenon, <1>2, MapFailsBalance DEF MapZeroedFails
  <2>2. HolesEmpty'
    BY <2>1, BeforeFacts DEF HolesEmpty
  <2>3. QED
    BY <1>1, <2>1, <2>2 DEF FramesInv
<1>3. CASE \E w \in BOOLEAN : MapZeroed(p, w)
  <2>1. PICK w \in BOOLEAN : MapZeroed(p, w)
    BY <1>3
  <2>2. PICK f : pt' = [pt EXCEPT ![current][p] = Leaf(f, w, FALSE, TRUE)]
    BY Zenon, <2>1 DEF MapZeroed
  <2> DEFINE T == [pt[current] EXCEPT ![p] = Leaf(f, w, FALSE, TRUE)]
  <2>3. pt' = [pt EXCEPT ![current] = T]
    BY <2>2
  <2>4. NoHalfLeaf(T)
    <3>1. \A q \in Page : T[q] = IF q = p THEN Leaf(f, w, FALSE, TRUE)
                                 ELSE pt[current][q]
      BY Zenon, BeforeFacts
    <3>2. Leaf(f, w, FALSE, TRUE).v
      BY DEF Leaf
    <3> HIDE DEF T
    <3>3. QED
      BY Zenon, <3>1, <3>2, BeforeFacts DEF NoHalfLeaf, HolesEmpty
  <2> HIDE DEF T
  <2>5. QED
    BY Zenon, <1>1, <2>1, <2>3, <2>4, MapZeroedBalance, OneTableKept
<1>4. QED
  BY <1>2, <1>3

(* munmap, a shrinking break, and exit.                                    *)
LEMMA UnmapKept ==
  ASSUME Before, (\E B \in Interval : UnmapUserPages(B)) \/ \E c \in ExitCode : Exit(c)
  PROVE  FramesInv' /\ SlotsKept
<1>1. CASE \E B \in Interval : UnmapUserPages(B)
  <2>1. PICK B \in Interval : UnmapUserPages(B)
    BY <1>1
  <2> DEFINE G == B \cap UserPages(current)
             T == [p \in Page |-> IF p \in G THEN NoLeaf ELSE pt[current][p]]
  <2>2. /\ pt' = [pt EXCEPT ![current] = T]
        /\ refs' = DecRefs(refs, FramesAt(current, G)) /\ UNCHANGED <<state, tables>>
        /\ spare' = spare + FreedBy(FramesAt(current, G))
    BY <2>1 DEF UnmapUserPages, procVars
  <2>3. G \in SUBSET UserPages(current)
    OBVIOUS
  <2> HIDE DEF G
  <2>4. NoHalfLeaf(T)
    BY BeforeFacts DEF NoHalfLeaf, HolesEmpty
  <2> HIDE DEF T
  <2>5. QED
    BY Zenon, <2>2, <2>3, <2>4, SlotsUnchanged, UnmapBalance, OneTableKept
<1>2. CASE \E c \in ExitCode : Exit(c)
  <2>1. PICK c \in ExitCode : Exit(c)
    BY <1>2
  <2> DEFINE G == UserPages(current)
             T == [p \in Page |-> IF pt[current][p].u THEN NoLeaf
                                  ELSE pt[current][p]]
  <2>2. /\ pt' = [pt EXCEPT ![current] = T] /\ UNCHANGED tables
        /\ refs' = DecRefs(refs, FramesAt(current, G)) /\ PT!Terminate(c)
        /\ spare' = spare + FreedBy(FramesAt(current, G)) /\ PT!InUser
    BY <2>1 DEF Exit, PT!Exit
  <2>3. SlotsKept
    BY <2>2, BeforeFacts, TerminateFillsNone DEF TableFacts, PT!InUser
  <2>4. G \in SUBSET UserPages(current)
    OBVIOUS
  <2> HIDE DEF G
  <2>5. NoHalfLeaf(T)
    BY BeforeFacts DEF NoHalfLeaf, HolesEmpty
  <2> HIDE DEF T
  <2>6. QED
    BY Zenon, <2>2, <2>3, <2>4, <2>5, UnmapBalance, OneTableKept
<1>3. QED
  BY <1>1, <1>2

(* Handlers that fail, block, kill or panic, and stores by the program.    *)
LEMMA QuietFramesKept ==
  ASSUME Before,
         \/ \E p \in Page, v \in Value : UserStore(p, v)
         \/ WaitFault
         \/ \E B \in Interval : CowPanic(B)
         \/ Segfault
         \/ /\ PT!ForkNoSlot \/ PT!ForkPanic \/ PT!WaitBlock \/ PT!WaitNoChild
               \/ PT!FatalTrap \/ PT!ShutDown
            /\ MemoryUnchanged
  PROVE  FramesInv' /\ SlotsKept
<1>1. UNCHANGED <<pt, tables, spare, refs>>
  BY Zenon DEF UserStore, WaitFault, CowPanic, Panic, Segfault, MemoryUnchanged,
               memVars
<1>2. SlotsKept
  <2>1. CASE Segfault
    BY Zenon, <2>1, BeforeFacts, TerminateFillsNone
       DEF Segfault, PT!Segfault, TableFacts, PT!InUser
  <2>2. CASE PT!WaitBlock
    BY <2>2, BeforeFacts, BlockFillsNone
  <2>3. CASE UNCHANGED state
    BY <2>3, SlotsUnchanged
  <2>4. QED
    BY Zenon, <2>1, <2>2, <2>3 DEF UserStore, WaitFault, CowPanic, Panic,
       procVars,
       PT!WaitFault, PT!ForkNoSlot, PT!ForkPanic, PT!WaitNoChild, PT!FatalTrap,
       PT!ShutDown, PT!vars
<1>3. QED
  BY <1>1, <1>2, QuietKept

(* What ForkIsCompleteOrDry says of a step.                                *)
CompleteOrDry ==
  \A j \in Slot : state[j] \in {"None", "Gone"} /\ state'[j] = "Ready" =>
    \/ \A p \in Page : pt'[j][p] = pt'[current][p]
    \/ spare' = 0

(* fork fills the first empty slot, with the parent's table or what there  *)
(* were frames for.                                                        *)
LEMMA ForkKept ==
  ASSUME Before, Fork
  PROVE  FramesInv' /\ CompleteOrDry
<1> DEFINE x == Min(PT!EmptySlots)
           avail == spare - 1 - KERNEL_STACK_PAGES
           got == ForkTables(avail)
           H == SharedTable
           N == ChildTable(got)
<1>1. /\ PT!InUser /\ PT!EmptySlots # {} /\ state' = [state EXCEPT ![x] = "Ready"]
      /\ avail >= 0 /\ spare' = avail - Cardinality(got)
      /\ pt' = [pt EXCEPT ![current] = H, ![x] = N]
  BY Zenon, SameMin DEF Fork, PT!Fork, PT!AddChild, SharedTable, ChildTable
<1>2. x \in PT!EmptySlots
  BY <1>1, BeforeFacts DEF TableFacts
<1>3. x \in Slot /\ x # current
  <2>1. state[current] = "Running" /\ state[x] \in {"None", "Gone"}
    BY <1>1, <1>2, BeforeFacts DEF TableFacts, PT!InUser, PT!EmptySlots
  <2>2. QED
    BY <1>2, <2>1 DEF PT!EmptySlots, PT!Slot, Slot
<1>4. avail \in Nat
  BY SMTT(20), <1>1, BeforeFacts
<1>5. \A p \in Page : N[p] = IF Level1(p) \in got THEN H[p] ELSE NoLeaf
  BY DEF ChildTable
<1>6. NoHalfLeaf(H) /\ NoHalfLeaf(N)
      /\ \A p \in Page : ~pt[current][p].v => H[p] = NoLeaf
  BY SharedHoles
<1> HIDE DEF x, avail, got, H, N
<1>7. HolesEmpty'
  BY Zenon, <1>1, <1>3, <1>6, TwoTablesHoles
<1>8. FramesInv'
  BY <1>7, ForkBalance DEF FramesInv
<1>9. /\ Cardinality(got) \in Nat
      /\ \/ \A p \in Page : pt[current][p].v => Level1(p) \in got
         \/ Cardinality(got) = avail
  BY <1>4, BeforeFacts, ForkGets DEF got
<1>10. pt'[x] = N /\ pt'[current] = H
  BY <1>1, <1>3, BeforeFacts
<1>11. ASSUME NEW j \in Slot, state[j] \in {"None", "Gone"}, state'[j] = "Ready"
       PROVE  (\A p \in Page : pt'[j][p] = pt'[current][p]) \/ spare' = 0
  <2>1. j = x
    BY <1>1, <1>11, BeforeFacts DEF TableFacts
  <2>2. CASE \A p \in Page : pt[current][p].v => Level1(p) \in got
    <3>1. \A p \in Page : N[p] = H[p]
      BY <1>5, <1>6, <2>2
    <3>2. QED
      BY <1>10, <2>1, <3>1
  <2>3. CASE Cardinality(got) = avail
    BY <1>1, <1>4, <2>3
  <2>4. QED
    BY <1>9, <2>2, <2>3
<1>12. QED
  BY <1>8, <1>11 DEF CompleteOrDry

(* wait.                                                                   *)
LEMMA ReapKept ==
  ASSUME Before, NEW W \in SUBSET Page, WaitReap(W)
  PROVE  FramesInv' /\ CompleteOrDry
<1> DEFINE x == Min(PT!ZombieChildren)
<1>1. /\ PT!ZombieChildren # {} /\ state' = [state EXCEPT ![x] = "Gone"]
  BY Zenon, SameMin DEF WaitReap, PT!WaitReap
<1>2. x \in PT!ZombieChildren
  BY <1>1, BeforeFacts DEF TableFacts
<1>3. x \in Slot
  BY <1>2 DEF PT!ZombieChildren, PT!Slot, Slot
<1>4. PICK g \in CowFrames(W) :
        pt' = [pt EXCEPT ![current] = AfterCow(W, g), ![x] = EmptyTable]
  BY Zenon DEF WaitReap
<1>5. NoHalfLeaf(AfterCow(W, g)) /\ NoHalfLeaf(EmptyTable)
  BY CowHoles DEF NoHalfLeaf, EmptyTable
<1> HIDE DEF x
<1>6. HolesEmpty'
  BY Zenon, <1>3, <1>4, <1>5, TwoTablesHoles
<1>7. CompleteOrDry
  BY Zenon, <1>1, BeforeFacts DEF CompleteOrDry, TableFacts
<1>8. QED
  BY <1>6, <1>7, ReapBalance DEF FramesInv

(* wait with a store through the kernel's map of RAM.                      *)
LEMMA RamKept ==
  ASSUME Before, NEW n \in Frame, WaitReapToRam(n)
  PROVE  FramesInv' /\ CompleteOrDry
<1> DEFINE x == Min(PT!ZombieChildren)
<1>1. /\ PT!ZombieChildren # {} /\ state' = [state EXCEPT ![x] = "Gone"]
      /\ pt' = [pt EXCEPT ![x] = EmptyTable]
  BY Zenon, SameMin DEF WaitReapToRam, PT!WaitReap
<1>2. x \in PT!ZombieChildren
  BY <1>1, BeforeFacts DEF TableFacts
<1>3. x \in Slot
  BY <1>2 DEF PT!ZombieChildren, PT!Slot, Slot
<1> HIDE DEF x
<1>4. \A i \in Slot : pt'[i] = IF i = x THEN EmptyTable ELSE pt[i]
  BY <1>1, <1>3, BeforeFacts
<1>5. HolesEmpty'
  BY <1>4, BeforeFacts DEF HolesEmpty, EmptyTable
<1>6. CompleteOrDry
  BY Zenon, <1>1, BeforeFacts DEF CompleteOrDry, TableFacts
<1>7. QED
  BY <1>5, <1>6, RamBalance DEF FramesInv

(* Every handler.                                                          *)
LEMMA HandlerFrames ==
  ASSUME Before, Next
  PROVE  FramesInv' /\ CompleteOrDry
<1>1. ASSUME SlotsKept PROVE CompleteOrDry
  <2>1. "Ready" \notin {"None", "Gone"}
    OBVIOUS
  <2>2. QED
    BY <1>1, <2>1 DEF SlotsKept, CompleteOrDry
<1>2. CASE \/ \E p \in Page : CowFault(p)
           \/ \E B \in Interval, v \in Value : CopyOut(B, v)
  BY <1>1, <1>2, CowHandlersKept
<1>3. CASE \/ \E p \in Page : MapZeroedFails(p)
           \/ \E p \in Page, w \in BOOLEAN : MapZeroed(p, w)
  BY <1>1, <1>3, MapKept
<1>4. CASE (\E B \in Interval : UnmapUserPages(B)) \/ \E c \in ExitCode : Exit(c)
  BY <1>1, <1>4, UnmapKept
<1>5. CASE Fork
  BY <1>5, ForkKept
<1>6. CASE \E W \in {{}} \cup {{p} : p \in Page} : WaitReap(W)
  <2>1. \A W \in {{}} \cup {{p} : p \in Page} : W \in SUBSET Page
    OBVIOUS
  <2>2. QED
    BY <1>6, <2>1, ReapKept
<1>7. CASE \E n \in Frame : WaitReapToRam(n)
  BY <1>7, RamKept
<1>8. CASE \/ \E p \in Page, v \in Value : UserStore(p, v)
           \/ WaitFault
           \/ \E B \in Interval : CowPanic(B)
           \/ Segfault
           \/ /\ PT!ForkNoSlot \/ PT!ForkPanic \/ PT!WaitBlock \/ PT!WaitNoChild
                 \/ PT!FatalTrap \/ PT!ShutDown
              /\ MemoryUnchanged
  BY <1>1, <1>8, QuietFramesKept
<1>9. QED
  BY <1>2, <1>3, <1>4, <1>5, <1>6, <1>7, <1>8 DEF Next

(* The books balance when rust_main starts init.                           *)
LEMMA InitFrames ==
  ASSUME Counting, Init
  PROVE  FramesInv
<1> DEFINE E == DOMAIN InitPages
           K == BootTables
<1>1. PICK g \in Injection(E, Frame) :
        StartsOn(g) /\ refs = [f \in Frame |-> IF f \in Range(g) THEN 1 ELSE 0]
  BY Zenon DEF Init, StartsOn
<1>2. /\ tables = [i \in Slot |-> IF i # 0 THEN {} ELSE K] /\ 0 \in Slot
      /\ spare = TotalFrames - (1 + KERNEL_STACK_PAGES + Cardinality(tables[0]))
                   - Cardinality(E)
      /\ \A i \in Slot : state[i] = IF i = 0 THEN "Running" ELSE "None"
  <2>1. tables = [i \in Slot |-> IF i # 0 THEN {} ELSE K]
    BY Zenon DEF Init
  <2>2. 0 \in Slot
    BY TableAssumption DEF Slot
  <2>3. spare = TotalFrames - Owned(0) - Cardinality(E)
    BY Zenon DEF Init
  <2>4. Owned(0) = 1 + KERNEL_STACK_PAGES + Cardinality(tables[0])
    BY Zenon DEF Owned
  <2>5. \A i \in Slot : state[i] = IF i = 0 THEN "Running" ELSE "None"
    <3>1. PT!Init
      BY Zenon DEF Init
    <3>2. QED
      BY <3>1 DEF PT!Init, PT!Slot, Slot
  <2> HIDE DEF E, K
  <2>6. QED
    BY <2>1, <2>2, <2>3, <2>4, <2>5
<1>3. K \in SUBSET TableId /\ E \in SUBSET Page
  BY Zenon, MemoryAssumption DEF BootTables, TableId
<1>4. 1 + KERNEL_STACK_PAGES + Cardinality(K) + Cardinality(E) <= TotalFrames
  BY FramesAssumption
<1> HIDE DEF E, K
<1>5. tables[0] = K /\ tables \in [Slot -> SUBSET TableId]
  BY <1>2, <1>3
<1>6. Occupied = {0}
  BY <1>2, InUse
<1>7. TablesInUse = {0} \X K
  <2>1. \A i, t : <<i, t>> \in TablesInUse <=> i = 0 /\ t \in K
    BY Zenon, <1>3, <1>5, <1>6, InUse
  <2>2. {0} \X K \subseteq Slot \X TableId
    BY <1>2, <1>3
  <2>3. \A i, t : <<i, t>> \in {0} \X K <=> i = 0 /\ t \in K
    OBVIOUS
  <2>4. QED
    BY SMTT(20), <2>1, <2>2, <2>3, InUse
<1>8. /\ Range(g) \in SUBSET Frame /\ Cardinality(Range(g)) = Cardinality(E)
      /\ Cardinality(E) \in Nat
  BY <1>1, <1>3, CountRange
<1>9. Referenced = Range(g)
  BY <1>1, <1>8 DEF Referenced
<1>10. Cardinality({0}) = 1 /\ Cardinality({0} \X K) = Cardinality(K)
       /\ Cardinality(K) \in Nat
  BY Zenon, <1>2, <1>3, CountPlaces DEF Counting
<1>11. TotalFrames \in Nat /\ KERNEL_STACK_PAGES \in Nat
  BY MemoryAssumption
<1>12. spare = TotalFrames - (1 + KERNEL_STACK_PAGES + Cardinality(K)) - Cardinality(E)
  BY <1>2, <1>5
<1>13. spare \in Nat /\ spare + (1 + KERNEL_STACK_PAGES) * 1
         + Cardinality(K) + Cardinality(E) = TotalFrames
  BY SMTT(20), <1>4, <1>8, <1>10, <1>11, <1>12
<1>14. BalanceInv
  BY <1>5, <1>6, <1>7, <1>8, <1>9, <1>10, <1>13 DEF BalanceInv
<1>15. HolesEmpty
  <2>1. \A i \in Slot, p \in Page :
          pt[i][p] \in {NoLeaf, UartLeaf, Leaf(g[p], InitPages[p], FALSE, TRUE)}
    BY <1>1 DEF StartsOn, EmptyTable
  <2>2. \A f, w : Leaf(f, w, FALSE, TRUE).v /\ UartLeaf.v
    BY DEF Leaf, UartLeaf
  <2>3. QED
    BY Zenon, <2>1, <2>2 DEF HolesEmpty
<1>16. QED
  BY <1>14, <1>15 DEF FramesInv
=============================================================================
