------------------------------- MODULE Kernel -------------------------------
(***************************************************************************)
(* The kernel's handlers as a whole: ProcessTable's steps together with    *)
(* what they do to the address spaces.  Page tables are maps from pages to *)
(* leaf entries plus the set of table frames behind them; frames that hold *)
(* user data have an identity, a reference count and contents; the frames  *)
(* of tables and kernel stacks are only counted.  Which free frame an      *)
(* allocation returns is left open (FramePool), so is whether the          *)
(* contiguous allocation of a kernel stack succeeds.                       *)
(***************************************************************************)
EXTENDS LeafEntries, FiniteSetsExt, Functions

CONSTANTS
  PidBound, ExitCode,
  UartPage,           \* the kernel-only page that fork copies into the child
  PagesPerTable,      \* 512: pages under one last-level table
  InitPages,          \* the pages rust_main maps for init: writable or not
  TotalFrames,        \* frames the allocator manages
  KERNEL_STACK_PAGES,
  Junk                \* contents of a free frame: free_frame writes into it

ASSUME MemoryAssumption ==
  /\ Page \subseteq Nat
  /\ UartPage \in Page
  /\ PagesPerTable \in Nat \ {0}
  /\ DOMAIN InitPages \subseteq Page \ {UartPage}
  /\ \A p \in DOMAIN InitPages : InitPages[p] \in BOOLEAN
  /\ TotalFrames \in Nat
  /\ KERNEL_STACK_PAGES \in Nat \ {0}
  /\ ExitCode \cup {0} \subseteq Value
  /\ Value \subseteq Nat
  /\ Junk \in Value \ {0}

ASSUME TableAssumption ==
  /\ MAX_PROCESSES \in Nat \ {0} /\ PidBound \in Nat
  /\ ExitCode \subseteq Nat /\ 1 \in ExitCode

VARIABLES
  state, pid, parent_pid, code, atWait, current, nextPid, power,
  pt,      \* pt[i][p]: the leaf of page p in slot i's page table
  tables,  \* tables[i]: the table frames below slot i's root
  refs,    \* FRAME_REFS of the data frames
  data,    \* their contents
  spare,   \* number of frames the allocator can still hand out
  leaked,  \* history: references no page table accounts for any more
  stored   \* history: the pages the last step was to fill, and with what;
           \* ram: it went through the kernel's map of RAM instead

procVars == <<state, pid, parent_pid, code, atWait, current, nextPid, power>>
memVars == <<pt, tables, refs, data, spare, leaked>>
vars == <<procVars, memVars, stored>>

PT == INSTANCE ProcessTable

StoreNote == [pages : SUBSET Page, v : Value, ram : BOOLEAN]
Nothing == [pages |-> {}, v |-> 0, ram |-> FALSE]
Fills(S, v) ==
  stored' = IF S = {} THEN Nothing ELSE [pages |-> S, v |-> v, ram |-> FALSE]

Level2 == -1     \* all user pages are below one root entry
Level1(p) == p \div PagesPerTable
TableId == {Level2} \cup {Level1(p) : p \in Page}
BootTables == {Level2} \cup {Level1(p) : p \in DOMAIN InitPages \cup {UartPage}}
Owned(i) == 1 + KERNEL_STACK_PAGES + Cardinality(tables[i])

(* There are enough frames for rust_main to get as far as init.            *)
ASSUME FramesAssumption ==
  /\ IsFiniteSet(Page) /\ IsFiniteSet(Frame)
  /\ 1 + KERNEL_STACK_PAGES + Cardinality(BootTables)
       + Cardinality(DOMAIN InitPages) <= TotalFrames

TypeOK ==
  /\ PT!TypeOK
  /\ pt \in [Slot -> [Page -> PTE]]
  /\ tables \in [Slot -> SUBSET TableId]
  /\ refs \in [Frame -> Nat]
  /\ data \in [Frame -> Value]
  /\ spare \in Nat
  /\ leaked \in [Frame -> Nat]
  /\ stored \in StoreNote

(* rust_main: init with its code and stack pages and the console.          *)
Init ==
  /\ PT!Init
  /\ \E g \in Injection(DOMAIN InitPages, Frame) :
       /\ pt = [i \in Slot |-> IF i # 0 THEN EmptyTable ELSE
                 [p \in Page |-> IF p \in DOMAIN InitPages
                                 THEN Leaf(g[p], InitPages[p], FALSE, TRUE)
                                 ELSE IF p = UartPage THEN UartLeaf ELSE NoLeaf]]
       /\ refs = [f \in Frame |-> IF f \in Range(g) THEN 1 ELSE 0]
  /\ tables = [i \in Slot |-> IF i # 0 THEN {} ELSE BootTables]
  /\ data = [f \in Frame |-> IF refs[f] = 0 THEN Junk ELSE 0]
  /\ spare = TotalFrames - Owned(0) - Cardinality(DOMAIN InitPages)
  /\ leaked = [f \in Frame |-> 0]
  /\ stored = Nothing

-----------------------------------------------------------------------------
(* Frames.                                                                 *)

FreeFrames == {f \in Frame : refs[f] = 0}

UserPages(i) == {p \in Page : pt[i][p].v /\ pt[i][p].u}
FramesAt(i, S) == {pt[i][p].f : p \in S}

(* dec_ref of each of the frames D, and how many of them that frees.       *)
DecRefs(rs, D) == [f \in Frame |-> IF f \in D THEN rs[f] - 1 ELSE rs[f]]
FreedBy(D) == Cardinality({f \in D : refs[f] = 1})
DataAfterDec(D) ==
  [f \in Frame |-> IF f \in D /\ refs[f] = 1 THEN Junk ELSE data[f]]

-----------------------------------------------------------------------------
(* handle_cow_fault on the current process's pages S: a frame others refer *)
(* to as well is copied into a new one (g), the last user gets it back.    *)

CowPages(S) ==
  {p \in S : pt[current][p].u /\ pt[current][p].cow /\ ~pt[current][p].w}
SharedPages(S) == {p \in CowPages(S) : refs[pt[current][p].f] > 1}
CanWrite(p) == pt[current][p].u /\ (pt[current][p].w \/ pt[current][p].cow)

AfterCow(S, g) ==
  [p \in Page |->
     IF p \in SharedPages(S) THEN Leaf(g[p], TRUE, FALSE, TRUE)
     ELSE IF p \in CowPages(S)
     THEN [pt[current][p] EXCEPT !.w = TRUE, !.cow = FALSE]
     ELSE pt[current][p]]

(* Mutant: the frame that was shared keeps its old count.                  *)
RefsKeptAfterCow(S, g) ==
  [f \in Frame |-> IF f \in Range(g) THEN 1 ELSE refs[f]]

RefsAfterCow(S, g) ==
  LET left == DecRefs(refs, FramesAt(current, SharedPages(S)))
  IN  [f \in Frame |-> IF f \in Range(g) THEN 1 ELSE left[f]]

(* Mutant: the new frame is not filled from the old one.                   *)
DataNotCopied(S, g) == data

DataAfterCow(S, g) ==
  [f \in Frame |-> IF f \in Range(g)
                   THEN data[pt[current][CHOOSE p \in DOMAIN g : g[p] = f].f]
                   ELSE data[f]]

(* The new frames that copies for the pages S may get: none when too few   *)
(* are left, and then expect("COW: alloc_frame failed") panics.            *)
CowFrames(S) == IF Cardinality(SharedPages(S)) <= spare
                THEN Injection(SharedPages(S), FreeFrames) ELSE {}

(* The current process's pages S, made writable with the frames g, and v   *)
(* stored in the pages W.                                                  *)
MakeWritable(S, g, W, v) ==
  LET table == AfterCow(S, g)
      target == {table[p].f : p \in W}
      copied == DataAfterCow(S, g)
  IN  /\ pt' = [pt EXCEPT ![current] = table]
      /\ refs' = RefsAfterCow(S, g)
      /\ data' = [f \in Frame |-> IF f \in target THEN v ELSE copied[f]]

-----------------------------------------------------------------------------
(* Loads and stores of the program, and copies the kernel makes for it.    *)

UserStore(p, v) ==
  /\ PT!InUser
  /\ pt[current][p].u
  /\ pt[current][p].w
  /\ data' = [data EXCEPT ![pt[current][p].f] = v]
  /\ Fills({p}, v)
  /\ UNCHANGED <<procVars, pt, tables, refs, spare, leaked>>

CowFault(p) ==   \* page_fault_handler, scause 15
  /\ PT!InUser
  /\ CowPages({p}) # {}
  /\ \E g \in CowFrames({p}) : MakeWritable({p}, g, {}, 0)
  /\ spare' = spare - Cardinality(SharedPages({p}))
  /\ Fills({}, 0)
  /\ UNCHANGED <<procVars, tables, leaked>>

(* read, uname and getcwd: ensure_user_range goes through the buffer's     *)
(* pages S in order, breaks copy-on-write and stops at the first page that *)
(* stays unwritable; only when there is none is the buffer filled.         *)
CopyOut(S, v) ==
  LET bad == {p \in S : ~CanWrite(p)}
      seen == {p \in S : \A b \in bad : p < b}
      filled == IF bad = {} THEN S ELSE {}
  IN  /\ PT!InUser
      /\ \E g \in CowFrames(seen) : MakeWritable(seen, g, filled, v)
      /\ spare' = spare - Cardinality(SharedPages(seen))
      /\ Fills(filled, v)
      /\ UNCHANGED <<procVars, tables, leaked>>

MemoryUnchanged == Fills({}, 0) /\ UNCHANGED memVars

Panic ==
  /\ power' = "fault"
  /\ UNCHANGED <<state, pid, parent_pid, code, atWait, current, nextPid>>
  /\ MemoryUnchanged

CowPanic(S) ==   \* in CowFault, CopyOut or WaitReap
  /\ \/ PT!InUser
     \/ power = "on" /\ PT!ZombieChildren # {} /\ Cardinality(S) = 1
  /\ \A p \in S : CanWrite(p)
  /\ Cardinality(SharedPages(S)) > spare
  /\ Panic

-----------------------------------------------------------------------------
(* brk and mmap of one page (UserRegions has the ranges): the data frame   *)
(* first, then the tables that walk() finds missing.                       *)

MissingTables(p) == {Level2, Level1(p)} \ tables[current]

MapZeroed(p, w) ==
  /\ PT!InUser
  /\ ~pt[current][p].v
  /\ spare >= 1 + Cardinality(MissingTables(p))
  /\ \E f \in FreeFrames :
       /\ pt' = [pt EXCEPT ![current][p] = Leaf(f, w, FALSE, TRUE)]
       /\ refs' = [refs EXCEPT ![f] = 1]
       /\ data' = [data EXCEPT ![f] = 0]
  /\ tables' = [tables EXCEPT ![current] = @ \cup MissingTables(p)]
  /\ spare' = spare - 1 - Cardinality(MissingTables(p))
  /\ Fills({}, 0)
  /\ UNCHANGED <<procVars, leaked>>

(* The data frame is given back; a second-level table that walk() got      *)
(* before it ran dry stays in the tree.                                    *)
MapZeroedFails(p) ==
  LET kept == IF spare >= 2 /\ Level2 \in MissingTables(p) THEN {Level2} ELSE {}
  IN  /\ PT!InUser
      /\ ~pt[current][p].v
      /\ spare < 1 + Cardinality(MissingTables(p))
      /\ tables' = [tables EXCEPT ![current] = @ \cup kept]
      /\ spare' = spare - Cardinality(kept)
      /\ Fills({}, 0)
      /\ UNCHANGED <<procVars, pt, refs, data, leaked>>

UnmapUserPages(S) ==   \* munmap and a shrinking break
  LET gone == S \cap UserPages(current)
  IN  /\ PT!InUser
      /\ pt' = [pt EXCEPT ![current] =
                  [p \in Page |-> IF p \in gone THEN NoLeaf ELSE @[p]]]
      /\ refs' = DecRefs(refs, FramesAt(current, gone))
      /\ data' = DataAfterDec(FramesAt(current, gone))
      /\ spare' = spare + FreedBy(FramesAt(current, gone))
      /\ Fills({}, 0)
      /\ UNCHANGED <<procVars, tables, leaked>>

-----------------------------------------------------------------------------
(* fork.                                                                   *)

(* Mutant: the second pass over the parent's leaves is missing.            *)
ForkUserTablesOnly(avail) ==
  LET user == {Level1(p) : p \in UserPages(current)}
  IN  {t \in user : Cardinality({s \in user : s < t}) + 2 <= avail}
        \cup (IF avail >= 1 /\ user # {} THEN {Level2} ELSE {})

(* The last-level tables of the child in the order in which the two passes *)
(* over the parent's leaves ask for them: user pages first.  walk() fails  *)
(* from the moment the frames run out and fork ignores that.               *)
ForkTables(avail) ==
  LET user == {Level1(p) : p \in UserPages(current)}
      other == {Level1(p) : p \in {q \in Page : pt[current][q].v}} \ user
      before(t) == IF t \in user THEN {s \in user : s < t}
                   ELSE user \cup {s \in other : s < t}
  IN  {t \in user \cup other : Cardinality(before(t)) + 2 <= avail}
        \cup (IF avail >= 1 /\ user \cup other # {} THEN {Level2} ELSE {})

(* Mutant: fork leaves the write permission in place.                      *)
CowLeafStillWritable(leaf) ==
  IF leaf.v /\ leaf.u /\ leaf.w THEN [leaf EXCEPT !.cow = TRUE] ELSE leaf

CowLeaf(leaf) ==
  IF leaf.v /\ leaf.u /\ leaf.w
  THEN [leaf EXCEPT !.w = FALSE, !.cow = TRUE] ELSE leaf

Fork ==
  LET idx == Min(PT!EmptySlots)
      avail == spare - 1 - KERNEL_STACK_PAGES
      got == ForkTables(avail)
      shared == [p \in Page |-> CowLeaf(pt[current][p])]
      lost == {p \in UserPages(current) : Level1(p) \notin got}
      counted == FramesAt(current, UserPages(current))
  IN  /\ PT!Fork
      /\ avail >= 0
      /\ pt' = [pt EXCEPT
                  ![current] = shared,
                  ![idx] = [p \in Page |-> IF Level1(p) \in got
                                           THEN shared[p] ELSE NoLeaf]]
      /\ tables' = [tables EXCEPT ![idx] = got]
      /\ refs' = [f \in Frame |-> IF f \in counted THEN refs[f] + 1 ELSE refs[f]]
      /\ leaked' = [f \in Frame |-> IF f \in FramesAt(current, lost)
                                    THEN leaked[f] + 1 ELSE leaked[f]]
      /\ spare' = avail - Cardinality(got)
      /\ Fills({}, 0)
      /\ UNCHANGED data

-----------------------------------------------------------------------------
(* exit, segmentation fault, wait.                                         *)

Exit(c) ==
  LET mine == FramesAt(current, UserPages(current))
  IN  /\ PT!Exit(c)
      /\ pt' = [pt EXCEPT ![current] =
                  [p \in Page |-> IF @[p].u THEN NoLeaf ELSE @[p]]]
      /\ refs' = DecRefs(refs, mine)
      /\ data' = DataAfterDec(mine)
      /\ spare' = spare + FreedBy(mine)
      /\ Fills({}, 0)
      /\ UNCHANGED <<tables, leaked>>

(* User pages stay mapped.  do_segfault prints first: without the console  *)
(* that is a trap in S-mode, which is among the other outcomes below.      *)
Segfault == PT!Segfault /\ pt[current][UartPage].v /\ MemoryUnchanged

(* Mutant: wait does not free the child's kernel stack and tables.         *)
WaitReapKeepsFrames(P) ==
  LET child == Min(PT!ZombieChildren)
  IN  /\ PT!WaitReap
      /\ P = {}
      /\ pt' = [pt EXCEPT ![child] = EmptyTable]
      /\ tables' = [tables EXCEPT ![child] = {}]
      /\ Fills({}, 0)
      /\ UNCHANGED <<refs, data, spare, leaked>>

(* wait collects a zombie: the exit code goes to the page P (a singleton,  *)
(* or empty for a null pointer and for one at which the store changes no   *)
(* frame in use), then the child's kernel stack, tables and root are       *)
(* freed.  User pages a segmentation fault left in them are lost.          *)
WaitReap(P) ==
  LET child == Min(PT!ZombieChildren)
  IN  /\ PT!WaitReap
      /\ \A p \in P : CanWrite(p)
      /\ \E g \in CowFrames(P) :
           LET table == AfterCow(P, g)
               copied == DataAfterCow(P, g)
               target == {table[p].f : p \in P}
           IN  /\ pt' = [pt EXCEPT ![current] = table, ![child] = EmptyTable]
               /\ refs' = RefsAfterCow(P, g)
               /\ data' = [f \in Frame |-> IF f \in target THEN code[child]
                                           ELSE copied[f]]
      /\ Fills(P, code[child])
      /\ tables' = [tables EXCEPT ![child] = {}]
      /\ spare' = spare - Cardinality(SharedPages(P)) + Owned(child)
      /\ leaked' = [f \in Frame |->
                      IF f \in FramesAt(child, UserPages(child))
                      THEN leaked[f] + 1 ELSE leaked[f]]

(* wait checks neither whose page its pointer is on nor that it may be     *)
(* written, and stores with the rights of the kernel, whose map of RAM is  *)
(* in every address space.  Here the pointer is into that map, to a data   *)
(* frame in use: whoever has it mapped finds the exit code there.          *)
WaitReapToRam(f) ==
  LET child == Min(PT!ZombieChildren)
  IN  /\ PT!WaitReap
      /\ refs[f] > 0
      /\ data' = [data EXCEPT ![f] = code[child]]
      /\ stored' = [pages |-> {}, v |-> code[child], ram |-> TRUE]
      /\ pt' = [pt EXCEPT ![child] = EmptyTable]
      /\ tables' = [tables EXCEPT ![child] = {}]
      /\ spare' = spare + Owned(child)
      /\ leaked' = [f2 \in Frame |->
                      IF f2 \in FramesAt(child, UserPages(child))
                      THEN leaked[f2] + 1 ELSE leaked[f2]]
      /\ UNCHANGED refs

(* The store traps; or it hits what the kernel itself keeps in RAM, tables *)
(* and stacks, the process table, the allocator's list, and the kernel is  *)
(* not followed further.                                                   *)
WaitFault == PT!WaitFault /\ MemoryUnchanged

Interval == {S \in SUBSET (Page \ {UartPage}) :
               \A a, b \in S : \A p \in Page \ {UartPage} :
                 a <= p /\ p <= b => p \in S}

Next ==
  \/ \E p \in Page, v \in Value : UserStore(p, v)
  \/ \E p \in Page : CowFault(p) \/ MapZeroedFails(p)
  \/ \E S \in Interval, v \in Value : CopyOut(S, v)
  \/ \E p \in Page, w \in BOOLEAN : MapZeroed(p, w)
  \/ \E S \in Interval : UnmapUserPages(S) \/ CowPanic(S)
  \/ Fork
  \/ \E c \in ExitCode : Exit(c)
  \/ Segfault
  \/ \E P \in {{}} \cup {{p} : p \in Page} : WaitReap(P)
  \/ \E f \in Frame : WaitReapToRam(f)
  \/ WaitFault
  \/ /\ PT!ForkNoSlot \/ PT!ForkPanic \/ PT!WaitBlock \/ PT!WaitNoChild
        \/ PT!FatalTrap \/ PT!ShutDown
     /\ MemoryUnchanged

Spec == Init /\ [][Next]_vars

-----------------------------------------------------------------------------
MappedBy(f) == {i \in Slot : \E p \in UserPages(i) : pt[i][p].f = f}

(* A frame that some process can store to directly is in no other page     *)
(* table and at no other page: fork took the write permission away on      *)
(* both sides, and only the last user gets it back without a copy.         *)
WritableIsExclusive ==
  \A i, j \in Slot : \A p \in UserPages(i), q \in UserPages(j) :
    pt[i][p].w /\ pt[i][p].f = pt[j][q].f => i = j /\ p = q

(* The reference count of a frame is the number of processes that map it,  *)
(* plus the references lost with segfaulted children and failed maps.      *)
RefsExact == \A f \in Frame : refs[f] = Cardinality(MappedBy(f)) + leaked[f]

Occupied == {i \in Slot : PT!Exists(i)}
TablesInUse == {x \in Slot \X TableId : x[1] \in Occupied /\ x[2] \in tables[x[1]]}
Referenced == {f \in Frame : refs[f] > 0}

(* wait returns exactly the frames fork took: the frames the allocator can *)
(* hand out, those of tables and kernel stacks and the referenced data     *)
(* frames always add up to all frames, and none of these is negative.      *)
FramesBalance ==
  /\ TypeOK
  /\ spare + (1 + KERNEL_STACK_PAGES) * Cardinality(Occupied)
           + Cardinality(TablesInUse) + Cardinality(Referenced) = TotalFrames

(* A process lacks a page its parent had at the fork, or the console, only *)
(* if the fork used up the last frame.                                     *)
ForkIsCompleteOrDry ==
  [][\A j \in Slot : state[j] \in {"None", "Gone"} /\ state'[j] = "Ready" =>
       \/ \A p \in Page : pt'[j][p] = pt'[current][p]
       \/ spare' = 0]_vars

(* Copy-on-write is invisible: seen through the page tables, the processes *)
(* have private memories.  The one step that breaks through, and no other  *)
(* does, is a wait whose pointer is into the kernel's map of RAM: it puts  *)
(* the exit code into one frame, wherever that is mapped.                  *)
Mem == [i \in Slot |-> [p \in Page |->
          IF pt[i][p].v /\ pt[i][p].u THEN data[pt[i][p].f] ELSE Unmapped]]
Writable == [i \in Slot |->
              {p \in UserPages(i) : pt[i][p].w \/ pt[i][p].cow}]
Private == INSTANCE PrivateMemory WITH Proc <- Slot, mem <- Mem,
                                       writable <- Writable, Zero <- 0
PrivateSpec == Private!Spec
=============================================================================
