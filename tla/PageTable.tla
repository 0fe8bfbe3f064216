----------------------------- MODULE PageTable ------------------------------
(***************************************************************************)
(* The three-level page tables of mm/page_table.rs as they lie in the      *)
(* frames of RAM, and what fork, exit, wait, page faults and the mapping   *)
(* calls do to them, together with the translations the hart may have      *)
(* cached since its last sfence.vma.                                       *)
(*                                                                         *)
(* One page at a time is mapped or unmapped (UserRegions has the ranges),  *)
(* and any process may run next or collect a zombie (ProcessTable has the  *)
(* order).                                                                 *)
(*                                                                         *)
(* Nothing here depends on which free frame alloc_frame returns.  So that  *)
(* states that differ only in that are one state, there are more frame     *)
(* numbers than frames in RAM, and a table is given, if it is free, the    *)
(* number that belongs to its place.                                       *)
(***************************************************************************)
EXTENDS Integers, FiniteSetsExt, SequencesExt

CONSTANTS
  MAX_PROCESSES,
  EntriesPerTable,      \* 512
  KERNEL_VPN2_MIN,      \* root entries below it are the process's own
  NumFrames,            \* frames of RAM
  PageFrames,           \* frame numbers for pages
  RefBound,             \* bound: references to a frame when fork is called
  KERNEL_STACK_PAGES,
  InitPages,            \* user pages rust_main maps, and whether writable
  UartPage,             \* the console, mapped for the kernel only
  KernelPages,          \* pages of the identity mapping of RAM
  HeapPages,            \* pages that brk and mmap may map
  MapProt               \* permissions programs ask for

Slot == 0 .. MAX_PROCESSES - 1
Idx == 0 .. EntriesPerTable - 1
Page == 0 .. EntriesPerTable * EntriesPerTable * EntriesPerTable - 1

(* Frame numbers: per slot its root, its tables by place and its stack.    *)
PerSlot == 1 + EntriesPerTable + EntriesPerTable * EntriesPerTable
             + KERNEL_STACK_PAGES
Frame == 0 .. MAX_PROCESSES * PerSlot + PageFrames - 1
RootHome(j) == j * PerSlot
UpperHome(j, p) == RootHome(j) + 1 + p \div (EntriesPerTable * EntriesPerTable)
LowerHome(j, p) == RootHome(j) + 1 + EntriesPerTable + p \div EntriesPerTable
StackHome(j) == {RootHome(j) + PerSlot - k : k \in 1 .. KERNEL_STACK_PAGES}

ASSUME TreeAssumption ==
  /\ EntriesPerTable \in Nat \ {0, 1}
  /\ KERNEL_VPN2_MIN \in 1 .. EntriesPerTable - 1
  /\ DOMAIN InitPages \cup KernelPages \cup {UartPage} \subseteq Page
  /\ HeapPages \subseteq Page \ (DOMAIN InitPages \cup KernelPages)
  /\ \A q \in MapProt : q.w => q.r

VARIABLES
  ram,      \* mem: the frames read as tables; free: frames to hand out;
            \* refs: FRAME_REFS
  root,     \* root[i]: PageTable.root of slot i
  kstack,   \* kstack[i]: the frames of its kernel stack
  life,     \* "none", "live" or "zombie"
  active,   \* the process whose root is in satp
  cached,   \* cached[p]: leaves of page p that the TLB may hold
  power     \* "on" or "off"

vars == <<ram, root, kstack, life, active, cached, power>>

(* Page table entries.  Entries that are no leaf have r = w = x = FALSE.   *)
NoFrame == -1
Ram == -2       \* memory of the kernel that no frame of the pool holds
Device == -3
PTE == [v : BOOLEAN, r : BOOLEAN, w : BOOLEAN, x : BOOLEAN, u : BOOLEAN,
        cow : BOOLEAN, f : Frame \cup {NoFrame, Ram, Device}]

Empty == [v |-> FALSE, r |-> FALSE, w |-> FALSE, x |-> FALSE, u |-> FALSE,
          cow |-> FALSE, f |-> NoFrame]
NewTable(f) == [Empty EXCEPT !.v = TRUE, !.f = f]
NewLeaf(f, r, w, x, u) ==
  [v |-> TRUE, r |-> r, w |-> w, x |-> x, u |-> u, cow |-> FALSE, f |-> f]
IsLeaf(e) == e.v /\ (e.r \/ e.w \/ e.x)

ZeroTable == [i \in Idx |-> Empty]
Junk == [i \in Idx |-> NewLeaf(0, TRUE, TRUE, FALSE, TRUE)]   \* not a table

Vpn(p, level) == (p \div (EntriesPerTable ^ level)) % EntriesPerTable

-----------------------------------------------------------------------------
(* mm/frame.rs, as operations on ram.                                      *)

Take(m, f) == [m EXCEPT !.free = @ \ {f}, !.refs[f] = 1]
FreeFrame(m, f) ==
  [m EXCEPT !.free = @ \cup {f}, !.refs[f] = 0, !.mem[f] = Junk]
DecRef(m, f) ==
  IF m.refs[f] = 1 THEN FreeFrame(m, f) ELSE [m EXCEPT !.refs[f] = @ - 1]
Spare(m) == NumFrames - Cardinality(Frame \ m.free)
TableFrame(m, home) == IF home \in m.free THEN home ELSE Min(m.free)
PageFrame(m) == Max(m.free)
Zeroed(m, f) == [m EXCEPT !.mem[f] = ZeroTable]

-----------------------------------------------------------------------------
(* mm/page_table.rs.                                                       *)

(* One level of walk(): the table behind entry i of table t, allocated and *)
(* cleared if it is missing.                                               *)
Descend(m, t, i, home) ==
  IF m.mem[t][i].v THEN [ok |-> TRUE, m |-> m, t |-> m.mem[t][i].f]
  ELSE IF Spare(m) = 0 THEN [ok |-> FALSE, m |-> m, t |-> t]
  ELSE LET f == TableFrame(m, home)
       IN  [ok |-> TRUE, t |-> f,
            m |-> [Zeroed(Take(m, f), f) EXCEPT !.mem[t][i] = NewTable(f)]]

Walk(m, j, rt, p) ==
  LET upper == Descend(m, rt, Vpn(p, 2), UpperHome(j, p))
  IN  IF upper.ok
      THEN Descend(upper.m, upper.t, Vpn(p, 1), LowerHome(j, p))
      ELSE upper

(* map and map_cow, for slot j.                                            *)
MapLeaf(m, j, rt, p, leaf) ==
  LET last == Walk(m, j, rt, p)
  IN  IF last.ok
      THEN [last EXCEPT !.m = [@ EXCEPT !.mem[last.t][Vpn(p, 0)] = leaf]]
      ELSE last

(* lookup(); no table on the way reads as an empty entry.                  *)
LastTable(m, rt, p) ==
  LET upper == m.mem[rt][Vpn(p, 2)]
      lower == m.mem[upper.f][Vpn(p, 1)]
  IN  IF upper.v /\ lower.v THEN lower.f ELSE NoFrame
Lookup(m, rt, p) ==
  IF LastTable(m, rt, p) = NoFrame THEN Empty
  ELSE m.mem[LastTable(m, rt, p)][Vpn(p, 0)]
SetEntry(m, rt, p, e) == [m EXCEPT !.mem[LastTable(m, rt, p)][Vpn(p, 0)] = e]

UserHalf == 0 .. KERNEL_VPN2_MIN * EntriesPerTable * EntriesPerTable - 1

(* The pages for_each_leaf(0, KERNEL_VPN2_MIN, _) visits, in its order.     *)
LeafPages(m, rt) ==
  SelectSeq([k \in 1 .. Cardinality(UserHalf) |-> k - 1],
            LAMBDA p : IsLeaf(Lookup(m, rt, p)))

-----------------------------------------------------------------------------
(* Boot: init_kernel and the mappings of rust_main.                        *)

Boot ==
  LET blank == [mem |-> [f \in Frame |-> Junk], free |-> Frame,
                refs |-> [f \in Frame |-> 0]]
      started == Zeroed(Take(blank, RootHome(0)), RootHome(0))
      map(m, p, leaf) == MapLeaf(m, 0, RootHome(0), p, leaf).m
      kernel == FoldLeft(
        LAMBDA m, p : map(m, p, NewLeaf(Ram, TRUE, TRUE, TRUE, FALSE)),
        started, SetToSortSeq(KernelPages, <))
      uart == map(kernel, UartPage, NewLeaf(Device, TRUE, TRUE, FALSE, FALSE))
      user(m, p) ==
        LET f == PageFrame(m)
        IN  map(Take(m, f), p,
                NewLeaf(f, TRUE, InitPages[p], ~InitPages[p], TRUE))
  IN  FoldLeft(user, uart, SetToSortSeq(DOMAIN InitPages, <))

TakeStack(m, j) ==   \* alloc_contiguous_frames
  [m EXCEPT !.free = @ \ StackHome(j),
            !.refs = [f \in Frame |-> IF f \in StackHome(j) THEN 1 ELSE @[f]]]

Leaves(m, rt) == [p \in Page |-> {Lookup(m, rt, p)}]

Init ==
  /\ ram = TakeStack(Boot, 0)
  /\ root = [i \in Slot |-> IF i = 0 THEN RootHome(0) ELSE NoFrame]
  /\ kstack = [i \in Slot |-> IF i = 0 THEN StackHome(0) ELSE {}]
  /\ life = [i \in Slot |-> IF i = 0 THEN "live" ELSE "none"]
  /\ active = 0
  /\ cached = Leaves(ram, RootHome(0))
  /\ power = "on"

-----------------------------------------------------------------------------
(* The hart may cache the leaf of any page at any time.  Sfence forgets    *)
(* all but what the active table says now; without it old leaves stay.     *)

Sfence == cached' = Leaves(ram', root'[active'])
NoSfence == cached' = [p \in Page |->
              cached[p] \cup {Lookup(ram', root'[active'], p)}]

InUser == power = "on"
Mine == root[active]

(* map_zeroed_user_pages for one page: the frame first, then the tables.   *)
MapZeroed(p, q) ==
  LET f == PageFrame(ram)
      mapped == MapLeaf(Take(ram, f), active, Mine, p,
                        NewLeaf(f, q.r, q.w, q.x, TRUE))
  IN  /\ InUser
      /\ ~Lookup(ram, Mine, p).v
      /\ Spare(ram) > 0
      /\ ram' = IF mapped.ok THEN mapped.m ELSE FreeFrame(mapped.m, f)
      /\ UNCHANGED <<root, kstack, life, active, power>>
      /\ Sfence

UnmapUserPage(p) ==
  LET e == Lookup(ram, Mine, p)
  IN  /\ InUser
      /\ e.v /\ e.u
      /\ ram' = DecRef(SetEntry(ram, Mine, p, Empty), e.f)
      /\ UNCHANGED <<root, kstack, life, active, power>>
      /\ Sfence

(* handle_cow_fault, from a page fault or before a copy to user memory.    *)
CowFault(p) ==
  LET e == Lookup(ram, Mine, p)
      f == PageFrame(ram)
  IN  /\ InUser
      /\ e.v /\ e.u /\ e.cow /\ e.r /\ ~e.w
      /\ \/ /\ ram.refs[e.f] = 1
            /\ ram' = SetEntry(ram, Mine, p, [e EXCEPT !.w = TRUE, !.cow = FALSE])
         \/ /\ ram.refs[e.f] > 1
            /\ Spare(ram) > 0
            /\ ram' = SetEntry(DecRef(Take(ram, f), e.f), Mine, p,
                               NewLeaf(f, TRUE, TRUE, e.x, TRUE))
      /\ UNCHANGED <<root, kstack, life, active, power>>
      /\ Sfence

CowPanic(p) ==
  LET e == Lookup(ram, Mine, p)
  IN  /\ InUser
      /\ e.v /\ e.u /\ e.cow /\ e.r /\ ~e.w
      /\ ram.refs[e.f] > 1
      /\ Spare(ram) = 0
      /\ power' = "off"
      /\ UNCHANGED <<ram, root, kstack, life, active, cached>>

-----------------------------------------------------------------------------
(* fork.                                                                   *)

(* Mutant: the first entry of the kernel's half is left out.               *)
CopyPartOfKernelHalf(m, rt) ==
  [m EXCEPT !.mem[rt] = [i \in Idx |-> IF i > KERNEL_VPN2_MIN
                                       THEN m.mem[Mine][i] ELSE @[i]]]

CopyKernelHalf(m, rt) ==
  [m EXCEPT !.mem[rt] = [i \in Idx |-> IF i >= KERNEL_VPN2_MIN
                                       THEN m.mem[Mine][i] ELSE @[i]]]

(* The first pass shares the user pages, the second copies the others.     *)
(* Neither looks at whether the child's map succeeded.                     *)
ShareUserPages(m, j, rt) ==
  FoldLeft(LAMBDA a, p :
    LET e == Lookup(a, Mine, p)
        shared == [e EXCEPT !.w = FALSE, !.cow = e.w \/ e.cow]
    IN  IF e.u
        THEN MapLeaf(SetEntry([a EXCEPT !.refs[e.f] = @ + 1], Mine, p, shared),
                     j, rt, p, shared).m
        ELSE a,
    m, LeafPages(m, Mine))

(* Mutant: fork leaves out the pages that are not the program's.           *)
CopyNoOtherPages(m, j, rt) == m

CopyOtherPages(m, j, rt) ==
  FoldLeft(LAMBDA a, p :
    LET e == Lookup(a, Mine, p)
    IN  IF e.u THEN a ELSE MapLeaf(a, j, rt, p, [e EXCEPT !.cow = FALSE]).m,
    m, LeafPages(m, Mine))

Forked(j, rt) ==
  LET m == TakeStack(CopyKernelHalf(Zeroed(Take(ram, rt), rt), rt), j)
  IN  CopyOtherPages(ShareUserPages(m, j, rt), j, rt)

(* Mutant: fork returns without sfence.vma.                                *)
ForkNoSfence(j) ==
  LET rt == TableFrame(ram, RootHome(j))
  IN  /\ InUser /\ life[j] = "none"
      /\ Spare(ram) >= 1 + KERNEL_STACK_PAGES
      /\ StackHome(j) \subseteq ram.free
      /\ \A f \in Frame : ram.refs[f] <= RefBound
      /\ ram' = Forked(j, rt)
      /\ root' = [root EXCEPT ![j] = rt]
      /\ kstack' = [kstack EXCEPT ![j] = StackHome(j)]
      /\ life' = [life EXCEPT ![j] = "live"]
      /\ UNCHANGED <<active, power>>
      /\ NoSfence

Fork(j) ==
  LET rt == TableFrame(ram, RootHome(j))
  IN  /\ InUser /\ life[j] = "none"
      /\ Spare(ram) >= 1 + KERNEL_STACK_PAGES
      /\ StackHome(j) \subseteq ram.free
      /\ \A f \in Frame : ram.refs[f] <= RefBound
      /\ ram' = Forked(j, rt)
      /\ root' = [root EXCEPT ![j] = rt]
      /\ kstack' = [kstack EXCEPT ![j] = StackHome(j)]
      /\ life' = [life EXCEPT ![j] = "live"]
      /\ UNCHANGED <<active, power>>
      /\ Sfence

(* No frame for the root, or no run of fresh frames for the stack: which   *)
(* frames are fresh is not known here, so this may happen at any time.     *)
ForkPanic ==
  /\ InUser /\ \E j \in Slot : life[j] = "none"
  /\ power' = "off"
  /\ UNCHANGED <<ram, root, kstack, life, active, cached>>

-----------------------------------------------------------------------------
(* exit, segmentation fault, wait, and schedule().                         *)

(* schedule() with the states st: satp and sfence.vma, or shutdown.        *)
Schedule(st) ==
  /\ life' = st
  /\ IF \E j \in Slot \ {active} : st[j] = "live"
     THEN /\ active' \in {j \in Slot \ {active} : st[j] = "live"}
          /\ UNCHANGED power
          /\ Sfence
     ELSE power' = "off" /\ UNCHANGED <<active, cached>>

ReleaseUserPages(m) ==
  FoldLeft(LAMBDA a, p :
    LET e == Lookup(a, Mine, p)
    IN  IF e.u THEN DecRef(SetEntry(a, Mine, p, Empty), e.f) ELSE a,
    m, LeafPages(m, Mine))

Exit ==
  /\ InUser
  /\ ram' = ReleaseUserPages(ram)
  /\ UNCHANGED <<root, kstack>>
  /\ Schedule([life EXCEPT ![active] = "zombie"])

(* do_segfault prints before anything else.  In a child that fork could    *)
(* not give the console's page to, that traps in S-mode, and so does every *)
(* other print: of the timer's tick, of write.                             *)
HasConsole == Lookup(ram, Mine, UartPage).v

Segfault ==
  /\ InUser
  /\ HasConsole
  /\ UNCHANGED <<ram, root, kstack>>
  /\ Schedule([life EXCEPT ![active] = "zombie"])

PrintTraps ==
  /\ InUser
  /\ ~HasConsole
  /\ power' = "off"
  /\ UNCHANGED <<ram, root, kstack, life, active, cached>>

WaitBlock ==
  /\ InUser
  /\ \E j \in Slot \ {active} : life[j] = "live"
  /\ UNCHANGED <<ram, root, kstack>>
  /\ Schedule(life)

FreeFrames(m, S) == FoldSet(LAMBDA f, a : FreeFrame(a, f), m, S)

UserTables(m, rt) ==   \* the frames free_intermediate_frames visits
  LET upper == {m.mem[rt][i].f : i \in {k \in 0 .. KERNEL_VPN2_MIN - 1 :
                                          m.mem[rt][k].v}}
      lower(t) == {m.mem[t][i].f : i \in {k \in Idx : m.mem[t][k].v
                                                      /\ ~IsLeaf(m.mem[t][k])}}
  IN  upper \cup UNION {lower(t) : t \in upper}

(* Mutant: the whole tree is freed, with the half all roots share.         *)
FreeWholeTree(m, j) ==
  LET upper == {m.mem[root[j]][i].f : i \in {k \in Idx : m.mem[root[j]][k].v}}
  IN  FreeFrames(m, kstack[j] \cup UserTables(m, root[j]) \cup upper
                    \cup {root[j]})

FreeUserPtResources(m, j) ==
  FreeFrames(m, kstack[j] \cup UserTables(m, root[j]) \cup {root[j]})

WaitReap(j) ==
  /\ InUser /\ life[j] = "zombie"
  /\ ram' = FreeUserPtResources(ram, j)
  /\ root' = [root EXCEPT ![j] = NoFrame]
  /\ kstack' = [kstack EXCEPT ![j] = {}]
  /\ life' = [life EXCEPT ![j] = "none"]
  /\ UNCHANGED <<active, power>>
  /\ NoSfence

ShutDown == power = "off" /\ UNCHANGED vars

Next ==
  \/ \E p \in HeapPages, q \in MapProt : MapZeroed(p, q)
  \/ \E p \in HeapPages : UnmapUserPage(p)
  \/ \E p \in UserHalf : CowFault(p) \/ CowPanic(p)
  \/ \E j \in Slot : Fork(j) \/ WaitReap(j)
  \/ ForkPanic \/ Exit \/ Segfault \/ PrintTraps \/ WaitBlock \/ ShutDown

Spec == Init /\ [][Next]_vars

-----------------------------------------------------------------------------
Spaces == {i \in Slot : life[i] # "none"}

TypeOK ==
  /\ ram \in [mem : [Frame -> [Idx -> PTE]], free : SUBSET Frame,
              refs : [Frame -> Nat]]
  /\ root \in [Slot -> Frame \cup {NoFrame}]
  /\ kstack \in [Slot -> SUBSET Frame]
  /\ life \in [Slot -> {"none", "live", "zombie"}]
  /\ active \in Slot
  /\ cached \in [Page -> SUBSET PTE]
  /\ power \in {"on", "off"}

KernelTables(rt) ==
  LET upper == {ram.mem[rt][i].f : i \in {k \in Idx : k >= KERNEL_VPN2_MIN
                                                      /\ ram.mem[rt][k].v}}
  IN  upper \cup UNION {{ram.mem[t][i].f : i \in {k \in Idx : ram.mem[t][k].v}}
                          : t \in upper}

DataFrames(i) == {Lookup(ram, root[i], p).f : p \in
                    {q \in UserHalf : LET e == Lookup(ram, root[i], q)
                                      IN  IsLeaf(e) /\ e.u}}
OwnFrames(i) == {root[i]} \cup kstack[i] \cup UserTables(ram, root[i])

(* The tables form a tree of frames of their own.  A frame that is the     *)
(* root, a user table or in the kernel stack of a process is so for this   *)
(* process only, is in use, and no page that a program can reach lies in   *)
(* it; the pages programs can reach are in use as well.  wait frees the    *)
(* tables of a process that others still share pages and tables with.      *)
TablesDisjoint ==
  /\ TypeOK
  /\ \A i \in Spaces :
       LET own == OwnFrames(i)
           used == DataFrames(i)
       IN  /\ (own \cup used \cup KernelTables(root[i])) \cap ram.free = {}
           /\ \A j \in Spaces :
                /\ own \cap DataFrames(j) = {}
                /\ own \cap KernelTables(root[j]) = {}
                /\ j # i => own \cap OwnFrames(j) = {}

(* The kernel's half is the same in every address space and maps all of    *)
(* RAM, so that the kernel can go on after any switch of satp, and when    *)
(* wait has taken down the tables of a child that shared it.               *)
KernelHalfShared ==
  \A i \in Spaces : \A p \in KernelPages :
    Lookup(ram, root[i], p) = NewLeaf(Ram, TRUE, TRUE, TRUE, FALSE)

(* When a program runs, the hart cannot hold a translation that the active *)
(* tables no longer say: every handler that takes a page or a permission   *)
(* away, or switches tables, gets past an sfence.vma.                      *)
TlbCoherent ==
  power = "on" => cached = Leaves(ram, root[active])

(* Seen through lookup(), the trees are flat maps: page by page, with the  *)
(* tables a walk adds, the frames that are left and the references to each *)
(* page exactly as AddressSpaces, and so Kernel, has them, when frames run *)
(* out halfway through a map or a fork included.                           *)
PrivateFrames == UNION {OwnFrames(i) \cup KernelTables(root[i]) : i \in Spaces}
Leaf(i, p) == IF i \in Spaces THEN Lookup(ram, root[i], p) ELSE Empty
TablePlaces(i) ==
  IF i \notin Spaces THEN {} ELSE
  {<<2, Vpn(p, 2)>> : p \in {q \in UserHalf : ram.mem[root[i]][Vpn(q, 2)].v}}
    \cup {<<1, p \div EntriesPerTable>> :
            p \in {q \in UserHalf : LastTable(ram, root[i], q) # NoFrame}}
Flat == INSTANCE AddressSpaces
  WITH Place <- LAMBDA p : {<<2, Vpn(p, 2)>>, <<1, p \div EntriesPerTable>>},
       UserPage <- UserHalf,
       pt <- [i \in Slot |-> [p \in UserHalf |-> Leaf(i, p)]],
       tables <- [i \in Slot |-> TablePlaces(i)],
       refs <- LET private == PrivateFrames
               IN  [f \in Frame |-> IF f \in private THEN 0 ELSE ram.refs[f]],
       spare <- Spare(ram)
FlatSpec == Flat!Spec
=============================================================================
