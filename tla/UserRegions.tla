----------------------------- MODULE UserRegions -----------------------------
(***************************************************************************)
(* The heap and the anonymous mappings of one process: sys_brk, sys_mmap,  *)
(* sys_munmap and the exec stub of syscall.rs, over the page table seen as *)
(* a map from user pages to permissions (w: writable, now or after a copy  *)
(* on write; the sharing of frames is in Kernel).  Addresses are bytes;    *)
(* where the code can overflow usize the model computes modulo             *)
(* UsizeModulus.                                                           *)
(***************************************************************************)
EXTENDS Integers, FiniteSetsExt

CONSTANTS
  PAGE_SIZE,        \* 4096
  UsizeModulus,     \* 2^64
  USER_HEAP_START,
  USER_MMAP_START,  \* = USER_HEAP_LIMIT
  USER_MMAP_LIMIT,
  MAX_MMAP_AREAS,
  UartPage,         \* kernel page mapped inside the heap range
  AddrArg, LenArg,  \* bounds: the addresses and lengths programs pass
  FlagsArg,         \* the mmap flag combinations they pass
  ProtArg,          \* the protections they pass
  FrameBudget       \* bound: how many pages in a row get a frame

ASSUME LayoutAssumption ==
  /\ PAGE_SIZE \in Nat \ {0}
  /\ \A a \in {USER_HEAP_START, USER_MMAP_START, USER_MMAP_LIMIT, UartPage} :
       a \in Nat /\ a % PAGE_SIZE = 0
  /\ 0 < USER_HEAP_START
  /\ USER_HEAP_START <= USER_MMAP_START
  /\ USER_MMAP_START <= USER_MMAP_LIMIT
  /\ UsizeModulus \in Nat
  /\ USER_MMAP_LIMIT < UsizeModulus
  /\ UsizeModulus % PAGE_SIZE = 0
  /\ MAX_MMAP_AREAS \in Nat

ASSUME ArgAssumption ==   \* registers hold a usize
  AddrArg \cup LenArg \subseteq 0 .. UsizeModulus - 1

VARIABLES
  perm,      \* perm[a]: the leaf PTE of page a
  heap_end,
  areas,     \* mmap_areas
  panicked,  \* "no", or the place of the panic
  execed     \* history: the exec stub ran at least once

vars == <<perm, heap_end, areas, panicked, execed>>

USER_HEAP_LIMIT == USER_MMAP_START
AreaSlot == 1 .. MAX_MMAP_AREAS
Page == {a \in USER_HEAP_START .. USER_MMAP_LIMIT - 1 : a % PAGE_SIZE = 0}
NoAddr == -1   \* None

Invalid == [v |-> FALSE, r |-> FALSE, w |-> FALSE, x |-> FALSE, u |-> FALSE]
Flags(r, w, x, u) == [v |-> TRUE, r |-> r, w |-> w, x |-> x, u |-> u]
PTE == [v : BOOLEAN, r : BOOLEAN, w : BOOLEAN, x : BOOLEAN, u : BOOLEAN]
HeapFlags == Flags(TRUE, TRUE, FALSE, TRUE)

EmptyArea == [start |-> 0, len |-> 0, prot |-> {}, used |-> FALSE]
Area == [start : 0 .. USER_MMAP_LIMIT, len : 0 .. USER_MMAP_LIMIT,
         prot : ProtArg \cup {{}}, used : BOOLEAN]
End(area) == area.start + area.len
Pages(start, end) == {a \in Page : start <= a /\ a < end}

TypeOK ==
  /\ perm \in [Page -> PTE]
  /\ heap_end \in USER_HEAP_START .. USER_HEAP_LIMIT
  /\ areas \in [AreaSlot -> Area]
  /\ panicked \in {"no", "align_up", "split"}
  /\ execed \in BOOLEAN

Init ==
  /\ perm = [a \in Page |-> IF a = UartPage
                            THEN Flags(TRUE, TRUE, FALSE, FALSE) ELSE Invalid]
  /\ heap_end = USER_HEAP_START
  /\ areas = [i \in AreaSlot |-> EmptyArea]
  /\ panicked = "no"
  /\ execed = FALSE

-----------------------------------------------------------------------------
(* Address arithmetic.                                                     *)

AlignUp(a) ==
  LET sum == (a + PAGE_SIZE - 1) % UsizeModulus
  IN  sum - (sum % PAGE_SIZE)

AlignUpOverflows(a) == a + PAGE_SIZE - 1 >= UsizeModulus

CheckedAlignUp(a) == IF AlignUpOverflows(a) THEN NoAddr ELSE AlignUp(a)

RangesOverlap(aStart, aEnd, bStart, bEnd) == aStart < bEnd /\ bStart < aEnd

-----------------------------------------------------------------------------
(* The page loops.  Frames for the first `budget` pages can be had.        *)

UnmapUserPages(pm, start, end) ==
  [a \in Page |-> IF a \in Pages(start, end) /\ pm[a].v /\ pm[a].u
                  THEN Invalid ELSE pm[a]]

(* Mutants: no roll back; user pages are mapped over.                      *)
MapWithoutRollback(start, end, flags, budget) ==
  LET bad == {a \in Pages(start, end) :
                perm[a].v \/ a >= start + budget * PAGE_SIZE}
      stop == IF bad = {} THEN end ELSE Min(bad)
  IN  [ok |-> bad = {},
       perm |-> [a \in Page |-> IF a \in Pages(start, stop)
                                THEN flags ELSE perm[a]]]
MapOverUserPages(start, end, flags, budget) ==
  LET free == \A a \in Pages(start, end) : perm[a].v => perm[a].u
  IN  [ok |-> free, perm |-> [a \in Page |-> IF free /\ a \in Pages(start, end)
                                            THEN flags ELSE perm[a]]]
MapZeroedUserPages(start, end, flags, budget) ==
  LET blocked == {a \in Pages(start, end) : perm[a].v}
      starved == {a \in Pages(start, end) : a >= start + budget * PAGE_SIZE}
      mapTo(stop) == [a \in Page |-> IF a \in Pages(start, stop)
                                     THEN flags ELSE perm[a]]
  IN  IF blocked \cup starved = {}
      THEN [ok |-> TRUE, perm |-> mapTo(end)]
      ELSE LET stop == Min(blocked \cup starved)
           IN  [ok |-> FALSE,
                perm |-> UnmapUserPages(mapTo(stop), start, stop)]

-----------------------------------------------------------------------------
(* brk.                                                                    *)

BrkRefused(newBreak) ==
  /\ panicked = "no"
  /\ \/ newBreak < USER_HEAP_START   \* 0 asks for the break
     \/ newBreak > USER_HEAP_LIMIT
  /\ UNCHANGED vars

(* Mutant: the page the new break lies in is not mapped.                   *)
BrkGrowRoundsDown(newBreak, budget) ==
  LET grown == MapZeroedUserPages(AlignUp(heap_end),
                                  newBreak - (newBreak % PAGE_SIZE),
                                  HeapFlags, budget)
  IN  /\ panicked = "no"
      /\ newBreak > heap_end
      /\ newBreak <= USER_HEAP_LIMIT
      /\ perm' = grown.perm
      /\ heap_end' = IF grown.ok THEN newBreak ELSE heap_end
      /\ UNCHANGED <<areas, panicked, execed>>

BrkGrow(newBreak, budget) ==
  LET grown == MapZeroedUserPages(AlignUp(heap_end), AlignUp(newBreak),
                                  HeapFlags, budget)
  IN  /\ panicked = "no"
      /\ newBreak > heap_end
      /\ newBreak <= USER_HEAP_LIMIT
      /\ perm' = grown.perm
      /\ heap_end' = IF grown.ok THEN newBreak ELSE heap_end
      /\ UNCHANGED <<areas, panicked, execed>>

BrkShrink(newBreak) ==
  /\ panicked = "no"
  /\ USER_HEAP_START <= newBreak
  /\ newBreak <= heap_end
  /\ perm' = UnmapUserPages(perm, AlignUp(newBreak), AlignUp(heap_end))
  /\ heap_end' = newBreak
  /\ UNCHANGED <<areas, panicked, execed>>

-----------------------------------------------------------------------------
(* mmap.                                                                   *)

PteFlagsFromProt(prot) ==
  Flags("READ" \in prot \/ "WRITE" \in prot, "WRITE" \in prot,
        "EXEC" \in prot, TRUE)

MmapRangeAvailable(start, end) ==
  \A i \in AreaSlot :
    areas[i].used => ~RangesOverlap(start, end, areas[i].start, End(areas[i]))

(* Mutant: goes on behind the last area in the way, not the first.         *)
FindGapPastAll(len) ==
  LET used == {i \in AreaSlot : areas[i].used}
      c == IF used = {} THEN USER_MMAP_START
           ELSE Max({End(areas[i]) : i \in used})
  IN  IF c + len > USER_MMAP_LIMIT THEN NoAddr ELSE c

(* find_mmap_gap: from each candidate on, jump past the first area (in     *)
(* slot order) that is in the way.                                         *)
FindMmapGap(len) ==
  LET inTheWay(c) == {i \in AreaSlot :
                        /\ areas[i].used
                        /\ RangesOverlap(c, c + len,
                                         areas[i].start, End(areas[i]))}
      gapFrom[c \in 0 .. USER_MMAP_LIMIT] ==
        IF c + len > USER_MMAP_LIMIT THEN NoAddr
        ELSE IF inTheWay(c) = {} THEN c
        ELSE gapFrom[AlignUp(End(areas[Min(inTheWay(c))]))]
  IN  gapFrom[USER_MMAP_START]

ChooseMmapAddr(hint, len) ==
  LET h == AlignUp(hint)
  IN  IF hint = 0 \/ h < USER_MMAP_START
      THEN FindMmapGap(len)
      ELSE IF h + len >= UsizeModulus
      THEN NoAddr   \* hint.checked_add(len)? leaves the function
      ELSE IF h + len <= USER_MMAP_LIMIT /\ MmapRangeAvailable(h, h + len)
      THEN h
      ELSE FindMmapGap(len)

FreeAreaSlots(as) == {i \in AreaSlot : ~as[i].used}

(* The requests sys_mmap turns down before it looks at the address space.  *)
MmapArgsOk(len, offset, flags, prot) ==
  /\ CheckedAlignUp(len) \notin {NoAddr, 0}
  /\ offset % PAGE_SIZE = 0
  /\ flags = {"PRIVATE", "ANONYMOUS"}
  /\ prot # {}
  /\ prot \subseteq {"READ", "WRITE", "EXEC"}

MmapRefused(len, offset, flags, prot) ==   \* EINVAL, ENOSYS
  /\ panicked = "no"
  /\ ~MmapArgsOk(len, offset, flags, prot)
  /\ UNCHANGED vars

(* align_up(hint) overflows: a build of the dev profile panics, one of the *)
(* release profile goes on with the wrapped address (Mmap).                *)
MmapPanic(hint, len, offset, flags, prot) ==
  /\ panicked = "no"
  /\ MmapArgsOk(len, offset, flags, prot)
  /\ hint # 0
  /\ AlignUpOverflows(hint)
  /\ panicked' = "align_up"
  /\ UNCHANGED <<perm, heap_end, areas, execed>>

Mmap(hint, rawLen, offset, flags, prot, budget) ==
  LET len == CheckedAlignUp(rawLen)
      start == ChooseMmapAddr(hint, len)
      mapped == MapZeroedUserPages(start, start + len,
                                   PteFlagsFromProt(prot), budget)
  IN  /\ panicked = "no"
      /\ MmapArgsOk(rawLen, offset, flags, prot)
      /\ IF start = NoAddr \/ FreeAreaSlots(areas) = {}
         THEN UNCHANGED <<perm, areas>>   \* ENOMEM
         ELSE /\ perm' = mapped.perm
              /\ areas' = IF mapped.ok
                          THEN [areas EXCEPT ![Min(FreeAreaSlots(areas))] =
                                  [start |-> start, len |-> len,
                                   prot |-> prot, used |-> TRUE]]
                          ELSE areas
      /\ UNCHANGED <<heap_end, panicked, execed>>

-----------------------------------------------------------------------------
(* munmap.                                                                 *)

(* Mutant: no preflight.                                                   *)
CanAlwaysSplit(start, end) == TRUE

CanSplitMmapRange(start, end) ==
  Cardinality({i \in AreaSlot : /\ areas[i].used
                                /\ areas[i].start < start
                                /\ end < End(areas[i])})
    <= Cardinality(FreeAreaSlots(areas))

(* Mutant: an area that is gone altogether stays in use, with no length.   *)
RemoveLeavesEmpty(as, i, start, end) ==
  LET area == as[i]
  IN  IF ~area.used \/ ~RangesOverlap(start, end, area.start, End(area))
      THEN as
      ELSE IF start <= area.start /\ end < End(area)
      THEN [as EXCEPT ![i].start = end, ![i].len = End(area) - end]
      ELSE [as EXCEPT ![i].len = IF start <= area.start THEN 0
                                 ELSE start - area.start]

(* One round of remove_mmap_range's loop: slot i of the array `as`.        *)
RemoveFromSlot(as, i, start, end) ==
  LET area == as[i]
      tail == [area EXCEPT !.start = end, !.len = End(area) - end]
  IN  IF ~area.used \/ ~RangesOverlap(start, end, area.start, End(area))
      THEN as
      ELSE IF start <= area.start /\ end >= End(area)
      THEN [as EXCEPT ![i] = EmptyArea]
      ELSE IF start <= area.start
      THEN [as EXCEPT ![i] = tail]
      ELSE IF end >= End(area)
      THEN [as EXCEPT ![i].len = start - area.start]
      ELSE [as EXCEPT ![i].len = start - area.start,
                      ![Min(FreeAreaSlots(as))] = tail]

(* The array after the loop has gone through slots 1 .. i.                 *)
AfterSlots(start, end) ==
  LET after[i \in 0 .. MAX_MMAP_AREAS] ==
        IF i = 0 THEN areas ELSE RemoveFromSlot(after[i - 1], i, start, end)
  IN  after

(* expect("munmap split preflight failed"): the loop comes to an area that *)
(* it must split and finds no free slot.                                   *)
SplitPanics(start, end) ==
  LET after == AfterSlots(start, end)
      splits(i) == /\ after[i - 1][i].used
                   /\ after[i - 1][i].start < start
                   /\ end < End(after[i - 1][i])
  IN  \E i \in AreaSlot :
        /\ \A j \in 1 .. i - 1 : ~splits(j) \/ FreeAreaSlots(after[j - 1]) # {}
        /\ splits(i)
        /\ FreeAreaSlots(after[i - 1]) = {}

MunmapArgsOk(addr, len) ==
  /\ addr % PAGE_SIZE = 0
  /\ CheckedAlignUp(len) \notin {NoAddr, 0}
  /\ addr >= USER_MMAP_START
  /\ addr + CheckedAlignUp(len) <= USER_MMAP_LIMIT

MunmapRefused(addr, len) ==   \* EINVAL, ENOMEM
  /\ panicked = "no"
  /\ \/ ~MunmapArgsOk(addr, len)
     \/ ~CanSplitMmapRange(addr, addr + CheckedAlignUp(len))
  /\ UNCHANGED vars

Munmap(addr, len) ==
  LET end == addr + CheckedAlignUp(len)
  IN  /\ panicked = "no"
      /\ MunmapArgsOk(addr, len)
      /\ CanSplitMmapRange(addr, end)
      /\ perm' = UnmapUserPages(perm, addr, end)
      /\ IF SplitPanics(addr, end)
         THEN panicked' = "split" /\ UNCHANGED areas
         ELSE /\ areas' = AfterSlots(addr, end)[MAX_MMAP_AREAS]
              /\ UNCHANGED panicked
      /\ UNCHANGED <<heap_end, execed>>

(* The exec stub forgets the regions and leaves their pages mapped.        *)
Exec ==
  /\ panicked = "no"
  /\ heap_end' = USER_HEAP_START
  /\ areas' = [i \in AreaSlot |-> EmptyArea]
  /\ execed' = TRUE
  /\ UNCHANGED <<perm, panicked>>

Halted == panicked # "no" /\ UNCHANGED vars   \* sbi::shutdown()

Next ==
  \/ \E a \in AddrArg : BrkRefused(a) \/ BrkShrink(a)
  \/ \E a \in AddrArg, b \in FrameBudget : BrkGrow(a, b)
  \/ \E len \in LenArg, offset \in {0, 1}, f \in FlagsArg, p \in ProtArg :
       \/ MmapRefused(len, offset, f, p)
       \/ \E hint \in AddrArg : MmapPanic(hint, len, offset, f, p)
       \/ \E hint \in AddrArg, b \in FrameBudget : Mmap(hint, len, offset, f, p, b)
  \/ \E a \in AddrArg, len \in LenArg : MunmapRefused(a, len) \/ Munmap(a, len)
  \/ Exec \/ Halted

Spec == Init /\ [][Next]_vars

-----------------------------------------------------------------------------
UserPages(start, end) == {a \in Pages(start, end) : perm[a].v /\ perm[a].u}
AreaPages == UNION {Pages(areas[i].start, End(areas[i])) :
                      i \in {j \in AreaSlot : areas[j].used}}

(* The break stays within its limits, and the recorded areas are whole     *)
(* pages of the mmap window, none empty and no two overlapping, after any  *)
(* mix of mmap, partial munmap and splits.                                 *)
AreasWellFormed ==
  /\ TypeOK
  /\ \A i \in AreaSlot : areas[i].used =>
       /\ areas[i].start % PAGE_SIZE = 0 /\ areas[i].len % PAGE_SIZE = 0
       /\ areas[i].len > 0
       /\ USER_MMAP_START <= areas[i].start /\ End(areas[i]) <= USER_MMAP_LIMIT
       /\ \A j \in AreaSlot : j # i /\ areas[j].used =>
            ~RangesOverlap(areas[i].start, End(areas[i]),
                           areas[j].start, End(areas[j]))

AreasMapped ==
  \A i \in AreaSlot : areas[i].used =>
    \A a \in Pages(areas[i].start, End(areas[i])) :
      perm[a] = PteFlagsFromProt(areas[i].prot)

HeapMapped ==
  \A a \in Pages(USER_HEAP_START, AlignUp(heap_end)) : perm[a] = HeapFlags

NoStrayUserPage ==
  /\ UserPages(USER_MMAP_START, USER_MMAP_LIMIT) = AreaPages
  /\ UserPages(AlignUp(heap_end), USER_HEAP_LIMIT) = {}

(* The page table agrees with the records.  Every page of an area has the  *)
(* permissions its prot stands for, pieces of a split area included; every *)
(* page below the break, the one the break lies in included, is a writable *)
(* user page; and the console's page survives.  Nothing else is mapped for *)
(* the user: a failed brk or mmap leaves no page behind, munmap and        *)
(* shrinking remove all of theirs.  Only the exec stub, which forgets      *)
(* regions without unmapping them, breaks the last part.                   *)
PagesMatchRecords ==
  /\ AreasMapped /\ HeapMapped
  /\ ~execed => NoStrayUserPage
  /\ UartPage \in Page => perm[UartPage] = Flags(TRUE, TRUE, FALSE, FALSE)

(* The preflight of munmap is sufficient: its expect never fails.          *)
SplitNeverPanics == panicked # "split"

(* find_mmap_gap is a first fit: it returns the lowest page at which the   *)
(* request fits between the areas, and None only when it fits nowhere.     *)
FirstFit(len) ==
  LET fits == {a \in Page : /\ USER_MMAP_START <= a
                            /\ a + len <= USER_MMAP_LIMIT
                            /\ Pages(a, a + len) \cap AreaPages = {}}
  IN  IF fits = {} THEN NoAddr ELSE Min(fits)

GapIsFirstFit ==
  \A len \in {CheckedAlignUp(n) : n \in LenArg} \ {NoAddr, 0} :
    FindMmapGap(len) = FirstFit(len)

(* brk and mmap never map over a page that is mapped, not even over one    *)
(* the exec stub has forgotten: a leaf in use only ever becomes invalid.   *)
NeverMappedOver ==
  [][\A a \in Page : perm[a].v => perm'[a] \in {perm[a], Invalid}]_vars
=============================================================================
