-------------------------- MODULE UserRegionsProofs --------------------------
(***************************************************************************)
(* Proofs about UserRegions, for any page size, layout and number of       *)
(* mmap areas.  The two loops are recursive functions: each is shown to    *)
(* exist, its entries are related one by one, and what they compute is     *)
(* found with the least counterexample (LeastExists, Induct).              *)
(*                                                                         *)
(*   remove_mmap_range   LoopInvariant: after n rounds nothing of slots    *)
(*                       1 .. n overlaps the range, and the areas hold     *)
(*                       what they held outside it.                        *)
(*   find_mmap_gap       GapOk: from a candidate on, the lowest fit.       *)
(*                                                                         *)
(* IInv adds to the properties that a leaf that is not valid is Invalid    *)
(* (CleanLeaves), which makes the roll back of a failed mapping exact.     *)
(***************************************************************************)
EXTENDS UserRegions, WellFoundedInduction, TLAPS

-----------------------------------------------------------------------------
(* Least elements and induction, over sets of naturals.                    *)

(* A non-empty set of naturals has a least element.                        *)
LEMMA LeastExists ==
  ASSUME NEW S \in SUBSET Nat, S # {}
  PROVE  \E x \in S : \A y \in S : x <= y
<1> DEFINE R == OpToRel(<, Nat)
<1>1. \A x, y \in Nat : <<y, x>> \notin R => x <= y
  <2>1. R = {ss \in Nat \X Nat : ss[1] < ss[2]}
    BY Zenon DEF OpToRel
  <2> HIDE DEF R
  <2>2. QED
    BY <2>1
<1>2. IsWellFoundedOn(R, Nat)
  BY Zenon, NatLessThanWellFounded
<1> HIDE DEF R
<1>3. PICK x \in S : \A y \in S : <<y, x>> \notin R
  BY Zenon, <1>2, WFMin
<1>4. QED
  BY Zenon, <1>1, <1>3

(* Min is that element.                                                    *)
LEMMA MinInSet ==
  ASSUME NEW S \in SUBSET Nat, S # {}
  PROVE  Min(S) \in S /\ \A y \in S : Min(S) <= y
BY Zenon, LeastExists DEF Min

(* Induction, for a set of numbers instead of a predicate.                 *)
LEMMA Induct ==
  ASSUME NEW n \in Nat, NEW S, 0 \in S,
         \A k \in 0 .. n - 1 : k \in S => k + 1 \in S
  PROVE  \A k \in 0 .. n : k \in S
<1> DEFINE B == {k \in 0 .. n : k \notin S}
<1>1. SUFFICES ASSUME B # {} PROVE FALSE
  OBVIOUS
<1>2. B \in SUBSET Nat
  OBVIOUS
<1>3. PICK x \in B : \A y \in B : x <= y
  BY Zenon, <1>1, <1>2, LeastExists
<1>4. x \in 1 .. n
  BY <1>3
<1>5. x - 1 \in 0 .. n - 1 /\ x - 1 \notin B
  BY <1>3, <1>4
<1>6. x - 1 \in S
  BY <1>5
<1>7. x - 1 + 1 \in S
  BY <1>5, <1>6
<1>8. QED
  BY <1>3, <1>4, <1>7

-----------------------------------------------------------------------------
(* Whole pages.                                                            *)

Whole(a) == a \in Nat /\ a % PAGE_SIZE = 0

(* Division with remainder.                                                *)
LEMMA Quotient ==
  ASSUME NEW k \in Nat \ {0}, NEW a \in Nat
  PROVE  a \div k \in Nat /\ a = k * (a \div k) + (a % k) /\ a % k \in 0 .. k - 1
OBVIOUS

(* Multiples leave no remainder.                                           *)
LEMMA NoRemainder ==
  ASSUME NEW k \in Nat \ {0}, NEW m \in Nat
  PROVE  (k * m) % k = 0 /\ k * m \in Nat
OBVIOUS

(* Differences of multiples.                                               *)
LEMMA Distribute ==
  ASSUME NEW k \in Nat \ {0}, NEW a \in Nat, NEW b \in Nat
  PROVE  /\ k * (a + b) = k * a + k * b
         /\ a < b => k * a + k <= k * b
         /\ a <= b => k * (b - a) = k * b - k * a /\ k * a <= k * b
OBVIOUS

(* Whole pages have a number.                                              *)
LEMMA WholeIsMultiple ==
  \A a : Whole(a) <=> \E m \in Nat : a = PAGE_SIZE * m
<1>1. PAGE_SIZE \in Nat \ {0}
  BY LayoutAssumption
<1>2. ASSUME NEW a, Whole(a) PROVE \E m \in Nat : a = PAGE_SIZE * m
  <2>1. a \in Nat /\ a % PAGE_SIZE = 0
    BY <1>2 DEF Whole
  <2>2. a \div PAGE_SIZE \in Nat /\ a = PAGE_SIZE * (a \div PAGE_SIZE) + 0
    BY <1>1, <2>1, Quotient
  <2>3. PAGE_SIZE * (a \div PAGE_SIZE) \in Nat
    BY <1>1, <2>2, NoRemainder
  <2>4. QED
    BY <2>2, <2>3
<1>3. ASSUME NEW m \in Nat PROVE Whole(PAGE_SIZE * m)
  BY <1>1, NoRemainder DEF Whole
<1>4. QED
  BY <1>2, <1>3

(* Sums and differences of whole pages are whole pages, and a lower one    *)
(* is lower by a page at least.                                            *)
LEMMA WholePages ==
  ASSUME NEW a, NEW b, Whole(a), Whole(b)
  PROVE  /\ a \in Nat /\ b \in Nat
         /\ Whole(a + b)
         /\ a <= b => Whole(b - a)
         /\ a < b => a + PAGE_SIZE <= b
<1>1. PAGE_SIZE \in Nat \ {0}
  BY LayoutAssumption
<1>2. PICK m \in Nat : a = PAGE_SIZE * m
  BY WholeIsMultiple
<1>3. PICK n \in Nat : b = PAGE_SIZE * n
  BY WholeIsMultiple
<1>4. a \in Nat /\ b \in Nat
  BY DEF Whole
<1>5. m + n \in Nat /\ a + b = PAGE_SIZE * (m + n)
  BY <1>1, <1>2, <1>3, Distribute
<1>6. Whole(a + b)
  BY <1>5, WholeIsMultiple
<1>7. ASSUME a <= b PROVE Whole(b - a)
  <2>1. CASE m <= n
    <3>1. n - m \in Nat /\ b - a = PAGE_SIZE * (n - m)
      BY <1>1, <1>2, <1>3, <2>1, Distribute
    <3>2. QED
      BY <3>1, WholeIsMultiple
  <2>2. CASE n < m
    <3>1. PAGE_SIZE * n + PAGE_SIZE <= PAGE_SIZE * m
      BY <1>1, <2>2, Distribute
    <3>2. QED
      BY <1>1, <1>2, <1>3, <1>4, <1>7, <3>1
  <2>3. QED
    BY <2>1, <2>2
<1>8. ASSUME a < b PROVE a + PAGE_SIZE <= b
  <2>1. m < n
    <3>1. n <= m => PAGE_SIZE * n <= PAGE_SIZE * m
      BY <1>1, Distribute
    <3>2. QED
      BY <1>2, <1>3, <1>4, <1>8, <3>1
  <2>2. PAGE_SIZE * m + PAGE_SIZE <= PAGE_SIZE * n
    BY <1>1, <2>1, Distribute
  <2>3. QED
    BY <1>2, <1>3, <2>2
<1>9. QED
  BY <1>4, <1>6, <1>7, <1>8

(* The boundaries of the address space are whole pages.                    *)
LEMMA Layout ==
  /\ PAGE_SIZE \in Nat \ {0}
  /\ Whole(USER_HEAP_START) /\ Whole(USER_HEAP_LIMIT) /\ Whole(USER_MMAP_START)
  /\ Whole(USER_MMAP_LIMIT) /\ Whole(UsizeModulus)
  /\ 0 < USER_HEAP_START /\ USER_HEAP_START <= USER_MMAP_START
  /\ USER_HEAP_LIMIT = USER_MMAP_START
  /\ USER_MMAP_START <= USER_MMAP_LIMIT /\ USER_MMAP_LIMIT < UsizeModulus
BY Zenon, LayoutAssumption DEF Whole, USER_HEAP_LIMIT

(* align_up returns a whole page, even when it wraps.                      *)
LEMMA AlignWhole ==
  ASSUME NEW a \in Nat
  PROVE  Whole(AlignUp(a))
<1> DEFINE s == (a + PAGE_SIZE - 1) % UsizeModulus
<1>1. PAGE_SIZE \in Nat \ {0} /\ UsizeModulus \in Nat \ {0}
  BY Layout DEF Whole
<1>2. s \in Nat
  BY <1>1
<1>3. AlignUp(a) = s - (s % PAGE_SIZE)
  BY DEF AlignUp
<1> HIDE DEF s
<1>4. s \div PAGE_SIZE \in Nat /\ s = PAGE_SIZE * (s \div PAGE_SIZE) + (s % PAGE_SIZE)
      /\ s % PAGE_SIZE \in 0 .. PAGE_SIZE - 1
  BY <1>1, <1>2, Quotient
<1>5. PAGE_SIZE * (s \div PAGE_SIZE) \in Nat
  BY <1>1, <1>4, NoRemainder
<1>6. AlignUp(a) = PAGE_SIZE * (s \div PAGE_SIZE)
  BY <1>3, <1>4, <1>5
<1>7. QED
  BY <1>4, <1>6, WholeIsMultiple

(* When it does not wrap it is the first whole page from a on.             *)
LEMMA AlignUpFits ==
  ASSUME NEW a \in Nat, ~AlignUpOverflows(a)
  PROVE  a <= AlignUp(a) /\ AlignUp(a) < a + PAGE_SIZE
<1> DEFINE s == a + PAGE_SIZE - 1
<1>1. PAGE_SIZE \in Nat \ {0} /\ UsizeModulus \in Nat \ {0}
  BY Layout DEF Whole
<1>2. s \in Nat /\ s < UsizeModulus
  BY <1>1 DEF AlignUpOverflows
<1>3. s % UsizeModulus = s
  <2> HIDE DEF s
  <2>1. QED
    BY <1>1, <1>2
<1>4. AlignUp(a) = s - (s % PAGE_SIZE)
  BY <1>3 DEF AlignUp
<1>5. s % PAGE_SIZE \in 0 .. PAGE_SIZE - 1
  BY <1>1, <1>2, Quotient
<1>6. QED
  BY <1>1, <1>4, <1>5

(* It leaves whole pages alone and keeps the order.                        *)
LEMMA AlignUpOrder ==
  ASSUME NEW a \in Nat, NEW b \in Nat, ~AlignUpOverflows(a), ~AlignUpOverflows(b)
  PROVE  /\ Whole(a) => AlignUp(a) = a
         /\ a <= b => AlignUp(a) <= AlignUp(b)
<1> DEFINE A == AlignUp(a)
           B == AlignUp(b)
<1>1. /\ Whole(A) /\ a <= A /\ A < a + PAGE_SIZE
      /\ Whole(B) /\ b <= B /\ PAGE_SIZE \in Nat
  BY AlignWhole, AlignUpFits, Layout
<1> HIDE DEF A, B
<1>2. A \in Nat /\ B \in Nat /\ (B < A => B + PAGE_SIZE <= A)
  BY <1>1, WholePages
<1>3. Whole(a) /\ a < A => a + PAGE_SIZE <= A
  BY <1>1, WholePages
<1>4. (Whole(a) => A = a) /\ (a <= b => A <= B)
  BY <1>1, <1>2, <1>3
<1>5. QED
  BY <1>4 DEF A, B

(* Below a boundary of the address space it neither wraps nor crosses.     *)
LEMMA AlignUpBelow ==
  ASSUME NEW a \in Nat, NEW l, Whole(l), a <= l, l <= USER_MMAP_LIMIT
  PROVE  /\ ~AlignUpOverflows(a)
         /\ AlignUp(a) <= l /\ a <= AlignUp(a) /\ Whole(AlignUp(a))
         /\ Whole(a) => AlignUp(a) = a
<1>1. l \in Nat /\ l + PAGE_SIZE <= UsizeModulus /\ UsizeModulus \in Nat
  <2>1. l < UsizeModulus
    BY Layout DEF Whole
  <2>2. QED
    BY Zenon, <2>1, Layout, WholePages DEF Whole
<1>2. ~AlignUpOverflows(a) /\ ~AlignUpOverflows(l)
  BY <1>1, Layout DEF AlignUpOverflows
<1>3. AlignUp(l) = l /\ AlignUp(a) <= AlignUp(l) /\ (Whole(a) => AlignUp(a) = a)
  BY <1>1, <1>2, AlignUpOrder
<1>4. a <= AlignUp(a) /\ Whole(AlignUp(a))
  BY <1>2, AlignUpFits, AlignWhole
<1>5. QED
  BY <1>2, <1>3, <1>4

-----------------------------------------------------------------------------
(* The page loops.                                                         *)

(* A page without a leaf has an empty entry.                               *)
CleanLeaves == \A a \in Page : perm[a].v \/ perm[a] = Invalid

(* The pages are numbers.                                                  *)
LEMMA PagesAreWhole ==
  \A a \in Page : /\ Whole(a) /\ a \in Nat
                  /\ USER_HEAP_START <= a /\ a < USER_MMAP_LIMIT
BY Layout DEF Page, Whole

(* map_zeroed_user_pages maps every page of the range, none of which was   *)
(* in use, or leaves the page table as it was.                             *)
LEMMA MapResult ==
  ASSUME perm \in [Page -> PTE], CleanLeaves, NEW start \in Nat, NEW end \in Nat,
         NEW flags \in PTE, flags.v, flags.u, NEW budget
  PROVE  LET r == MapZeroedUserPages(start, end, flags, budget)
         IN  /\ r.perm \in [Page -> PTE]
             /\ \/ /\ r.ok
                   /\ \A a \in Page : start <= a /\ a < end => ~perm[a].v
                   /\ \A a \in Page : r.perm[a] = IF start <= a /\ a < end
                                                  THEN flags ELSE perm[a]
                \/ ~r.ok /\ r.perm = perm
<1> DEFINE r == MapZeroedUserPages(start, end, flags, budget)
           blocked == {a \in Pages(start, end) : perm[a].v}
           starved == {a \in Pages(start, end) : a >= start + budget * PAGE_SIZE}
           bad == blocked \cup starved
           mapTo(stop) == [a \in Page |-> IF a \in Pages(start, stop)
                                          THEN flags ELSE perm[a]]
           stop == Min(bad)
<1>1. /\ bad = {} => r = [ok |-> TRUE, perm |-> mapTo(end)]
      /\ bad # {} => r = [ok |-> FALSE,
                          perm |-> UnmapUserPages(mapTo(stop), start, stop)]
  BY DEF MapZeroedUserPages
<1>2. CASE bad = {}
  <2>1. r.ok /\ r.perm = mapTo(end)
    BY <1>1, <1>2
  <2>2. \A a \in Page : start <= a /\ a < end => ~perm[a].v
    BY <1>2 DEF Pages
  <2>3. mapTo(end) \in [Page -> PTE]
    OBVIOUS
  <2>4. \A a \in Page : mapTo(end)[a] = IF start <= a /\ a < end
                                        THEN flags ELSE perm[a]
    BY DEF Pages
  <2> HIDE DEF r, mapTo
  <2>5. QED
    BY <2>1, <2>2, <2>3, <2>4 DEF r
<1>3. CASE bad # {}
  <2>1. ~r.ok /\ r.perm = UnmapUserPages(mapTo(stop), start, stop)
    BY <1>1, <1>3
  <2>2. bad \in SUBSET Nat /\ \A a \in Page : start <= a /\ a < end /\ perm[a].v
                                                => a \in bad
    BY PagesAreWhole DEF Pages
  <2>3. stop \in bad /\ \A a \in bad : stop <= a
    BY <1>3, <2>2, MinInSet
  <2>4. stop \in Nat /\ stop < end
    BY <2>2, <2>3 DEF Pages
  <2> HIDE DEF bad, stop
  <2>5. ASSUME NEW a \in Page
        PROVE  UnmapUserPages(mapTo(stop), start, stop)[a] = perm[a]
    <3>1. CASE a \in Pages(start, stop)
      <4>1. a \in Nat /\ start <= a /\ a < stop
        BY <3>1, PagesAreWhole DEF Pages
      <4>2. ~perm[a].v
        BY <2>2, <2>3, <2>4, <4>1
      <4>3. perm[a] = Invalid
        BY <4>2 DEF CleanLeaves
      <4>4. mapTo(stop)[a] = flags
        BY <3>1
      <4>5. QED
        BY <3>1, <4>3, <4>4 DEF UnmapUserPages
    <3>2. CASE a \notin Pages(start, stop)
      BY <3>2 DEF UnmapUserPages
    <3>3. QED
      BY <3>1, <3>2
  <2>6. UnmapUserPages(mapTo(stop), start, stop) = perm
    <3>1. UnmapUserPages(mapTo(stop), start, stop)
            = [a \in Page |-> UnmapUserPages(mapTo(stop), start, stop)[a]]
      BY DEF UnmapUserPages
    <3>2. QED
      BY <2>5, <3>1
  <2> HIDE DEF r, mapTo
  <2>7. QED
    BY <2>1, <2>6 DEF r
<1>4. QED
  BY <1>2, <1>3

-----------------------------------------------------------------------------
(* Area arrays, as values: munmap's loop goes through intermediate ones.   *)

WholeArea(r) ==
  /\ r.start % PAGE_SIZE = 0 /\ r.len % PAGE_SIZE = 0 /\ r.len > 0
  /\ USER_MMAP_START <= r.start /\ End(r) <= USER_MMAP_LIMIT

Apart(r, s) == ~RangesOverlap(r.start, End(r), s.start, End(s))

WellFormed(ar) ==
  /\ ar \in [AreaSlot -> Area]
  /\ \A i \in AreaSlot : ar[i].used =>
       /\ WholeArea(ar[i])
       /\ \A j \in AreaSlot : j # i /\ ar[j].used => Apart(ar[i], ar[j])

Holds(r, x) == r.used /\ r.start <= x /\ x < End(r)

(* r occupies no address that s does not.                                  *)
Within(r, s) == s.start <= r.start /\ End(r) <= End(s)

(* An area's record and its numbers.                                       *)
LEMMA AreaTyped ==
  ASSUME NEW r \in Area
  PROVE  /\ r.start \in Nat /\ r.len \in Nat /\ End(r) \in Nat
         /\ End(r) = r.start + r.len /\ r.used \in BOOLEAN
         /\ r.prot \in ProtArg \cup {{}}
BY Layout DEF Area, End, Whole

Put(ar, bs, i, r) == bs = [ar EXCEPT ![i] = r]
FitsIn(ar, i, r) ==
  r.used => /\ WholeArea(r)
            /\ \A j \in AreaSlot \ {i} : ar[j].used => Apart(r, ar[j])

(* One slot gets a new area that is apart from the others.                 *)
LEMMA ReplaceArea ==
  ASSUME NEW ar, WellFormed(ar), NEW i \in AreaSlot, NEW r \in Area,
         FitsIn(ar, i, r), NEW bs, Put(ar, bs, i, r)
  PROVE  /\ WellFormed(bs) /\ bs[i] = r
         /\ \A j \in AreaSlot \ {i} : bs[j] = ar[j]
<1>1. ar \in [AreaSlot -> Area]
  BY DEF WellFormed
<1>2. bs \in [AreaSlot -> Area] /\ bs[i] = r
      /\ \A j \in AreaSlot \ {i} : bs[j] = ar[j]
  BY <1>1 DEF Put
<1>3. \A j \in AreaSlot \ {i} : Apart(r, ar[j]) => Apart(ar[j], r)
  BY DEF Apart, RangesOverlap
<1>4. \A k \in AreaSlot : bs[k].used => WholeArea(bs[k])
  BY <1>2 DEF WellFormed, FitsIn
<1>5. \A k, j \in AreaSlot : bs[k].used /\ j # k /\ bs[j].used => Apart(bs[k], bs[j])
  BY <1>2, <1>3 DEF WellFormed, FitsIn
<1>6. QED
  BY <1>2, <1>4, <1>5 DEF WellFormed

(* A part of an area is apart from what the area is apart from.            *)
LEMMA PartApart ==
  ASSUME NEW r \in Area, NEW s \in Area, NEW o \in Area, Within(r, s), Apart(s, o)
  PROVE  Apart(r, o)
<1>1. /\ r.start \in Nat /\ End(r) \in Nat /\ s.start \in Nat /\ End(s) \in Nat
      /\ o.start \in Nat /\ End(o) \in Nat
  BY AreaTyped
<1>2. QED
  BY <1>1 DEF Within, Apart, RangesOverlap

(* The ranges that munmap accepts.                                         *)
WindowRange(s, e) ==
  /\ Whole(s) /\ Whole(e) /\ s < e
  /\ USER_MMAP_START <= s /\ e <= USER_MMAP_LIMIT

Resized(r, b) == [r EXCEPT !.len = b]
Moved(r, a, b) == [r EXCEPT !.start = a, !.len = b]
Head(r, s) == Resized(r, s - r.start)
Tail(r, e) == Moved(r, e, End(r) - e)

(* The fields of a record with another length ...                          *)
LEMMA ResizedFields ==
  ASSUME NEW r \in Area, NEW b \in 0 .. USER_MMAP_LIMIT
  PROVE  LET h == Resized(r, b)
         IN  /\ h \in Area /\ h.start = r.start /\ h.len = b
             /\ h.prot = r.prot /\ h.used = r.used
BY DEF Area, Resized

(* ... or another start and length.                                        *)
LEMMA MovedFields ==
  ASSUME NEW r \in Area, NEW a \in 0 .. USER_MMAP_LIMIT,
         NEW b \in 0 .. USER_MMAP_LIMIT
  PROVE  LET t == Moved(r, a, b)
         IN  /\ t \in Area /\ t.start = a /\ t.len = b
             /\ t.prot = r.prot /\ t.used = r.used
BY Zenon DEF Area, Moved

(* What is left of an area in front of the range.                          *)
LEMMA HeadPiece ==
  ASSUME NEW r \in Area, r.used, WholeArea(r), NEW s, NEW e, WindowRange(s, e),
         r.start < s, s < End(r)
  PROVE  LET h == Head(r, s)
         IN  /\ h \in Area /\ WholeArea(h) /\ Within(h, r) /\ h.used
             /\ h.prot = r.prot /\ h.start = r.start /\ End(h) = s
<1> DEFINE h == Head(r, s)
<1>1. /\ r.start \in Nat /\ r.len \in Nat /\ End(r) = r.start + r.len
      /\ r.used \in BOOLEAN /\ s \in Nat /\ USER_MMAP_LIMIT \in Nat
      /\ End(r) <= USER_MMAP_LIMIT /\ USER_MMAP_START <= r.start
      /\ USER_MMAP_START \in Nat
  BY AreaTyped, Layout DEF WindowRange, Whole, WholeArea
<1>2. s - r.start \in 0 .. USER_MMAP_LIMIT 
  BY <1>1
<1>3. /\ h \in Area
      /\ h.start = r.start /\ h.len = s - r.start /\ h.prot = r.prot
      /\ h.used = r.used
  BY Zenon, <1>2, ResizedFields DEF Head
<1>4. Whole(s - r.start)
  BY <1>1, WholePages DEF WholeArea, WindowRange, Whole
<1>5. End(h) = s
  BY <1>1, <1>3 DEF End
<1> HIDE DEF h
<1>6. WholeArea(h)
  <2>1. Whole(h.start) /\ Whole(h.len)
    BY <1>1, <1>3, <1>4 DEF WholeArea, Whole, WindowRange
  <2>2. h.len > 0 /\ USER_MMAP_START <= h.start /\ End(h) <= USER_MMAP_LIMIT
    BY <1>1, <1>3, <1>5 DEF WindowRange, Whole
  <2>3. QED
    BY <2>1, <2>2 DEF WholeArea, Whole
<1>7. Within(h, r)
  BY <1>1, <1>3, <1>5 DEF Within
<1>8. QED
  BY <1>3, <1>5, <1>6, <1>7 DEF h

(* What is left behind it.                                                 *)
LEMMA TailPiece ==
  ASSUME NEW r \in Area, r.used, WholeArea(r), NEW s, NEW e, WindowRange(s, e),
         r.start < e, e < End(r)
  PROVE  LET t == Tail(r, e)
         IN  /\ t \in Area /\ WholeArea(t) /\ Within(t, r) /\ t.used
             /\ t.prot = r.prot /\ t.start = e /\ End(t) = End(r)
<1> DEFINE t == Tail(r, e)
<1>1. /\ r.start \in Nat /\ r.len \in Nat /\ End(r) = r.start + r.len
      /\ r.used \in BOOLEAN /\ e \in Nat /\ USER_MMAP_LIMIT \in Nat
      /\ End(r) <= USER_MMAP_LIMIT /\ USER_MMAP_START <= r.start
      /\ USER_MMAP_START \in Nat
  BY AreaTyped, Layout DEF WindowRange, Whole, WholeArea
<1>2. End(r) - e \in 0 .. USER_MMAP_LIMIT /\ e \in 0 .. USER_MMAP_LIMIT
  BY <1>1
<1>3. /\ t \in Area
      /\ t.start = e /\ t.len = End(r) - e /\ t.prot = r.prot /\ t.used = r.used
  <2> DEFINE b == End(r) - e
  <2>1. b \in 0 .. USER_MMAP_LIMIT /\ t = Moved(r, e, b)
    BY <1>2 DEF Tail
  <2> HIDE DEF b, t
  <2>2. /\ Moved(r, e, b) \in Area /\ Moved(r, e, b).start = e
        /\ Moved(r, e, b).len = b /\ Moved(r, e, b).prot = r.prot
        /\ Moved(r, e, b).used = r.used
    BY <1>2, <2>1, MovedFields, ZenonT(60)
  <2>3. QED
    BY <2>1, <2>2, Zenon DEF b
<1>4. Whole(End(r) - e)
  <2>1. Whole(r.start) /\ Whole(r.len)
    BY <1>1 DEF WholeArea, Whole
  <2>2. Whole(End(r))
    BY <1>1, <2>1, WholePages
  <2>3. QED
    BY <1>1, <2>2, WholePages DEF WindowRange
<1>5. End(t) = End(r)
  BY <1>1, <1>3 DEF End
<1> HIDE DEF t
<1>6. WholeArea(t)
  <2>1. Whole(t.start) /\ Whole(t.len)
    BY <1>1, <1>3, <1>4 DEF WholeArea, Whole, WindowRange
  <2>2. t.len > 0 /\ USER_MMAP_START <= t.start /\ End(t) <= USER_MMAP_LIMIT
    BY <1>1, <1>3, <1>5 DEF WindowRange, Whole
  <2>3. QED
    BY <2>1, <2>2 DEF WholeArea, Whole
<1>7. Within(t, r)
  BY <1>1, <1>3, <1>5 DEF Within
<1>8. QED
  BY <1>3, <1>5, <1>6, <1>7 DEF t

(* A round of the loop took the range out of slot i: the rest of the       *)
(* array is well-formed, what the other slots hold is what they held or    *)
(* starts behind the range, and no address outside the range lost or       *)
(* changed its area.                                                       *)
Taken(ar, bs, i, s, e) ==
  /\ WellFormed(bs)
  /\ bs[i].used => ~RangesOverlap(s, e, bs[i].start, End(bs[i]))
  /\ \A j \in AreaSlot \ {i} : bs[j] = ar[j] \/ bs[j].start = e
  /\ \A x \in Nat, j \in AreaSlot : Holds(bs[j], x) =>
       \E k \in AreaSlot : Holds(ar[k], x) /\ ar[k].prot = bs[j].prot
  /\ \A x \in Nat, j \in AreaSlot : Holds(ar[j], x) /\ (x < s \/ e <= x) =>
       \E k \in AreaSlot : Holds(bs[k], x) /\ bs[k].prot = ar[j].prot

(* The area q without the range is r, or nothing when r is not used.       *)
LeftOf(q, r, s, e) ==
  /\ r.used => /\ WholeArea(r) /\ Within(r, q) /\ r.prot = q.prot
               /\ ~RangesOverlap(s, e, r.start, End(r))
  /\ \A x \in Nat : Holds(q, x) /\ (x < s \/ e <= x) => Holds(r, x) /\ r.prot = q.prot

(* What a part of an area holds the area holds.                            *)
LEMMA WithinHolds ==
  ASSUME NEW r \in Area, NEW q \in Area, q.used, Within(r, q), NEW x \in Nat,
         Holds(r, x)
  PROVE  Holds(q, x)
<1>1. r.start \in Nat /\ End(r) \in Nat /\ q.start \in Nat /\ End(q) \in Nat
  BY AreaTyped
<1>2. r.start <= x /\ x < End(r)
  BY DEF Holds
<1>3. q.start <= x /\ x < End(q)
  BY <1>1, <1>2 DEF Within
<1>4. QED
  BY <1>3, Zenon DEF Holds

(* A round that leaves at most one piece of the area in its slot.          *)
LEMMA TakeOne ==
  ASSUME NEW ar, WellFormed(ar), NEW i \in AreaSlot, ar[i].used,
         NEW s, NEW e, NEW r \in Area, LeftOf(ar[i], r, s, e),
         NEW bs, Put(ar, bs, i, r)
  PROVE  Taken(ar, bs, i, s, e)
<1>1. ar \in [AreaSlot -> Area] /\ ar[i] \in Area
  BY DEF WellFormed
<1>2. r.used => /\ WholeArea(r) /\ Within(r, ar[i]) /\ r.prot = ar[i].prot
                /\ ~RangesOverlap(s, e, r.start, End(r))
  BY Zenon DEF LeftOf
<1>3. ASSUME r.used, NEW j \in AreaSlot \ {i}, ar[j].used
      PROVE  Apart(r, ar[j])
  <2>1. ar[j] \in Area /\ Apart(ar[i], ar[j])
    BY <1>1, <1>3 DEF WellFormed
  <2>2. Within(r, ar[i])
    BY <1>2, <1>3
  <2>3. QED
    BY <1>1, <2>1, <2>2, PartApart
<1>4. WellFormed(bs) /\ bs[i] = r /\ \A j \in AreaSlot \ {i} : bs[j] = ar[j]
  <2>1. FitsIn(ar, i, r)
    BY <1>2, <1>3 DEF FitsIn
  <2>2. QED
    BY <2>1, ReplaceArea
<1>5. \A x \in Nat : Holds(r, x) => Holds(ar[i], x) /\ ar[i].prot = r.prot
  <2>1. \A x \in Nat : Holds(r, x) => r.used
    BY Zenon DEF Holds
  <2>2. QED
    BY <1>1, <1>2, <2>1, WithinHolds
<1>6. \A x \in Nat : Holds(ar[i], x) /\ (x < s \/ e <= x) =>
                        Holds(r, x) /\ r.prot = ar[i].prot
  BY Zenon DEF LeftOf
<1>7. ASSUME NEW x \in Nat, NEW j \in AreaSlot, Holds(bs[j], x)
      PROVE  \E k \in AreaSlot : Holds(ar[k], x) /\ ar[k].prot = bs[j].prot
  BY <1>4, <1>5, <1>7
<1>8. ASSUME NEW x \in Nat, NEW j \in AreaSlot, Holds(ar[j], x), x < s \/ e <= x
      PROVE  \E k \in AreaSlot : Holds(bs[k], x) /\ bs[k].prot = ar[j].prot
  BY <1>4, <1>6, <1>8
<1>9. QED
  BY <1>2, <1>4, <1>7, <1>8 DEF Taken

(* Breaking an area in two: the piece in front stays, the piece behind     *)
(* goes to a free slot.                                                    *)
LEMMA TakeMiddle ==
  ASSUME NEW ar, WellFormed(ar), NEW i \in AreaSlot, ar[i].used,
         NEW s, NEW e, WindowRange(s, e), ar[i].start < s, e < End(ar[i]),
         NEW f \in AreaSlot, ~ar[f].used, NEW bs, Put(ar, bs, i, Head(ar[i], s)),
         NEW cs, Put(bs, cs, f, Tail(ar[i], e))
  PROVE  Taken(ar, cs, i, s, e)
<1> DEFINE q == ar[i]
           h == Head(q, s)
           t == Tail(q, e)
<1>1. /\ ar \in [AreaSlot -> Area] /\ q \in Area /\ WholeArea(q) /\ f # i
      /\ \A j \in AreaSlot \ {i} : ar[j].used => Apart(q, ar[j])
  BY DEF WellFormed
<1>2. /\ q.start \in Nat /\ End(q) \in Nat /\ s \in Nat /\ e \in Nat /\ s < e
      /\ q.start < s /\ s < End(q) /\ q.start < e /\ e < End(q)
  BY <1>1, AreaTyped DEF WindowRange, Whole
<1>3. /\ h \in Area /\ WholeArea(h) /\ Within(h, q) /\ h.used
      /\ h.prot = q.prot /\ h.start = q.start /\ End(h) = s
  BY <1>1, <1>2, HeadPiece
<1>4. /\ t \in Area /\ WholeArea(t) /\ Within(t, q) /\ t.used
      /\ t.prot = q.prot /\ t.start = e /\ End(t) = End(q)
  BY <1>1, <1>2, TailPiece
<1>5. q.used /\ Put(ar, bs, i, h) /\ Put(bs, cs, f, t)
  OBVIOUS
<1>6. q = ar[i]
  OBVIOUS
<1> HIDE DEF q, h, t
<1>7. \A j \in AreaSlot \ {i} : ar[j].used => Apart(h, ar[j]) /\ Apart(t, ar[j])
  BY <1>1, <1>3, <1>4, PartApart
<1>8. WellFormed(bs) /\ bs[i] = h /\ \A j \in AreaSlot \ {i} : bs[j] = ar[j]
  <2>1. FitsIn(ar, i, h)
    BY <1>3, <1>7 DEF FitsIn
  <2>2. QED
    BY <1>3, <1>5, <2>1, ReplaceArea
<1>9. WellFormed(cs) /\ cs[f] = t /\ \A j \in AreaSlot \ {f} : cs[j] = bs[j]
  <2>1. Apart(t, h)
    <3>1. ~(e < s)
      BY <1>2
    <3>2. QED
      BY <1>3, <1>4, <3>1, Zenon DEF Apart, RangesOverlap
  <2>2. FitsIn(bs, f, t)
    BY <1>4, <1>7, <1>8, <2>1 DEF FitsIn
  <2>3. QED
    BY <1>4, <1>5, <1>8, <2>2, ReplaceArea
<1>10. cs[i] = h /\ cs[f] = t /\ \A j \in AreaSlot \ {i, f} : cs[j] = ar[j]
  BY <1>1, <1>8, <1>9
<1>11. ~RangesOverlap(s, e, cs[i].start, End(cs[i]))
  BY <1>2, <1>3, <1>10 DEF RangesOverlap
<1>12. \A j \in AreaSlot \ {i} : cs[j] = ar[j] \/ cs[j].start = e
  BY <1>4, <1>10
<1>13. \A x \in Nat : Holds(h, x) \/ Holds(t, x) => Holds(q, x)
  BY <1>1, <1>3, <1>4, <1>5, WithinHolds
<1>14. \A x \in Nat : Holds(q, x) /\ (x < s \/ e <= x) => Holds(h, x) \/ Holds(t, x)
  <2>1. \A x \in Nat : Holds(q, x) => q.start <= x /\ x < End(q)
    BY Zenon DEF Holds
  <2>2. \A x \in Nat : q.start <= x /\ x < s => Holds(h, x)
    BY <1>3, Zenon DEF Holds
  <2>3. \A x \in Nat : e <= x /\ x < End(q) => Holds(t, x)
    BY <1>4, Zenon DEF Holds
  <2>4. QED
    BY <2>1, <2>2, <2>3, Zenon
<1>15. ASSUME NEW x \in Nat, NEW j \in AreaSlot, Holds(cs[j], x)
       PROVE  \E k \in AreaSlot : Holds(ar[k], x) /\ ar[k].prot = cs[j].prot
  <2>1. CASE j \in {i, f}
    BY <1>3, <1>4, <1>6, <1>10, <1>13, <1>15, <2>1
  <2>2. CASE j \notin {i, f}
    BY <1>10, <1>15, <2>2
  <2>3. QED
    BY <2>1, <2>2
<1>16. ASSUME NEW x \in Nat, NEW j \in AreaSlot, Holds(ar[j], x), x < s \/ e <= x
       PROVE  \E k \in AreaSlot : Holds(cs[k], x) /\ cs[k].prot = ar[j].prot
  <2>1. j # f
    BY <1>16, Zenon DEF Holds
  <2>2. CASE j = i
    BY <1>3, <1>4, <1>6, <1>10, <1>14, <1>16, <2>2
  <2>3. CASE j # i
    BY <1>10, <1>16, <2>1, <2>3
  <2>4. QED
    BY <2>2, <2>3
<1>17. QED
  BY <1>9, <1>11, <1>12, <1>15, <1>16 DEF Taken

(* One round of remove_mmap_range, when a slot is free for a split.        *)
LEMMA RemoveRound ==
  ASSUME NEW ar, WellFormed(ar), NEW i \in AreaSlot, NEW s, NEW e,
         WindowRange(s, e), NEW bs, bs = RemoveFromSlot(ar, i, s, e),
         ar[i].used /\ ar[i].start < s /\ e < End(ar[i]) => FreeAreaSlots(ar) # {}
  PROVE  Taken(ar, bs, i, s, e)
<1> DEFINE q == ar[i]
<1>1. ar \in [AreaSlot -> Area] /\ q \in Area /\ (q.used => WholeArea(q))
  BY DEF WellFormed
<1>2. /\ q.start \in Nat /\ End(q) \in Nat /\ s \in Nat /\ e \in Nat /\ s < e
      /\ q.used \in BOOLEAN
  BY <1>1, AreaTyped DEF WindowRange, Whole
<1>3. CASE ~q.used \/ ~RangesOverlap(s, e, q.start, End(q))
  <2>1. bs = ar
    BY <1>3 DEF RemoveFromSlot
  <2>2. ar[i].used => ~RangesOverlap(s, e, ar[i].start, End(ar[i]))
    BY <1>3
  <2>3. QED
    BY <2>1, <2>2, Zenon DEF Taken
<1>4. CASE q.used /\ s < End(q) /\ q.start < e /\ s <= q.start /\ e >= End(q)
  <2>1. Put(ar, bs, i, EmptyArea)
    BY <1>2, <1>4 DEF RemoveFromSlot, RangesOverlap, Put
  <2>2. EmptyArea \in Area /\ ~EmptyArea.used
    BY Layout DEF EmptyArea, Area, Whole
  <2>3. \A x \in Nat : Holds(q, x) => ~(x < s \/ e <= x)
    <3>1. \A x \in Nat : Holds(q, x) => q.start <= x /\ x < End(q)
      BY Zenon DEF Holds
    <3>2. QED
      BY <1>2, <1>4, <3>1
  <2>4. LeftOf(q, EmptyArea, s, e)
    BY <2>2, <2>3, Zenon DEF LeftOf
  <2>5. QED
    BY <1>4, <2>1, <2>2, <2>4, TakeOne
<1>5. CASE q.used /\ s < End(q) /\ q.start < e /\ s <= q.start /\ e < End(q)
  <2> DEFINE t == Tail(q, e)
  <2>1. Put(ar, bs, i, t)
    <3>1. bs = [ar EXCEPT ![i] = [ar[i] EXCEPT !.start = e, !.len = End(ar[i]) - e]]
      BY <1>2, <1>5 DEF RemoveFromSlot, RangesOverlap
    <3>2. QED
      BY <3>1, Zenon DEF Put, Tail, Moved
  <2>2. /\ t \in Area /\ WholeArea(t) /\ Within(t, q) /\ t.used
        /\ t.prot = q.prot /\ t.start = e /\ End(t) = End(q)
    BY <1>1, <1>5, TailPiece
  <2> HIDE DEF t
  <2>3. ~RangesOverlap(s, e, t.start, End(t))
    BY <1>2, <2>2 DEF RangesOverlap
  <2>4. ASSUME NEW x \in Nat, Holds(q, x), x < s \/ e <= x
        PROVE  Holds(t, x)
    <3>1. q.start <= x /\ x < End(q)
      BY <2>4, Zenon DEF Holds
    <3>2. e <= x
      BY <1>2, <1>5, <2>4, <3>1
    <3>3. QED
      BY <2>2, <3>1, <3>2, Zenon DEF Holds
  <2>5. LeftOf(q, t, s, e)
    BY <2>2, <2>3, <2>4, Zenon DEF LeftOf
  <2>6. QED
    BY <1>5, <2>1, <2>2, <2>5, TakeOne
<1>6. CASE q.used /\ s < End(q) /\ q.start < e /\ q.start < s /\ e >= End(q)
  <2> DEFINE h == Head(q, s)
  <2>1. Put(ar, bs, i, h)
    <3>1. bs = [ar EXCEPT ![i].len = s - ar[i].start]
      BY <1>2, <1>6 DEF RemoveFromSlot, RangesOverlap
    <3>2. QED
      BY <3>1, Zenon DEF Put, Head, Resized
  <2>2. /\ h \in Area /\ WholeArea(h) /\ Within(h, q) /\ h.used
        /\ h.prot = q.prot /\ h.start = q.start /\ End(h) = s
    BY <1>1, <1>6, HeadPiece
  <2> HIDE DEF h
  <2>3. ~RangesOverlap(s, e, h.start, End(h))
    BY <1>2, <2>2 DEF RangesOverlap
  <2>4. ASSUME NEW x \in Nat, Holds(q, x), x < s \/ e <= x
        PROVE  Holds(h, x)
    <3>1. q.start <= x /\ x < End(q)
      BY <2>4, Zenon DEF Holds
    <3>2. x < s
      BY <1>2, <1>6, <2>4, <3>1
    <3>3. QED
      BY <2>2, <3>1, <3>2, Zenon DEF Holds
  <2>5. LeftOf(q, h, s, e)
    BY <2>2, <2>3, <2>4, Zenon DEF LeftOf
  <2>6. QED
    BY <1>6, <2>1, <2>2, <2>5, TakeOne
<1>7. CASE q.used /\ q.start < s /\ e < End(q)
  <2> DEFINE f == Min(FreeAreaSlots(ar))
             cs == [ar EXCEPT ![i] = Head(q, s)]
  <2>1. f \in AreaSlot /\ ~ar[f].used
    <3>1. FreeAreaSlots(ar) \in SUBSET Nat
      BY DEF FreeAreaSlots, AreaSlot
    <3>2. f \in FreeAreaSlots(ar)
      BY <1>7, <3>1, MinInSet
    <3>3. QED
      BY <3>2 DEF FreeAreaSlots
  <2>2. bs = [ar EXCEPT ![i].len = s - ar[i].start,
                        ![f] = [ar[i] EXCEPT !.start = e, !.len = End(ar[i]) - e]]
    BY <1>2, <1>7 DEF RemoveFromSlot, RangesOverlap
  <2>3. Put(ar, cs, i, Head(q, s)) /\ Put(cs, bs, f, Tail(q, e))
    BY <2>2, Zenon DEF Put, Head, Tail, Resized, Moved
  <2> HIDE DEF cs, f
  <2>4. QED
    BY Zenon, <1>7, <2>1, <2>3, TakeMiddle
<1>8. QED
  BY <1>2, <1>3, <1>4, <1>5, <1>6, <1>7 DEF RangesOverlap

-----------------------------------------------------------------------------
(* munmap's loop.                                                          *)

Rounds(f, n, s, e) ==
  f = [i \in 0 .. n |-> IF i = 0 THEN areas ELSE RemoveFromSlot(f[i - 1], i, s, e)]

(* The arrays between the rounds are well defined.                         *)
LEMMA RoundsExist ==
  ASSUME NEW s, NEW e
  PROVE  \E f : Rounds(f, MAX_MMAP_AREAS, s, e)
<1> DEFINE Entry(f, i) == IF i = 0 THEN areas ELSE RemoveFromSlot(f[i - 1], i, s, e)
           S == {n \in Nat : \E f : f = [i \in 0 .. n |-> Entry(f, i)]}
<1>1. 0 \in S
  <2> DEFINE f == [i \in 0 .. 0 |-> areas]
  <2>1. f = [i \in 0 .. 0 |-> Entry(f, i)]
    OBVIOUS
  <2>2. QED
    BY Zenon, <2>1
<1>2. ASSUME NEW n \in Nat, n \in S
      PROVE  n + 1 \in S
  <2>1. PICK f : f = [i \in 0 .. n |-> Entry(f, i)]
    BY <1>2
  <2> DEFINE g == [i \in 0 .. n + 1 |-> Entry(f, i)]
  <2>2. \A i \in 0 .. n + 1 : g[i] = Entry(f, i)
    OBVIOUS
  <2>3. \A i \in 0 .. n : f[i] = Entry(f, i)
    <3> HIDE DEF Entry
    <3>1. QED
      BY <2>1, Zenon
  <2>4. \A i \in 0 .. n : g[i] = f[i]
    <3> HIDE DEF Entry, g
    <3>1. QED
      BY <2>2, <2>3
  <2> HIDE DEF g
  <2>5. \A i \in 0 .. n + 1 : Entry(g, i) = Entry(f, i)
    BY <2>4
  <2>6. g = [i \in 0 .. n + 1 |-> Entry(g, i)]
    <3> HIDE DEF Entry
    <3>1. QED
      BY <2>5 DEF g
  <2>7. QED
    BY <2>6
<1>3. MAX_MMAP_AREAS \in S
  <2>1. MAX_MMAP_AREAS \in Nat
    BY LayoutAssumption
  <2> HIDE DEF S
  <2>2. \A k \in 0 .. MAX_MMAP_AREAS - 1 : k \in S => k + 1 \in S
    BY <1>2, <2>1
  <2>3. \A k \in 0 .. MAX_MMAP_AREAS : k \in S
    BY <1>1, <2>1, <2>2, Induct
  <2>4. QED
    BY <2>1, <2>3
<1>4. QED
  BY <1>3, Zenon DEF Rounds

(* AfterSlots is the sequence of these arrays.                             *)
LEMMA LoopRounds ==
  ASSUME NEW s, NEW e
  PROVE  LET f == AfterSlots(s, e)
         IN  /\ f[0] = areas
             /\ \A i \in AreaSlot : f[i] = RemoveFromSlot(f[i - 1], i, s, e)
<1> DEFINE f == AfterSlots(s, e)
<1>1. f = CHOOSE g : Rounds(g, MAX_MMAP_AREAS, s, e)
  BY Zenon DEF AfterSlots, Rounds
<1> HIDE DEF f
<1>2. Rounds(f, MAX_MMAP_AREAS, s, e)
  BY <1>1, RoundsExist, Zenon
<1>3. \A i \in 0 .. MAX_MMAP_AREAS :
        f[i] = IF i = 0 THEN areas ELSE RemoveFromSlot(f[i - 1], i, s, e)
  BY <1>2, Zenon DEF Rounds
<1>4. f[0] = areas /\ \A i \in AreaSlot : f[i] = RemoveFromSlot(f[i - 1], i, s, e)
  BY <1>3, LayoutAssumption DEF AreaSlot
<1>5. QED
  BY <1>4 DEF f

(* An area that encloses the range is the only one in its way: the rounds  *)
(* before it change nothing.                                               *)
LEMMA RoundsBefore ==
  ASSUME WellFormed(areas), NEW s, NEW e, WindowRange(s, e), NEW i \in AreaSlot,
         areas[i].used, areas[i].start < s, e < End(areas[i]),
         NEW k \in 0 .. i - 1
  PROVE  AfterSlots(s, e)[k] = areas
<1> DEFINE f == AfterSlots(s, e)
           S == {n \in 0 .. i - 1 : f[n] = areas}
<1>1. f[0] = areas /\ \A j \in AreaSlot : f[j] = RemoveFromSlot(f[j - 1], j, s, e)
  BY LoopRounds
<1> HIDE DEF f
<1>2. i \in Nat \ {0} /\ i <= MAX_MMAP_AREAS /\ MAX_MMAP_AREAS \in Nat
  BY LayoutAssumption DEF AreaSlot
<1>3. 0 \in S
  BY <1>1, <1>2
<1>4. ASSUME NEW j \in AreaSlot, j # i
      PROVE  ~areas[j].used \/ ~RangesOverlap(s, e, areas[j].start, End(areas[j]))
  <2>1. /\ areas[i] \in Area /\ areas[j] \in Area
        /\ areas[j].used => Apart(areas[i], areas[j])
    BY <1>4 DEF WellFormed
  <2>2. /\ areas[i].start \in Nat /\ End(areas[i]) \in Nat
        /\ areas[j].start \in Nat /\ End(areas[j]) \in Nat
        /\ s \in Nat /\ e \in Nat /\ s < e
    BY <2>1, AreaTyped DEF WindowRange, Whole
  <2>3. Apart(areas[i], areas[j])
          => ~RangesOverlap(s, e, areas[j].start, End(areas[j]))
    BY <2>2 DEF Apart, RangesOverlap
  <2>4. QED
    BY <2>1, <2>3
<1>5. ASSUME NEW n \in 0 .. i - 1 - 1, n \in S
      PROVE  n + 1 \in S
  <2>1. n + 1 \in AreaSlot /\ n + 1 # i /\ n + 1 \in 0 .. i - 1 /\ n + 1 - 1 = n
    BY <1>2 DEF AreaSlot
  <2>2. f[n + 1] = RemoveFromSlot(areas, n + 1, s, e)
    BY <1>1, <1>5, <2>1
  <2>3. RemoveFromSlot(areas, n + 1, s, e) = areas
    BY <1>4, <2>1 DEF RemoveFromSlot
  <2>4. QED
    BY <2>1, <2>2, <2>3
<1>6. k \in S
  <2>1. i - 1 \in Nat
    BY <1>2
  <2> HIDE DEF S
  <2>2. QED
    BY <1>3, <1>5, <2>1, Induct
<1>7. QED
  BY <1>6 DEF f

(* The addresses outside the range keep their area, and no other gets one. *)
Kept(ar, bs, s, e) ==
  /\ \A x \in Nat, j \in AreaSlot : Holds(bs[j], x) =>
       \E k \in AreaSlot : Holds(ar[k], x) /\ ar[k].prot = bs[j].prot
  /\ \A x \in Nat, j \in AreaSlot : Holds(ar[j], x) /\ (x < s \/ e <= x) =>
       \E k \in AreaSlot : Holds(bs[k], x) /\ bs[k].prot = ar[j].prot

(* What holds of the array after n rounds.                                 *)
LoopInv(ar, n, s, e) ==
  /\ WellFormed(ar)
  /\ \A j \in AreaSlot : j <= n /\ ar[j].used
                           => ~RangesOverlap(s, e, ar[j].start, End(ar[j]))
  /\ \A j \in AreaSlot : n < j => ar[j] = areas[j] \/ ar[j].start = e
  /\ Kept(areas, ar, s, e)

(* What is used of counting slots: they are finitely many.                 *)
SlotsCountable ==
  \A A \in SUBSET AreaSlot : Cardinality(A) \in Nat /\ (Cardinality(A) = 0 <=> A = {})

(* Kept is transitive.                                                     *)
LEMMA KeptTwice ==
  ASSUME NEW ar, NEW bs, NEW cs, NEW s, NEW e, Kept(ar, bs, s, e), Kept(bs, cs, s, e)
  PROVE  Kept(ar, cs, s, e)
<1>1. ASSUME NEW x \in Nat, NEW j \in AreaSlot, Holds(cs[j], x)
      PROVE  \E k \in AreaSlot : Holds(ar[k], x) /\ ar[k].prot = cs[j].prot
  <2>1. PICK k \in AreaSlot : Holds(bs[k], x) /\ bs[k].prot = cs[j].prot
    BY <1>1 DEF Kept
  <2>2. PICK l \in AreaSlot : Holds(ar[l], x) /\ ar[l].prot = bs[k].prot
    BY <2>1 DEF Kept
  <2>3. QED
    BY <2>1, <2>2
<1>2. ASSUME NEW x \in Nat, NEW j \in AreaSlot, Holds(ar[j], x), x < s \/ e <= x
      PROVE  \E k \in AreaSlot : Holds(cs[k], x) /\ cs[k].prot = ar[j].prot
  <2>1. PICK k \in AreaSlot : Holds(bs[k], x) /\ bs[k].prot = ar[j].prot
    BY <1>2 DEF Kept
  <2>2. PICK l \in AreaSlot : Holds(cs[l], x) /\ cs[l].prot = bs[k].prot
    BY <1>2, <2>1 DEF Kept
  <2>3. QED
    BY <2>1, <2>2
<1>3. QED
  BY <1>1, <1>2 DEF Kept

(* The preflight: when an area is to be split there is a free slot, in the *)
(* array as the loop finds it.                                             *)
LEMMA SplitHasSlot ==
  ASSUME WellFormed(areas), SlotsCountable, NEW s, NEW e, WindowRange(s, e),
         CanSplitMmapRange(s, e), NEW i \in AreaSlot, NEW ar,
         ar = AfterSlots(s, e)[i - 1], LoopInv(ar, i - 1, s, e),
         ar[i].used, ar[i].start < s, e < End(ar[i])
  PROVE  FreeAreaSlots(ar) # {}
<1>1. s \in Nat /\ e \in Nat /\ s < e /\ i \in Nat /\ i - 1 < i /\ i - 1 \in 0 .. i - 1
  BY DEF WindowRange, Whole, AreaSlot
<1>2. ar[i] = areas[i]
  <2>1. ar[i] = areas[i] \/ ar[i].start = e
    BY <1>1 DEF LoopInv
  <2>2. ar[i].start # e
    BY <1>1
  <2>3. QED
    BY <2>1, <2>2
<1>3. ar = areas
  BY <1>1, <1>2, RoundsBefore
<1> DEFINE A == {j \in AreaSlot : /\ areas[j].used
                                  /\ areas[j].start < s
                                  /\ e < End(areas[j])}
           B == FreeAreaSlots(areas)
<1>4. A # {} /\ A \in SUBSET AreaSlot /\ B \in SUBSET AreaSlot
  BY <1>2 DEF FreeAreaSlots
<1>5. Cardinality(A) <= Cardinality(B)
  BY DEF CanSplitMmapRange
<1> HIDE DEF A, B
<1>6. B # {}
  BY <1>4, <1>5 DEF SlotsCountable
<1>7. QED
  BY <1>3, <1>6 DEF B

(* Every round keeps the loop's invariant, and none panics.                *)
LEMMA LoopInvariant ==
  ASSUME WellFormed(areas), SlotsCountable, NEW s, NEW e, WindowRange(s, e),
         CanSplitMmapRange(s, e)
  PROVE  \A n \in 0 .. MAX_MMAP_AREAS : LoopInv(AfterSlots(s, e)[n], n, s, e)
<1> DEFINE f == AfterSlots(s, e)
           S == {n \in 0 .. MAX_MMAP_AREAS : LoopInv(f[n], n, s, e)}
<1>1. f[0] = areas /\ \A j \in AreaSlot : f[j] = RemoveFromSlot(f[j - 1], j, s, e)
  BY LoopRounds
<1>2. MAX_MMAP_AREAS \in Nat
  BY LayoutAssumption
<1>3. f = AfterSlots(s, e)
  OBVIOUS
<1> HIDE DEF f
<1>4. 0 \in S
  <2>1. Kept(areas, areas, s, e)
    BY DEF Kept
  <2>2. \A j \in AreaSlot : ~(j <= 0)
    BY DEF AreaSlot
  <2>3. LoopInv(areas, 0, s, e)
    BY <2>1, <2>2 DEF LoopInv
  <2>4. QED
    BY <1>1, <1>2, <2>3
<1>5. ASSUME NEW n \in 0 .. MAX_MMAP_AREAS - 1, n \in S
      PROVE  n + 1 \in S
  <2> DEFINE i == n + 1
             ar == f[n]
             bs == f[i]
  <2>1. i \in AreaSlot /\ i - 1 = n /\ i \in 0 .. MAX_MMAP_AREAS /\ n \in Nat
    BY <1>2 DEF AreaSlot
  <2>2. LoopInv(ar, n, s, e) /\ bs = RemoveFromSlot(ar, i, s, e) /\ ar = f[i - 1]
    BY <1>1, <1>5, <2>1
  <2> HIDE DEF i, ar, bs
  <2>3. WellFormed(ar)
    BY <2>2 DEF LoopInv
  <2>4. ar[i].used /\ ar[i].start < s /\ e < End(ar[i]) => FreeAreaSlots(ar) # {}
    BY <1>3, <2>1, <2>2, SplitHasSlot
  <2>5. Taken(ar, bs, i, s, e)
    BY <2>1, <2>2, <2>3, <2>4, RemoveRound
  <2>6. Kept(areas, bs, s, e)
    <3>1. Kept(ar, bs, s, e)
      BY <2>5, Zenon DEF Taken, Kept
    <3>2. Kept(areas, ar, s, e)
      BY <2>2 DEF LoopInv
    <3>3. QED
      BY <3>1, <3>2, KeptTwice
  <2>7. WellFormed(bs) /\ \A j \in AreaSlot \ {i} : bs[j] = ar[j] \/ bs[j].start = e
    BY <2>5 DEF Taken
  <2>8. ASSUME NEW j \in AreaSlot, j <= i, bs[j].used
        PROVE  ~RangesOverlap(s, e, bs[j].start, End(bs[j]))
    <3>1. CASE j = i
      BY <2>5, <2>8, <3>1 DEF Taken
    <3>2. CASE j # i /\ bs[j] = ar[j]
      <4>1. j <= n
        BY <2>1, <2>8, <3>2 DEF AreaSlot
      <4>2. QED
        BY <2>2, <2>8, <3>2, <4>1 DEF LoopInv
    <3>3. CASE bs[j].start = e
      BY <3>3 DEF RangesOverlap, WindowRange, Whole
    <3>4. QED
      BY <2>7, <3>1, <3>2, <3>3
  <2>9. ASSUME NEW j \in AreaSlot, i < j
        PROVE  bs[j] = areas[j] \/ bs[j].start = e
    <3>1. n < j /\ j # i
      BY <2>1, <2>9 DEF AreaSlot
    <3>2. QED
      BY <2>2, <2>7, <3>1 DEF LoopInv
  <2>10. LoopInv(bs, i, s, e)
    BY <2>6, <2>7, <2>8, <2>9 DEF LoopInv
  <2>11. QED
    BY <2>1, <2>10 DEF i, bs
<1>6. \A n \in 0 .. MAX_MMAP_AREAS : n \in S
  <2> HIDE DEF S
  <2>1. QED
    BY <1>2, <1>4, <1>5, Induct
<1>7. QED
  BY <1>6 DEF f

(* expect("munmap split preflight failed") does not fail.                  *)
LEMMA NoSplitPanic ==
  ASSUME WellFormed(areas), SlotsCountable, NEW s, NEW e, WindowRange(s, e),
         CanSplitMmapRange(s, e)
  PROVE  ~SplitPanics(s, e)
<1>1. SUFFICES ASSUME SplitPanics(s, e) PROVE FALSE
  OBVIOUS
<1> DEFINE f == AfterSlots(s, e)
<1>2. PICK i \in AreaSlot : /\ f[i - 1][i].used /\ f[i - 1][i].start < s
                            /\ e < End(f[i - 1][i]) /\ FreeAreaSlots(f[i - 1]) = {}
  BY <1>1, Zenon DEF SplitPanics
<1>3. i - 1 \in 0 .. MAX_MMAP_AREAS
  BY LayoutAssumption DEF AreaSlot
<1>4. LoopInv(f[i - 1], i - 1, s, e)
  BY <1>3, LoopInvariant
<1>5. QED
  BY <1>2, <1>4, SplitHasSlot

(* The array that munmap leaves: well-formed, nothing in the range, the    *)
(* rest as it was.                                                         *)
LEMMA LoopResult ==
  ASSUME WellFormed(areas), SlotsCountable, NEW s, NEW e, WindowRange(s, e),
         CanSplitMmapRange(s, e)
  PROVE  LET ar == AfterSlots(s, e)[MAX_MMAP_AREAS]
         IN  /\ WellFormed(ar)
             /\ \A j \in AreaSlot : ar[j].used =>
                  ~RangesOverlap(s, e, ar[j].start, End(ar[j]))
             /\ Kept(areas, ar, s, e)
<1> DEFINE ar == AfterSlots(s, e)[MAX_MMAP_AREAS]
<1>1. MAX_MMAP_AREAS \in Nat
  BY LayoutAssumption
<1>2. LoopInv(ar, MAX_MMAP_AREAS, s, e)
  BY <1>1, LoopInvariant
<1> HIDE DEF ar
<1>3. \A j \in AreaSlot : j <= MAX_MMAP_AREAS
  BY <1>1 DEF AreaSlot
<1>4. QED
  BY <1>2, <1>3 DEF LoopInv, ar

-----------------------------------------------------------------------------
(* find_mmap_gap.                                                          *)

InTheWay(c, len) ==
  {i \in AreaSlot : /\ areas[i].used
                    /\ RangesOverlap(c, c + len, areas[i].start, End(areas[i]))}
NextCandidate(c, len) == AlignUp(End(areas[Min(InTheWay(c, len))]))
GapEntry(g, c, len) ==
  IF c + len > USER_MMAP_LIMIT THEN NoAddr
  ELSE IF InTheWay(c, len) = {} THEN c
  ELSE g[NextCandidate(c, len)]
Gaps(g, len) == g = [c \in 0 .. USER_MMAP_LIMIT |-> GapEntry(g, c, len)]

(* The next candidate is the end of an area in the way, and so a later     *)
(* one: the search ends.                                                   *)
LEMMA CandidatesRise ==
  ASSUME WellFormed(areas), NEW len \in Nat, NEW c \in 0 .. USER_MMAP_LIMIT,
         InTheWay(c, len) # {}
  PROVE  /\ \E i \in InTheWay(c, len) : NextCandidate(c, len) = End(areas[i])
         /\ Whole(NextCandidate(c, len))
         /\ c < NextCandidate(c, len) /\ NextCandidate(c, len) <= USER_MMAP_LIMIT
<1> DEFINE i == Min(InTheWay(c, len))
           r == areas[i]
<1>1. InTheWay(c, len) \in SUBSET Nat
  BY DEF InTheWay, AreaSlot
<1>2. i \in InTheWay(c, len)
  BY <1>1, MinInSet
<1>3. NextCandidate(c, len) = AlignUp(End(r))
  BY DEF NextCandidate
<1> HIDE DEF i
<1>4. i \in AreaSlot /\ r.used /\ RangesOverlap(c, c + len, r.start, End(r))
  BY <1>2 DEF InTheWay
<1>5. r \in Area /\ WholeArea(r)
  BY <1>4 DEF WellFormed
<1> HIDE DEF r
<1>6. r.start \in Nat /\ r.len \in Nat /\ End(r) = r.start + r.len /\ End(r) \in Nat
  BY <1>5, AreaTyped
<1>7. Whole(End(r)) /\ End(r) <= USER_MMAP_LIMIT
  <2>1. Whole(r.start) /\ Whole(r.len)
    BY <1>5, <1>6 DEF WholeArea, Whole
  <2>2. QED
    BY <1>5, <1>6, <2>1, WholePages DEF WholeArea
<1>8. AlignUp(End(r)) = End(r)
  BY <1>6, <1>7, AlignUpBelow, Layout
<1>9. c < End(r)
  BY <1>4 DEF RangesOverlap
<1>10. QED
  BY <1>2, <1>3, <1>7, <1>8, <1>9 DEF r

(* The search is well defined.                                             *)
LEMMA GapsExist ==
  ASSUME WellFormed(areas), NEW len \in Nat
  PROVE  \E g : Gaps(g, len)
<1> DEFINE L == USER_MMAP_LIMIT
           S == {n \in 0 .. L : \E g : g = [c \in L - n .. L |-> GapEntry(g, c, len)]}
<1>1. L \in Nat
  BY Layout DEF Whole
<1>2. \A c \in 0 .. L : InTheWay(c, len) # {} => NextCandidate(c, len) \in c + 1 .. L
  <2>1. ASSUME NEW c \in 0 .. L, InTheWay(c, len) # {}
        PROVE  NextCandidate(c, len) \in c + 1 .. L
    <3>1. /\ NextCandidate(c, len) \in Nat
          /\ c < NextCandidate(c, len) /\ NextCandidate(c, len) <= L
      BY <2>1, CandidatesRise DEF Whole
    <3>2. QED
      BY <1>1, <3>1
  <2>2. QED
    BY <2>1
<1> HIDE DEF L
<1>3. ASSUME NEW n \in 0 .. L, NEW f, NEW g,
             \A c \in L - n .. L : g[c] = f[c],
             NEW c \in L - n - 1 .. L, c \in 0 .. L
      PROVE  GapEntry(g, c, len) = GapEntry(f, c, len)
  <2>1. InTheWay(c, len) # {} => NextCandidate(c, len) \in L - n .. L
    BY <1>1, <1>2, <1>3
  <2>2. QED
    BY <1>3, <2>1 DEF GapEntry
<1>4. 0 \in S
  <2> DEFINE g == [c \in L - 0 .. L |-> GapEntry([x \in {} |-> 0], c, len)]
             f == [x \in {} |-> 0]
  <2>1. \A c \in L - 0 .. L : GapEntry(g, c, len) = GapEntry(f, c, len)
    <3>1. ASSUME NEW c \in L - 0 .. L
          PROVE  GapEntry(g, c, len) = GapEntry(f, c, len)
      <4>1. c = L
        BY <1>1
      <4>2. InTheWay(c, len) = {}
        BY <1>1, <1>2, <4>1
      <4> HIDE DEF g, f
      <4>3. QED
        BY <4>2 DEF GapEntry
    <3>2. QED
      BY <3>1
  <2>2. g = [c \in L - 0 .. L |-> GapEntry(f, c, len)]
    OBVIOUS
  <2> HIDE DEF f, g
  <2>3. g = [c \in L - 0 .. L |-> GapEntry(g, c, len)]
    BY <2>1, <2>2
  <2>4. QED
    BY <1>1, <2>3
<1>5. ASSUME NEW n \in 0 .. L - 1, n \in S
      PROVE  n + 1 \in S
  <2>1. PICK f : f = [c \in L - n .. L |-> GapEntry(f, c, len)]
    BY <1>5
  <2> DEFINE g == [c \in L - (n + 1) .. L |-> GapEntry(f, c, len)]
  <2>2. \A c \in L - n .. L : f[c] = GapEntry(f, c, len)
    BY <2>1, Zenon
  <2>3. \A c \in L - (n + 1) .. L : g[c] = GapEntry(f, c, len)
    BY Zenon
  <2>4. g = [c \in L - (n + 1) .. L |-> GapEntry(f, c, len)]
    OBVIOUS
  <2> HIDE DEF g
  <2>5. \A c \in L - n .. L : g[c] = f[c]
    BY <1>1, <2>2, <2>3
  <2>6. \A c \in L - (n + 1) .. L : GapEntry(g, c, len) = GapEntry(f, c, len)
    <3>1. \A c \in L - (n + 1) .. L : c \in L - n - 1 .. L /\ c \in 0 .. L
      BY <1>1
    <3>2. n \in 0 .. L
      BY <1>1
    <3>3. QED
      BY <1>3, <2>5, <3>1, <3>2
  <2>7. g = [c \in L - (n + 1) .. L |-> GapEntry(g, c, len)]
    BY <2>4, <2>6
  <2>8. QED
    BY <1>1, <2>7
<1>6. L \in S
  <2> HIDE DEF S
  <2>1. \A k \in 0 .. L : k \in S
    BY <1>1, <1>4, <1>5, Induct
  <2>2. QED
    BY <1>1, <2>1
<1>7. PICK g : g = [c \in L - L .. L |-> GapEntry(g, c, len)]
  BY <1>6
<1>8. L - L = 0
  BY <1>1
<1>9. QED
  BY <1>7, <1>8, Zenon DEF Gaps, L

(* What the search from c on may return.                                   *)
GapOk(c, v, len) ==
  \/ /\ v = NoAddr
     /\ \A a \in Nat : c <= a /\ a + len <= USER_MMAP_LIMIT => InTheWay(a, len) # {}
  \/ /\ v \in Nat /\ c <= v /\ v + len <= USER_MMAP_LIMIT
     /\ InTheWay(v, len) = {}
     /\ Whole(c) => Whole(v)
     /\ \A a \in Nat : c <= a /\ a < v => InTheWay(a, len) # {}

(* Jumping past the first area in the way skips no fit.                    *)
LEMMA GapStep ==
  ASSUME WellFormed(areas), NEW len \in Nat, NEW c \in 0 .. USER_MMAP_LIMIT,
         NEW v, NEW g, v = GapEntry(g, c, len),
         \A d \in c + 1 .. USER_MMAP_LIMIT : GapOk(d, g[d], len)
  PROVE  GapOk(c, v, len)
<1> DEFINE n == NextCandidate(c, len)
<1>1. USER_MMAP_LIMIT \in Nat /\ c \in Nat
  BY Layout DEF Whole
<1>2. CASE c + len > USER_MMAP_LIMIT
  BY <1>1, <1>2 DEF GapEntry, GapOk
<1>3. CASE ~(c + len > USER_MMAP_LIMIT) /\ InTheWay(c, len) = {}
  BY <1>1, <1>3 DEF GapEntry, GapOk
<1>4. CASE ~(c + len > USER_MMAP_LIMIT) /\ InTheWay(c, len) # {}
  <2>1. PICK i \in InTheWay(c, len) : n = End(areas[i])
    BY <1>4, CandidatesRise
  <2>2. Whole(n) /\ c < n /\ n <= USER_MMAP_LIMIT
    BY <1>4, CandidatesRise
  <2>3. v = g[n]
    BY <1>4 DEF GapEntry
  <2> HIDE DEF n
  <2>4. n \in c + 1 .. USER_MMAP_LIMIT /\ n \in Nat
    BY <1>1, <2>2 DEF Whole
  <2>5. GapOk(n, v, len)
    BY <2>3, <2>4
  <2>6. \A a \in Nat : c <= a /\ a < n => InTheWay(a, len) # {}
    <3>1. /\ i \in AreaSlot /\ areas[i].used /\ areas[i] \in Area
          /\ areas[i].start < c + len
      BY <2>1 DEF InTheWay, RangesOverlap, WellFormed
    <3>2. areas[i].start \in Nat
      BY <3>1, AreaTyped
    <3>3. ASSUME NEW a \in Nat, c <= a, a < n
          PROVE  InTheWay(a, len) # {}
      <4>1. RangesOverlap(a, a + len, areas[i].start, End(areas[i]))
        BY <1>1, <2>1, <3>1, <3>2, <3>3 DEF RangesOverlap
      <4>2. QED
        BY <3>1, <4>1 DEF InTheWay
    <3>4. QED
      BY <3>3
  <2>7. CASE /\ v = NoAddr
             /\ \A a \in Nat : n <= a /\ a + len <= USER_MMAP_LIMIT
                                 => InTheWay(a, len) # {}
    <3>1. \A a \in Nat : c <= a /\ a + len <= USER_MMAP_LIMIT => InTheWay(a, len) # {}
      BY <2>4, <2>6, <2>7
    <3>2. QED
      BY <2>7, <3>1 DEF GapOk
  <2>8. CASE /\ v \in Nat /\ n <= v /\ v + len <= USER_MMAP_LIMIT
             /\ InTheWay(v, len) = {}
             /\ Whole(n) => Whole(v)
             /\ \A a \in Nat : n <= a /\ a < v => InTheWay(a, len) # {}
    <3>1. \A a \in Nat : c <= a /\ a < v => InTheWay(a, len) # {}
      BY <2>4, <2>6, <2>8
    <3>2. c <= v
      BY <1>1, <2>2, <2>4, <2>8
    <3>3. QED
      BY <2>2, <2>8, <3>1, <3>2 DEF GapOk
  <2>9. QED
    BY <2>5, <2>7, <2>8 DEF GapOk
<1>5. QED
  BY <1>2, <1>3, <1>4

(* The search is a first fit.                                              *)
LEMMA GapFound ==
  ASSUME WellFormed(areas), NEW len \in Nat
  PROVE  GapOk(USER_MMAP_START, FindMmapGap(len), len)
<1> DEFINE L == USER_MMAP_LIMIT
           g == CHOOSE h : Gaps(h, len)
<1>1. FindMmapGap(len) = g[USER_MMAP_START]
  BY Zenon DEF FindMmapGap, Gaps, GapEntry, InTheWay, NextCandidate
<1>2. Gaps(g, len)
  BY GapsExist
<1> HIDE DEF g
<1>3. L \in Nat /\ USER_MMAP_START \in 0 .. L
  BY Layout DEF Whole
<1>4. \A c \in 0 .. L : g[c] = GapEntry(g, c, len)
  BY <1>2, Zenon DEF Gaps
<1> HIDE DEF L
<1> DEFINE Bad == {k \in 0 .. L : ~GapOk(L - k, g[L - k], len)}
<1>5. Bad = {}
  <2>1. SUFFICES ASSUME Bad # {} PROVE FALSE
    OBVIOUS
  <2>2. Bad \in SUBSET Nat
    BY <1>3
  <2>3. PICK k \in Bad : \A m \in Bad : k <= m
    BY Zenon, <2>1, <2>2, LeastExists
  <2>4. k \in 0 .. L /\ L - k \in 0 .. L
    BY <1>3, <2>3
  <2>5. ASSUME NEW d \in L - k + 1 .. L
        PROVE  GapOk(d, g[d], len)
    <3>1. L - d \in 0 .. L /\ L - d < k /\ L - (L - d) = d
      BY <1>3, <2>4, <2>5
    <3>2. L - d \notin Bad
      BY <2>3, <2>4, <3>1
    <3>3. QED
      BY <3>1, <3>2
  <2>6. GapOk(L - k, g[L - k], len)
    BY <1>4, <2>4, <2>5, GapStep DEF L
  <2>7. QED
    BY <2>3, <2>6
<1>6. L - USER_MMAP_START \in 0 .. L /\ L - (L - USER_MMAP_START) = USER_MMAP_START
  BY <1>3
<1>7. GapOk(USER_MMAP_START, g[USER_MMAP_START], len)
  BY <1>5, <1>6
<1>8. QED
  BY <1>1, <1>7

(* A range is free of areas when no page of it is in one.                  *)
LEMMA FreeRange ==
  ASSUME WellFormed(areas), NEW a \in Page, NEW len, Whole(len), 0 < len,
         USER_MMAP_START <= a, a + len <= USER_MMAP_LIMIT
  PROVE  InTheWay(a, len) = {} <=> Pages(a, a + len) \cap AreaPages = {}
<1>1. /\ a \in Nat /\ Whole(a) /\ len \in Nat /\ USER_MMAP_LIMIT \in Nat
      /\ USER_HEAP_START \in Nat /\ USER_HEAP_START <= a
  BY PagesAreWhole, Layout DEF Whole
<1>2. ASSUME NEW i \in InTheWay(a, len)
      PROVE  Pages(a, a + len) \cap AreaPages # {}
  <2> DEFINE r == areas[i]
             p == IF a <= r.start THEN r.start ELSE a
  <2>1. /\ i \in AreaSlot /\ r.used /\ r \in Area /\ WholeArea(r)
        /\ a < End(r) /\ r.start < a + len
    BY DEF InTheWay, RangesOverlap, WellFormed
  <2> HIDE DEF r
  <2>2. /\ r.start \in Nat /\ End(r) \in Nat /\ r.len \in Nat
        /\ End(r) = r.start + r.len /\ r.len > 0
        /\ r.start % PAGE_SIZE = 0 /\ End(r) <= USER_MMAP_LIMIT
    BY <2>1, AreaTyped DEF WholeArea
  <2>3. /\ p \in Nat /\ p % PAGE_SIZE = 0 /\ a <= p /\ p < a + len
        /\ r.start <= p /\ p < End(r)
    BY <1>1, <2>1, <2>2 DEF Whole
  <2>4. p \in Page
    BY <1>1, <2>2, <2>3 DEF Page
  <2> HIDE DEF p
  <2>5. p \in Pages(a, a + len) /\ p \in Pages(r.start, End(r))
    BY <2>3, <2>4 DEF Pages
  <2>6. p \in AreaPages
    BY <2>1, <2>5 DEF AreaPages, r
  <2>7. QED
    BY <2>5, <2>6
<1>3. ASSUME NEW p \in Pages(a, a + len) \cap AreaPages
      PROVE  InTheWay(a, len) # {}
  <2>1. PICK i \in AreaSlot : areas[i].used /\ p \in Pages(areas[i].start, End(areas[i]))
    BY <1>3 DEF AreaPages
  <2>2. areas[i] \in Area
    BY DEF WellFormed
  <2>3. areas[i].start \in Nat /\ End(areas[i]) \in Nat
    BY <2>2, AreaTyped
  <2>4. /\ p \in Page /\ a <= p /\ p < a + len
        /\ areas[i].start <= p /\ p < End(areas[i])
    BY <1>3, <2>1 DEF Pages
  <2>5. p \in Nat
    BY <2>4, PagesAreWhole
  <2>6. RangesOverlap(a, a + len, areas[i].start, End(areas[i]))
    BY <1>1, <2>3, <2>4, <2>5 DEF RangesOverlap
  <2>7. QED
    BY <2>1, <2>6 DEF InTheWay
<1>4. QED
  BY <1>2, <1>3

(* The lengths that mmap and munmap go on with.                            *)
LEMMA CheckedLength ==
  ASSUME NEW n \in LenArg, CheckedAlignUp(n) \notin {NoAddr, 0}
  PROVE  Whole(CheckedAlignUp(n)) /\ CheckedAlignUp(n) \in Nat /\ 0 < CheckedAlignUp(n)
<1>1. n \in Nat
  BY ArgAssumption, Layout DEF Whole
<1>2. Whole(AlignUp(n))
  BY <1>1, AlignWhole
<1>3. CheckedAlignUp(n) = AlignUp(n) /\ AlignUp(n) # 0
  BY DEF CheckedAlignUp
<1>4. QED
  BY <1>2, <1>3 DEF Whole

(* find_mmap_gap returns what the reference definition says.               *)
LEMMA GapIsFit ==
  ASSUME WellFormed(areas)
  PROVE  GapIsFirstFit
<1>1. SUFFICES ASSUME NEW n \in LenArg, CheckedAlignUp(n) \notin {NoAddr, 0}
               PROVE  FindMmapGap(CheckedAlignUp(n)) = FirstFit(CheckedAlignUp(n))
  BY DEF GapIsFirstFit
<1> DEFINE len == CheckedAlignUp(n)
           v == FindMmapGap(len)
           fits == {a \in Page : /\ USER_MMAP_START <= a
                                 /\ a + len <= USER_MMAP_LIMIT
                                 /\ Pages(a, a + len) \cap AreaPages = {}}
<1>2. Whole(len) /\ len \in Nat /\ 0 < len
  BY <1>1, CheckedLength
<1>3. FirstFit(len) = IF fits = {} THEN NoAddr ELSE Min(fits)
  BY DEF FirstFit
<1>4. GapOk(USER_MMAP_START, v, len)
  BY <1>2, GapFound
<1> HIDE DEF v, len
<1>5. /\ \A a \in fits : /\ a \in Nat /\ USER_MMAP_START <= a
                         /\ a + len <= USER_MMAP_LIMIT /\ InTheWay(a, len) = {}
      /\ fits \in SUBSET Nat
  <2>1. \A a \in fits : a \in Page
    OBVIOUS
  <2>2. \A a \in fits : a \in Nat
    BY <2>1, PagesAreWhole
  <2>3. QED
    BY <1>2, <2>2, FreeRange
<1>6. CASE v = NoAddr
  <2>1. fits = {}
    BY <1>4, <1>5, <1>6 DEF GapOk, NoAddr
  <2>2. QED
    BY <1>3, <1>6, <2>1 DEF v, len
<1>7. CASE v # NoAddr
  <2>1. /\ v \in Nat /\ USER_MMAP_START <= v /\ v + len <= USER_MMAP_LIMIT
        /\ InTheWay(v, len) = {} /\ Whole(v)
        /\ \A a \in Nat : USER_MMAP_START <= a /\ a < v => InTheWay(a, len) # {}
    BY <1>4, <1>7, Layout DEF GapOk
  <2>2. v \in Page
    BY <1>2, <2>1, Layout DEF Page, Whole
  <2>3. v \in fits
    BY <1>2, <2>1, <2>2, FreeRange
  <2>4. \A a \in fits : v <= a
    BY <1>5, <2>1
  <2> HIDE DEF fits
  <2> DEFINE m == Min(fits)
  <2>5. m \in fits /\ m <= v
    BY <1>5, <2>3, MinInSet
  <2> HIDE DEF m
  <2>6. m = v
    <3>1. m \in Nat /\ v <= m
      BY <1>5, <2>4, <2>5, Zenon
    <3>2. QED
      BY <2>1, <2>5, <3>1
  <2>7. QED
    BY <1>3, <2>3, <2>6 DEF v, len, m
<1>8. QED
  BY <1>6, <1>7

(* choose_mmap_addr picks whole pages of the window that no area uses.     *)
LEMMA ChosenRange ==
  ASSUME WellFormed(areas), NEW hint \in AddrArg, NEW len, Whole(len), 0 < len,
         ChooseMmapAddr(hint, len) # NoAddr
  PROVE  LET s == ChooseMmapAddr(hint, len)
         IN  WindowRange(s, s + len) /\ MmapRangeAvailable(s, s + len)
<1> DEFINE s == ChooseMmapAddr(hint, len)
           h == AlignUp(hint)
<1>1. /\ hint \in Nat /\ len \in Nat /\ USER_MMAP_START \in Nat
      /\ USER_MMAP_LIMIT \in Nat /\ Whole(USER_MMAP_START)
  BY ArgAssumption, Layout DEF Whole
<1>2. Whole(h) /\ h \in Nat
  BY <1>1, AlignWhole DEF Whole
<1>3. ASSUME NEW a \in Nat, Whole(a), USER_MMAP_START <= a, a + len <= USER_MMAP_LIMIT
      PROVE  WindowRange(a, a + len)
  BY <1>1, <1>3, WholePages DEF WindowRange
<1>4. CASE s = h /\ USER_MMAP_START <= h /\ h + len <= USER_MMAP_LIMIT
             /\ MmapRangeAvailable(h, h + len)
  <2> HIDE DEF h, s
  <2>1. QED
    BY <1>2, <1>3, <1>4 DEF s
<1>5. CASE s = FindMmapGap(len)
  <2>1. GapOk(USER_MMAP_START, s, len) /\ s # NoAddr
    BY <1>1, <1>5, GapFound
  <2> HIDE DEF s
  <2>2. /\ s \in Nat /\ USER_MMAP_START <= s /\ s + len <= USER_MMAP_LIMIT
        /\ InTheWay(s, len) = {} /\ Whole(s)
    BY <1>1, <2>1 DEF GapOk
  <2>3. MmapRangeAvailable(s, s + len)
    BY <2>2 DEF MmapRangeAvailable, InTheWay
  <2>4. QED
    BY <1>3, <2>2, <2>3 DEF s
<1>6. \/ s = h /\ USER_MMAP_START <= h /\ h + len <= USER_MMAP_LIMIT
           /\ MmapRangeAvailable(h, h + len)
      \/ s = FindMmapGap(len)
  <2>1. s # NoAddr
    OBVIOUS
  <2>2. ~(h < USER_MMAP_START) => USER_MMAP_START <= h
    BY <1>1, <1>2
  <2>3. QED
    BY <2>1, <2>2, Zenon DEF ChooseMmapAddr
<1>7. QED
  BY <1>4, <1>5, <1>6

(* munmap's range.                                                         *)
LEMMA MunmapRange ==
  ASSUME NEW addr \in AddrArg, NEW len \in LenArg, MunmapArgsOk(addr, len)
  PROVE  WindowRange(addr, addr + CheckedAlignUp(len))
<1>1. addr \in Nat /\ Whole(addr)
  BY ArgAssumption, Layout DEF Whole, MunmapArgsOk
<1>2. Whole(CheckedAlignUp(len)) /\ CheckedAlignUp(len) \in Nat /\ 0 < CheckedAlignUp(len)
  BY CheckedLength DEF MunmapArgsOk
<1>3. Whole(addr + CheckedAlignUp(len))
  BY <1>1, <1>2, WholePages
<1>4. USER_MMAP_START \in Nat
  BY Layout DEF Whole
<1>5. USER_MMAP_START <= addr /\ addr + CheckedAlignUp(len) <= USER_MMAP_LIMIT
  BY <1>1, <1>4 DEF MunmapArgsOk
<1> DEFINE l == CheckedAlignUp(len)
<1> HIDE DEF l
<1>6. addr < addr + l
  BY <1>1, <1>2 DEF l
<1>7. QED
  BY <1>1, <1>3, <1>5, <1>6 DEF WindowRange, l

-----------------------------------------------------------------------------
(* The inductive invariant.  The page table and the records agree, page by *)
(* page.                                                                   *)
AreasMatch(pm, ar) ==
  \A a \in Page, i \in AreaSlot :
    Holds(ar[i], a) => pm[a] = PteFlagsFromProt(ar[i].prot)
HeapMatch(pm, he) == \A a \in Page : a < AlignUp(he) => pm[a] = HeapFlags
NoStray(pm, he, ar) ==
  \A a \in Page : pm[a].v /\ pm[a].u =>
    a < AlignUp(he) \/ \E i \in AreaSlot : Holds(ar[i], a)
ConsoleMatch(pm) == UartPage \in Page => pm[UartPage] = Flags(TRUE, TRUE, FALSE, FALSE)

IInv ==
  /\ TypeOK
  /\ WellFormed(areas)
  /\ CleanLeaves
  /\ AreasMatch(perm, areas)
  /\ HeapMatch(perm, heap_end)
  /\ ~execed => NoStray(perm, heap_end, areas)
  /\ ConsoleMatch(perm)
  /\ SplitNeverPanics

(* A leaf in use stays as it is or becomes invalid.                        *)
KeptOrCleared(pm, pn) == \A a \in Page : pm[a].v => pn[a] \in {pm[a], Invalid}

(* The flags the kernel maps with, and what Invalid is.                    *)
LEMMA FlagFacts ==
  /\ Invalid \in PTE /\ ~Invalid.v /\ ~Invalid.u
  /\ HeapFlags \in PTE /\ HeapFlags.v /\ HeapFlags.u
  /\ \A q : PteFlagsFromProt(q) \in PTE /\ PteFlagsFromProt(q).v /\ PteFlagsFromProt(q).u
  /\ Flags(TRUE, TRUE, FALSE, FALSE) \in PTE
  /\ Flags(TRUE, TRUE, FALSE, FALSE).v /\ ~Flags(TRUE, TRUE, FALSE, FALSE).u
<1>1. /\ Invalid \in PTE /\ ~Invalid.v /\ ~Invalid.u
  BY DEF Invalid, PTE
<1>2. \A r, w, x, u \in BOOLEAN :
        /\ Flags(r, w, x, u) \in PTE /\ Flags(r, w, x, u).v
        /\ Flags(r, w, x, u).u = u
  BY DEF Flags, PTE
<1>3. \A q : PteFlagsFromProt(q) \in PTE /\ PteFlagsFromProt(q).v /\ PteFlagsFromProt(q).u
  BY DEF PteFlagsFromProt, Flags, PTE
<1>4. QED
  BY <1>1, <1>2, <1>3, Zenon DEF HeapFlags

(* What unmap_user_pages does to the page table.                           *)
UnmapsRange(pn, s, e) ==
  /\ pn \in [Page -> PTE]
  /\ \A a \in Page : pn[a] = IF s <= a /\ a < e /\ perm[a].v /\ perm[a].u
                             THEN Invalid ELSE perm[a]
  /\ \A a \in Page : pn[a].v \/ pn[a] = Invalid
  /\ KeptOrCleared(perm, pn)

(* unmap_user_pages clears the user pages of the range and nothing else.   *)
LEMMA UnmapResult ==
  ASSUME perm \in [Page -> PTE], CleanLeaves, ConsoleMatch(perm), NEW s, NEW e
  PROVE  /\ UnmapsRange(UnmapUserPages(perm, s, e), s, e)
         /\ ConsoleMatch(UnmapUserPages(perm, s, e))
<1> DEFINE pn == UnmapUserPages(perm, s, e)
<1>1. pn \in [Page -> PTE]
  BY FlagFacts DEF UnmapUserPages
<1>2. \A a \in Page : pn[a] = IF s <= a /\ a < e /\ perm[a].v /\ perm[a].u
                              THEN Invalid ELSE perm[a]
  BY DEF UnmapUserPages, Pages
<1> HIDE DEF pn
<1>3. \A a \in Page : pn[a].v \/ pn[a] = Invalid
  BY <1>2 DEF CleanLeaves
<1>4. KeptOrCleared(perm, pn)
  BY <1>2 DEF KeptOrCleared
<1>5. ConsoleMatch(pn)
  BY Zenon, <1>2, FlagFacts DEF ConsoleMatch
<1>6. QED
  BY <1>1, <1>2, <1>3, <1>4, <1>5, Zenon DEF pn, UnmapsRange

(* What map_zeroed_user_pages does to the page table.                      *)
MapsRange(pn, s, e, flags) ==
  /\ pn \in [Page -> PTE]
  /\ \A a \in Page : s <= a /\ a < e => ~perm[a].v
  /\ \A a \in Page : pn[a] = IF s <= a /\ a < e THEN flags ELSE perm[a]

(* A range that was free is mapped: the console's page and the leaves in   *)
(* use stay.                                                               *)
LEMMA MapKeeps ==
  ASSUME CleanLeaves, ConsoleMatch(perm), NEW pn, NEW s, NEW e, NEW flags,
         flags.v, MapsRange(pn, s, e, flags)
  PROVE  /\ \A a \in Page : pn[a].v \/ pn[a] = Invalid
         /\ KeptOrCleared(perm, pn)
         /\ ConsoleMatch(pn)
<1>1. \A a \in Page : pn[a].v \/ pn[a] = Invalid
  BY DEF CleanLeaves, MapsRange
<1>2. KeptOrCleared(perm, pn)
  BY DEF KeptOrCleared, MapsRange
<1>3. ConsoleMatch(pn)
  BY Zenon, FlagFacts DEF ConsoleMatch, MapsRange
<1>4. QED
  BY <1>1, <1>2, <1>3

(* The heap lies below the areas.                                          *)
LEMMA HeapBelowAreas ==
  ASSUME WellFormed(areas), NEW b, b \in USER_HEAP_START .. USER_HEAP_LIMIT
  PROVE  /\ b \in Nat /\ ~AlignUpOverflows(b) /\ Whole(AlignUp(b))
         /\ b <= AlignUp(b) /\ AlignUp(b) <= USER_MMAP_START
         /\ \A a \in Page, i \in AreaSlot : Holds(areas[i], a) => AlignUp(b) <= a
<1>1. /\ b \in Nat /\ b <= USER_MMAP_START /\ Whole(USER_MMAP_START)
      /\ USER_MMAP_START <= USER_MMAP_LIMIT /\ USER_MMAP_START \in Nat
  BY Layout DEF Whole
<1>2. /\ ~AlignUpOverflows(b) /\ Whole(AlignUp(b)) /\ AlignUp(b) \in Nat
      /\ b <= AlignUp(b) /\ AlignUp(b) <= USER_MMAP_START
  BY <1>1, AlignUpBelow DEF Whole
<1>3. ASSUME NEW a \in Page, NEW i \in AreaSlot, Holds(areas[i], a)
      PROVE  AlignUp(b) <= a
  <2>1. areas[i].start <= a /\ USER_MMAP_START <= areas[i].start
    BY <1>3 DEF Holds, WellFormed, WholeArea
  <2>2. areas[i].start \in Nat
    BY AreaTyped DEF WellFormed
  <2>3. a \in Nat
    BY PagesAreWhole
  <2>4. QED
    BY <1>1, <1>2, <2>1, <2>2, <2>3
<1>4. QED
  BY <1>1, <1>2, <1>3

-----------------------------------------------------------------------------
(* The steps.                                                              *)

(* brk that grows the heap: pages for the new part, or nothing.            *)
LEMMA BrkGrowStep ==
  ASSUME IInv, NEW newBreak \in AddrArg, NEW budget, BrkGrow(newBreak, budget)
  PROVE  IInv' /\ KeptOrCleared(perm, perm')
<1> DEFINE s == AlignUp(heap_end)
           e == AlignUp(newBreak)
           grown == MapZeroedUserPages(s, e, HeapFlags, budget)
<1>1. /\ perm' = grown.perm /\ heap_end' = IF grown.ok THEN newBreak ELSE heap_end
      /\ areas' = areas /\ panicked' = panicked /\ execed' = execed
      /\ newBreak > heap_end /\ newBreak <= USER_HEAP_LIMIT
  BY DEF BrkGrow
<1>2. /\ perm \in [Page -> PTE] /\ heap_end \in USER_HEAP_START .. USER_HEAP_LIMIT
      /\ WellFormed(areas) /\ CleanLeaves /\ ConsoleMatch(perm)
  BY DEF IInv, TypeOK
<1>3. newBreak \in USER_HEAP_START .. USER_HEAP_LIMIT /\ heap_end \in Nat /\ newBreak \in Nat
  BY <1>1, <1>2, ArgAssumption, Layout DEF Whole
<1>4. /\ s \in Nat /\ ~AlignUpOverflows(heap_end)
      /\ \A a \in Page, i \in AreaSlot : Holds(areas[i], a) => s <= a
  BY <1>2, HeapBelowAreas DEF Whole
<1>5. /\ e \in Nat /\ ~AlignUpOverflows(newBreak)
      /\ \A a \in Page, i \in AreaSlot : Holds(areas[i], a) => e <= a
  BY <1>2, <1>3, HeapBelowAreas DEF Whole
<1>6. s <= e
  BY <1>1, <1>3, <1>4, <1>5, AlignUpOrder
<1>7. \/ grown.ok /\ MapsRange(grown.perm, s, e, HeapFlags)
      \/ ~grown.ok /\ grown.perm = perm
  BY Zenon, <1>2, <1>4, <1>5, FlagFacts, MapResult DEF MapsRange
<1> HIDE DEF s, e, grown
<1>8. CASE ~grown.ok /\ grown.perm = perm
  <2>1. UNCHANGED vars
    BY <1>1, <1>8 DEF vars
  <2>2. QED
    BY <2>1 DEF IInv, vars, TypeOK, CleanLeaves, SplitNeverPanics, KeptOrCleared
<1>9. CASE grown.ok /\ MapsRange(grown.perm, s, e, HeapFlags)
  <2>1. heap_end' = newBreak /\ MapsRange(perm', s, e, HeapFlags)
    BY <1>1, <1>9
  <2>2. CleanLeaves' /\ KeptOrCleared(perm, perm') /\ ConsoleMatch(perm')
    BY <1>2, <2>1, FlagFacts, MapKeeps DEF CleanLeaves
  <2>3. AreasMatch(perm', areas')
    <3>1. ASSUME NEW a \in Page, NEW i \in AreaSlot, Holds(areas[i], a)
          PROVE  perm'[a] = PteFlagsFromProt(areas[i].prot)
      <4>1. e <= a /\ a \in Nat
        BY <1>5, <3>1, PagesAreWhole
      <4>2. perm'[a] = perm[a]
        BY <1>5, <2>1, <4>1 DEF MapsRange
      <4>3. QED
        BY <3>1, <4>2 DEF IInv, AreasMatch
    <3>2. QED
      BY <1>1, <3>1 DEF AreasMatch
  <2>4. HeapMatch(perm', heap_end')
    <3>1. ASSUME NEW a \in Page, a < e
          PROVE  perm'[a] = HeapFlags
      <4>1. a < s => perm[a] = HeapFlags
        BY DEF IInv, HeapMatch, s
      <4>2. a \in Nat
        BY PagesAreWhole
      <4>3. QED
        BY <1>4, <2>1, <3>1, <4>1, <4>2 DEF MapsRange
    <3>2. QED
      BY <2>1, <3>1 DEF HeapMatch, e
  <2>5. ~execed' => NoStray(perm', heap_end', areas')
    <3>1. ASSUME ~execed, NEW a \in Page, perm'[a].v /\ perm'[a].u
          PROVE  a < e \/ \E i \in AreaSlot : Holds(areas[i], a)
      <4>1. a \in Nat
        BY PagesAreWhole
      <4>2. CASE s <= a /\ a < e
        BY <4>2
      <4>3. CASE ~(s <= a /\ a < e)
        <5>1. perm'[a] = perm[a]
          BY <2>1, <4>3 DEF MapsRange
        <5>2. a < s \/ \E i \in AreaSlot : Holds(areas[i], a)
          BY <3>1, <5>1 DEF IInv, NoStray, s
        <5>3. a < s => a < e
          BY <1>4, <1>5, <1>6, <4>1
        <5>4. QED
          BY <5>2, <5>3
      <4>4. QED
        BY <4>2, <4>3
    <3>2. QED
      BY <1>1, <2>1, <3>1 DEF NoStray, e
  <2>6. TypeOK'
    BY <1>1, <1>3, <2>1 DEF IInv, TypeOK, MapsRange
  <2>7. WellFormed(areas)' /\ SplitNeverPanics'
    BY <1>1 DEF IInv, SplitNeverPanics
  <2>8. QED
    BY <2>2, <2>3, <2>4, <2>5, <2>6, <2>7 DEF IInv
<1>10. QED
  BY <1>7, <1>8, <1>9

(* brk that shrinks it.                                                    *)
LEMMA BrkShrinkStep ==
  ASSUME IInv, NEW newBreak \in AddrArg, BrkShrink(newBreak)
  PROVE  IInv' /\ KeptOrCleared(perm, perm')
<1> DEFINE s == AlignUp(newBreak)
           e == AlignUp(heap_end)
<1>1. /\ perm' = UnmapUserPages(perm, s, e) /\ heap_end' = newBreak
      /\ areas' = areas /\ panicked' = panicked /\ execed' = execed
      /\ USER_HEAP_START <= newBreak /\ newBreak <= heap_end
  BY DEF BrkShrink
<1>2. /\ perm \in [Page -> PTE] /\ heap_end \in USER_HEAP_START .. USER_HEAP_LIMIT
      /\ WellFormed(areas) /\ CleanLeaves /\ ConsoleMatch(perm)
  BY DEF IInv, TypeOK
<1>3. newBreak \in USER_HEAP_START .. USER_HEAP_LIMIT /\ heap_end \in Nat /\ newBreak \in Nat
  BY <1>1, <1>2, ArgAssumption, Layout DEF Whole
<1>4. /\ e \in Nat /\ ~AlignUpOverflows(heap_end)
      /\ \A a \in Page, i \in AreaSlot : Holds(areas[i], a) => e <= a
  BY <1>2, HeapBelowAreas DEF Whole
<1>5. s \in Nat /\ ~AlignUpOverflows(newBreak)
  BY <1>2, <1>3, HeapBelowAreas DEF Whole
<1>6. s <= e
  BY <1>1, <1>3, <1>4, <1>5, AlignUpOrder
<1>7. /\ perm' \in [Page -> PTE]
      /\ \A a \in Page : perm'[a] = IF s <= a /\ a < e /\ perm[a].v /\ perm[a].u
                                    THEN Invalid ELSE perm[a]
      /\ CleanLeaves' /\ KeptOrCleared(perm, perm') /\ ConsoleMatch(perm')
  <2> DEFINE pn == UnmapUserPages(perm, s, e)
  <2>1. UnmapsRange(pn, s, e) /\ ConsoleMatch(pn)
    BY Zenon, <1>2, UnmapResult
  <2>2. perm' = pn
    BY <1>1
  <2> HIDE DEF pn
  <2>3. QED
    BY <2>1, <2>2, Zenon DEF CleanLeaves, UnmapsRange
<1> HIDE DEF s, e
<1>8. AreasMatch(perm', areas')
  <2>1. ASSUME NEW a \in Page, NEW i \in AreaSlot, Holds(areas[i], a)
        PROVE  perm'[a] = PteFlagsFromProt(areas[i].prot)
    <3>1. e <= a /\ a \in Nat
      BY <1>4, <2>1, PagesAreWhole
    <3>2. ~(a < e)
      BY <1>4, <3>1
    <3>3. QED
      BY <1>7, <2>1, <3>2 DEF IInv, AreasMatch
  <2>2. QED
    BY <1>1, <2>1 DEF AreasMatch
<1>9. HeapMatch(perm', heap_end')
  <2>1. ASSUME NEW a \in Page, a < s
        PROVE  perm'[a] = HeapFlags
    <3>1. a \in Nat
      BY PagesAreWhole
    <3>2. a < e /\ ~(s <= a)
      BY <1>4, <1>5, <1>6, <2>1, <3>1
    <3>3. QED
      BY <1>7, <3>2 DEF IInv, HeapMatch, e
  <2>2. QED
    BY <1>1, <2>1 DEF HeapMatch, s
<1>10. ~execed' => NoStray(perm', heap_end', areas')
  <2>1. ASSUME ~execed, NEW a \in Page, perm'[a].v, perm'[a].u
        PROVE  a < s \/ \E i \in AreaSlot : Holds(areas[i], a)
    <3>1. perm'[a] = perm[a] /\ perm[a].v /\ perm[a].u /\ ~(s <= a /\ a < e)
      BY <1>7, <2>1, FlagFacts
    <3>2. a < e \/ \E i \in AreaSlot : Holds(areas[i], a)
      BY <2>1, <3>1 DEF IInv, NoStray, e
    <3>3. a \in Nat
      BY PagesAreWhole
    <3>4. a < e => a < s
      BY <1>4, <1>5, <3>1, <3>3
    <3>5. QED
      BY <3>2, <3>4
  <2>2. QED
    BY <1>1, <2>1 DEF NoStray, s
<1>11. TypeOK'
  BY <1>1, <1>3, <1>7 DEF IInv, TypeOK
<1>12. WellFormed(areas)' /\ SplitNeverPanics'
  BY <1>1 DEF IInv, SplitNeverPanics
<1>13. QED
  BY <1>7, <1>8, <1>9, <1>10, <1>11, <1>12 DEF IInv

(* The record mmap writes is apart from the others.                        *)
LEMMA NewAreaFits ==
  ASSUME WellFormed(areas), NEW s, NEW len, Whole(len), 0 < len,
         WindowRange(s, s + len), MmapRangeAvailable(s, s + len),
         NEW prot \in ProtArg, NEW i \in AreaSlot
  PROVE  LET r == [start |-> s, len |-> len, prot |-> prot, used |-> TRUE]
         IN  r \in Area /\ FitsIn(areas, i, r) /\ End(r) = s + len
<1> DEFINE r == [start |-> s, len |-> len, prot |-> prot, used |-> TRUE]
<1>1. /\ s \in Nat /\ len \in Nat /\ s + len <= USER_MMAP_LIMIT
      /\ USER_MMAP_LIMIT \in Nat /\ USER_MMAP_START <= s /\ s % PAGE_SIZE = 0
  BY Layout DEF WindowRange, Whole
<1>2. s \in 0 .. USER_MMAP_LIMIT /\ len \in 0 .. USER_MMAP_LIMIT
  BY <1>1
<1>3. r.start = s /\ r.len = len /\ r.used /\ End(r) = s + len /\ r.prot = prot
  BY DEF End
<1>4. r \in Area
  BY <1>2 DEF Area
<1> HIDE DEF r
<1>5. WholeArea(r)
  BY <1>1, <1>3 DEF WholeArea, Whole
<1>6. \A j \in AreaSlot \ {i} : areas[j].used => Apart(r, areas[j])
  BY <1>3 DEF MmapRangeAvailable, Apart
<1>7. QED
  BY Zenon, <1>3, <1>4, <1>5, <1>6 DEF FitsIn, r

(* No address of an area lies in a range that is available.                *)
LEMMA AvailableHoldsNone ==
  ASSUME NEW s \in Nat, NEW e \in Nat, NEW r \in Area, r.used,
         ~RangesOverlap(s, e, r.start, End(r)), NEW a \in Nat, Holds(r, a)
  PROVE  ~(s <= a /\ a < e)
<1>1. r.start \in Nat /\ End(r) \in Nat
  BY AreaTyped
<1>2. r.start <= a /\ a < End(r)
  BY DEF Holds
<1>3. ~(s < End(r) /\ r.start < e)
  BY DEF RangesOverlap
<1>4. QED
  BY <1>1, <1>2, <1>3

(* mmap maps a range for a new record, or changes nothing.                 *)
LEMMA MmapStep ==
  ASSUME IInv, NEW hint \in AddrArg, NEW rawLen \in LenArg, NEW offset, NEW flags,
         NEW prot \in ProtArg, NEW budget,
         Mmap(hint, rawLen, offset, flags, prot, budget)
  PROVE  IInv' /\ KeptOrCleared(perm, perm')
<1> DEFINE len == CheckedAlignUp(rawLen)
           s == ChooseMmapAddr(hint, len)
           fl == PteFlagsFromProt(prot)
           mapped == MapZeroedUserPages(s, s + len, fl, budget)
           k == Min(FreeAreaSlots(areas))
           r == [start |-> s, len |-> len, prot |-> prot, used |-> TRUE]
<1>1. /\ MmapArgsOk(rawLen, offset, flags, prot)
      /\ heap_end' = heap_end /\ panicked' = panicked /\ execed' = execed
      /\ IF s = NoAddr \/ FreeAreaSlots(areas) = {}
         THEN perm' = perm /\ areas' = areas
         ELSE /\ perm' = mapped.perm
              /\ areas' = IF mapped.ok THEN [areas EXCEPT ![k] = r] ELSE areas
  BY DEF Mmap
<1>2. /\ perm \in [Page -> PTE] /\ heap_end \in USER_HEAP_START .. USER_HEAP_LIMIT
      /\ WellFormed(areas) /\ CleanLeaves /\ ConsoleMatch(perm)
  BY DEF IInv, TypeOK
<1>3. Whole(len) /\ len \in Nat /\ 0 < len
  BY <1>1, CheckedLength DEF MmapArgsOk
<1>4. CASE perm' = perm /\ areas' = areas
  <2>1. UNCHANGED vars
    BY <1>1, <1>4 DEF vars
  <2>2. QED
    BY <2>1 DEF IInv, vars, TypeOK, CleanLeaves, SplitNeverPanics, KeptOrCleared
<1>5. CASE s # NoAddr /\ FreeAreaSlots(areas) # {}
  <2> HIDE DEF len
  <2>1. WindowRange(s, s + len) /\ MmapRangeAvailable(s, s + len)
    BY <1>2, <1>3, <1>5, ChosenRange
  <2>2. s \in Nat /\ s + len \in Nat /\ USER_MMAP_START <= s
    BY <2>1 DEF WindowRange, Whole
  <2>3. \/ mapped.ok /\ MapsRange(mapped.perm, s, s + len, fl)
        \/ ~mapped.ok /\ mapped.perm = perm
    BY Zenon, <1>2, <2>2, FlagFacts, MapResult DEF MapsRange
  <2>4. /\ perm' = mapped.perm
        /\ areas' = IF mapped.ok THEN [areas EXCEPT ![k] = r] ELSE areas
    BY <1>1, <1>5
  <2> HIDE DEF mapped, s, k, r, fl
  <2>5. CASE ~mapped.ok /\ mapped.perm = perm
    BY <1>4, <2>4, <2>5
  <2>6. CASE mapped.ok /\ MapsRange(mapped.perm, s, s + len, fl)
    <3>1. MapsRange(perm', s, s + len, fl) /\ Put(areas, areas', k, r)
      BY <2>4, <2>6 DEF Put
    <3>2. k \in AreaSlot /\ ~areas[k].used
      <4>1. FreeAreaSlots(areas) \in SUBSET Nat
        BY DEF FreeAreaSlots, AreaSlot
      <4>2. k \in FreeAreaSlots(areas)
        BY <1>5, <4>1, MinInSet DEF k
      <4>3. QED
        BY <4>2 DEF FreeAreaSlots
    <3>3. r \in Area /\ FitsIn(areas, k, r) /\ End(r) = s + len
      BY <1>2, <1>3, <2>1, <3>2, NewAreaFits DEF r
    <3>4. r.used /\ r.start = s /\ r.prot = prot
      BY DEF r
    <3>5. /\ WellFormed(areas') /\ areas'[k] = r
          /\ \A j \in AreaSlot \ {k} : areas'[j] = areas[j]
      BY <1>2, <3>1, <3>2, <3>3, ReplaceArea
    <3>6. CleanLeaves' /\ KeptOrCleared(perm, perm') /\ ConsoleMatch(perm')
      BY <1>2, <3>1, FlagFacts, MapKeeps DEF CleanLeaves, fl
    <3>7. AreasMatch(perm', areas')
      <4>1. ASSUME NEW a \in Page, NEW i \in AreaSlot, Holds(areas'[i], a)
            PROVE  perm'[a] = PteFlagsFromProt(areas'[i].prot)
        <5>1. a \in Nat
          BY PagesAreWhole
        <5>2. CASE i = k
          <6>1. s <= a /\ a < s + len
            BY Zenon, <3>3, <3>4, <3>5, <4>1, <5>2 DEF Holds
          <6>2. perm'[a] = fl
            BY <3>1, <6>1 DEF MapsRange
          <6>3. QED
            BY <3>4, <3>5, <5>2, <6>2 DEF fl
        <5>3. CASE i # k
          <6>1. areas'[i] = areas[i] /\ Holds(areas[i], a)
            BY <3>5, <4>1, <5>3
          <6>2. areas[i].used /\ areas[i] \in Area
            BY <1>2, <6>1 DEF Holds, WellFormed
          <6>3. ~RangesOverlap(s, s + len, areas[i].start, End(areas[i]))
            BY <2>1, <6>2 DEF MmapRangeAvailable
          <6>4. ~(s <= a /\ a < s + len)
            BY <2>2, <5>1, <6>1, <6>2, <6>3, AvailableHoldsNone
          <6>5. perm'[a] = perm[a]
            BY <3>1, <6>4 DEF MapsRange
          <6>6. QED
            BY <6>1, <6>5 DEF IInv, AreasMatch
        <5>4. QED
          BY <5>2, <5>3
      <4>2. QED
        BY <4>1 DEF AreasMatch
    <3>8. HeapMatch(perm', heap_end')
      <4>1. ASSUME NEW a \in Page, a < AlignUp(heap_end)
            PROVE  perm'[a] = HeapFlags
        <5>1. AlignUp(heap_end) \in Nat /\ AlignUp(heap_end) <= USER_MMAP_START
          BY <1>2, HeapBelowAreas DEF Whole
        <5>2. a \in Nat /\ USER_MMAP_START \in Nat
          BY PagesAreWhole, Layout DEF Whole
        <5> DEFINE h == AlignUp(heap_end)
        <5> HIDE DEF h
        <5>3. ~(s <= a)
          BY <2>2, <4>1, <5>1, <5>2 DEF h
        <5>4. perm'[a] = perm[a]
          BY <3>1, <5>3 DEF MapsRange
        <5>5. QED
          BY <4>1, <5>4 DEF IInv, HeapMatch
      <4>2. QED
        BY <1>1, <4>1 DEF HeapMatch
    <3>9. ~execed' => NoStray(perm', heap_end', areas')
      <4>1. ASSUME ~execed, NEW a \in Page, perm'[a].v, perm'[a].u
            PROVE  a < AlignUp(heap_end) \/ \E i \in AreaSlot : Holds(areas'[i], a)
        <5>1. CASE s <= a /\ a < s + len
          BY <3>2, <3>3, <3>4, <3>5, <5>1 DEF Holds
        <5>2. CASE ~(s <= a /\ a < s + len)
          <6>1. perm'[a] = perm[a]
            BY <3>1, <5>2 DEF MapsRange
          <6>2. a < AlignUp(heap_end) \/ \E i \in AreaSlot : Holds(areas[i], a)
            BY <4>1, <6>1 DEF IInv, NoStray
          <6>3. \A i \in AreaSlot : Holds(areas[i], a) => Holds(areas'[i], a)
            BY <3>2, <3>5 DEF Holds
          <6>4. QED
            BY <6>2, <6>3
        <5>3. QED
          BY <5>1, <5>2
      <4>2. QED
        BY <1>1, <4>1 DEF NoStray
    <3>10. TypeOK'
      BY Zenon, <1>1, <3>1, <3>5 DEF IInv, TypeOK, MapsRange, WellFormed
    <3>11. SplitNeverPanics'
      BY <1>1 DEF IInv, SplitNeverPanics
    <3>12. QED
      BY <3>5, <3>6, <3>7, <3>8, <3>9, <3>10, <3>11 DEF IInv
  <2>7. QED
    BY <2>3, <2>5, <2>6
<1>6. QED
  BY <1>1, <1>4, <1>5

(* munmap takes its range from the records and from the page table.        *)
LEMMA MunmapStep ==
  ASSUME IInv, SlotsCountable, NEW addr \in AddrArg, NEW len \in LenArg,
         Munmap(addr, len)
  PROVE  IInv' /\ KeptOrCleared(perm, perm')
<1> DEFINE e == addr + CheckedAlignUp(len)
<1>1. /\ MunmapArgsOk(addr, len) /\ CanSplitMmapRange(addr, e)
      /\ perm' = UnmapUserPages(perm, addr, e)
      /\ heap_end' = heap_end /\ execed' = execed
      /\ IF SplitPanics(addr, e) THEN panicked' = "split" /\ areas' = areas
         ELSE areas' = AfterSlots(addr, e)[MAX_MMAP_AREAS] /\ panicked' = panicked
  BY DEF Munmap
<1>2. /\ perm \in [Page -> PTE] /\ heap_end \in USER_HEAP_START .. USER_HEAP_LIMIT
      /\ WellFormed(areas) /\ CleanLeaves /\ ConsoleMatch(perm)
  BY DEF IInv, TypeOK
<1>3. WindowRange(addr, e)
  BY <1>1, MunmapRange
<1>4. addr \in Nat /\ e \in Nat /\ USER_MMAP_START <= addr
  BY <1>3 DEF WindowRange, Whole
<1> HIDE DEF e
<1>5. areas' = AfterSlots(addr, e)[MAX_MMAP_AREAS] /\ panicked' = panicked
  BY <1>1, <1>2, <1>3, NoSplitPanic
<1>6. /\ WellFormed(areas')
      /\ \A j \in AreaSlot : areas'[j].used =>
           ~RangesOverlap(addr, e, areas'[j].start, End(areas'[j]))
      /\ Kept(areas, areas', addr, e)
  BY <1>1, <1>2, <1>3, <1>5, LoopResult
<1>7. /\ perm' \in [Page -> PTE]
      /\ \A a \in Page : perm'[a] = IF addr <= a /\ a < e /\ perm[a].v /\ perm[a].u
                                    THEN Invalid ELSE perm[a]
      /\ CleanLeaves' /\ KeptOrCleared(perm, perm') /\ ConsoleMatch(perm')
  <2> DEFINE pn == UnmapUserPages(perm, addr, e)
  <2>1. UnmapsRange(pn, addr, e) /\ ConsoleMatch(pn)
    BY Zenon, <1>2, UnmapResult
  <2>2. perm' = pn
    BY <1>1
  <2> HIDE DEF pn
  <2>3. QED
    BY <2>1, <2>2, Zenon DEF CleanLeaves, UnmapsRange
<1>8. AreasMatch(perm', areas')
  <2>1. ASSUME NEW a \in Page, NEW i \in AreaSlot, Holds(areas'[i], a)
        PROVE  perm'[a] = PteFlagsFromProt(areas'[i].prot)
    <3>1. a \in Nat
      BY PagesAreWhole
    <3>2. areas'[i].used /\ areas'[i] \in Area
      BY <1>6, <2>1 DEF Holds, WellFormed
    <3>3. ~(addr <= a /\ a < e)
      BY <1>4, <1>6, <2>1, <3>1, <3>2, AvailableHoldsNone
    <3>4. perm'[a] = perm[a]
      BY <1>7, <3>3
    <3>5. PICK j \in AreaSlot : Holds(areas[j], a) /\ areas[j].prot = areas'[i].prot
      BY <1>6, <2>1, <3>1 DEF Kept
    <3>6. QED
      BY <3>4, <3>5 DEF IInv, AreasMatch
  <2>2. QED
    BY <2>1 DEF AreasMatch
<1>9. HeapMatch(perm', heap_end')
  <2>1. ASSUME NEW a \in Page, a < AlignUp(heap_end)
        PROVE  perm'[a] = HeapFlags
    <3> DEFINE h == AlignUp(heap_end)
    <3>1. h \in Nat /\ h <= USER_MMAP_START
      BY <1>2, HeapBelowAreas DEF Whole
    <3>2. a \in Nat /\ USER_MMAP_START \in Nat
      BY PagesAreWhole, Layout DEF Whole
    <3> HIDE DEF h
    <3>3. ~(addr <= a)
      BY <1>4, <2>1, <3>1, <3>2 DEF h
    <3>4. QED
      BY <1>7, <2>1, <3>3 DEF IInv, HeapMatch
  <2>2. QED
    BY <1>1, <2>1 DEF HeapMatch
<1>10. ~execed' => NoStray(perm', heap_end', areas')
  <2>1. ASSUME ~execed, NEW a \in Page, perm'[a].v, perm'[a].u
        PROVE  a < AlignUp(heap_end) \/ \E i \in AreaSlot : Holds(areas'[i], a)
    <3>1. perm'[a] = perm[a] /\ perm[a].v /\ perm[a].u /\ ~(addr <= a /\ a < e)
      BY <1>7, <2>1, FlagFacts
    <3>2. a < AlignUp(heap_end) \/ \E i \in AreaSlot : Holds(areas[i], a)
      BY <2>1, <3>1 DEF IInv, NoStray
    <3>3. a \in Nat
      BY PagesAreWhole
    <3>4. a < addr \/ e <= a
      BY <1>4, <3>1, <3>3
    <3>5. QED
      BY Zenon, <1>6, <3>2, <3>3, <3>4 DEF Kept
  <2>2. QED
    BY <1>1, <2>1 DEF NoStray
<1>11. TypeOK'
  BY Zenon, <1>1, <1>5, <1>6, <1>7 DEF IInv, TypeOK, WellFormed
<1>12. SplitNeverPanics'
  BY <1>5 DEF IInv, SplitNeverPanics
<1>13. QED
  BY <1>6, <1>7, <1>8, <1>9, <1>10, <1>11, <1>12 DEF IInv

(* The record of a free slot.                                              *)
LEMMA EmptyFits == EmptyArea \in Area /\ ~EmptyArea.used
<1>1. 0 \in 0 .. USER_MMAP_LIMIT
  BY Layout DEF Whole
<1>2. QED
  BY Zenon, <1>1 DEF EmptyArea, Area

(* The exec stub forgets the records.                                      *)
LEMMA ExecStep ==
  ASSUME IInv, Exec
  PROVE  IInv' /\ KeptOrCleared(perm, perm')
<1>1. /\ heap_end' = USER_HEAP_START /\ areas' = [i \in AreaSlot |-> EmptyArea]
      /\ execed' = TRUE /\ perm' = perm /\ panicked' = panicked
  BY DEF Exec
<1>2. EmptyArea \in Area /\ ~EmptyArea.used
  BY EmptyFits
<1>3. areas' \in [AreaSlot -> Area] /\ \A i \in AreaSlot : ~areas'[i].used
  BY <1>1, <1>2
<1>4. WellFormed(areas') /\ AreasMatch(perm', areas')
  BY <1>3 DEF WellFormed, AreasMatch, Holds
<1>5. HeapMatch(perm', heap_end')
  <2>1. AlignUp(USER_HEAP_START) = USER_HEAP_START
    BY Layout, AlignUpBelow DEF Whole
  <2>2. \A a \in Page : ~(a < USER_HEAP_START)
    BY PagesAreWhole, Layout DEF Whole
  <2>3. QED
    BY <1>1, <2>1, <2>2 DEF HeapMatch
<1>6. TypeOK'
  BY <1>1, <1>3, Layout DEF IInv, TypeOK, Whole
<1>7. CleanLeaves' /\ ConsoleMatch(perm') /\ SplitNeverPanics' /\ KeptOrCleared(perm, perm')
  BY <1>1 DEF IInv, CleanLeaves, SplitNeverPanics, KeptOrCleared
<1>8. QED
  BY <1>1, <1>4, <1>5, <1>6, <1>7 DEF IInv

(* The refusals and the panic of align_up leave the address space alone.   *)
LEMMA StutterStep ==
  ASSUME IInv, perm' = perm, heap_end' = heap_end, areas' = areas,
         execed' = execed, panicked' \in {panicked, "align_up"}
  PROVE  IInv' /\ KeptOrCleared(perm, perm')
<1>1. SplitNeverPanics'
  BY DEF IInv, SplitNeverPanics
<1>2. TypeOK'
  BY DEF IInv, TypeOK
<1>3. QED
  BY <1>1, <1>2 DEF IInv, CleanLeaves, KeptOrCleared

(* A fresh address space.                                                  *)
LEMMA InitIInv == Init => IInv
<1> SUFFICES ASSUME Init PROVE IInv
  OBVIOUS
<1>1. /\ perm = [a \in Page |-> IF a = UartPage
                                THEN Flags(TRUE, TRUE, FALSE, FALSE) ELSE Invalid]
      /\ heap_end = USER_HEAP_START /\ areas = [i \in AreaSlot |-> EmptyArea]
      /\ panicked = "no" /\ execed = FALSE
  BY DEF Init
<1>2. EmptyArea \in Area /\ ~EmptyArea.used
  BY EmptyFits
<1>3. areas \in [AreaSlot -> Area] /\ \A i \in AreaSlot : ~areas[i].used
  BY <1>1, <1>2
<1>4. WellFormed(areas) /\ AreasMatch(perm, areas)
  BY <1>3 DEF WellFormed, AreasMatch, Holds
<1>5. HeapMatch(perm, heap_end)
  <2>1. AlignUp(USER_HEAP_START) = USER_HEAP_START
    BY Layout, AlignUpBelow DEF Whole
  <2>2. \A a \in Page : ~(a < USER_HEAP_START)
    BY PagesAreWhole, Layout DEF Whole
  <2>3. QED
    BY <1>1, <2>1, <2>2 DEF HeapMatch
<1>6. perm \in [Page -> PTE] /\ CleanLeaves /\ ConsoleMatch(perm)
  BY Zenon, <1>1, FlagFacts DEF CleanLeaves, ConsoleMatch
<1>7. NoStray(perm, heap_end, areas)
  BY Zenon, <1>1, FlagFacts DEF NoStray
<1>8. TypeOK
  <2>1. USER_HEAP_START \in USER_HEAP_START .. USER_HEAP_LIMIT
    BY Layout DEF Whole
  <2>2. execed \in BOOLEAN /\ panicked \in {"no", "align_up", "split"}
    BY <1>1, Zenon
  <2>3. QED
    BY <1>1, <1>3, <1>6, <2>1, <2>2, Zenon DEF TypeOK
<1>9. SplitNeverPanics
  BY <1>1 DEF SplitNeverPanics
<1>10. QED
  BY <1>4, <1>5, <1>6, <1>7, <1>8, <1>9 DEF IInv

(* Every step keeps the invariant and maps over nothing.                   *)
LEMMA Step ==
  ASSUME IInv, SlotsCountable, [Next]_vars
  PROVE  IInv' /\ KeptOrCleared(perm, perm')
<1>1. CASE UNCHANGED vars
  BY <1>1, StutterStep DEF vars
<1>2. ASSUME NEW a \in AddrArg, BrkRefused(a) \/ BrkShrink(a)
      PROVE  IInv' /\ KeptOrCleared(perm, perm')
  <2>1. CASE BrkRefused(a)
    BY <1>1, <2>1 DEF BrkRefused
  <2>2. CASE BrkShrink(a)
    BY <2>2, BrkShrinkStep
  <2>3. QED
    BY <1>2, <2>1, <2>2
<1>3. ASSUME NEW a \in AddrArg, NEW b \in FrameBudget, BrkGrow(a, b)
      PROVE  IInv' /\ KeptOrCleared(perm, perm')
  BY <1>3, BrkGrowStep
<1>4. ASSUME NEW len \in LenArg, NEW offset \in {0, 1}, NEW f \in FlagsArg,
             NEW p \in ProtArg,
             \/ MmapRefused(len, offset, f, p)
             \/ \E hint \in AddrArg : MmapPanic(hint, len, offset, f, p)
             \/ \E hint \in AddrArg, b \in FrameBudget : Mmap(hint, len, offset, f, p, b)
      PROVE  IInv' /\ KeptOrCleared(perm, perm')
  <2>1. CASE MmapRefused(len, offset, f, p)
    BY <1>1, <2>1 DEF MmapRefused
  <2>2. ASSUME NEW hint \in AddrArg, MmapPanic(hint, len, offset, f, p)
        PROVE  IInv' /\ KeptOrCleared(perm, perm')
    BY <2>2, StutterStep DEF MmapPanic
  <2>3. ASSUME NEW hint \in AddrArg, NEW b \in FrameBudget,
               Mmap(hint, len, offset, f, p, b)
        PROVE  IInv' /\ KeptOrCleared(perm, perm')
    BY <2>3, MmapStep
  <2>4. QED
    BY <1>4, <2>1, <2>2, <2>3
<1>5. ASSUME NEW a \in AddrArg, NEW len \in LenArg, MunmapRefused(a, len) \/ Munmap(a, len)
      PROVE  IInv' /\ KeptOrCleared(perm, perm')
  <2>1. CASE MunmapRefused(a, len)
    BY <1>1, <2>1 DEF MunmapRefused
  <2>2. CASE Munmap(a, len)
    BY <2>2, MunmapStep
  <2>3. QED
    BY <1>5, <2>1, <2>2
<1>6. CASE Exec
  BY <1>6, ExecStep
<1>7. CASE Halted
  BY <1>1, <1>7 DEF Halted
<1>8. QED
  BY <1>1, <1>2, <1>3, <1>4, <1>5, <1>6, <1>7 DEF Next

(* What the invariant says in the terms of the properties.                 *)
LEMMA InvMatches ==
  ASSUME IInv
  PROVE  AreasWellFormed /\ PagesMatchRecords /\ SplitNeverPanics /\ GapIsFirstFit
<1>1. TypeOK /\ WellFormed(areas) /\ SplitNeverPanics
  BY DEF IInv
<1>2. AreasWellFormed
  BY <1>1 DEF AreasWellFormed, WellFormed, WholeArea, Apart
<1>3. GapIsFirstFit
  BY <1>1, GapIsFit
<1>4. AreasMapped
  BY DEF IInv, AreasMatch, AreasMapped, Holds, Pages
<1>5. HeapMapped
  BY DEF IInv, HeapMatch, HeapMapped, Pages
<1>6. ASSUME ~execed PROVE NoStrayUserPage
  <2>1. NoStray(perm, heap_end, areas)
    BY <1>6 DEF IInv
  <2> DEFINE h == AlignUp(heap_end)
  <2>2. /\ h \in Nat /\ h <= USER_MMAP_START
        /\ \A a \in Page, i \in AreaSlot : Holds(areas[i], a) => h <= a
    BY <1>1, HeapBelowAreas DEF TypeOK, Whole
  <2>3. \A a \in Page : /\ a \in Nat /\ a < USER_MMAP_LIMIT
                        /\ USER_MMAP_START \in Nat
    BY PagesAreWhole, Layout DEF Whole
  <2>4. \A a \in Page, i \in AreaSlot : Holds(areas[i], a) => USER_MMAP_START <= a
    <3>1. ASSUME NEW a \in Page, NEW i \in AreaSlot, Holds(areas[i], a)
          PROVE  USER_MMAP_START <= a
      <4>1. /\ areas[i].start <= a /\ USER_MMAP_START <= areas[i].start
            /\ areas[i] \in Area
        BY <1>1, <3>1 DEF Holds, WellFormed, WholeArea
      <4>2. areas[i].start \in Nat
        BY <4>1, AreaTyped
      <4>3. QED
        BY <2>3, <4>1, <4>2
    <3>2. QED
      BY <3>1
  <2>5. \A a : a \in AreaPages <=> a \in Page /\ \E i \in AreaSlot : Holds(areas[i], a)
    BY DEF AreaPages, Holds, Pages
  <2>6. \A a \in Page : perm[a].v /\ perm[a].u =>
          a < h \/ \E i \in AreaSlot : Holds(areas[i], a)
    BY <2>1 DEF NoStray
  <2> HIDE DEF h
  <2>7. UserPages(USER_MMAP_START, USER_MMAP_LIMIT) \subseteq AreaPages
    <3>1. ASSUME NEW a \in UserPages(USER_MMAP_START, USER_MMAP_LIMIT)
          PROVE  a \in AreaPages
      <4>1. a \in Page /\ USER_MMAP_START <= a /\ perm[a].v /\ perm[a].u
        BY DEF UserPages, Pages
      <4>2. ~(a < h)
        BY <2>2, <2>3, <4>1
      <4>3. QED
        BY <2>5, <2>6, <4>1, <4>2
    <3>2. QED
      BY <3>1
  <2>8. AreaPages \subseteq UserPages(USER_MMAP_START, USER_MMAP_LIMIT)
    <3>1. ASSUME NEW a \in AreaPages
          PROVE  a \in UserPages(USER_MMAP_START, USER_MMAP_LIMIT)
      <4>1. PICK i \in AreaSlot : Holds(areas[i], a)
        BY <2>5
      <4>2. a \in Page /\ USER_MMAP_START <= a /\ a < USER_MMAP_LIMIT
        BY <2>3, <2>4, <2>5, <4>1
      <4>3. perm[a].v /\ perm[a].u
        BY <4>1, <4>2, FlagFacts DEF IInv, AreasMatch
      <4>4. QED
        BY <4>2, <4>3 DEF UserPages, Pages
    <3>2. QED
      BY <3>1
  <2>9. UserPages(h, USER_HEAP_LIMIT) = {}
    <3>1. SUFFICES ASSUME NEW a \in UserPages(h, USER_HEAP_LIMIT) PROVE FALSE
      OBVIOUS
    <3>2. /\ a \in Page /\ h <= a /\ a < USER_MMAP_START
          /\ perm[a].v /\ perm[a].u
      BY Layout DEF UserPages, Pages
    <3>3. \E i \in AreaSlot : Holds(areas[i], a)
      BY <2>2, <2>3, <2>6, <3>2
    <3>4. QED
      BY <2>3, <2>4, <3>2, <3>3
  <2>10. QED
    BY <2>7, <2>8, <2>9 DEF NoStrayUserPage, h
<1>7. PagesMatchRecords
  <2>1. UartPage \in Page => perm[UartPage] = Flags(TRUE, TRUE, FALSE, FALSE)
    BY Zenon DEF IInv, ConsoleMatch
  <2>2. QED
    BY <1>4, <1>5, <1>6, <2>1, Zenon DEF PagesMatchRecords
<1>8. QED
  BY <1>1, <1>2, <1>3, <1>7

-----------------------------------------------------------------------------
F == INSTANCE FiniteSetTheorems

(* The slots are finitely many.                                            *)
LEMMA Slots == SlotsCountable
<1>1. \A A : F!Cardinality(A) = Cardinality(A)
  BY DEF F!Cardinality, Cardinality, F!IsFiniteSet, IsFiniteSet
<1>2. F!IsFiniteSet(AreaSlot)
  BY F!FS_Interval, LayoutAssumption DEF AreaSlot
<1>3. ASSUME NEW A \in SUBSET AreaSlot
      PROVE  Cardinality(A) \in Nat /\ (Cardinality(A) = 0 <=> A = {})
  <2>1. F!IsFiniteSet(A)
    BY <1>2, F!FS_Subset
  <2>2. F!Cardinality(A) \in Nat /\ (F!Cardinality(A) = 0 <=> A = {})
    BY <2>1, F!FS_CardinalityType, F!FS_EmptySet
  <2>3. QED
    BY <1>1, <2>2
<1>4. QED
  BY <1>3 DEF SlotsCountable

(* brk, mmap, munmap and exec keep the invariant.                          *)
THEOREM Inductive == IInv /\ [Next]_vars => IInv'
BY Step, Slots

(* The invariant holds always.                                             *)
THEOREM Invariance == Spec => []IInv
BY InitIInv, Inductive, PTL DEF Spec

(* For every size of the window and of the table of areas: whatever is     *)
(* mapped, unmapped in part and split, the records are whole pages of the  *)
(* window and no two overlap.                                              *)
THEOREM AlwaysWellFormed == Spec => []AreasWellFormed
<1>1. IInv => AreasWellFormed
  BY InvMatches
<1>2. QED
  BY <1>1, Invariance, PTL

(* The page table and the records agree, always: no page is left behind by *)
(* a failed brk or mmap, none is missing below the break or in an area.    *)
THEOREM AlwaysMatching == Spec => []PagesMatchRecords
<1>1. IInv => PagesMatchRecords
  BY InvMatches
<1>2. QED
  BY <1>1, Invariance, PTL

(* can_split_mmap_range is sufficient: the expect of remove_mmap_range     *)
(* never fails.                                                            *)
THEOREM NeverSplitPanic == Spec => []SplitNeverPanics
<1>1. IInv => SplitNeverPanics
  BY InvMatches
<1>2. QED
  BY <1>1, Invariance, PTL

(* find_mmap_gap, which jumps from area to area in slot order, finds the   *)
(* lowest fit in every reachable state.                                    *)
THEOREM AlwaysFirstFit == Spec => []GapIsFirstFit
<1>1. IInv => GapIsFirstFit
  BY InvMatches
<1>2. QED
  BY <1>1, Invariance, PTL

(* brk and mmap map over no leaf that is in use.                           *)
THEOREM MapsOverNothing == Spec => NeverMappedOver
<1>1. IInv /\ [Next]_vars =>
        [\A a \in Page : perm[a].v => perm'[a] \in {perm[a], Invalid}]_vars
  BY Step, Slots DEF KeptOrCleared
<1>2. QED
  BY <1>1, Invariance, PTL DEF Spec, NeverMappedOver
=============================================================================
