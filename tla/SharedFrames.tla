---------------------------- MODULE SharedFrames ----------------------------
(***************************************************************************)
(* Facts about page tables that share frames by copy-on-write, for any     *)
(* sets of address spaces, pages and frames: unmapping, mapping and        *)
(* breaking copy-on-write keep the reference counts exact and what is      *)
(* writable exclusive.                                                     *)
(***************************************************************************)
EXTENDS Sharing, TLAPS

(* One element counts one, and taking one away counts one less.            *)
LEMMA CountOne ==
  ASSUME Countable, NEW A \in SUBSET Slot, NEW x \in A
  PROVE  /\ Cardinality(A \ {x}) = Cardinality(A) - 1
         /\ Cardinality(A) = 1 <=> A = {x}
<1>1. A \ {x} \in SUBSET Slot /\ x \in Slot \ (A \ {x}) /\ (A \ {x}) \cup {x} = A
  OBVIOUS
<1>2. /\ Cardinality(A) = Cardinality(A \ {x}) + 1
      /\ Cardinality(A \ {x}) \in Nat
      /\ Cardinality(A \ {x}) = 0 <=> A \ {x} = {}
  BY <1>1 DEF Countable
<1>3. A \ {x} = {} <=> A = {x}
  OBVIOUS
<1>4. QED
  BY <1>2, <1>3

(* A set of one address space counts one.                                  *)
LEMMA CountSingle ==
  ASSUME Countable, NEW x \in Slot
  PROVE  Cardinality({x}) = 1
<1>1. {} \in SUBSET Slot /\ x \in Slot \ {} /\ {} \cup {x} = {x}
  OBVIOUS
<1>2. Cardinality({}) = 0 /\ Cardinality({} \cup {x}) = Cardinality({}) + 1
  BY <1>1 DEF Countable
<1>3. QED
  BY <1>1, <1>2

(* The processes that map a frame can be counted.                          *)
LEMMA MappersCounted ==
  ASSUME Countable, NEW m, NEW f
  PROVE  /\ Mappers(m, f) \in SUBSET Slot
         /\ Cardinality(Mappers(m, f)) \in Nat
         /\ Cardinality(Mappers(m, f)) = 0 <=> Mappers(m, f) = {}
<1>1. Mappers(m, f) \in SUBSET Slot
  BY DEF Mappers
<1>2. QED
  BY <1>1 DEF Countable

(* A frame without references is in no page table.                         *)
LEMMA FreeIsUnmapped ==
  ASSUME NEW m, NEW r, NEW k, Sound(m, r, k), NEW f \in Frame, r[f] = 0
  PROVE  /\ Mappers(m, f) = {} /\ k[f] = 0
         /\ \A i \in Slot : \A p \in UserPagesOf(m[i]) : m[i][p].f # f
<1>1. r[f] = Cardinality(Mappers(m, f)) + k[f] /\ k[f] \in Nat
  BY DEF Sound, Counted
<1>2. /\ Cardinality(Mappers(m, f)) \in Nat
      /\ Cardinality(Mappers(m, f)) = 0 <=> Mappers(m, f) = {}
  BY MappersCounted DEF Sound
<1>3. Cardinality(Mappers(m, f)) = 0 /\ k[f] = 0
  BY <1>1, <1>2
<1>4. Mappers(m, f) = {}
  BY <1>2, <1>3
<1>5. QED
  BY <1>3, <1>4 DEF Mappers

(* A frame with one reference is in the page table of its only user.       *)
LEMMA SoleUser ==
  ASSUME NEW m, NEW r, NEW k, Sound(m, r, k), NEW f \in Frame, ~(r[f] > 1),
         NEW i \in Slot, NEW p \in UserPagesOf(m[i]), m[i][p].f = f
  PROVE  Mappers(m, f) = {i} /\ k[f] = 0 /\ r[f] = 1
<1>1. i \in Mappers(m, f)
  BY DEF Mappers
<1>2. r[f] = Cardinality(Mappers(m, f)) + k[f] /\ k[f] \in Nat /\ r[f] \in Nat
  BY DEF Sound, Counted
<1>3. /\ Mappers(m, f) \in SUBSET Slot
      /\ Cardinality(Mappers(m, f)) \in Nat /\ Cardinality(Mappers(m, f)) # 0
  BY <1>1, MappersCounted DEF Sound
<1>4. Cardinality(Mappers(m, f)) = 1 /\ k[f] = 0 /\ r[f] = 1
  BY <1>2, <1>3
<1>5. Mappers(m, f) = {i}
  BY Zenon, <1>1, <1>3, <1>4, CountOne DEF Sound
<1>6. QED
  BY <1>4, <1>5

(* A user page has a frame, whose user its process is.                     *)
LEMMA UserPage ==
  ASSUME NEW m, NEW r, NEW k, Sound(m, r, k), NEW i \in Slot,
         NEW p \in UserPagesOf(m[i])
  PROVE  p \in Page /\ m[i][p].f \in Frame /\ i \in Mappers(m, m[i][p].f)
BY DEF Sound, LeavesTyped, UserPagesOf, Mappers

(* A mapped frame has a reference.                                         *)
LEMMA MappedIsCounted ==
  ASSUME NEW m, NEW r, NEW k, Sound(m, r, k), NEW f \in Frame,
         NEW i \in Mappers(m, f)
  PROVE  r[f] \in Nat \ {0} /\ r[f] - 1 = Cardinality(Mappers(m, f) \ {i}) + k[f]
<1>1. r[f] = Cardinality(Mappers(m, f)) + k[f] /\ k[f] \in Nat /\ r[f] \in Nat
  BY DEF Sound, Counted
<1>2. /\ Mappers(m, f) \in SUBSET Slot
      /\ Cardinality(Mappers(m, f)) \in Nat
  BY MappersCounted DEF Sound
<1>3. Cardinality(Mappers(m, f)) # 0
  BY MappersCounted DEF Sound
<1>4. Cardinality(Mappers(m, f) \ {i}) = Cardinality(Mappers(m, f)) - 1
  BY <1>2, CountOne DEF Sound
<1>5. QED
  BY <1>1, <1>2, <1>3, <1>4

(* Unmapping keeps leaves, uniqueness and exclusiveness ...                *)
LEMMA DropShape ==
  ASSUME NEW m, NEW r, NEW k, Sound(m, r, k), NEW c \in Slot, NEW T, NEW G,
         Without(m, c, T, G), NEW m2, Replaced(m, m2, c, T)
  PROVE  /\ LeavesTyped(m2) /\ OncePerSpace(m2) /\ Exclusive(m2)
         /\ Fewer(m, m2, c, G)
<1>1. /\ LeavesTyped(m) /\ OncePerSpace(m) /\ Exclusive(m)
      /\ m \in [Slot -> [Page -> PTE]]
      /\ \A i \in Slot, p \in Page :
           m[i][p].u => m[i][p].v /\ m[i][p].f \in Frame
  BY DEF Sound, LeavesTyped
<1>2. /\ T \in [Page -> PTE]
      /\ UserPagesOf(T) = UserPagesOf(m[c]) \ G
      /\ \A p \in UserPagesOf(T) : T[p] = m[c][p]
      /\ \A p \in Page : T[p].u => T[p].v
      /\ G \subseteq UserPagesOf(m[c])
  BY DEF Without
<1>3. /\ m2 \in [Slot -> [Page -> PTE]]
      /\ m2[c] = T
      /\ \A i \in Slot \ {c} : m2[i] = m[i]
  BY <1>1, <1>2 DEF Replaced
<1>4. \A i \in Slot : \A p \in UserPagesOf(m2[i]) :
        p \in UserPagesOf(m[i]) /\ m2[i][p] = m[i][p]
  BY <1>2, <1>3
<1>5. LeavesTyped(m2)
  <2> SUFFICES ASSUME NEW i \in Slot, NEW p \in Page, m2[i][p].u
               PROVE  m2[i][p].v /\ m2[i][p].f \in Frame
    BY <1>3 DEF LeavesTyped
  <2>1. m2[i][p].v
    BY <1>1, <1>2, <1>3
  <2>2. p \in UserPagesOf(m2[i])
    BY <2>1 DEF UserPagesOf
  <2>3. m2[i][p] = m[i][p]
    BY <2>2, <1>4
  <2>4. QED
    BY <2>1, <2>3, <1>1
<1>6. OncePerSpace(m2)
  BY <1>1, <1>4 DEF OncePerSpace
<1>7. Exclusive(m2)
  BY <1>1, <1>4 DEF Exclusive
<1>8. ASSUME NEW f \in Frame
      PROVE  Mappers(m2, f) = IF \E p \in G : m[c][p].f = f
                              THEN Mappers(m, f) \ {c} ELSE Mappers(m, f)
  <2>1. \A i \in Slot \ {c} : i \in Mappers(m2, f) <=> i \in Mappers(m, f)
    BY <1>3 DEF Mappers
  <2>2. Mappers(m2, f) \subseteq Slot /\ Mappers(m, f) \subseteq Slot
    BY DEF Mappers
  <2>3. CASE \E p \in G : m[c][p].f = f
    <3>1. PICK p \in G : m[c][p].f = f
      BY <2>3
    <3>2. \A q \in UserPagesOf(T) : T[q].f # f
      BY <3>1, <1>1, <1>2 DEF OncePerSpace
    <3>3. c \notin Mappers(m2, f)
      BY <3>2, <1>3 DEF Mappers
    <3>4. Mappers(m2, f) = Mappers(m, f) \ {c}
      BY <2>1, <2>2, <3>3
    <3>5. QED
      BY <2>3, <3>4
  <2>4. CASE ~ \E p \in G : m[c][p].f = f
    <3>1. c \in Mappers(m2, f) <=> c \in Mappers(m, f)
      BY <2>4, <1>2, <1>3 DEF Mappers
    <3>2. Mappers(m2, f) = Mappers(m, f)
      BY <2>1, <2>2, <3>1
    <3>3. QED
      BY <2>4, <3>2
  <2>5. QED
    BY <2>3, <2>4
<1>9. QED
  BY <1>5, <1>6, <1>7, <1>8 DEF Fewer

(* ... and the counts, when each of the frames gives up one reference.     *)
LEMMA DropSound ==
  ASSUME NEW m, NEW r, NEW k, Sound(m, r, k), NEW c \in Slot, NEW T, NEW G,
         Without(m, c, T, G), NEW m2, Replaced(m, m2, c, T), NEW r2,
         OneLess(r, r2, FramesOf(m, c, G))
  PROVE  Sound(m2, r2, k)
<1>1. /\ LeavesTyped(m2) /\ OncePerSpace(m2) /\ Exclusive(m2)
      /\ Fewer(m, m2, c, G)
  BY DropShape
<1>2. /\ Counted(m, r, k) /\ Countable
      /\ r \in [Frame -> Nat] /\ k \in [Frame -> Nat]
  BY DEF Sound
<1>3. \A f \in Frame : f \in FramesOf(m, c, G) <=> \E p \in G : m[c][p].f = f
  BY DEF FramesOf
<1>4. ASSUME NEW f \in Frame
      PROVE  r2[f] \in Nat /\ r2[f] = Cardinality(Mappers(m2, f)) + k[f]
  <2>1. ASSUME NEW p \in G, m[c][p].f = f
        PROVE  r2[f] \in Nat /\ r2[f] = Cardinality(Mappers(m2, f)) + k[f]
    <3>1. p \in UserPagesOf(m[c])
      BY DEF Without
    <3>2. c \in Mappers(m, f)
      BY <2>1, <3>1 DEF Mappers
    <3>3. Mappers(m2, f) = Mappers(m, f) \ {c}
      BY <2>1, <1>1 DEF Fewer
    <3>4. r2[f] = r[f] - 1
      BY <2>1, <1>3 DEF OneLess
    <3>5. r[f] \in Nat \ {0} /\ r[f] - 1 = Cardinality(Mappers(m, f) \ {c}) + k[f]
      BY <3>2, MappedIsCounted
    <3>6. QED
      BY <3>3, <3>4, <3>5
  <2>2. CASE ~ \E p \in G : m[c][p].f = f
    <3>1. Mappers(m2, f) = Mappers(m, f)
      BY <2>2, <1>1 DEF Fewer
    <3>2. r2[f] = r[f] /\ r[f] \in Nat
      BY <2>2, <1>2, <1>3 DEF OneLess
    <3>3. QED
      BY <3>1, <3>2, <1>2 DEF Counted
  <2>3. QED
    BY <2>1, <2>2
<1>5. r2 \in [Frame -> Nat]
  BY <1>4 DEF OneLess
<1>6. QED
  BY <1>1, <1>2, <1>4, <1>5 DEF Sound, Counted

(* A page table that is thrown away with user pages in it loses the        *)
(* references of these pages.                                              *)
LEMMA ForgetSound ==
  ASSUME NEW m, NEW r, NEW k, Sound(m, r, k), NEW c \in Slot, NEW T, NEW G,
         Without(m, c, T, G), NEW m2, Replaced(m, m2, c, T), NEW k2,
         OneMore(k, k2, FramesOf(m, c, G))
  PROVE  Sound(m2, r, k2)
<1>1. /\ LeavesTyped(m2) /\ OncePerSpace(m2) /\ Exclusive(m2)
      /\ Fewer(m, m2, c, G)
  BY DropShape
<1>2. /\ Counted(m, r, k) /\ Countable
      /\ r \in [Frame -> Nat] /\ k \in [Frame -> Nat]
  BY DEF Sound
<1>3. \A f \in Frame : f \in FramesOf(m, c, G) <=> \E p \in G : m[c][p].f = f
  BY DEF FramesOf
<1>4. ASSUME NEW f \in Frame
      PROVE  k2[f] \in Nat /\ r[f] = Cardinality(Mappers(m2, f)) + k2[f]
  <2>1. ASSUME NEW p \in G, m[c][p].f = f
        PROVE  k2[f] \in Nat /\ r[f] = Cardinality(Mappers(m2, f)) + k2[f]
    <3>1. p \in UserPagesOf(m[c])
      BY DEF Without
    <3>2. c \in Mappers(m, f)
      BY <2>1, <3>1 DEF Mappers
    <3>3. Mappers(m2, f) = Mappers(m, f) \ {c}
      BY <2>1, <1>1 DEF Fewer
    <3>4. k2[f] = k[f] + 1 /\ k[f] \in Nat
      BY <2>1, <1>2, <1>3 DEF OneMore
    <3>5. r[f] \in Nat \ {0} /\ r[f] - 1 = Cardinality(Mappers(m, f) \ {c}) + k[f]
      BY <3>2, MappedIsCounted
    <3>6. Cardinality(Mappers(m2, f)) \in Nat
      BY <1>2, MappersCounted
    <3>7. QED
      BY <3>3, <3>4, <3>5, <3>6
  <2>2. CASE ~ \E p \in G : m[c][p].f = f
    <3>1. Mappers(m2, f) = Mappers(m, f)
      BY <2>2, <1>1 DEF Fewer
    <3>2. k2[f] = k[f] /\ k[f] \in Nat
      BY <2>2, <1>2, <1>3 DEF OneMore
    <3>3. QED
      BY <3>1, <3>2, <1>2 DEF Counted
  <2>3. QED
    BY <2>1, <2>2
<1>5. k2 \in [Frame -> Nat]
  BY <1>4 DEF OneMore
<1>6. QED
  BY <1>1, <1>2, <1>4, <1>5 DEF Sound, Counted

(* Only one slot's table changes: what that does to a frame's users.       *)
LEMMA MappersChange ==
  ASSUME NEW m, NEW m2, NEW c \in Slot, SameElsewhere(m, m2, c), NEW f
  PROVE  /\ (c \in Mappers(m2, f) <=> c \in Mappers(m, f))
              => Mappers(m2, f) = Mappers(m, f)
         /\ c \notin Mappers(m2, f) => Mappers(m2, f) = Mappers(m, f) \ {c}
         /\ c \in Mappers(m2, f) => Mappers(m2, f) = Mappers(m, f) \cup {c}
<1>1. \A i \in Slot \ {c} : i \in Mappers(m2, f) <=> i \in Mappers(m, f)
  BY DEF Mappers, SameElsewhere
<1>2. Mappers(m2, f) \subseteq Slot /\ Mappers(m, f) \subseteq Slot
  BY DEF Mappers
<1>3. QED
  BY <1>1, <1>2

(* A new page gets a frame that nobody has.                                *)
LEMMA AddSound ==
  ASSUME NEW m, NEW r, NEW k, Sound(m, r, k), NEW c \in Slot, NEW T, NEW x,
         NEW n \in Frame, r[n] = 0, Added(m, c, T, x, n),
         NEW m2, Replaced(m, m2, c, T), NEW r2, r2 = RefsAdded(r, n)
  PROVE  Sound(m2, r2, k)
<1>1. /\ Countable /\ OncePerSpace(m) /\ Exclusive(m) /\ Counted(m, r, k)
      /\ r \in [Frame -> Nat] /\ k \in [Frame -> Nat]
      /\ m \in [Slot -> [Page -> PTE]]
      /\ \A i \in Slot, p \in Page :
           m[i][p].u => m[i][p].v /\ m[i][p].f \in Frame
  BY DEF Sound, LeavesTyped
<1>2. /\ T \in [Page -> PTE]
      /\ x \in Page /\ T[x].v /\ T[x].u /\ T[x].f = n
      /\ ~m[c][x].v
      /\ \A p \in Page \ {x} : T[p] = m[c][p]
  BY DEF Added
<1>3. /\ m2 \in [Slot -> [Page -> PTE]]
      /\ m2[c] = T
      /\ \A i \in Slot \ {c} : m2[i] = m[i]
  BY <1>1, <1>2 DEF Replaced
<1>4. /\ r2 \in [Frame -> Nat]
      /\ r2[n] = 1
      /\ \A f \in Frame \ {n} : r2[f] = r[f]
  BY <1>1 DEF RefsAdded
<1>5. Mappers(m, n) = {} /\ k[n] = 0
      /\ \A i \in Slot : \A p \in UserPagesOf(m[i]) : m[i][p].f # n
  BY FreeIsUnmapped
<1>6. x \notin UserPagesOf(m[c]) /\ UserPagesOf(T) = UserPagesOf(m[c]) \cup {x}
  BY <1>2 DEF UserPagesOf
<1>7. ASSUME NEW i \in Slot, NEW p \in UserPagesOf(m2[i])
      PROVE  \/ i = c /\ p = x /\ m2[i][p].f = n
             \/ p \in UserPagesOf(m[i]) /\ m2[i][p] = m[i][p] /\ m2[i][p].f # n
  <2>1. CASE i = c /\ p = x
    BY <2>1, <1>2, <1>3
  <2>2. CASE i = c /\ p # x
    <3>1. p \in UserPagesOf(m[c]) /\ p \in Page \ {x}
      BY <2>2, <1>3, <1>6 DEF UserPagesOf
    <3>2. m2[i][p] = m[i][p]
      BY <2>2, <3>1, <1>2, <1>3
    <3>3. QED
      BY <2>2, <3>1, <3>2, <1>5
  <2>3. CASE i # c
    BY <2>3, <1>3, <1>5
  <2>4. QED
    BY <2>1, <2>2, <2>3
<1>8. OncePerSpace(m2)
  BY <1>1, <1>7 DEF OncePerSpace
<1>9. Exclusive(m2)
  <2> SUFFICES ASSUME NEW i \in Slot, NEW j \in Slot,
                      NEW p \in UserPagesOf(m2[i]), NEW q \in UserPagesOf(m2[j]),
                      m2[i][p].w, m2[i][p].f = m2[j][q].f
               PROVE  i = j /\ p = q
    BY DEF Exclusive
  <2>1. CASE m2[i][p].f = n
    <3>1. i = c /\ p = x
      BY <2>1, <1>7
    <3>2. j = c /\ q = x
      BY Zenon, <2>1, <1>7
    <3>3. QED
      BY <3>1, <3>2
  <2>2. CASE m2[i][p].f # n
    <3>1. p \in UserPagesOf(m[i]) /\ m2[i][p] = m[i][p]
      BY <2>2, <1>7
    <3>2. q \in UserPagesOf(m[j]) /\ m2[j][q] = m[j][q]
      BY <2>2, <1>7
    <3>3. QED
      BY <3>1, <3>2, <1>1 DEF Exclusive
  <2>3. QED
    BY <2>1, <2>2
<1>10. LeavesTyped(m2)
  <2> SUFFICES ASSUME NEW i \in Slot, NEW p \in Page, m2[i][p].u
               PROVE  m2[i][p].v /\ m2[i][p].f \in Frame
    BY <1>3 DEF LeavesTyped
  <2>1. CASE i = c /\ p = x
    BY <2>1, <1>2, <1>3
  <2>2. CASE ~(i = c /\ p = x)
    BY <2>2, <1>1, <1>2, <1>3
  <2>3. QED
    BY <2>1, <2>2
<1>11. ASSUME NEW f \in Frame
       PROVE  r2[f] = Cardinality(Mappers(m2, f)) + k[f]
  <2>0. SameElsewhere(m, m2, c)
    BY <1>3 DEF SameElsewhere
  <2>1. CASE f = n
    <3>1. c \in Mappers(m2, f)
      BY <2>1, <1>2, <1>3, <1>6 DEF Mappers
    <3>2. Mappers(m2, f) = {c}
      BY <3>1, <2>0, <2>1, <1>5, MappersChange
    <3>3. Cardinality(Mappers(m2, f)) = 1
      BY <3>2, <1>1, CountSingle
    <3>4. QED
      BY <3>3, <2>1, <1>4, <1>5
  <2>2. CASE f # n
    <3>1. c \in Mappers(m2, f) => c \in Mappers(m, f)
      BY <2>2, <1>7 DEF Mappers
    <3>2. ASSUME NEW p \in UserPagesOf(m[c]), m[c][p].f = f
          PROVE  c \in Mappers(m2, f)
      <4>1. p \in Page \ {x} /\ p \in UserPagesOf(T)
        BY <1>6 DEF UserPagesOf
      <4>2. T[p].f = f
        BY <3>2, <4>1, <1>2
      <4>3. QED
        BY <4>1, <4>2, <1>3 DEF Mappers
    <3>3. c \in Mappers(m, f) => c \in Mappers(m2, f)
      BY <3>2 DEF Mappers
    <3>4. Mappers(m2, f) = Mappers(m, f)
      BY <3>1, <3>3, <2>0, MappersChange
    <3>5. QED
      BY <3>4, <2>2, <1>1, <1>4 DEF Counted
  <2>3. QED
    BY <2>1, <2>2
<1>12. QED
  BY <1>1, <1>4, <1>8, <1>9, <1>10, <1>11 DEF Sound, Counted

-----------------------------------------------------------------------------
(* Breaking copy-on-write keeps the counts exact and what is writable      *)
(* exclusive: a frame is made writable in place only for its last user.    *)
LEMMA CowSound ==
  ASSUME NEW m, NEW r, NEW k, Sound(m, r, k), NEW c \in Slot,
         NEW T, NEW C, NEW X, NEW g, CowBroken(m, r, c, T, C, X, g),
         NEW m2, Replaced(m, m2, c, T), NEW r2, r2 = RefsBroken(m, r, c, X, g)
  PROVE  Sound(m2, r2, k)
<1> DEFINE U == UserPagesOf(m[c])
<1>1. /\ T \in [Page -> PTE]
      /\ UserPagesOf(T) = U
      /\ \A p \in U : T[p].f = IF p \in X THEN g[p] ELSE m[c][p].f
      /\ \A p \in U : T[p].w <=> p \in C \/ m[c][p].w
      /\ \A p \in Page : T[p].u => T[p].v
      /\ \A p \in X : g[p] \in Frame /\ r[g[p]] = 0
      /\ \A p, q \in X : g[p] = g[q] => p = q
      /\ X \subseteq C /\ C \subseteq U
      /\ \A p \in C \ X : ~(r[m[c][p].f] > 1)
  BY DEF CowBroken
<1>2. /\ Countable /\ OncePerSpace(m) /\ Exclusive(m)
      /\ Counted(m, r, k)
      /\ r \in [Frame -> Nat] /\ k \in [Frame -> Nat]
      /\ m \in [Slot -> [Page -> PTE]]
      /\ \A i \in Slot, p \in Page :
           m[i][p].u => m[i][p].v /\ m[i][p].f \in Frame
  BY DEF Sound, LeavesTyped
<1>3. /\ m2 \in [Slot -> [Page -> PTE]]
      /\ m2[c] = T
      /\ \A i \in Slot \ {c} : m2[i] = m[i]
  BY <1>1, <1>2 DEF Replaced
<1>4. /\ r2 = [f \in Frame |-> r2[f]]
      /\ \A f \in Frame : r2[f] = IF \E p \in X : g[p] = f THEN 1
                                  ELSE IF \E p \in X : m[c][p].f = f
                                  THEN r[f] - 1 ELSE r[f]
  BY DEF RefsBroken, FramesOf
(* The new frames are in no page table, so they are not among the others.  *)
<1>5. ASSUME NEW p \in X, NEW i \in Slot, NEW q \in UserPagesOf(m[i])
      PROVE  m[i][q].f # g[p]
  BY <1>1, FreeIsUnmapped
<1>6. \A p \in U : /\ p \in Page
                   /\ p \in X => T[p].f = g[p]
                   /\ p \notin X => T[p].f = m[c][p].f
                   /\ T[p].f \in Frame /\ m[c][p].f \in Frame
  BY <1>1, UserPage
<1> HIDE DEF U
<1>7. ASSUME NEW p \in U, NEW q \in U, T[p].f = T[q].f
      PROVE  p = q
  <2>1. CASE p \in X /\ q \in X
    BY <1>1, <1>6, <1>7, <2>1
  <2>2. CASE p \in X /\ q \notin X
    BY <1>5, <1>6, <1>7, <2>2 DEF U
  <2>3. CASE p \notin X /\ q \in X
    BY <1>5, <1>6, <1>7, <2>3 DEF U
  <2>4. CASE p \notin X /\ q \notin X
    BY <1>2, <1>6, <1>7, <2>4 DEF U, OncePerSpace
  <2>5. QED
    BY <2>1, <2>2, <2>3, <2>4
<1>8. OncePerSpace(m2)
  <2> SUFFICES ASSUME NEW i \in Slot, NEW p \in UserPagesOf(m2[i]),
                      NEW q \in UserPagesOf(m2[i]), m2[i][p].f = m2[i][q].f
               PROVE  p = q
    BY DEF OncePerSpace
  <2>1. CASE i # c
    BY <2>1, <1>2, <1>3 DEF OncePerSpace
  <2>2. CASE i = c
    BY <2>2, <1>1, <1>3, <1>7
  <2>3. QED
    BY <2>1, <2>2
<1>9. Exclusive(m2)
  <2> SUFFICES ASSUME NEW i \in Slot, NEW j \in Slot,
                      NEW p \in UserPagesOf(m2[i]), NEW q \in UserPagesOf(m2[j]),
                      m2[i][p].w, m2[i][p].f = m2[j][q].f
               PROVE  i = j /\ p = q
    BY DEF Exclusive
  <2>1. i = j => p = q
    BY <1>8 DEF OncePerSpace
  <2>2. CASE i # c /\ j # c
    BY <2>2, <1>2, <1>3 DEF Exclusive
  <2>3. CASE i # c /\ j = c
    <3>1. /\ q \in U /\ p \in UserPagesOf(m[i])
          /\ m[i][p].w /\ m[i][p].f = T[q].f
      BY <2>3, <1>1, <1>3
    <3>2. CASE q \in X
      BY <3>1, <3>2, <1>5, <1>6
    <3>3. CASE q \notin X
      BY <3>1, <3>3, <2>3, <1>2, <1>6 DEF U, Exclusive
    <3>4. QED
      BY <3>2, <3>3
  <2>4. CASE i = c /\ j # c
    <3>1. /\ p \in U /\ q \in UserPagesOf(m[j])
          /\ T[p].w /\ T[p].f = m[j][q].f
      BY <2>4, <1>1, <1>3
    <3>2. CASE p \in X
      BY <3>1, <3>2, <1>5, <1>6
    <3>3. CASE p \in C \ X
      <4>1. ~(r[T[p].f] > 1) /\ T[p].f = m[c][p].f /\ T[p].f \in Frame
        BY <3>1, <3>3, <1>1, <1>6
      <4>2. p \in UserPagesOf(m[c])
        BY <3>1 DEF U
      <4>3. Mappers(m, T[p].f) = {c}
        BY <4>1, <4>2, SoleUser
      <4>4. j \in Mappers(m, T[p].f)
        BY <3>1 DEF Mappers
      <4>5. QED
        BY <4>3, <4>4, <2>4
    <3>4. CASE p \notin C
      <4>1. m[c][p].w /\ T[p].f = m[c][p].f
        BY <3>1, <3>4, <1>1, <1>6
      <4>2. p \in UserPagesOf(m[c])
        BY <3>1 DEF U
      <4>3. QED
        BY Zenon, <4>1, <4>2, <3>1, <2>4, <1>2 DEF Exclusive
    <3>5. QED
      BY <3>2, <3>3, <3>4
  <2>5. QED
    BY <2>1, <2>2, <2>3, <2>4
<1>10. ASSUME NEW f \in Frame
       PROVE  r2[f] \in Nat /\ r2[f] = Cardinality(Mappers(m2, f)) + k[f]
  <2>1. /\ r[f] = Cardinality(Mappers(m, f)) + k[f]
        /\ r[f] \in Nat /\ k[f] \in Nat
    BY <1>2 DEF Counted
  <2>2. SameElsewhere(m, m2, c)
    BY <1>3 DEF SameElsewhere
  <2>3. c \in Mappers(m2, f) <=> \E p \in U : T[p].f = f
    BY <1>1, <1>3 DEF Mappers
  <2>4. c \in Mappers(m, f) <=> \E p \in U : m[c][p].f = f
    BY DEF Mappers, U
  <2>5. ASSUME NEW p \in X, g[p] = f
        PROVE  r2[f] \in Nat /\ r2[f] = Cardinality(Mappers(m2, f)) + k[f]
    <3>1. Mappers(m, f) = {} /\ k[f] = 0
      BY <2>5, <1>1, FreeIsUnmapped
    <3>2. p \in U /\ T[p].f = f
      BY <2>5, <1>1, <1>6
    <3>3. Mappers(m2, f) = {c}
      BY <3>1, <3>2, <2>2, <2>3, MappersChange
    <3>4. Cardinality(Mappers(m2, f)) = 1
      BY <3>3, <1>2, CountSingle
    <3>5. r2[f] = 1
      BY <2>5, <1>4
    <3>6. QED
      BY <3>1, <3>4, <3>5
  <2>6. ASSUME ~ \E p \in X : g[p] = f, NEW p \in X, m[c][p].f = f
        PROVE  r2[f] \in Nat /\ r2[f] = Cardinality(Mappers(m2, f)) + k[f]
    <3>1. r2[f] = r[f] - 1
      BY <2>6, <1>4
    <3>2. p \in U
      BY <1>1
    <3>3. c \in Mappers(m, f)
      BY <3>2, <2>4, <2>6
    <3>4. ASSUME NEW q \in U, T[q].f = f
          PROVE  FALSE
      <4>1. q \notin X
        BY <3>4, <1>6, <2>6
      <4>2. m[c][q].f = m[c][p].f
        BY <3>4, <4>1, <1>6, <2>6
      <4>3. q = p
        BY <4>2, <3>2, <1>2 DEF OncePerSpace, U
      <4>4. QED
        BY <4>1, <4>3
    <3>5. Mappers(m2, f) = Mappers(m, f) \ {c}
      BY <3>4, <2>2, <2>3, MappersChange
    <3>6. r[f] \in Nat \ {0} /\ r[f] - 1 = Cardinality(Mappers(m, f) \ {c}) + k[f]
      BY <3>3, MappedIsCounted
    <3>7. QED
      BY <3>1, <3>5, <3>6
  <2>7. CASE ~(\E p \in X : g[p] = f) /\ ~(\E p \in X : m[c][p].f = f)
    <3>1. \A p \in U : T[p].f = f <=> m[c][p].f = f
      BY <2>7, <1>6
    <3>2. c \in Mappers(m2, f) <=> c \in Mappers(m, f)
      BY <3>1, <2>3, <2>4
    <3>3. Mappers(m2, f) = Mappers(m, f)
      BY <3>2, <2>2, MappersChange
    <3>4. r2[f] = r[f]
      BY <2>7, <1>4
    <3>5. QED
      BY <3>3, <3>4, <2>1
  <2>8. QED
    BY <2>5, <2>6, <2>7
<1>11. LeavesTyped(m2)
  <2> SUFFICES ASSUME NEW i \in Slot, NEW p \in Page, m2[i][p].u
               PROVE  m2[i][p].v /\ m2[i][p].f \in Frame
    BY <1>3 DEF LeavesTyped
  <2>1. CASE i # c
    BY <2>1, <1>2, <1>3
  <2>2. CASE i = c
    <3>1. T[p].u /\ T[p].v
      BY <2>2, <1>1, <1>3
    <3>2. p \in U
      BY <3>1, <1>1 DEF UserPagesOf
    <3>3. QED
      BY <3>1, <3>2, <2>2, <1>3, <1>6
  <2>3. QED
    BY <2>1, <2>2
<1>12. r2 \in [Frame -> Nat]
  BY <1>4, <1>10
<1>13. QED
  BY <1>2, <1>8, <1>9, <1>10, <1>11, <1>12 DEF Sound, Counted
=============================================================================
