----------------------------- MODULE CopyOnWrite ----------------------------
(***************************************************************************)
(* Facts about fork with copy-on-write, continuing SharedFrames: fork      *)
(* keeps the counts exact and what is writable exclusive, and no operation *)
(* changes what another process reads.  The proofs about Kernel apply the  *)
(* lemmas at the end, one per operation, to its variables.                 *)
(***************************************************************************)
EXTENDS SharedFrames

(* fork counts the child's reference to each of the parent's frames, and   *)
(* loses those whose pages it could not map.                               *)
LEMMA ForkSound ==
  ASSUME NEW m, NEW r, NEW k, Sound(m, r, k), NEW c \in Slot,
         NEW x \in Slot \ {c}, NEW H, NEW N, NEW L, L \subseteq UserPagesOf(m[c]),
         Forked(m, c, x, H, N, L), NEW m2, ReplacedTwo(m, m2, c, H, x, N),
         NEW r2, OneMore(r, r2, FramesOf(m, c, UserPagesOf(m[c]))),
         NEW k2, OneMore(k, k2, FramesOf(m, c, L))
  PROVE  Sound(m2, r2, k2)
<1> DEFINE U == UserPagesOf(m[c])
<1>1. /\ Countable /\ OncePerSpace(m) /\ Exclusive(m) /\ Counted(m, r, k)
      /\ r \in [Frame -> Nat] /\ k \in [Frame -> Nat]
      /\ m \in [Slot -> [Page -> PTE]]
      /\ \A i \in Slot, p \in Page :
           m[i][p].u => m[i][p].v /\ m[i][p].f \in Frame
  BY DEF Sound, LeavesTyped
<1>2. /\ H \in [Page -> PTE] /\ N \in [Page -> PTE]
      /\ UserPagesOf(H) = U /\ UserPagesOf(N) = U \ L
      /\ \A p \in U : H[p].f = m[c][p].f /\ ~H[p].w
      /\ \A p \in U \ L : N[p] = H[p]
      /\ \A p \in Page : (H[p].u => H[p].v) /\ (N[p].u => N[p].v)
      /\ UserPagesOf(m[x]) = {} /\ L \subseteq U
  BY DEF Forked
<1>3. /\ m2 \in [Slot -> [Page -> PTE]]
      /\ m2[c] = H /\ m2[x] = N
      /\ \A i \in Slot \ {c, x} : m2[i] = m[i]
  BY <1>1, <1>2 DEF ReplacedTwo
<1>4. /\ r2 \in [Frame -> Nat] /\ k2 \in [Frame -> Nat]
      /\ \A f \in Frame :
           /\ r2[f] = IF \E p \in U : m[c][p].f = f THEN r[f] + 1 ELSE r[f]
           /\ k2[f] = IF \E p \in L : m[c][p].f = f THEN k[f] + 1 ELSE k[f]
  BY <1>1 DEF FramesOf, OneMore
<1>5. \A p \in U : p \in Page /\ m[c][p].f \in Frame
  BY UserPage
<1> HIDE DEF U
<1>6. ASSUME NEW i \in {c, x}, NEW p \in UserPagesOf(m2[i])
      PROVE  p \in U /\ m2[i][p].f = m[c][p].f /\ ~m2[i][p].w
  <2>1. CASE i = c
    BY <2>1, <1>2, <1>3
  <2>2. CASE i = x
    <3>1. p \in U \ L /\ m2[i][p] = N[p]
      BY <2>2, <1>2, <1>3
    <3>2. QED
      BY <3>1, <1>2
  <2>3. QED
    BY <2>1, <2>2
<1>7. OncePerSpace(m2)
  <2> SUFFICES ASSUME NEW i \in Slot, NEW p \in UserPagesOf(m2[i]),
                      NEW q \in UserPagesOf(m2[i]), m2[i][p].f = m2[i][q].f
               PROVE  p = q
    BY DEF OncePerSpace
  <2>1. CASE i \in {c, x}
    <3>1. p \in U /\ q \in U /\ m[c][p].f = m[c][q].f
      BY <2>1, <1>6
    <3>2. QED
      BY <3>1, <1>1 DEF OncePerSpace, U
  <2>2. CASE i \notin {c, x}
    <3>1. m2[i] = m[i]
      BY <2>2, <1>3
    <3>2. QED
      BY <3>1, <1>1 DEF OncePerSpace
  <2>3. QED
    BY <2>1, <2>2
<1>8. Exclusive(m2)
  <2> SUFFICES ASSUME NEW i \in Slot, NEW j \in Slot,
                      NEW p \in UserPagesOf(m2[i]), NEW q \in UserPagesOf(m2[j]),
                      m2[i][p].w, m2[i][p].f = m2[j][q].f
               PROVE  i = j /\ p = q
    BY DEF Exclusive
  <2>1. i \notin {c, x}
    BY <1>6
  <2>2. m2[i] = m[i]
    BY <2>1, <1>3
  <2>3. CASE j \in {c, x}
    <3>1. q \in UserPagesOf(m[c]) /\ m[i][p].f = m[c][q].f
      BY <2>2, <2>3, <1>6 DEF U
    <3>2. i = c
      BY <2>2, <3>1, <1>1 DEF Exclusive
    <3>3. QED
      BY <2>1, <3>2
  <2>4. CASE j \notin {c, x}
    <3>1. m2[j] = m[j]
      BY <2>4, <1>3
    <3>2. QED
      BY <2>2, <3>1, <1>1 DEF Exclusive
  <2>5. QED
    BY <2>3, <2>4
<1>9. LeavesTyped(m2)
  <2> SUFFICES ASSUME NEW i \in Slot, NEW p \in Page, m2[i][p].u
               PROVE  m2[i][p].v /\ m2[i][p].f \in Frame
    BY <1>3 DEF LeavesTyped
  <2>1. CASE i \in {c, x}
    <3>1. m2[i][p].v
      BY <2>1, <1>2, <1>3
    <3>2. p \in UserPagesOf(m2[i])
      BY <3>1 DEF UserPagesOf
    <3>3. p \in U /\ m2[i][p].f = m[c][p].f
      BY <3>2, <2>1, <1>6
    <3>4. QED
      BY <3>1, <3>3, <1>5
  <2>2. CASE i \notin {c, x}
    BY <2>2, <1>1, <1>3
  <2>3. QED
    BY <2>1, <2>2
<1>10. ASSUME NEW f \in Frame
       PROVE  r2[f] = Cardinality(Mappers(m2, f)) + k2[f]
  <2>1. Mappers(m2, f) \subseteq Slot /\ Mappers(m, f) \subseteq Slot
    BY DEF Mappers
  <2>2. \A i \in Slot \ {c, x} : i \in Mappers(m2, f) <=> i \in Mappers(m, f)
    BY <1>3 DEF Mappers
  <2>3. c \in Mappers(m2, f) <=> c \in Mappers(m, f)
    BY <1>2, <1>3 DEF Mappers, U
  <2>4. x \notin Mappers(m, f)
    BY <1>2 DEF Mappers
  <2>5. x \in Mappers(m2, f) <=> \E p \in U \ L : m[c][p].f = f
    <3>1. x \in Mappers(m2, f) <=> \E p \in UserPagesOf(N) : N[p].f = f
      BY <1>3 DEF Mappers
    <3>2. QED
      BY <3>1, <1>2
  <2>6. /\ r[f] = Cardinality(Mappers(m, f)) + k[f]
        /\ r[f] \in Nat /\ k[f] \in Nat
    BY <1>1 DEF Counted
  <2>7. \A i \in Slot \ {x} : i \in Mappers(m2, f) <=> i \in Mappers(m, f)
    BY <2>2, <2>3
  <2>8. Cardinality(Mappers(m, f)) \in Nat
    BY <1>1, MappersCounted
  <2>9. CASE ~ \E p \in U : m[c][p].f = f
    <3>1. x \notin Mappers(m2, f)
      BY <2>5, <2>9
    <3>2. Mappers(m2, f) = Mappers(m, f)
      BY <2>1, <2>4, <2>7, <3>1
    <3>3. r2[f] = r[f] /\ k2[f] = k[f]
      BY <2>9, <1>2, <1>4
    <3>4. QED
      BY <3>2, <3>3, <2>6
  <2>10. ASSUME NEW p \in U, m[c][p].f = f
         PROVE  r2[f] = Cardinality(Mappers(m2, f)) + k2[f]
    <3>1. \A q \in U : m[c][q].f = f => q = p
      BY <2>10, <1>1 DEF OncePerSpace, U
    <3>2. r2[f] = r[f] + 1
      BY <2>10, <1>4
    <3>3. CASE p \notin L
      <4>1. k2[f] = k[f]
        BY <3>1, <3>3, <1>2, <1>4
      <4>2. x \in Mappers(m2, f)
        BY <2>5, <2>10, <3>3
      <4>3. Mappers(m2, f) = Mappers(m, f) \cup {x}
        BY <4>2, <2>1, <2>7
      <4>4. Cardinality(Mappers(m2, f)) = Cardinality(Mappers(m, f)) + 1
        BY <4>3, <2>1, <2>4, <1>1 DEF Countable
      <4>5. QED
        BY <4>1, <4>4, <3>2, <2>6, <2>8
    <3>4. CASE p \in L
      <4>1. k2[f] = k[f] + 1
        BY <2>10, <3>4, <1>4
      <4>2. x \notin Mappers(m2, f)
        BY <2>5, <3>1, <3>4
      <4>3. Mappers(m2, f) = Mappers(m, f)
        BY <4>2, <2>1, <2>4, <2>7
      <4>4. QED
        BY <4>1, <4>3, <3>2, <2>6, <2>8
    <3>5. QED
      BY <3>3, <3>4
  <2>11. QED
    BY <2>9, <2>10
<1>11. QED
  BY <1>1, <1>4, <1>7, <1>8, <1>9, <1>10 DEF Sound, Counted

-----------------------------------------------------------------------------
(* Only the contents of frames that a process maps matter to it.           *)
LEMMA ReadElsewhere ==
  ASSUME NEW m, NEW r, NEW k, Sound(m, r, k), NEW i \in Slot, NEW d, NEW d2,
         \A f \in Frame : i \in Mappers(m, f) => d2[f] = d[f]
  PROVE  ReadsSame(m, d, d2, i)
<1>1. \A p \in UserPagesOf(m[i]) : d2[m[i][p].f] = d[m[i][p].f]
  BY UserPage
<1>2. QED
  BY <1>1 DEF Read, ReadsSame

(* Breaking copy-on-write changes nothing that anybody reads, and a store  *)
(* to writable pages is seen by their process only, in these pages only.   *)
LEMMA CowContents ==
  ASSUME NEW m, NEW r, NEW k, Sound(m, r, k), NEW c \in Slot,
         NEW T, NEW C, NEW X, NEW g, CowBroken(m, r, c, T, C, X, g),
         NEW W, W \subseteq UserPagesOf(T), \A p \in W : T[p].w,
         NEW v, NEW d, NEW d2, DataBroken(m, c, T, X, g, W, v, d, d2)
  PROVE  /\ Read(T, d2) = [p \in Page |-> IF p \in W THEN v ELSE Read(m[c], d)[p]]
         /\ MayWrite(T) = MayWrite(m[c])
         /\ \A i \in Slot \ {c} : ReadsSame(m, d, d2, i)
<1> DEFINE m2 == [m EXCEPT ![c] = T]
           r2 == RefsBroken(m, r, c, X, g)
           U == UserPagesOf(m[c])
<1>1. Sound(m2, r2, k)
  <2>1. Replaced(m, m2, c, T)
    BY DEF Replaced
  <2> HIDE DEF m2, r2
  <2>2. r2 = RefsBroken(m, r, c, X, g)
    BY DEF r2
  <2>3. QED
    BY <2>1, <2>2, CowSound
<1>2. m2[c] = T /\ \A i \in Slot \ {c} : m2[i] = m[i]
  BY DEF Sound, LeavesTyped
<1>3. OncePerSpace(m2) /\ Exclusive(m2)
  BY <1>1 DEF Sound
<1> HIDE DEF m2, r2
<1>4. /\ UserPagesOf(T) = U /\ W \subseteq U
      /\ \A p \in U : T[p].f = IF p \in X THEN g[p] ELSE m[c][p].f
      /\ \A p \in U : T[p].w \/ T[p].cow <=> m[c][p].w \/ m[c][p].cow
      /\ \A p \in X : g[p] \in Frame /\ r[g[p]] = 0
      /\ \A p, q \in X : g[p] = g[q] => p = q
      /\ X \subseteq U
  BY DEF CowBroken
<1>5. /\ \A p \in W : d2[T[p].f] = v
      /\ \A f \in Frame : (\A p \in W : T[p].f # f) =>
           /\ \A p \in X : g[p] = f => d2[f] = d[m[c][p].f]
           /\ (\A p \in X : g[p] # f) => d2[f] = d[f]
  BY DEF DataBroken
<1>6. \A p, q \in U : T[p].f = T[q].f => p = q
  BY <1>2, <1>3, <1>4 DEF OncePerSpace
<1>7. \A p \in U : p \in Page /\ m[c][p].f \in Frame
  BY UserPage
<1>8. ASSUME NEW p \in X, NEW i \in Slot, NEW q \in UserPagesOf(m[i])
      PROVE  m[i][q].f # g[p]
  BY <1>4, FreeIsUnmapped
<1> HIDE DEF U
<1>9. ASSUME NEW p \in U \ W
      PROVE  d2[T[p].f] = d[m[c][p].f]
  <2>1. T[p].f \in Frame
    BY <1>4, <1>7
  <2>2. \A q \in W : T[q].f # T[p].f
    BY <1>4, <1>6
  <2>3. CASE p \in X
    BY <2>1, <2>2, <2>3, <1>4, <1>5
  <2>4. CASE p \notin X
    <3>1. T[p].f = m[c][p].f
      BY <2>4, <1>4
    <3>2. \A q \in X : g[q] # T[p].f
      BY <3>1, <1>8 DEF U
    <3>3. QED
      BY <3>1, <3>2, <2>1, <2>2, <1>5
  <2>5. QED
    BY <2>3, <2>4
<1>10. ASSUME NEW p \in Page
       PROVE  Read(T, d2)[p] = IF p \in W THEN v ELSE Read(m[c], d)[p]
  <2>1. CASE p \in W
    BY <2>1, <1>4, <1>5 DEF Read
  <2>2. CASE p \in U \ W
    BY <2>2, <1>4, <1>9 DEF Read, U
  <2>3. CASE p \notin U
    BY <2>3, <1>4 DEF Read, U
  <2>4. QED
    BY <2>1, <2>2, <2>3
<1>11. Read(T, d2) = [p \in Page |-> IF p \in W THEN v ELSE Read(m[c], d)[p]]
  <2>1. Read(T, d2) = [p \in Page |-> Read(T, d2)[p]]
    BY DEF Read
  <2>2. QED
    BY <2>1, <1>10
<1>12. MayWrite(T) = MayWrite(m[c])
  BY <1>4 DEF MayWrite, U
<1>13. ASSUME NEW i \in Slot \ {c}
       PROVE  ReadsSame(m, d, d2, i)
  <2>1. ASSUME NEW f \in Frame, i \in Mappers(m, f)
        PROVE  d2[f] = d[f]
    <3>1. PICK q \in UserPagesOf(m[i]) : m[i][q].f = f
      BY <2>1 DEF Mappers
    <3>2. \A p \in X : g[p] # f
      BY <3>1, <1>8
    <3>3. ASSUME NEW p \in W, T[p].f = f
          PROVE  FALSE
      <4>1. /\ p \in UserPagesOf(m2[c]) /\ q \in UserPagesOf(m2[i])
            /\ m2[c][p].w /\ m2[c][p].f = m2[i][q].f
        BY <3>1, <3>3, <1>2
      <4>2. QED
        BY <4>1, <1>3 DEF Exclusive
    <3>4. QED
      BY <3>2, <3>3, <1>5
  <2>2. QED
    BY <2>1, ReadElsewhere
<1>14. QED
  BY <1>11, <1>12, <1>13

(* A new page reads as it was filled; nobody else has its frame.           *)
LEMMA AddContents ==
  ASSUME NEW m, NEW r, NEW k, Sound(m, r, k), NEW c \in Slot, NEW T, NEW x,
         NEW n \in Frame, r[n] = 0, Added(m, c, T, x, n),
         NEW d, NEW d2, NEW z, d2[n] = z, \A f \in Frame \ {n} : d2[f] = d[f]
  PROVE  /\ Read(T, d2) = [Read(m[c], d) EXCEPT ![x] = z]
         /\ Read(m[c], d)[x] = Unmapped
         /\ MayWrite(T) \ {x} = MayWrite(m[c]) \ {x}
         /\ \A i \in Slot \ {c} : ReadsSame(m, d, d2, i)
<1>1. /\ x \in Page /\ T[x].v /\ T[x].u /\ T[x].f = n
      /\ ~m[c][x].v
      /\ \A p \in Page \ {x} : T[p] = m[c][p]
  BY DEF Added
<1>2. Mappers(m, n) = {}
      /\ \A i \in Slot : \A p \in UserPagesOf(m[i]) : m[i][p].f # n
  BY FreeIsUnmapped
<1>3. x \notin UserPagesOf(m[c]) /\ UserPagesOf(T) = UserPagesOf(m[c]) \cup {x}
  BY <1>1 DEF UserPagesOf
<1>4. \A p \in UserPagesOf(m[c]) :
        p \in Page \ {x} /\ T[p] = m[c][p] /\ m[c][p].f \in Frame \ {n}
  BY <1>1, <1>2, <1>3, UserPage
<1>5. ASSUME NEW p \in Page
      PROVE  Read(T, d2)[p] = IF p = x THEN z ELSE Read(m[c], d)[p]
  <2>1. CASE p = x
    BY <2>1, <1>1, <1>3 DEF Read
  <2>2. CASE p \in UserPagesOf(m[c])
    BY <2>2, <1>3, <1>4 DEF Read
  <2>3. CASE p # x /\ p \notin UserPagesOf(m[c])
    BY <2>3, <1>3 DEF Read
  <2>4. QED
    BY <2>1, <2>2, <2>3
<1>6. Read(T, d2) = [Read(m[c], d) EXCEPT ![x] = z]
  <2>1. /\ Read(T, d2) = [p \in Page |-> Read(T, d2)[p]]
        /\ Read(m[c], d) = [p \in Page |-> Read(m[c], d)[p]]
    BY DEF Read
  <2>2. QED
    BY <2>1, <1>1, <1>5
<1>7. Read(m[c], d)[x] = Unmapped
  BY <1>1, <1>3 DEF Read
<1>8. MayWrite(T) \ {x} = MayWrite(m[c]) \ {x}
  BY <1>3, <1>4 DEF MayWrite
<1>9. ASSUME NEW i \in Slot \ {c}
      PROVE  ReadsSame(m, d, d2, i)
  BY <1>2, ReadElsewhere
<1>10. QED
  BY <1>6, <1>7, <1>8, <1>9

(* Unmapping pages takes them from their process only: a frame that is     *)
(* freed, and overwritten with the free list's link, had no other user.    *)
LEMMA DropContents ==
  ASSUME NEW m, NEW r, NEW k, Sound(m, r, k), NEW c \in Slot, NEW T, NEW G,
         Without(m, c, T, G), NEW d, NEW d2, Freed(r, d, d2, FramesOf(m, c, G))
  PROVE  /\ Read(T, d2) =
              [p \in Page |-> IF p \in G THEN Unmapped ELSE Read(m[c], d)[p]]
         /\ MayWrite(T) = MayWrite(m[c]) \ G
         /\ \A i \in Slot \ {c} : ReadsSame(m, d, d2, i)
<1>1. /\ UserPagesOf(T) = UserPagesOf(m[c]) \ G
      /\ \A p \in UserPagesOf(T) : T[p] = m[c][p]
      /\ G \subseteq UserPagesOf(m[c])
  BY DEF Without
<1>2. ASSUME NEW p \in UserPagesOf(T)
      PROVE  d2[T[p].f] = d[m[c][p].f]
  <2>1. T[p] = m[c][p] /\ m[c][p].f \in Frame
    BY <1>1, UserPage
  <2>2. \A q \in G : m[c][q].f # m[c][p].f
    BY <1>1 DEF Sound, OncePerSpace
  <2>3. m[c][p].f \notin FramesOf(m, c, G)
    BY <2>2 DEF FramesOf
  <2>4. QED
    BY <2>1, <2>3 DEF Freed
<1>3. ASSUME NEW p \in Page
      PROVE  Read(T, d2)[p] = IF p \in G THEN Unmapped ELSE Read(m[c], d)[p]
  <2>1. CASE p \in UserPagesOf(T)
    BY <2>1, <1>1, <1>2 DEF Read
  <2>2. CASE p \notin UserPagesOf(T)
    BY <2>2, <1>1 DEF Read
  <2>3. QED
    BY <2>1, <2>2
<1>4. Read(T, d2) =
        [p \in Page |-> IF p \in G THEN Unmapped ELSE Read(m[c], d)[p]]
  <2>1. Read(T, d2) = [p \in Page |-> Read(T, d2)[p]]
    BY DEF Read
  <2>2. QED
    BY <2>1, <1>3
<1>5. MayWrite(T) = MayWrite(m[c]) \ G
  BY <1>1 DEF MayWrite
<1>6. ASSUME NEW i \in Slot \ {c}
      PROVE  ReadsSame(m, d, d2, i)
  <2>1. ASSUME NEW f \in Frame, i \in Mappers(m, f), d2[f] # d[f]
        PROVE  FALSE
    <3>1. r[f] = 1 /\ f \in FramesOf(m, c, G)
      BY <2>1 DEF Freed
    <3>2. PICK p \in UserPagesOf(m[c]) : m[c][p].f = f
      BY <3>1, <1>1 DEF FramesOf
    <3>3. Mappers(m, f) = {c}
      BY <3>1, <3>2, SoleUser
    <3>4. QED
      BY <2>1, <3>3
  <2>2. QED
    BY <2>1, ReadElsewhere
<1>7. QED
  BY <1>4, <1>5, <1>6

(* fork takes nothing from the parent's view and gives the child the same, *)
(* apart from the pages it could not map.                                  *)
LEMMA ForkContents ==
  ASSUME NEW m, NEW c \in Slot, NEW x \in Slot, NEW H, NEW N, NEW L,
         L \subseteq UserPagesOf(m[c]), Forked(m, c, x, H, N, L), NEW d
  PROVE  /\ Read(H, d) = Read(m[c], d) /\ MayWrite(H) = MayWrite(m[c])
         /\ Read(N, d) =
              [p \in Page |-> IF p \in L THEN Unmapped ELSE Read(m[c], d)[p]]
         /\ MayWrite(N) = MayWrite(m[c]) \ L
         /\ Read(m[x], d) = [p \in Page |-> Unmapped]
<1>1. /\ UserPagesOf(H) = UserPagesOf(m[c])
      /\ UserPagesOf(N) = UserPagesOf(m[c]) \ L
      /\ \A p \in UserPagesOf(H) : /\ H[p].f = m[c][p].f /\ ~H[p].w
                                   /\ H[p].cow <=> m[c][p].w \/ m[c][p].cow
      /\ \A p \in UserPagesOf(N) : N[p] = H[p]
      /\ UserPagesOf(m[x]) = {}
  BY DEF Forked
<1>2. Read(H, d) = Read(m[c], d)
  BY <1>1 DEF Read
<1>3. MayWrite(H) = MayWrite(m[c])
  BY <1>1 DEF MayWrite
<1>4. ASSUME NEW p \in Page
      PROVE  Read(N, d)[p] = IF p \in L THEN Unmapped ELSE Read(m[c], d)[p]
  BY <1>1 DEF Read
<1>5. Read(N, d) =
        [p \in Page |-> IF p \in L THEN Unmapped ELSE Read(m[c], d)[p]]
  <2>1. Read(N, d) = [p \in Page |-> Read(N, d)[p]]
    BY DEF Read
  <2>2. QED
    BY <2>1, <1>4
<1>6. MayWrite(N) = MayWrite(m[c]) \ L
  BY <1>1 DEF MayWrite
<1>7. Read(m[x], d) = [p \in Page |-> Unmapped]
  BY <1>1 DEF Read
<1>8. QED
  BY <1>2, <1>3, <1>5, <1>6, <1>7

-----------------------------------------------------------------------------
(* The operations as a whole: each keeps a sound state sound and does to   *)
(* what the processes see what it is meant to do.                          *)

(* What a page that may be written shows is a value.                       *)
LEMMA WritableIsMapped ==
  ASSUME NEW m, NEW r, NEW k, NEW d, SoundState(m, r, k, d), NEW i \in Slot,
         NEW p \in MayWrite(m[i])
  PROVE  p \in Page /\ Read(m[i], d)[p] # Unmapped
<1>1. p \in UserPagesOf(m[i]) /\ Sound(m, r, k)
  BY DEF MayWrite, SoundState
<1>2. p \in Page /\ m[i][p].f \in Frame
  BY <1>1, UserPage
<1>3. QED
  BY <1>1, <1>2 DEF Read, SoundState

(* A table that shows t's pages but those of G shows part of t.            *)
LEMMA PartShown ==
  ASSUME NEW m, NEW r, NEW k, NEW d, SoundState(m, r, k, d), NEW i \in Slot,
         NEW t2, NEW d2, NEW G,
         Read(t2, d2) =
           [p \in Page |-> IF p \in G THEN Unmapped ELSE Read(m[i], d)[p]],
         MayWrite(t2) = MayWrite(m[i]) \ G
  PROVE  ShowsPart(m[i], d, t2, d2)
<1>1. \A p \in Page : Read(t2, d2)[p] = IF p \in G THEN Unmapped
                                        ELSE Read(m[i], d)[p]
  OBVIOUS
<1>2. \A p \in MayWrite(m[i]) : p \in Page /\ Read(m[i], d)[p] # Unmapped
  BY WritableIsMapped
<1>3. MayWrite(t2) = {p \in MayWrite(m[i]) : Read(t2, d2)[p] # Unmapped}
  BY <1>1, <1>2
<1>4. QED
  BY <1>1, <1>3 DEF ShowsPart

(* Who keeps page table and contents keeps the view.                       *)
LEMMA OthersKept ==
  ASSUME NEW m, NEW m2, NEW d, NEW d2, NEW K, Elsewhere(m, m2, K),
         \A i \in Slot \ K : ReadsSame(m, d, d2, i)
  PROVE  OthersSee(m, d, m2, d2, K)
BY DEF Elsewhere, OthersSee, ReadsSame

(* Replacing one table.                                                    *)
LEMMA OneReplaced ==
  ASSUME NEW m, NEW r, NEW k, Sound(m, r, k), NEW c \in Slot, NEW T, NEW m2,
         Replaced(m, m2, c, T)
  PROVE  m2[c] = T /\ Elsewhere(m, m2, {c})
BY DEF Sound, LeavesTyped, Replaced, Elsewhere

(* Contents stay contents.                                                 *)
LEMMA CowTyped ==
  ASSUME NEW m, NEW r, NEW k, NEW d, SoundState(m, r, k, d), NEW c \in Slot,
         NEW T, NEW C, NEW X, NEW g, CowBroken(m, r, c, T, C, X, g),
         NEW W, NEW v \in Value, NEW d2, OnFrames(d2),
         DataBroken(m, c, T, X, g, W, v, d, d2)
  PROVE  d2 \in [Frame -> Value]
<1>1. Sound(m, r, k) /\ d \in [Frame -> Value] /\ X \subseteq UserPagesOf(m[c])
  BY DEF SoundState, CowBroken
<1>2. \A p \in X : m[c][p].f \in Frame
  BY <1>1, UserPage
<1>3. ASSUME NEW f \in Frame PROVE d2[f] \in Value
  <2>1. CASE \E p \in W : T[p].f = f
    BY <2>1 DEF DataBroken
  <2>2. ASSUME \A p \in W : T[p].f # f, NEW p \in X, g[p] = f
        PROVE  d2[f] \in Value
    <3>1. d2[f] = d[m[c][p].f]
      BY <2>2 DEF DataBroken
    <3>2. QED
      BY <1>1, <1>2, <3>1
  <2>3. CASE (\A p \in W : T[p].f # f) /\ \A p \in X : g[p] # f
    <3>1. d2[f] = d[f]
      BY <2>3 DEF DataBroken
    <3>2. QED
      BY <1>1, <3>1
  <2>4. QED
    BY <2>1, <2>2, <2>3
<1>4. QED
  BY <1>3 DEF OnFrames

(* Breaking copy-on-write and storing.                                     *)
LEMMA CowStep ==
  ASSUME NEW m, NEW r, NEW k, NEW d, SoundState(m, r, k, d), NEW c \in Slot,
         NEW T, NEW C, NEW X, NEW g, CowBroken(m, r, c, T, C, X, g),
         NEW W, CanStore(T, W), NEW v \in Value, NEW d2, OnFrames(d2),
         DataBroken(m, c, T, X, g, W, v, d, d2),
         NEW m2, Replaced(m, m2, c, T), NEW r2, r2 = RefsBroken(m, r, c, X, g)
  PROVE  SoundState(m2, r2, k, d2) /\ Stores(m, d, m2, d2, c, W, v)
         /\ Elsewhere(m, m2, {c})
<1>1. Sound(m, r, k)
  BY DEF SoundState
<1>2. Sound(m2, r2, k)
  BY <1>1, CowSound
<1>3. SoundState(m2, r2, k, d2)
  BY <1>2, CowTyped DEF SoundState
<1>4. m2[c] = T /\ Elsewhere(m, m2, {c})
  BY <1>1, OneReplaced
<1>5. /\ Read(T, d2) = [p \in Page |-> IF p \in W THEN v ELSE Read(m[c], d)[p]]
      /\ MayWrite(T) = MayWrite(m[c])
      /\ \A i \in Slot \ {c} : ReadsSame(m, d, d2, i)
  BY <1>1, CowContents DEF CanStore
<1>6. W \subseteq MayWrite(T)
  BY DEF MayWrite, CanStore
<1>7. StoresIn(m[c], d, m2[c], d2, W, v)
  BY <1>4, <1>5, <1>6 DEF StoresIn
<1>8. OthersSee(m, d, m2, d2, {c})
  BY <1>4, <1>5, OthersKept
<1>9. QED
  BY <1>3, <1>4, <1>7, <1>8 DEF Stores

(* Mapping a new page that is filled with z.                               *)
LEMMA AddStep ==
  ASSUME NEW m, NEW r, NEW k, NEW d, SoundState(m, r, k, d), NEW c \in Slot,
         NEW T, NEW x, NEW n \in Frame, r[n] = 0, Added(m, c, T, x, n),
         NEW z \in Value, NEW d2, OneFilled(d, d2, n, z),
         NEW m2, Replaced(m, m2, c, T), NEW r2, r2 = RefsAdded(r, n)
  PROVE  SoundState(m2, r2, k, d2) /\ Maps(m, d, m2, d2, c, x, z)
         /\ Elsewhere(m, m2, {c})
<1>1. Sound(m, r, k) /\ d \in [Frame -> Value]
  BY DEF SoundState
<1>2. d2 \in [Frame -> Value] /\ d2[n] = z /\ \A f \in Frame \ {n} : d2[f] = d[f]
  BY <1>1 DEF OneFilled
<1>3. Sound(m2, r2, k)
  BY <1>1, AddSound
<1>4. SoundState(m2, r2, k, d2)
  BY <1>2, <1>3 DEF SoundState
<1>5. m2[c] = T /\ Elsewhere(m, m2, {c})
  BY SMTT(20), <1>1, OneReplaced
<1>6. /\ Read(T, d2) = [Read(m[c], d) EXCEPT ![x] = z]
      /\ Read(m[c], d)[x] = Unmapped
      /\ MayWrite(T) \ {x} = MayWrite(m[c]) \ {x}
      /\ \A i \in Slot \ {c} : ReadsSame(m, d, d2, i)
  BY SMTT(20), <1>1, <1>2, AddContents
<1>7. OthersSee(m, d, m2, d2, {c})
  BY <1>5, <1>6, OthersKept
<1>8. QED
  BY <1>4, <1>5, <1>6, <1>7 DEF Maps

(* Unmapping pages.                                                        *)
LEMMA DropStep ==
  ASSUME NEW m, NEW r, NEW k, NEW d, SoundState(m, r, k, d), NEW c \in Slot,
         NEW T, NEW G, Without(m, c, T, G),
         NEW d2, Freed(r, d, d2, FramesOf(m, c, G)),
         NEW m2, Replaced(m, m2, c, T),
         NEW r2, OneLess(r, r2, FramesOf(m, c, G))
  PROVE  SoundState(m2, r2, k, d2) /\ Unmaps(m, d, m2, d2, c)
         /\ Elsewhere(m, m2, {c})
<1>1. Sound(m, r, k)
  BY DEF SoundState
<1>2. Sound(m2, r2, k)
  BY <1>1, DropSound
<1>3. SoundState(m2, r2, k, d2)
  BY SMTT(20), <1>2 DEF SoundState, Freed
<1>4. m2[c] = T /\ Elsewhere(m, m2, {c})
  BY <1>1, OneReplaced
<1>5. /\ Read(T, d2) =
           [p \in Page |-> IF p \in G THEN Unmapped ELSE Read(m[c], d)[p]]
      /\ MayWrite(T) = MayWrite(m[c]) \ G
      /\ \A i \in Slot \ {c} : ReadsSame(m, d, d2, i)
  BY SMTT(20), <1>1, DropContents
<1>6. ShowsPart(m[c], d, m2[c], d2)
  BY <1>4, <1>5, PartShown
<1>7. OthersSee(m, d, m2, d2, {c})
  BY <1>4, <1>5, OthersKept
<1>8. QED
  BY <1>3, <1>4, <1>6, <1>7 DEF Unmaps

(* Replacing two tables.                                                   *)
LEMMA TwoReplaced ==
  ASSUME NEW m, NEW r, NEW k, Sound(m, r, k), NEW c \in Slot,
         NEW x \in Slot \ {c}, NEW H, NEW N, NEW m2, ReplacedTwo(m, m2, c, H, x, N)
  PROVE  m2[c] = H /\ m2[x] = N /\ Elsewhere(m, m2, {c, x})
BY DEF Sound, LeavesTyped, ReplacedTwo, Elsewhere

(* fork.                                                                   *)
LEMMA ForkStep ==
  ASSUME NEW m, NEW r, NEW k, NEW d, SoundState(m, r, k, d), NEW c \in Slot,
         NEW x \in Slot \ {c}, NEW H, NEW N, NEW L, L \subseteq UserPagesOf(m[c]),
         Forked(m, c, x, H, N, L), NEW m2, ReplacedTwo(m, m2, c, H, x, N),
         NEW r2, OneMore(r, r2, FramesOf(m, c, UserPagesOf(m[c]))),
         NEW k2, OneMore(k, k2, FramesOf(m, c, L))
  PROVE  SoundState(m2, r2, k2, d) /\ Forks(m, d, m2, c, x)
         /\ Elsewhere(m, m2, {c, x})
<1>1. Sound(m, r, k)
  BY DEF SoundState
<1>2. Sound(m2, r2, k2)
  BY SMTT(20), <1>1, ForkSound
<1>3. SoundState(m2, r2, k2, d)
  BY <1>2 DEF SoundState
<1>4. m2[c] = H /\ m2[x] = N /\ Elsewhere(m, m2, {c, x})
  BY SMTT(20), <1>1, TwoReplaced
<1>5. /\ Read(H, d) = Read(m[c], d) /\ MayWrite(H) = MayWrite(m[c])
      /\ Read(N, d) =
           [p \in Page |-> IF p \in L THEN Unmapped ELSE Read(m[c], d)[p]]
      /\ MayWrite(N) = MayWrite(m[c]) \ L
      /\ Read(m[x], d) = [p \in Page |-> Unmapped]
  BY SMTT(20), ForkContents
<1>6. ShowsPart(m[c], d, m2[x], d)
  BY <1>4, <1>5, PartShown
<1>7. OthersSee(m, d, m2, d, {x})
  BY <1>4, <1>5 DEF OthersSee, Elsewhere
<1>8. \A p \in Page : Read(m[x], d)[p] = Unmapped
  BY <1>5
<1>9. QED
  BY <1>3, <1>4, <1>6, <1>7, <1>8 DEF Forks

(* wait: slot c stores to its pages W, and slot x's table is thrown away.  *)
LEMMA ReapStep ==
  ASSUME NEW m, NEW r, NEW k, NEW d, SoundState(m, r, k, d), NEW c \in Slot,
         NEW T, NEW C, NEW X, NEW g, CowBroken(m, r, c, T, C, X, g),
         NEW W, CanStore(T, W), NEW v \in Value, NEW d2, OnFrames(d2),
         DataBroken(m, c, T, X, g, W, v, d, d2),
         NEW x \in Slot \ {c}, NEW Z, NoUserPages(Z),
         NEW m2, ReplacedTwo(m, m2, c, T, x, Z),
         NEW r2, r2 = RefsBroken(m, r, c, X, g),
         NEW k2, OneMore(k, k2, FramesOf(m, x, UserPagesOf(m[x])))
  PROVE  SoundState(m2, r2, k2, d2) /\ Reaps(m, d, m2, d2, c, x, W, v)
         /\ Elsewhere(m, m2, {c, x})
<1>1. Sound(m, r, k)
  BY DEF SoundState
<1>2. PICK m1 : Replaced(m, m1, c, T)
  BY Zenon DEF Replaced
<1>3. SoundState(m1, r2, k, d2) /\ Stores(m, d, m1, d2, c, W, v)
      /\ Elsewhere(m, m1, {c})
  BY Zenon, <1>2, CowStep
<1>4. Sound(m1, r2, k) /\ m1[c] = T /\ m1[x] = m[x]
  <2>1. m1[c] = T
    BY <1>1, <1>2 DEF Sound, LeavesTyped, Replaced
  <2>2. QED
    BY <1>3, <2>1 DEF SoundState, Elsewhere
<1>5. m2[c] = T /\ m2[x] = Z /\ Elsewhere(m, m2, {c, x})
  BY Zenon, <1>1, TwoReplaced
<1>6. Replaced(m1, m2, x, Z)
  <2>1. m \in [Slot -> [Page -> PTE]]
    BY <1>1 DEF Sound, LeavesTyped
  <2>2. m1 = [i \in Slot |-> IF i = c THEN T ELSE m[i]]
    BY Zenon, <1>2, <2>1 DEF Replaced
  <2>3. m2 = [i \in Slot |-> m2[i]]
    BY Zenon, <2>1 DEF ReplacedTwo
  <2>4. \A i \in Slot : m2[i] = IF i = x THEN Z ELSE m1[i]
    BY <2>2, <1>5 DEF Elsewhere
  <2>5. DOMAIN m1 = Slot /\ m1 = [i \in Slot |-> m1[i]]
    BY <2>2
  <2>6. m2 = [m1 EXCEPT ![x] = Z]
    BY <2>3, <2>4, <2>5
  <2>7. QED
    BY <2>6 DEF Replaced
<1>7. Without(m1, x, Z, UserPagesOf(m1[x]))
  BY Zenon DEF Without, NoUserPages
<1>8. OneMore(k, k2, FramesOf(m1, x, UserPagesOf(m1[x])))
  BY Zenon, <1>4 DEF FramesOf
<1>9. Sound(m2, r2, k2)
  BY <1>4, <1>6, <1>7, <1>8, ForgetSound
<1>10. SoundState(m2, r2, k2, d2)
  BY <1>3, <1>9 DEF SoundState
<1>11. StoresIn(m[c], d, m2[c], d2, W, v)
  BY <1>3, <1>4, <1>5 DEF Stores
<1>12. OthersSee(m, d, m2, d2, {c, x})
  BY Zenon, <1>3, <1>5 DEF Stores, OthersSee, Elsewhere
<1>13. (\A p \in Page : Read(m2[x], d2)[p] = Unmapped) /\ MayWrite(m2[x]) = {}
  BY Zenon, <1>5 DEF NoUserPages, Read, MayWrite
<1>14. QED
  BY <1>5, <1>10, <1>11, <1>12, <1>13 DEF Reaps

(* wait through the kernel's map of RAM: v is stored to the frame n, and   *)
(* slot x's table is thrown away.                                          *)
LEMMA OverwriteStep ==
  ASSUME NEW m, NEW r, NEW k, NEW d, SoundState(m, r, k, d), NEW x \in Slot,
         NEW Z, NoUserPages(Z), NEW m2, Replaced(m, m2, x, Z),
         NEW n \in Frame, NEW v \in Value, NEW d2, OneFilled(d, d2, n, v),
         NEW k2, OneMore(k, k2, FramesOf(m, x, UserPagesOf(m[x])))
  PROVE  SoundState(m2, r, k2, d2) /\ Overwrites(m, d, m2, d2, x, v)
         /\ Elsewhere(m, m2, {x})
<1>1. Sound(m, r, k) /\ d \in [Frame -> Value] /\ Unmapped \notin Value
  BY DEF SoundState
<1>2. d2 \in [Frame -> Value] /\ d2[n] = v /\ \A f \in Frame \ {n} : d2[f] = d[f]
  BY <1>1 DEF OneFilled
<1>3. m2[x] = Z /\ Elsewhere(m, m2, {x})
  BY <1>1, OneReplaced
<1>4. SoundState(m2, r, k2, d2)
  <2>1. Without(m, x, Z, UserPagesOf(m[x]))
    BY Zenon DEF Without, NoUserPages
  <2>2. Sound(m2, r, k2)
    BY <1>1, <2>1, ForgetSound
  <2>3. QED
    BY <1>1, <1>2, <2>2 DEF SoundState
<1>5. (\A p \in Page : Read(m2[x], d2)[p] = Unmapped) /\ MayWrite(m2[x]) = {}
  BY Zenon, <1>3 DEF NoUserPages, Read, MayWrite
<1>6. \A i \in Slot \ {x} : m2[i] = m[i]
  BY <1>3 DEF Elsewhere
<1>7. ASSUME NEW i \in Slot \ {x}, NEW p \in Altered(m, d, m2, d2, i)
      PROVE  /\ p \in UserPagesOf(m[i]) /\ m[i][p].f = n
             /\ Read(m[i], d)[p] = d[n] /\ Read(m2[i], d2)[p] = v
  <2>1. p \in Page /\ Read(m[i], d2)[p] # Read(m[i], d)[p]
    BY <1>6, <1>7 DEF Altered
  <2>2. p \in UserPagesOf(m[i])
    BY <2>1 DEF Read
  <2>3. m[i][p].f \in Frame
    BY <1>1, <2>2 DEF Sound, LeavesTyped, UserPagesOf
  <2>4. /\ Read(m[i], d)[p] = d[m[i][p].f]
        /\ Read(m[i], d2)[p] = d2[m[i][p].f]
    BY <2>1, <2>2 DEF Read
  <2>5. m[i][p].f = n
    BY <1>2, <2>1, <2>3, <2>4
  <2>6. QED
    BY <1>2, <1>6, <2>2, <2>4, <2>5
<1>8. d[n] # Unmapped
  BY <1>1
<1>9. ASSUME NEW i \in Slot \ {x}, NEW p \in Altered(m, d, m2, d2, i),
             NEW j \in Slot \ {x}, NEW q \in Altered(m, d, m2, d2, j)
      PROVE  Read(m[j], d)[q] = Read(m[i], d)[p] /\ (j = i => q = p)
  <2>1. /\ p \in UserPagesOf(m[i]) /\ m[i][p].f = n /\ Read(m[i], d)[p] = d[n]
        /\ q \in UserPagesOf(m[j]) /\ m[j][q].f = n /\ Read(m[j], d)[q] = d[n]
    BY Zenon, <1>7
  <2>2. j = i => q = p
    BY <1>1, <2>1 DEF Sound, OncePerSpace
  <2>3. QED
    BY Zenon, <2>1, <2>2
<1>10. \A i \in Slot \ {x} : MayWrite(m2[i]) = MayWrite(m[i])
  BY <1>6
<1>11. \A i \in Slot \ {x} : \A p \in Altered(m, d, m2, d2, i) :
         Read(m[i], d)[p] # Unmapped /\ Read(m2[i], d2)[p] = v
  BY Zenon, <1>7, <1>8
<1>12. Overwrites(m, d, m2, d2, x, v)
  BY Zenon, <1>5, <1>9, <1>10, <1>11 DEF Overwrites
<1>13. QED
  BY <1>3, <1>4, <1>12
=============================================================================
