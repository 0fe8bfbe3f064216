------------------------------- MODULE Sharing -------------------------------
(***************************************************************************)
(* The vocabulary of the proofs about copy-on-write: when page tables      *)
(* share frames soundly, and the ways in which the kernel's handlers       *)
(* change them.  Page tables m, reference counts r, lost references k and  *)
(* contents d are values here, because a handler that does two things goes *)
(* through an intermediate one.                                            *)
(***************************************************************************)
EXTENDS LeafEntries, FiniteSets

UserPagesOf(t) == {p \in Page : t[p].v /\ t[p].u}
Mappers(m, f) == {i \in Slot : \E p \in UserPagesOf(m[i]) : m[i][p].f = f}

LeavesTyped(m) ==
  /\ m \in [Slot -> [Page -> PTE]]
  /\ \A i \in Slot, p \in Page : m[i][p].u => m[i][p].v /\ m[i][p].f \in Frame

(* A process has a frame at one page only.                                 *)
OncePerSpace(m) ==
  \A i \in Slot : \A p, q \in UserPagesOf(m[i]) : m[i][p].f = m[i][q].f => p = q

(* No other process has a frame that one can write.                        *)
Exclusive(m) ==
  \A i, j \in Slot : \A p \in UserPagesOf(m[i]), q \in UserPagesOf(m[j]) :
    m[i][p].w /\ m[i][p].f = m[j][q].f => i = j /\ p = q

Counted(m, r, k) == \A f \in Frame : r[f] = Cardinality(Mappers(m, f)) + k[f]

(* What is used of counting address spaces: they are finitely many.        *)
Countable ==
  \A A \in SUBSET Slot :
    /\ Cardinality(A) \in Nat
    /\ Cardinality(A) = 0 <=> A = {}
    /\ \A x \in Slot \ A : Cardinality(A \cup {x}) = Cardinality(A) + 1

Sound(m, r, k) ==
  /\ Countable
  /\ LeavesTyped(m)
  /\ r \in [Frame -> Nat]
  /\ k \in [Frame -> Nat]
  /\ OncePerSpace(m)
  /\ Exclusive(m)
  /\ Counted(m, r, k)

-----------------------------------------------------------------------------
(* The ways in which handlers change page tables and counts.               *)

(* Slot c's table becomes one that has some of its user pages, G, no more: *)
(* exactly the frames of these pages lose a user (Fewer).                  *)
Without(m, c, T, G) ==
  /\ T \in [Page -> PTE]
  /\ UserPagesOf(T) = UserPagesOf(m[c]) \ G
  /\ \A p \in UserPagesOf(T) : T[p] = m[c][p]
  /\ \A p \in Page : T[p].u => T[p].v
  /\ G \subseteq UserPagesOf(m[c])

Replaced(m, m2, c, T) == m2 = [m EXCEPT ![c] = T]
Fewer(m, m2, c, G) ==
  \A f \in Frame : Mappers(m2, f) = IF \E p \in G : m[c][p].f = f
                                    THEN Mappers(m, f) \ {c} ELSE Mappers(m, f)

FramesOf(m, c, G) == {m[c][p].f : p \in G}
OneLess(s, s2, F) ==
  s2 = [f \in Frame |-> IF f \in F THEN s[f] - 1 ELSE s[f]]
OneMore(s, s2, F) ==
  s2 = [f \in Frame |-> IF f \in F THEN s[f] + 1 ELSE s[f]]

SameElsewhere(m, m2, c) == \A i \in Slot \ {c} : m2[i] = m[i]

(* A page x that had no leaf gets the free frame n.                        *)
Added(m, c, T, x, n) ==
  /\ T \in [Page -> PTE]
  /\ x \in Page /\ T[x].v /\ T[x].u /\ T[x].f = n
  /\ ~m[c][x].v
  /\ \A p \in Page \ {x} : T[p] = m[c][p]

RefsAdded(r, n) == [r EXCEPT ![n] = 1]

(* Breaking copy-on-write: of the pages C of slot c, those in X get frames *)
(* g of their own and the others, whose frame nobody else has, become      *)
(* writable as they are.                                                   *)
CowBroken(m, r, c, T, C, X, g) ==
  /\ T \in [Page -> PTE]
  /\ UserPagesOf(T) = UserPagesOf(m[c])
  /\ \A p \in UserPagesOf(T) : T[p].f = IF p \in X THEN g[p] ELSE m[c][p].f
  /\ \A p \in UserPagesOf(T) : T[p].w <=> p \in C \/ m[c][p].w
  /\ \A p \in UserPagesOf(T) : T[p].w \/ T[p].cow <=> m[c][p].w \/ m[c][p].cow
  /\ \A p \in Page : T[p].u => T[p].v
  /\ \A p \in X : g[p] \in Frame /\ r[g[p]] = 0
  /\ \A p, q \in X : g[p] = g[q] => p = q
  /\ X \subseteq C /\ C \subseteq UserPagesOf(m[c])
  /\ \A p \in C \ X : ~(r[m[c][p].f] > 1)

RefsBroken(m, r, c, X, g) ==
  [f \in Frame |-> IF \E p \in X : g[p] = f THEN 1
                   ELSE IF f \in FramesOf(m, c, X) THEN r[f] - 1 ELSE r[f]]

(* fork: the parent c keeps its pages with table H and the child x, which  *)
(* had none, gets all but the pages L with table N; none can be written.   *)
Forked(m, c, x, H, N, L) ==
  /\ H \in [Page -> PTE] /\ N \in [Page -> PTE]
  /\ UserPagesOf(H) = UserPagesOf(m[c])
  /\ UserPagesOf(N) = UserPagesOf(m[c]) \ L
  /\ \A p \in UserPagesOf(H) : /\ H[p].f = m[c][p].f /\ ~H[p].w
                               /\ H[p].cow <=> m[c][p].w \/ m[c][p].cow
  /\ \A p \in UserPagesOf(N) : N[p] = H[p]
  /\ \A p \in Page : (H[p].u => H[p].v) /\ (N[p].u => N[p].v)
  /\ UserPagesOf(m[x]) = {}

ReplacedTwo(m, m2, c, H, x, N) == m2 = [m EXCEPT ![c] = H, ![x] = N]

-----------------------------------------------------------------------------
(* What a process reads through its page table, and where it may store.    *)
Read(t, d) == [p \in Page |-> IF p \in UserPagesOf(t) THEN d[t[p].f] ELSE Unmapped]
MayWrite(t) == {p \in UserPagesOf(t) : t[p].w \/ t[p].cow}

ReadsSame(m, d, d2, i) == Read(m[i], d2) = Read(m[i], d)

(* The contents after copies into the new frames g and a store of v to the *)
(* pages W.                                                                *)
DataBroken(m, c, T, X, g, W, v, d, d2) ==
  /\ \A p \in W : d2[T[p].f] = v
  /\ \A f \in Frame : (\A p \in W : T[p].f # f) =>
       /\ \A p \in X : g[p] = f => d2[f] = d[m[c][p].f]
       /\ (\A p \in X : g[p] # f) => d2[f] = d[f]

(* The contents after freeing those of the frames F that have one          *)
(* reference left.                                                         *)
Freed(r, d, d2, F) ==
  /\ d2 \in [Frame -> Value]
  /\ \A f \in Frame : ~(f \in F /\ r[f] = 1) => d2[f] = d[f]

OnFrames(d) == d = [f \in Frame |-> d[f]]
OneFilled(d, d2, n, z) == d2 = [d EXCEPT ![n] = z]

-----------------------------------------------------------------------------
(* What the operations do as a whole to what the processes see: slots      *)
(* outside K see the same, c stores v to its pages W, maps a page x filled *)
(* with z, loses pages, forks x, collects x.                               *)
SoundState(m, r, k, d) ==
  Sound(m, r, k) /\ d \in [Frame -> Value] /\ Unmapped \notin Value

OthersSee(m, d, m2, d2, K) ==
  \A i \in Slot \ K : /\ Read(m2[i], d2) = Read(m[i], d)
                      /\ MayWrite(m2[i]) = MayWrite(m[i])

StoresIn(t, d, t2, d2, W, v) ==
  /\ W \subseteq MayWrite(t)
  /\ Read(t2, d2) = [p \in Page |-> IF p \in W THEN v ELSE Read(t, d)[p]]
  /\ MayWrite(t2) = MayWrite(t)

Stores(m, d, m2, d2, c, W, v) ==
  OthersSee(m, d, m2, d2, {c}) /\ StoresIn(m[c], d, m2[c], d2, W, v)

Maps(m, d, m2, d2, c, x, z) ==
  /\ OthersSee(m, d, m2, d2, {c})
  /\ Read(m[c], d)[x] = Unmapped
  /\ Read(m2[c], d2) = [Read(m[c], d) EXCEPT ![x] = z]
  /\ MayWrite(m2[c]) \ {x} = MayWrite(m[c]) \ {x}

(* t2 shows what t shows, or nothing.                                      *)
ShowsPart(t, d, t2, d2) ==
  /\ \A p \in Page : Read(t2, d2)[p] \in {Read(t, d)[p], Unmapped}
  /\ MayWrite(t2) = {p \in MayWrite(t) : Read(t2, d2)[p] # Unmapped}

Unmaps(m, d, m2, d2, c) ==
  OthersSee(m, d, m2, d2, {c}) /\ ShowsPart(m[c], d, m2[c], d2)

Forks(m, d, m2, c, x) ==
  /\ OthersSee(m, d, m2, d, {x})
  /\ \A p \in Page : Read(m[x], d)[p] = Unmapped
  /\ ShowsPart(m[c], d, m2[x], d)

Reaps(m, d, m2, d2, c, x, W, v) ==
  /\ OthersSee(m, d, m2, d2, {c, x})
  /\ StoresIn(m[c], d, m2[c], d2, W, v)
  /\ \A p \in Page : Read(m2[x], d2)[p] = Unmapped
  /\ MayWrite(m2[x]) = {}

(* x is collected and v is stored to a frame itself: slots that had the    *)
(* frame now read v in it, which is at one page of theirs.                 *)
Altered(m, d, m2, d2, i) == {p \in Page : Read(m2[i], d2)[p] # Read(m[i], d)[p]}
Overwrites(m, d, m2, d2, x, v) ==
  /\ \A p \in Page : Read(m2[x], d2)[p] = Unmapped
  /\ MayWrite(m2[x]) = {}
  /\ \A i \in Slot \ {x} : MayWrite(m2[i]) = MayWrite(m[i])
  /\ \A i \in Slot \ {x} : \A p \in Altered(m, d, m2, d2, i) :
       /\ Read(m[i], d)[p] # Unmapped /\ Read(m2[i], d2)[p] = v
       /\ \A j \in Slot \ {x} : \A q \in Altered(m, d, m2, d2, j) :
            Read(m[j], d)[q] = Read(m[i], d)[p] /\ (j = i => q = p)

Elsewhere(m, m2, K) == \A i \in Slot \ K : m2[i] = m[i]
CanStore(t, W) == W \subseteq UserPagesOf(t) /\ \A p \in W : t[p].w
NoUserPages(t) ==
  /\ t \in [Page -> PTE]
  /\ UserPagesOf(t) = {}
  /\ \A p \in Page : t[p].u => t[p].v
=============================================================================
