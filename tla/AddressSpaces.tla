--------------------------- MODULE AddressSpaces ----------------------------
(***************************************************************************)
(* Address spaces without trees: what page tables promise the rest of the  *)
(* kernel, and how Kernel models them.  A space maps user pages to leaves  *)
(* and has a set of tables, named by their places, that only grows until   *)
(* the space is taken down; each table costs a frame.                      *)
(***************************************************************************)
EXTENDS Integers, FiniteSets

CONSTANTS
  Slot, UserPage, Frame, Empty, KERNEL_STACK_PAGES,
  Place(_)   \* Place(p): the upper and the last table a walk to p needs

VARIABLES
  pt,      \* pt[i][p]: the leaf of page p in space i
  tables,  \* tables[i]: the places that have a table
  refs,    \* references to the frames of pages
  spare    \* frames that can still be handed out

vars == <<pt, tables, refs, spare>>

Init ==
  /\ spare \in Nat
  /\ \A f \in Frame : refs[f] = Cardinality({x \in Slot \X UserPage :
                         pt[x[1]][x[2]].u /\ pt[x[1]][x[2]].f = f})

Mapped(i) == {p \in UserPage : pt[i][p].v}

(* The references r after each frame in D has gained n.                    *)
Adjusted(r, D, n) == [f \in Frame |-> IF f \in D THEN r[f] + n ELSE r[f]]
FreedBy(r, D) == Cardinality({f \in D : r[f] = 1})
FramesOf(i) == {pt[i][p].f : p \in {q \in Mapped(i) : pt[i][q].u}}

MapZeroed(i) ==
  \E p \in {q \in UserPage \ Mapped(i) : pt'[i][q].v} :
    LET leaf == pt'[i][p]
        missing == Place(p) \ tables[i]
    IN  /\ leaf.u /\ ~leaf.cow
        /\ leaf.f \in Frame /\ refs[leaf.f] = 0
        /\ spare' = spare - 1 - Cardinality(missing)
        /\ spare' >= 0
        /\ tables' = [tables EXCEPT ![i] = @ \cup missing]
        /\ pt' = [pt EXCEPT ![i][p] = leaf]
        /\ refs' = [refs EXCEPT ![leaf.f] = 1]

(* A map that runs out of frames gives the page back and keeps a table     *)
(* that it had already added above.                                        *)
MapFails(i) ==
  /\ pt' = pt
  /\ \E p \in UserPage \ Mapped(i) :
       LET missing == Place(p) \ tables[i]
           kept == {t \in missing : t[1] = 2 /\ spare >= 2}
       IN  /\ spare < 1 + Cardinality(missing)
           /\ spare' = spare - Cardinality(kept)
           /\ tables' = [tables EXCEPT ![i] = @ \cup kept]
           /\ refs' = refs

Unmap(i) ==
  \E p \in {q \in Mapped(i) : pt[i][q].u /\ ~pt'[i][q].v} :
    /\ pt' = [pt EXCEPT ![i][p] = Empty]
    /\ spare' = spare + FreedBy(refs, {pt[i][p].f})
    /\ refs' = Adjusted(refs, {pt[i][p].f}, -1)
    /\ tables' = tables

(* The last user of a shared frame keeps it, another one gets a new one.   *)
BreakCow(i) ==
  \E p \in {q \in Mapped(i) : pt[i][q].cow /\ pt'[i][q].w} :
    LET old == pt[i][p]
        new == pt'[i][p].f
    IN  /\ old.u /\ ~old.w
        /\ pt' = [pt EXCEPT ![i][p] = [old EXCEPT !.w = TRUE, !.cow = FALSE,
                                                  !.f = new]]
        /\ \/ /\ refs[old.f] = 1 /\ new = old.f
              /\ refs' = refs /\ spare' = spare
           \/ /\ refs[old.f] > 1 /\ refs[new] = 0
              /\ refs' = [Adjusted(refs, {old.f}, -1) EXCEPT ![new] = 1]
              /\ spare' = spare - 1 /\ spare' >= 0
        /\ tables' = tables

(* The child gets the tables its parent's pages need in the order in which *)
(* the two passes ask for them, user pages first, until the frames run     *)
(* out, and the pages below the tables it got.                             *)
ForkTables(i, avail) ==
  LET last(p) == CHOOSE t \in Place(p) : t[1] = 1
      user == {last(p) : p \in {q \in Mapped(i) : pt[i][q].u}}
      other == {last(p) : p \in Mapped(i)} \ user
      before(t) == IF t \in user THEN {s \in user : s[2] < t[2]}
                   ELSE user \cup {s \in other : s[2] < t[2]}
      upper == {t \in UNION {Place(p) : p \in Mapped(i)} : t[1] = 2}
  IN  {t \in user \cup other : Cardinality(before(t)) + 2 <= avail}
        \cup (IF avail >= 1 THEN upper ELSE {})

Fork(i, j) ==
  LET avail == spare - 1 - KERNEL_STACK_PAGES
      got == ForkTables(i, avail)
      shared == [p \in UserPage |->
                   IF pt[i][p].u
                   THEN [pt[i][p] EXCEPT !.w = FALSE, !.cow = @ \/ pt[i][p].w]
                   ELSE pt[i][p]]
  IN  /\ avail >= 0
      /\ tables[j] = {}
      /\ spare' = avail - Cardinality(got)
      /\ pt' = [pt EXCEPT ![i] = shared,
                          ![j] = [p \in UserPage |-> IF Place(p) \subseteq got
                                                     THEN shared[p] ELSE Empty]]
      /\ tables' = [tables EXCEPT ![j] = got]
      /\ refs' = Adjusted(refs, FramesOf(i), 1)

Exit(i) ==
  /\ spare' = spare + FreedBy(refs, FramesOf(i))
  /\ pt' = [pt EXCEPT ![i] = [p \in UserPage |-> IF @[p].u THEN Empty ELSE @[p]]]
  /\ refs' = Adjusted(refs, FramesOf(i), -1)
  /\ tables' = tables

(* wait gives the root, the kernel stack and the tables back, and not the  *)
(* pages: exit has done so, and a segmentation fault loses them.           *)
TakeDown(j) ==
  /\ spare' = spare + 1 + KERNEL_STACK_PAGES + Cardinality(tables[j])
  /\ pt' = [pt EXCEPT ![j] = [p \in UserPage |-> Empty]]
  /\ tables' = [tables EXCEPT ![j] = {}]
  /\ refs' = refs

Next ==
  \E i \in Slot :
    \/ Exit(i) \/ TakeDown(i)
    \/ MapZeroed(i) \/ MapFails(i) \/ Unmap(i) \/ BreakCow(i)
    \/ \E j \in Slot \ {i} : Fork(i, j)

Spec == Init /\ [][Next]_vars
=============================================================================
