---------------------------- MODULE PrivateMemory ----------------------------
(***************************************************************************)
(* What fork with copy-on-write promises a program: every process has a    *)
(* memory of its own.  Only its own stores and its own brk, mmap and       *)
(* munmap calls change it; fork hands the child a copy.  No frame, no      *)
(* reference count and no sharing appears here.  There is one exception,   *)
(* which says how far the promise is broken: wait lets a program store an  *)
(* exit code through the kernel's map of RAM.                              *)
(***************************************************************************)
CONSTANTS Proc, Page, Value, Zero, Unmapped

VARIABLES
  mem,       \* mem[i][p]: what process slot i reads in page p, or Unmapped
  writable,  \* writable[i]: the pages slot i may store to
  stored     \* the pages that the last step stored to, and the value; ram:
             \* the store went through the kernel's map of RAM

vars == <<mem, writable, stored>>

Typed ==
  /\ mem \in [Proc -> [Page -> Value \cup {Unmapped}]]
  /\ writable \in [Proc -> SUBSET Page]
  /\ stored \in [pages : SUBSET Page, v : Value, ram : BOOLEAN]

Init == Typed

OthersKeep(S) == \A k \in Proc \ S : mem'[k] = mem[k] /\ writable'[k] = writable[k]

Mapped(i) == {p \in Page : mem[i][p] # Unmapped}

(* i's memory after the step's stores, all of them to pages it may write.  *)
Stored(i) ==
  /\ ~stored'.ram
  /\ stored'.pages \subseteq writable[i]
  /\ mem'[i] = [p \in Page |-> IF p \in stored'.pages THEN stored'.v
                               ELSE mem[i][p]]
  /\ writable'[i] = writable[i]

NothingStored == stored'.pages = {} /\ ~stored'.ram

Store(i) == Stored(i) /\ OthersKeep({i})

(* The child j starts with a copy of i's memory; pages are missing from it *)
(* only when fork ran out of frames.                                       *)
Fork(i, j) ==
  /\ NothingStored
  /\ OthersKeep({j})
  /\ Mapped(j) = {}
  /\ \A p \in Page : mem'[j][p] \in {mem[i][p], Unmapped}
  /\ writable'[j] = {p \in writable[i] : mem'[j][p] # Unmapped}

MapZeroed(i) ==
  /\ NothingStored
  /\ OthersKeep({i})
  /\ \E p \in Page \ Mapped(i) :
       /\ mem'[i] = [mem[i] EXCEPT ![p] = Zero]
       /\ writable'[i] \ {p} = writable[i] \ {p}

(* munmap, a shrinking break, exit.                                        *)
Unmap(i) ==
  /\ NothingStored
  /\ OthersKeep({i})
  /\ \A p \in Page : mem'[i][p] \in {mem[i][p], Unmapped}
  /\ writable'[i] = {p \in writable[i] : mem'[i][p] # Unmapped}

Gone(j) == (\A p \in Page : mem'[j][p] = Unmapped) /\ writable'[j] = {}

(* i collects j: j's memory is gone, and an exit code is stored for i.     *)
Reap(i, j) ==
  /\ OthersKeep({i, j})
  /\ Gone(j)
  /\ Stored(i)

(* The same, with the code stored through the kernel's map of RAM: it is   *)
(* then what is read in pages that had the same contents before, since     *)
(* they are one frame, at most one in each memory; all else is as it was.  *)
Changed(k) == {p \in Page : mem'[k][p] # mem[k][p]}

Overwrite(j) ==
  /\ stored'.ram /\ stored'.pages = {}
  /\ Gone(j)
  /\ \A k \in Proc \ {j} : writable'[k] = writable[k]
  /\ \A k \in Proc \ {j} : \A p \in Changed(k) :
       /\ p \in Mapped(k)
       /\ mem'[k][p] = stored'.v
       /\ \A l \in Proc \ {j} : \A q \in Changed(l) :
            mem[l][q] = mem[k][p] /\ (l = k => q = p)

Next ==
  /\ Typed'
  /\ \E i \in Proc :
       \/ Store(i) \/ MapZeroed(i) \/ Unmap(i) \/ Overwrite(i)
       \/ \E j \in Proc \ {i} : Fork(i, j) \/ Reap(i, j)

Spec == Init /\ [][Next]_vars
=============================================================================
