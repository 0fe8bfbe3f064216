--------------------------- MODULE LeafEntries -----------------------------
(***************************************************************************)
(* What the processes' page tables are made of, for Kernel and for the     *)
(* facts that its proofs use: a slot's page table is a map from pages to   *)
(* leaf entries, and an entry names the frame behind the page.             *)
(***************************************************************************)
EXTENDS Integers

CONSTANTS
  MAX_PROCESSES,      \* number of slots of PROCESS_LIST
  Page,               \* user page numbers, and the console's
  Frame,              \* frames that can hold user data
  Value               \* contents of a page

Slot == 0 .. MAX_PROCESSES - 1
Device == "device"   \* the console's registers: not a managed frame
NoFrame == "none"

Leaf(f, w, cow, u) == [v |-> TRUE, f |-> f, w |-> w, cow |-> cow, u |-> u]
NoLeaf == [v |-> FALSE, f |-> NoFrame, w |-> FALSE, cow |-> FALSE, u |-> FALSE]
UartLeaf == Leaf(Device, TRUE, FALSE, FALSE)
PTE == [v : BOOLEAN, f : Frame \cup {Device, NoFrame},
        w : BOOLEAN, cow : BOOLEAN, u : BOOLEAN]
EmptyTable == [p \in Page |-> NoLeaf]

Unmapped == -1       \* what stands for the contents of a page without a frame
=============================================================================
