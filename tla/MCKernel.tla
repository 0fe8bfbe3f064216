------------------------------ MODULE MCKernel ------------------------------
(* Kernel with a heap page, a stack page and the console, each under a     *)
(* last-level table of its own.                                            *)
EXTENDS Kernel, TLC

MCInitPages == 1 :> TRUE
MCSymmetry == Permutations(Frame)
=============================================================================
