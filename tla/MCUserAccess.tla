---------------------------- MODULE MCUserAccess ----------------------------
(* UserAccess with four pages of two bytes, the first never mapped, and as *)
(* many addresses again above the virtual address space, so that every     *)
(* page has an alias there.                                                *)
EXTENDS UserAccess

MCUtsValues == <<<<5>>, <<6, 7>>>>
=============================================================================
