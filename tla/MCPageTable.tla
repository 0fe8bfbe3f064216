---------------------------- MODULE MCPageTable -----------------------------
(* PageTable with two entries per table: a user half of four pages under   *)
(* two last-level tables, and a kernel half with one page.                 *)
EXTENDS PageTable, TLC

MCInitPages == 2 :> TRUE
MCMapProt == {[r |-> TRUE, w |-> TRUE, x |-> FALSE]}
=============================================================================
