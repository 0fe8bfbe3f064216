---------------------------- MODULE MCUserRegions ----------------------------
(* UserRegions with two-byte pages: a heap of three pages, the second of   *)
(* them the console's, a mmap window of four pages, a six-bit usize.       *)
EXTENDS UserRegions

MCAddrArg == {0, 5, 7, 10, 12, 13, 17, 62, 63}
MCLenArg == {0, 2, 3, 6, 63}
MCFlagsArg == {{"PRIVATE", "ANONYMOUS"}, {"PRIVATE", "ANONYMOUS", "FIXED"}}
MCProtArg == {{"WRITE"}, {"READ", "EXEC"}, {}}
MCFrameBudget == {1, 4}
=============================================================================
