----------------------------- MODULE MCSmokeTest -----------------------------
(* SmokeTest on the layout of MCUserRegions, from no free frame to more    *)
(* than the program needs.                                                 *)
EXTENDS SmokeTest

MCExitCode == {0, 1, 42}
MCProtArg == {{"READ", "WRITE"}}
=============================================================================
