----------------------------- MODULE MCConsole ------------------------------
(* Console with one message of a program and one of the kernel, and a      *)
(* message of the timer longer than the interval between two ticks.        *)
EXTENDS Console

MCUserMessage == {<<"x", "nl", "y">>}
MCKernelMessage == {<<"nl", "segfault", "nl">>}
=============================================================================
