--------------------------- MODULE MCProcessTable ---------------------------
(* Instance of ProcessTable for TLC.                                       *)
EXTENDS ProcessTable
=============================================================================
