--------------------------- MODULE MCTrapContext ----------------------------
(* TrapContext with a program that computes register contents in which     *)
(* every register differs from the others, from what it starts with and    *)
(* from every result, so that no two of them can be mistaken for each      *)
(* other.                                                                  *)
EXTENDS TrapContext

MCUserState ==
  {[regs |-> [sp |-> <<"user", 1>>, t0 |-> <<"user", 2>>,
              t1 |-> <<"user", 3>>, a0 |-> <<"user", 4>>], pc |-> 2]}
=============================================================================
