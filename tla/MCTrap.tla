------------------------------- MODULE MCTrap -------------------------------
(***************************************************************************)
(* A small instance of the entries of the kernel for TLC.                  *)
(***************************************************************************)
EXTENDS Trap

Slices == [p \in Procs |-> IF p = 1 THEN 2 ELSE 1]
Stacks == [p \in Procs |-> 32768]
=============================================================================
