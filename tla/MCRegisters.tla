---------------------------- MODULE MCRegisters ----------------------------
(* Two registers instead of thirteen.  A program that holds two operands at  *)
(* once stays in phase 1 of the allocator; one that holds three comes to the *)
(* others.                                                                   *)
EXTENDS Registers, TLC

SomePrograms == {[held |-> 2, depth |-> 2], [held |-> 3, depth |-> 1]}

Operands == Permutations(Ops)
=============================================================================
