------------------------------- MODULE MCTrap -------------------------------
EXTENDS Trap

(* Saves a0 on the stack, overwrites it, loads it back and prints it. *)
SavesA0 == <<
  Addi(a7, 0, 1),
  Addi(sp, sp, -1), Sw(a0, sp, 0), Addi(a0, 0, 9),
  Lw(a0, sp, 0), Ecall,
  Jalr(ra) >>

(* Prints nothing and never ends. *)
Loop == << Jal(0) >>

MCPrograms == {SavesA0, Loop}

==============================================================================
