-------------------------------- MODULE MCSdb --------------------------------
EXTENDS Sdb

(* Changes a0 and sp, together with sp when a trap comes. *)
UsesStack == <<Addi(a0, 0, 9), Addi(sp, sp, -1), Addi(sp, sp, 1), Jalr(ra)>>

(* Jumps over a word that is no instruction, to code that was never parsed. *)
SkipsData == <<Jal(2), Data, Addi(a0, 0, 9), Jalr(ra)>>

(* Runs into a word that is no instruction. *)
EndsInData == <<Addi(a0, 0, 9), Data>>

(* Asks for a system call that does not exist. *)
CallsNothing == <<Addi(a0, 0, 9), Ecall, Jalr(ra)>>

(* Never ends. *)
Loops == <<Jal(0)>>

MCPrograms == {UsesStack, SkipsData, EndsInData, CallsNothing, Loops}

==============================================================================
