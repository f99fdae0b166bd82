-------------------------------- MODULE Core --------------------------------
(***************************************************************************)
(* The machine a trap interrupts: the part of Machine, CPU and parseInst's *)
(* doit functions that the trap handler of src/src/Trap.hpp and a small    *)
(* program need.  A machine m is the record                                *)
(*     [code, pc, x, mepc, mcause, mem]                                    *)
(* with pc and addresses counted in words: code is the program's, from 0   *)
(* (CODE_START), mem the stack area.  Memory here returns what was stored last; when  *)
(* the caches really do that is the subject of LoadStore.                  *)
(*                                                                         *)
(* Of the 32 registers those are kept that the handler or the program uses *)
(* (numbered from 0 in their order, so that a frame is FRAME words, not    *)
(* 34), and of an instruction what it does with them: xori rd, rs, 0 and   *)
(* add x0, x0, x0 are written as the addi they amount to, andi rd, rs, 1   *)
(* as bit0.                                                                *)
(***************************************************************************)
EXTENDS Integers, Sequences

CONSTANTS
  STACK_BTM,    \* the sp a program starts with
  MAGIC,        \* what resetCPU and resetMemory fill registers and memory with
  Programs      \* the programs that may be loaded, sequences of instructions

ra == 1
sp == 2
t0 == 3
t1 == 4
t2 == 5
a0 == 6
a1 == 7
a7 == 8

Regs       == 0 .. 8             \* 0 is x0
StackWords == 0 .. STACK_BTM - 1
FRAME      == 11                 \* what trap() takes of the stack: mepc, mcause, Regs
END        == -1                 \* CODE_START - 4, where main's `ra' points
TRAMPOLINE == 1000               \* TRAMPOLINE_BTM, and mtvec

-----------------------------------------------------------------------------
(* Instructions. *)
Inst(op, rd, rs1, rs2, imm) ==
  [op |-> op, rd |-> rd, rs1 |-> rs1, rs2 |-> rs2, imm |-> imm]

Ops == {"addi", "bit0", "lw", "sw", "beq", "jal", "jalr", "csrrsi", "ecall", "mret", "data"}

Instruction == [op : Ops, rd : Regs, rs1 : Regs, rs2 : Regs, imm : Int]

Addi(rd, rs1, imm)  == Inst("addi", rd, rs1, 0, imm)
Bit0(rd, rs1)       == Inst("bit0", rd, rs1, 0, 0)
Lw(rd, rs1, imm)    == Inst("lw", rd, rs1, 0, imm)
Sw(rs2, rs1, imm)   == Inst("sw", 0, rs1, rs2, imm)
Beq(rs1, rs2, off)  == Inst("beq", 0, rs1, rs2, off)
Jal(off)            == Inst("jal", 0, 0, 0, off)
Jalr(rs1)           == Inst("jalr", 0, rs1, 0, 0)
ReadCause(rd)       == Inst("csrrsi", rd, 0, 0, 0)
Nop                 == Addi(0, 0, 0)
Ecall               == Inst("ecall", 0, 0, 0, 0)
Mret                == Inst("mret", 0, 0, 0, 0)
Data                == Inst("data", 0, 0, 0, 0)   \* a word that parseInst refuses

(* The 31 instructions initTrap writes to TRAMPOLINE_BTM: a0 gets mcause, a1
   counts up to it, and the branch for the trap prints a0 twice.  The offset of
   the last jump, over the end of trap 4's branch, is the parameter. *)
trampoline(last) == <<
  ReadCause(a0),
  Addi(a1, 0, 1), Beq(a0, a1, 7),
  Addi(a1, 0, 2), Beq(a0, a1, 10),
  Addi(a1, 0, 3), Beq(a0, a1, 14),
  Addi(a1, 0, 4), Beq(a0, a1, 17),
  Addi(a7, 0, 1), Ecall, Nop, Ecall, Jal(17),
  Addi(a7, 0, 1), Ecall, Addi(t0, t0, 1), Addi(t0, t0, -1), Ecall, Jal(11),
  Addi(a7, 0, 1), Ecall, Addi(t1, t1, 0), Ecall, Jal(6),
  Addi(a7, 0, 1), Ecall, Bit0(t2, t2), Ecall, Jal(last),
  Mret >>

(* Mutant: one instruction too many was counted back. *)
trampoline_stuck == trampoline(0)

trampoline_code == trampoline(1)

InProgram(code, pc) == pc \in 0 .. Len(code) - 1
InTrampoline(pc)    == pc \in TRAMPOLINE .. TRAMPOLINE + Len(trampoline_code) - 1

(* The instruction at m.pc. *)
Fetch(m) ==
  IF InTrampoline(m.pc) THEN trampoline_code[m.pc - TRAMPOLINE + 1] ELSE m.code[m.pc + 1]

-----------------------------------------------------------------------------
(* resetCPU and resetMemory. *)
Reset(program) ==
  [code |-> program,
   pc |-> 0,
   x |-> [r \in Regs |-> CASE r = 0 -> 0 [] r = sp -> STACK_BTM [] r = ra -> END
                           [] OTHER -> MAGIC],
   mepc |-> 0,
   mcause |-> 0,
   mem |-> [a \in StackWords |-> MAGIC]]

WriteReg(x, rd, v) == [x EXCEPT ![rd] = v, ![0] = 0]

(* The doit functions but for mret's.  A jump leaves pc one instruction before
   its target, for execute_one_step to step over. *)
Doit(i, m) ==
  LET a == m.x[i.rs1] IN
  CASE i.op = "addi"   -> [m EXCEPT !.x = WriteReg(@, i.rd, a + i.imm)]
    [] i.op = "bit0"   -> [m EXCEPT !.x = WriteReg(@, i.rd, a % 2)]
    [] i.op = "lw"     -> [m EXCEPT !.x = WriteReg(@, i.rd, m.mem[a + i.imm])]
    [] i.op = "sw"     -> [m EXCEPT !.mem[a + i.imm] = m.x[i.rs2]]
    [] i.op = "beq"    -> [m EXCEPT !.pc = IF a = m.x[i.rs2] THEN @ + i.imm - 1 ELSE @]
    [] i.op = "jal"    -> [m EXCEPT !.pc = @ + i.imm - 1]
    [] i.op = "jalr"   -> [m EXCEPT !.pc = a + i.imm - 1]
    [] i.op = "csrrsi" -> [m EXCEPT !.x = WriteReg(@, i.rd, m.mcause)]
    [] i.op = "ecall"  -> m

(* What an ecall asks for, cut to a u8: 1 is sys_print_reg, and sys_print_str (2)
   is not modelled.  Asked for anything else, ecall returns -1. *)
syscall_num(m) == m.x[a7] % 256

Fails(i, m) == i.op = "ecall" /\ syscall_num(m) # 1

(* What an instruction prints. *)
Prints(i, m) == IF i.op = "ecall" /\ syscall_num(m) = 1 THEN <<m.x[a0]>> ELSE <<>>

StepOver(m) == [m EXCEPT !.pc = @ + 1]

(* What a program can rely on: its pc, its registers, and of the stack what
   lies at its sp and above. *)
ProgramView(code, pc, x, mem) ==
  [code |-> code,
   pc   |-> pc,
   x    |-> x,
   mem  |-> [a \in StackWords |-> IF a >= x[sp] THEN mem[a] ELSE MAGIC]]

-----------------------------------------------------------------------------
(* The numbers cmd_trap accepts, and the table of which interrupts which; cause
   0 is the program's own. *)
Traps  == 1 .. 4
Causes == 0 .. 4

(* Mutant: the entry that lets 4 interrupt the program is 0. *)
trap_priority_no4 ==
  [a \in Causes |-> [b \in Causes |-> IF a \notin {0, 4} /\ (b = 0 \/ a < b) THEN 1 ELSE 0]]

trap_priority ==
  [a \in Causes |-> [b \in Causes |-> IF a # 0 /\ (b = 0 \/ a < b) THEN 1 ELSE 0]]

(* !TrapCmp(nxt, cur) *)
Interrupts(nxt, cur) == trap_priority[nxt][cur] = 1

(* trap_queue as a bag: how many of each trap wait. *)
IsEmpty(queue) == \A t \in Traps : queue[t] = 0

(* trap_queue.top(): a waiting trap that no other waiting trap interrupts. *)
Top(queue) ==
  CHOOSE t \in Traps :
    queue[t] > 0 /\ \A u \in Traps : queue[u] > 0 => ~Interrupts(u, t)

==============================================================================
