------------------------------ MODULE MCLoader ------------------------------
(* Each instruction with the edges of its immediate and with registers whose
   bits alternate; programs with data, and files that end within a word. *)
EXTENDS Loader

Imm12 == {-2048, -1, 0, 1, 1365, 2047}
Imm13 == {-4096, -2, 0, 2, 1364, 2730, 4094}
Imm16 == {-32768, -2, 0, 2, 2046, 2048, 4096, 21844, 32766}
Upper == {k * 2^12 : k \in {-524288, -1, 0, 1, 349525, 524287}}
Shift == {0, 1, 21, 31}
Csr   == {773, 833, 834, 768, 4095}

Registers == {<<21, 10, 19>>, <<0, 31, 1>>}

R(ops)       == {Make(op, r[1], r[2], r[3], 0) : op \in ops, r \in Registers}
RI(ops, imm) == {Make(op, r[1], r[2], 0, n) : op \in ops, r \in Registers, n \in imm}
RU(ops, imm) == {Make(op, r[1], 0, 0, n) : op \in ops, r \in Registers, n \in imm}
RS(ops, imm) == {Make(op, 0, r[2], r[3], n) : op \in ops, r \in Registers, n \in imm}
None(ops)    == {Make(op, 0, 0, 0, 0) : op \in ops}

Instructions ==
  R({"add", "sll", "slt", "sltu", "xor", "srl", "or", "and", "sub", "mul", "div", "rem"})
  \cup RI({"lb", "lh", "lw", "lbu", "lhu"}, Imm12)
  \cup RI({"addi", "slti", "sltiu", "xori", "ori", "andi"}, Imm12)
  \cup RI({"slli", "srli"}, Shift)
  \cup RI({"jalr"}, {0})
  \cup RI({"csrrw", "csrrs", "csrrc", "csrrwi", "csrrsi", "csrrci"}, Csr)
  \cup RU({"lui", "auipc"}, Upper)
  \cup RU({"jal"}, Imm16)
  \cup RS({"sb", "sh", "sw"}, Imm12)
  \cup RS({"beq", "bne", "blt", "bge", "bltu", "bgeu"}, Imm13)
  \cup None({"fence", "fence.i", "ecall", "ebreak", "mret"})

AddI == Make("addi", 10, 0, 0, -9)
Ret  == Make("jalr", 0, 1, 0, 0)

(* Data between two instructions: MAGIC itself, and what is no instruction. *)
WithData == {<<AddI, Raw(w), Ret>> : w \in {MAGIC, <<255, 255, 255, 255>>, <<0, 0, 0, 0>>}}

MCSources == {<<i>> : i \in Instructions} \cup WithData \cup {<<AddI, Ret>>}

==============================================================================
