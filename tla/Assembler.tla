------------------------------ MODULE Assembler ------------------------------
(***************************************************************************)
(* What an assembler makes of an instruction: the formats and numbers of   *)
(* the RISC-V manual (volume I, RV32I base instruction set, and the        *)
(* instructions of M, Zicsr and Zifencei that the emulator names).  None   *)
(* of it is taken from the emulator.                                       *)
(*                                                                         *)
(* An instruction is a record [op, rd, rs1, rs2, imm], a word the sequence *)
(* of its four bytes as they lie in a file, the lowest first.              *)
(***************************************************************************)
EXTENDS Integers

(* A word: opcode in bits 6 to 0, rd in 11 to 7, funct3 in 14 to 12, rs1 in 19 to
   15, rs2 in 24 to 20, funct7 in 31 to 25.  The other formats have pieces of the
   immediate in some of their places. *)
RType(opcode, d, funct3, s1, s2, funct7) ==
  << opcode + 2^7 * (d % 2),
     d \div 2 + 2^4 * funct3 + 2^7 * (s1 % 2),
     s1 \div 2 + 2^4 * (s2 % 2^4),
     s2 \div 2^4 + 2 * funct7 >>

IType(opcode, funct3, i) ==
  RType(opcode, i.rd, funct3, i.rs1, i.imm % 2^5, (i.imm \div 2^5) % 2^7)

SType(opcode, funct3, i) ==
  RType(opcode, i.imm % 2^5, funct3, i.rs1, i.rs2, (i.imm \div 2^5) % 2^7)

(* imm[4:1] with imm[11] in front of them, and imm[10:5] behind which imm[12] comes *)
BType(opcode, funct3, i) ==
  RType(opcode, 2 * ((i.imm \div 2) % 2^4) + ((i.imm \div 2^11) % 2), funct3, i.rs1, i.rs2,
        ((i.imm \div 2^5) % 2^6) + 2^6 * ((i.imm \div 2^12) % 2))

(* The twenty bits from funct3 on as one number. *)
Upper(opcode, d, n) ==
  RType(opcode, d, n % 2^3, (n \div 2^3) % 2^5, (n \div 2^8) % 2^5, (n \div 2^13) % 2^7)

UType(opcode, i) == Upper(opcode, i.rd, i.imm \div 2^12)

(* imm[19:12], imm[11], imm[10:1] and imm[20] *)
JType(opcode, i) ==
  Upper(opcode, i.rd,
        ((i.imm \div 2^12) % 2^8) + 2^8 * ((i.imm \div 2^11) % 2)
        + 2^9 * ((i.imm \div 2) % 2^10) + 2^19 * ((i.imm \div 2^20) % 2))

(* What has the opcode of a format. *)
LOADS    == {"lb", "lh", "lw", "lbu", "lhu"}
STORES   == {"sb", "sh", "sw"}
BRANCHES == {"beq", "bne", "blt", "bge", "bltu", "bgeu"}
OPIMM    == {"addi", "slli", "slti", "sltiu", "xori", "srli", "ori", "andi"}
OP       == {"add", "sll", "slt", "sltu", "xor", "srl", "or", "and"}
OPM      == {"mul", "div", "rem"}
MISCMEM  == {"fence", "fence.i"}
ZICSR    == {"csrrw", "csrrs", "csrrc", "csrrwi", "csrrsi", "csrrci"}

Funct3(op) ==
  CASE op \in {"lh", "sh", "bne", "slli", "sll", "fence.i", "csrrw"}  -> 1
    [] op \in {"lw", "sw", "slti", "slt", "csrrs"}                    -> 2
    [] op \in {"sltiu", "sltu", "csrrc"}                              -> 3
    [] op \in {"lbu", "blt", "xori", "xor", "div"}                    -> 4
    [] op \in {"lhu", "bge", "srli", "srai", "srl", "sra", "csrrwi"}  -> 5
    [] op \in {"bltu", "ori", "or", "rem", "csrrsi"}                  -> 6
    [] op \in {"bgeu", "andi", "and", "csrrci"}                       -> 7
    [] OTHER                                                          -> 0

Encode(i) ==
  CASE i.op \in LOADS          -> IType(3, Funct3(i.op), i)
    [] i.op \in STORES         -> SType(35, Funct3(i.op), i)
    [] i.op \in BRANCHES       -> BType(99, Funct3(i.op), i)
    [] i.op \in OPIMM          -> IType(19, Funct3(i.op), i)
    [] i.op = "srai"           -> IType(19, Funct3(i.op), [i EXCEPT !.imm = @ + 2^10])
    [] i.op \in OP             -> RType(51, i.rd, Funct3(i.op), i.rs1, i.rs2, 0)
    [] i.op \in {"sub", "sra"} -> RType(51, i.rd, Funct3(i.op), i.rs1, i.rs2, 32)
    [] i.op \in OPM            -> RType(51, i.rd, Funct3(i.op), i.rs1, i.rs2, 1)
    [] i.op \in MISCMEM        -> IType(15, Funct3(i.op), i)
    [] i.op \in ZICSR          -> IType(115, Funct3(i.op), i)
    [] i.op = "lui"            -> UType(55, i)
    [] i.op = "auipc"          -> UType(23, i)
    [] i.op = "jal"            -> JType(111, i)
    [] i.op = "jalr"           -> IType(103, 0, i)
    [] i.op = "ecall"          -> RType(115, 0, 0, 0, 0, 0)
    [] i.op = "ebreak"         -> RType(115, 0, 0, 0, 1, 0)
    [] i.op = "mret"           -> RType(115, 0, 0, 0, 2, 24)

==============================================================================
