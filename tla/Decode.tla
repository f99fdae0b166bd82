------------------------------- MODULE Decode --------------------------------
(***************************************************************************)
(* parseInst of src/src/Inst.hpp, as far as it reads the word: which doit  *)
(* an instruction gets, and what its preValue holds.  What a doit does is  *)
(* the subject of Inst.                                                    *)
(*                                                                         *)
(* A word is the sequence of its four bytes, the lowest first.  The result *)
(* is a record [op, rd, rs1, rs2, imm]: op names the doit; imm is what     *)
(* preValue has in imm, offset, shamt or csr; fields that the doit does    *)
(* not use are 0.                                                          *)
(***************************************************************************)
EXTENDS Integers, Sequences

(* Of a word only the lower thirty-one bits are one number: TLC's are no larger. *)
Low(w)  == w[1] + 2^8 * w[2] + 2^16 * w[3] + 2^24 * (w[4] % 2^7)
Sign(w) == w[4] \div 2^7

(* (inst >> lo) & (2^n - 1) *)
Field(w, lo, n) == (Low(w) \div 2^lo + Sign(w) * 2^(31 - lo)) % 2^n

Bit(w, k) == Field(w, k, 1)

(* (i32)inst >> lo, where that is not 31: it is -Sign(w) then *)
Signed(w, lo) == Low(w) \div 2^lo - Sign(w) * 2^(31 - lo)

(* A number kept in an i16. *)
I16(n) == ((n + 2^15) % 2^16) - 2^15

opcode(w) == w[1] % 2^7
rd(w)     == Field(w, 7, 5)
rs1(w)    == Field(w, 15, 5)
rs2(w)    == Field(w, 20, 5)
funct3(w) == Field(w, 12, 3)
funct7(w) == Field(w, 25, 7)

-----------------------------------------------------------------------------
(* The immediates, put together with shifts and `|' of pieces that do not
   overlap. *)
ImmI(w) == Signed(w, 20)
ImmU(w) == Signed(w, 12) * 2^12

(* Mutant: inst >> 25 without the cast to i32. *)
ImmSUnsigned(w) == Field(w, 25, 7) * 2^5 + Field(w, 7, 5)

ImmS(w) == Signed(w, 25) * 2^5 + Field(w, 7, 5)

(* Mutant: the low bits are taken from bit 7 on. *)
ImmBShifted(w) ==
  2 * ((-Sign(w)) * 2^11 + Bit(w, 7) * 2^10 + Field(w, 25, 6) * 2^4 + Field(w, 7, 4))

ImmB(w) ==
  2 * ((-Sign(w)) * 2^11 + Bit(w, 7) * 2^10 + Field(w, 25, 6) * 2^4 + Field(w, 8, 4))

(* preValue.offset is an i16: of jal's twenty-one bits sixteen are left. *)
ImmJ(w) ==
  I16(2 * ((-Sign(w)) * 2^19 + Field(w, 12, 8) * 2^11 + Bit(w, 20) * 2^10
           + Field(w, 21, 10)))

(* jalr's offset is doubled. *)
ImmJalr(w) == I16(2 * ImmI(w))

-----------------------------------------------------------------------------
Refused == [op |-> "refused"]

Make(op, d, s1, s2, imm) == [op |-> op, rd |-> d, rs1 |-> s1, rs2 |-> s2, imm |-> imm]

(* The switches over funct3, from 0; "-" is a case that there is not. *)
LoadOps   == <<"lb", "lh", "lw", "-", "lbu", "lhu">>
FenceOps  == <<"fence", "fence.i">>
StoreOps  == <<"sb", "sh", "sw">>
BranchOps == <<"beq", "bne", "-", "-", "blt", "bge", "bltu", "bgeu">>

(* Whether a right shift is arithmetic is read off bit 31, so neither is for a word
   that an assembler made. *)
ImmOps(w) ==
  <<"addi", "slli", "slti", "sltiu", "xori",
    IF Sign(w) = 1 THEN "srai" ELSE "srli", "ori", "andi">>

(* An operation with no case gets no doit. *)
RegOps(w) ==
  LET f7 == funct7(w) IN
  <<CASE f7 = 32 -> "sub" [] f7 = 0 -> "add" [] OTHER -> "mul",
    "sll", "slt", "sltu",
    CASE f7 = 0 -> "xor" [] f7 = 1 -> "div" [] OTHER -> "none",
    IF Sign(w) = 1 THEN "sra" ELSE "srl",
    CASE f7 = 0 -> "or" [] f7 = 1 -> "rem" [] OTHER -> "none",
    "and">>

CsrOps == <<"-", "csrrw", "csrrs", "csrrc", "none", "csrrwi", "csrrsi", "csrrci">>

MRET == <<115, 0, 32, 48>>    \* 0x30200073

System(w) ==
  IF w = MRET THEN "mret" ELSE IF Field(w, 20, 12) # 0 THEN "ebreak" ELSE "ecall"

(* The case of funct3, if there is one. *)
Switch(w, ops, d, s1, s2, imm) ==
  LET k == funct3(w) + 1 IN
  IF k \in DOMAIN ops /\ ops[k] # "-" THEN Make(ops[k], d, s1, s2, imm) ELSE Refused

parseInst(w) ==
  CASE opcode(w) = 3   -> Switch(w, LoadOps, rd(w), rs1(w), 0, ImmI(w))
    [] opcode(w) = 15  -> Switch(w, FenceOps, 0, 0, 0, 0)
    [] opcode(w) = 19  -> Switch(w, ImmOps(w), rd(w), rs1(w), 0,
                                 IF funct3(w) \in {1, 5} THEN rs2(w) ELSE ImmI(w))
    [] opcode(w) = 23  -> Make("auipc", rd(w), 0, 0, ImmU(w))
    [] opcode(w) = 35  -> Switch(w, StoreOps, 0, rs1(w), rs2(w), ImmS(w))
    [] opcode(w) = 51  -> Switch(w, RegOps(w), rd(w), rs1(w), rs2(w), 0)
    [] opcode(w) = 55  -> Make("lui", rd(w), 0, 0, ImmU(w))
    [] opcode(w) = 99  -> Switch(w, BranchOps, 0, rs1(w), rs2(w), ImmB(w))
    [] opcode(w) = 103 -> Make("jalr", rd(w), rs1(w), 0, ImmJalr(w))
    [] opcode(w) = 111 -> Make("jal", rd(w), 0, 0, ImmJ(w))
    [] opcode(w) = 115 -> IF funct3(w) = 0 THEN Make(System(w), 0, 0, 0, 0)
                          ELSE Switch(w, CsrOps, rd(w), rs1(w), 0, Field(w, 20, 12))
    [] OTHER           -> Refused

==============================================================================
