------------------------------- MODULE MCInst --------------------------------
(* Programs for Inst: every instruction on its own, and sequences whose
   result depends on how their instructions fit together. *)
EXTENDS Inst

Op(op, rd, rs1, rs2, imm) == [op |-> op, rd |-> rd, rs1 |-> rs1, rs2 |-> rs2, imm |-> imm]

MCRegs == 0 .. 4

(* Zero, one, the bits alternating, and both sides of the sign's change. *)
Edges == {0, 1, 2, 3, 7, 85, 127, 128, 129, 170, 254, 255}
MCStarts == {[r \in MCRegs |-> <<0, a, b, c, 0>>[r + 1]] : a \in Edges, b \in Edges, c \in {0, 254}}

(* rd apart from and equal to the operands, and x0. *)
Places == {<<1, 2, 3>>, <<1, 1, 2>>, <<2, 1, 2>>, <<0, 1, 2>>, <<3, 0, 1>>, <<3, 1, 1>>}
Imms   == {-16, -1, 0, 1, 7, 15}

RegPrograms    == {<<Op(op, p[1], p[2], p[3], 0)>> : op \in AluRegOps \ {"sra"}, p \in Places}
ImmPrograms    == {<<Op(op, p[1], p[2], 0, n)>> :
                     op \in AluImmOps \ {"slli", "srli", "srai"}, p \in Places, n \in Imms}
ShiftPrograms  == {<<Op(op, p[1], p[2], 0, n)>> :
                     op \in {"slli", "srli"}, p \in Places, n \in {0, 1, 7}}
UpperPrograms  == {<<Op(op, rd, 0, 0, n)>> :
                     op \in {"lui", "auipc"}, rd \in {0, 1}, n \in {-128, 0, 64, 112}}

(* Branches over the second of three instructions, and back to the first. *)
BranchPrograms ==
  {<<Op("addi", 3, 3, 0, 1), Op(op, 0, 1, p, n), Op("addi", 3, 3, 0, 1)>> :
     op \in {"beq", "bne", "blt", "bge", "bltu", "bgeu"}, p \in {0, 2, 3}, n \in {8, -4}}

(* A call, its return through any register, and a jump through the register
   that is linked. *)
CallPrograms ==
  {<<Op("jal", r, 0, 0, 12), Op("addi", 2, 2, 0, 1), Op("jal", 0, 0, 0, 8),
     Op("jalr", 0, r, 0, 0)>> : r \in {1, 3}}
  \cup
  {<<Op("addi", r, 0, 0, 12), Op("jalr", r, r, 0, 0), Op("addi", 2, 2, 0, 1),
     Op("add", 2, 2, r, 0)>> : r \in {1, 3}}

(* A word is stored, patched and read in parts. *)
MemoryPrograms ==
  {<<Op("sw", 0, 0, 1, 0), Op(st, 0, 0, 2, n), Op(ld, 3, 0, 0, m)>> :
     st \in {"sb", "sh", "sw"}, n \in {0, 4}, ld \in {"lb", "lh", "lw", "lbu", "lhu"},
     m \in {0, 4}}

(* What was in the csr is seen by the instruction after. *)
CsrPrograms ==
  {<<Op("csrrw", 0, 1, 0, n), Op(op, 3, 2, 0, n), Op("csrrs", 1, 0, 0, m)>> :
     op \in {"csrrw", "csrrs", "csrrc", "csrrwi", "csrrsi", "csrrci"},
     n \in Csrs, m \in Csrs}

(* The sum of two words on two words, the upper one the carry in x4. *)
LongAdd == <<Op("add", 3, 1, 2, 0), Op("sltu", 4, 3, 1, 0)>>

(* The quotient times the divisor, and the remainder added. *)
DivideBack == <<Op("div", 3, 1, 2, 0), Op("mul", 3, 3, 2, 0), Op("rem", 4, 1, 2, 0),
                Op("add", 3, 3, 4, 0)>>

Breakpoint == <<Op("ebreak", 0, 0, 0, 0)>>

MCPrograms ==
  RegPrograms \cup ImmPrograms \cup ShiftPrograms \cup UpperPrograms \cup BranchPrograms
    \cup CallPrograms \cup MemoryPrograms \cup CsrPrograms
    \cup {LongAdd, DivideBack, Breakpoint}

(* sltu after add finds the carry: two instructions add without overflow. *)
CarryIsFound ==
  prog = LongAdd /\ pc = 8 => x[4] * 2^W + x[3] = x[1] + x[2]

(* div, rem and mul belong together: what divides comes back. *)
DivisionIsUndone ==
  prog = DivideBack /\ pc = 16 => x[3] = x[1]

-----------------------------------------------------------------------------
(* Programs that the run above leaves out, for what the emulator makes of them. *)

(* The end of emu_bin/fib5.s, and a fence. *)
SkipPrograms ==
  {<<Op("addi", 1, 0, 0, 2), Op("addi", 2, 0, 0, 3), Op("add", 3, 1, 2, 0),
     Op("ebreak", 0, 0, 0, 0)>>,
   <<Op("fence", 0, 0, 0, 0), Op("addi", 1, 1, 0, 1)>>}

(* A part of the word that has just been stored: each byte, and its upper half. *)
PartPrograms ==
  {<<Op("sw", 0, 0, 1, 0), Op(ld, 3, 0, 0, n)>> : ld \in {"lb", "lbu"}, n \in 1 .. 3}
  \cup {<<Op("sw", 0, 0, 1, 0), Op(ld, 3, 0, 0, 2)>> : ld \in {"lh", "lhu"}}
  \cup {<<Op("sw", 0, 0, 1, 0), Op("sb", 0, 0, 2, n)>> : n \in 1 .. 3}
  \cup {<<Op("sw", 0, 0, 1, 0), Op("sh", 0, 0, 2, 2)>>}

(* A signed shift of x2, x2 exchanged with mepc by way of x3, and a jump to an
   offset from x2, from starts with x2 negative: x4 is linked when all is done. *)
ErrantPrograms ==
  {<<Op("srai", 1, 2, 0, k), Op("addi", 3, 2, 0, 0), Op("csrrw", 3, 3, 0, 833),
     Op("jalr", 4, 2, 0, n)>> : k \in {1, 7}, n \in {-4, 8}}

NegativeStarts == {s \in MCStarts : s[2] >= 128}

-----------------------------------------------------------------------------
Upcoming(op) == pc \in Parsed /\ prog[pc \div 4 + 1].op = op

(* The instructions that parseInst names "(skip)" do not end the emulator: fib5.s
   wants its ebreak for looking at the result. *)
SkippedIsSurvived == Upcoming("ebreak") \/ Upcoming("fence") => status # "killed"

(* The bytes and halves that the doit functions of loads and stores have branches
   for can be accessed. *)
PartsAreAccessed ==
  (\E op \in {"lb", "lbu", "lh", "lhu", "sb", "sh"} : Upcoming(op)) => status # "killed"

(* What ErrantPrograms compute, by the manual: srai divides by a power of two,
   rounding down; csrrw leaves in the csr what the register held; jalr lands at
   register plus offset, with the lowest bit cleared. *)
ResultsAreTheManuals ==
  prog \in ErrantPrograms /\ x[4] = 16 =>
    LET target == I32(x[2]) + prog[4].imm IN
    /\ I32(x[1]) = I32(x[2]) \div 2^prog[1].imm
    /\ csr[csr_idx(833)] = x[2]
    /\ pc = U32(target - (target % 2))

==============================================================================
