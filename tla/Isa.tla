--------------------------------- MODULE Isa ---------------------------------
(***************************************************************************)
(* The instructions of src/src/Inst.hpp as the RISC-V manual defines them: *)
(* the abstract machine the emulator promises to be.  A register holds a   *)
(* signed number of W bits, of which Bit(n, k) is the k-th; memory and csr *)
(* hold the same.  An instruction is [op, rd, rs1, rs2, imm] with the      *)
(* immediate as the program spells it.                                     *)
(*                                                                         *)
(* The machine stops at ebreak, and may stop at a division that the host's *)
(* processor refuses, and nowhere else.  Loads and stores are of parts     *)
(* that lie at a multiple of their size; of others the manual leaves the   *)
(* outcome to the implementation, and the machine has no step for them.    *)
(***************************************************************************)
EXTENDS Integers, FiniteSetsExt

CONSTANT W   \* the width of a word

VARIABLES prog, pc, x, mem, csr, stopped

vars == <<prog, pc, x, mem, csr, stopped>>

BYTE == W \div 4
HALF == W \div 2

Bit(n, k) == (n \div 2^k) % 2

(* The signed number of w bits with bits b(0), ..., b(w - 1). *)
Number(b(_), w) ==
  MapThenSumSet(LAMBDA k : b(k) * (IF k = w - 1 THEN -(2^k) ELSE 2^k), 0 .. w - 1)

Signed(n, w)   == Number(LAMBDA k : Bit(n, k), w)
Unsigned(n, w) == MapThenSumSet(LAMBDA k : Bit(n, k) * 2^k, 0 .. w - 1)

Shamt(b) == b % W
Less(a, b) == IF a < b THEN 1 ELSE 0

(* The quotient rounds towards zero; the remainder has the sign of a. *)
Abs(n) == IF n < 0 THEN -n ELSE n
Quotient(a, b) ==
  CHOOSE q \in -Abs(a) .. Abs(a) :
    LET r == a - q * b IN Abs(r) < Abs(b) /\ (r = 0 \/ (r < 0 <=> a < 0))

Alu(op, a, b) ==
  CASE op \in {"add", "addi"}   -> Signed(a + b, W)
    [] op = "sub"               -> Signed(a - b, W)
    [] op = "mul"               -> Signed(a * b, W)
    [] op = "div"               -> Quotient(a, b)
    [] op = "rem"               -> a - b * Quotient(a, b)
    [] op \in {"slt", "slti"}   -> Less(a, b)
    [] op \in {"sltu", "sltiu"} -> Less(Unsigned(a, W), Unsigned(b, W))
    [] op \in {"xor", "xori"}   -> Number(LAMBDA k : (Bit(a, k) + Bit(b, k)) % 2, W)
    [] op \in {"or", "ori"}     -> Number(LAMBDA k : Max({Bit(a, k), Bit(b, k)}), W)
    [] op \in {"and", "andi"}   -> Number(LAMBDA k : Min({Bit(a, k), Bit(b, k)}), W)
    [] op \in {"sll", "slli"}   ->
         Number(LAMBDA k : IF k < Shamt(b) THEN 0 ELSE Bit(a, k - Shamt(b)), W)
    [] op \in {"srl", "srli"}   ->
         Number(LAMBDA k : IF k + Shamt(b) < W THEN Bit(a, k + Shamt(b)) ELSE 0, W)
    [] op \in {"sra", "srai"}   ->
         Number(LAMBDA k : Bit(a, Min({k + Shamt(b), W - 1})), W)

Taken(op, a, b) ==
  CASE op = "beq"  -> a = b
    [] op = "bne"  -> a # b
    [] op = "blt"  -> a < b
    [] op = "bge"  -> ~(a < b)
    [] op = "bltu" -> Unsigned(a, W) < Unsigned(b, W)
    [] op = "bgeu" -> ~(Unsigned(a, W) < Unsigned(b, W))

AluRegOps == {"add", "sub", "mul", "div", "rem", "slt", "sltu", "xor", "or", "and",
              "sll", "srl", "sra"}
AluImmOps == {"addi", "slti", "sltiu", "xori", "ori", "andi", "slli", "srli", "srai"}
BranchOps == {"beq", "bne", "blt", "bge", "bltu", "bgeu"}
LoadOps   == {"lb", "lh", "lw", "lbu", "lhu"}
StoreOps  == {"sb", "sh", "sw"}
CsrOps    == {"csrrw", "csrrs", "csrrc", "csrrwi", "csrrsi", "csrrci"}

-----------------------------------------------------------------------------
At(k)       == ~stopped /\ pc = 4 * (k - 1)
Set(rd, v)  == x' = [x EXCEPT ![rd] = IF rd = 0 THEN 0 ELSE v]
Goto(a)     == pc' = Unsigned(a, W)
Goes        == Goto(pc + 4)

Compute(i) ==
  /\ i.op \in AluRegOps \cup AluImmOps \cup {"lui", "auipc"}
  /\ Set(i.rd, CASE i.op \in AluRegOps -> Alu(i.op, x[i.rs1], x[i.rs2])
                 [] i.op \in AluImmOps -> Alu(i.op, x[i.rs1], i.imm)
                 [] i.op = "lui"       -> i.imm
                 [] i.op = "auipc"     -> Signed(pc + i.imm, W))
  /\ Goes
  /\ UNCHANGED <<mem, csr>>

Branch(i) ==
  /\ i.op \in BranchOps
  /\ IF Taken(i.op, x[i.rs1], x[i.rs2]) THEN Goto(pc + i.imm) ELSE Goes
  /\ UNCHANGED <<x, mem, csr>>

(* The target is taken from rs1 before rd is written; its last bit is 0. *)
Jump(i) ==
  /\ i.op \in {"jal", "jalr"}
  /\ Set(i.rd, Signed(pc + 4, W))
  /\ LET target == IF i.op = "jal" THEN pc + i.imm ELSE x[i.rs1] + i.imm
     IN Goto(target - Bit(target, 0))
  /\ UNCHANGED <<mem, csr>>

(* The bits lo, ..., lo + w - 1 of a word. *)
Part(word, lo, w) == Number(LAMBDA k : Bit(word, lo + k), w)
Size(op) == CASE op \in {"lb", "lbu", "sb"} -> BYTE
              [] op \in {"lh", "lhu", "sh"} -> HALF
              [] op \in {"lw", "sw"}        -> W

Address(i)  == Unsigned(x[i.rs1] + i.imm, W)
Cell(i)     == Address(i) \div 4
LowBit(i)   == (Address(i) % 4) * BYTE
Natural(i)  == Address(i) % (Size(i.op) \div BYTE) = 0

Load(i) ==
  /\ i.op \in LoadOps /\ Natural(i)
  /\ LET part == Part(mem[Cell(i)], LowBit(i), Size(i.op))
     IN Set(i.rd, IF i.op \in {"lbu", "lhu"} THEN Unsigned(part, Size(i.op)) ELSE part)
  /\ Goes
  /\ UNCHANGED <<mem, csr>>

Store(i) ==
  /\ i.op \in StoreOps /\ Natural(i)
  /\ LET lo == LowBit(i)
         inside(k) == k \in lo .. lo + Size(i.op) - 1
     IN mem' = [mem EXCEPT ![Cell(i)] =
                  Number(LAMBDA k : IF inside(k) THEN Bit(x[i.rs2], k - lo) ELSE Bit(@, k), W)]
  /\ Goes
  /\ UNCHANGED <<x, csr>>

(* Old and new value of the register imm names change hands at once. *)
Csr(i) ==
  /\ i.op \in CsrOps
  /\ LET old == csr[i.imm]
         src == IF i.op \in {"csrrw", "csrrs", "csrrc"} THEN x[i.rs1] ELSE i.rs1
         new == CASE i.op \in {"csrrw", "csrrwi"} -> src
                  [] i.op \in {"csrrs", "csrrsi"} -> Alu("or", old, src)
                  [] i.op \in {"csrrc", "csrrci"} -> Alu("and", old, -1 - src)
     IN Set(i.rd, old) /\ csr' = [csr EXCEPT ![i.imm] = new]
  /\ Goes
  /\ UNCHANGED mem

(* A fence orders the accesses of several harts: nothing to do for one. *)
Fence(i) == i.op = "fence" /\ Goes /\ UNCHANGED <<x, mem, csr>>

(* ebreak gives control to a debugger; division is no part of RV32I. *)
Unsupported(i) ==
  \/ i.op = "ebreak"
  \/ i.op \in {"div", "rem"} /\ (x[i.rs2] = 0 \/ (x[i.rs1] = -(2^(W - 1)) /\ x[i.rs2] = -1))

Stop(i) ==
  /\ Unsupported(i)
  /\ stopped' = TRUE
  /\ UNCHANGED <<pc, x, mem, csr>>

Execute(i) ==
  /\ ~Unsupported(i)
  /\ Compute(i) \/ Branch(i) \/ Jump(i) \/ Load(i) \/ Store(i) \/ Csr(i) \/ Fence(i)
  /\ UNCHANGED stopped

Init == pc = 0 /\ ~stopped
Next == \E k \in DOMAIN prog : /\ At(k)
                              /\ (Execute(prog[k]) \/ Stop(prog[k]))
                              /\ UNCHANGED prog
Spec == Init /\ [][Next]_vars
==============================================================================
