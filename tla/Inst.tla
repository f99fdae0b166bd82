-------------------------------- MODULE Inst ---------------------------------
(***************************************************************************)
(* parseInst of src/src/Inst.hpp: what an instruction's preValue holds and *)
(* what its doit does to the machine, with execute_one_step around it.     *)
(*                                                                         *)
(* Registers are u32: here W bits, an unsigned number below 2^W, with the  *)
(* casts to i32 where the code has them.  A byte is W \div 4 bits wide, so *)
(* that four of them make a word; pc and addresses count bytes.            *)
(*                                                                         *)
(* prog is the program, from address 0 (CODE_START); an instruction is a   *)
(* record [op, rd, rs1, rs2, imm], imm the number the assembler was given: *)
(* an immediate, a shift amount, an offset or a csr number.                *)
(***************************************************************************)
EXTENDS Integers, Sequences, FiniteSetsExt

CONSTANTS
  W,         \* the width of a word
  Regs,      \* the registers the programs use, 0 among them
  Programs,  \* the programs
  Starts,    \* what the registers hold when a program starts
  MEM_WORDS, \* the number of memory words
  MAGIC

VARIABLES prog, pc, x, mem, csr, status

vars == <<prog, pc, x, mem, csr, status>>

Words == 0 .. 2^W - 1
BYTE  == W \div 4
HALF  == W \div 2

(* The conversions between C++'s integer types: to unsigned and to signed
   numbers of w bits.  preValue.imm and .offset are sign-extended. *)
U(n, w) == n % 2^w
I(n, w) == LET u == U(n, w) IN IF u < 2^(w - 1) THEN u ELSE u - 2^w
U32(n)  == U(n, W)
I32(n)  == I(n, W)

ASSUME InstAssumption ==
  /\ W \in {4, 8, 16}
  /\ 0 \in Regs /\ MAGIC \in Words
  /\ Starts \subseteq [Regs -> Words]

Init ==
  /\ prog \in Programs
  /\ x \in Starts
  /\ pc = 0
  /\ mem = [a \in 0 .. MEM_WORDS - 1 |-> MAGIC]
  /\ csr = [k \in 0 .. 3 |-> 0]
  /\ status = "run"

(* CPU::write_reg *)
WriteReg(rd, v) == x' = [x EXCEPT ![rd] = U32(v), ![0] = 0]

(* pc after a doit that jumped to target, or did not: execute_one_step adds
   the 4 the jump has subtracted. *)
Jumped(target) == pc' = U32(target - 4 + 4)
StepOver       == pc' = U32(pc + 4)

(* doit returned -1, or did not return: the process is gone. *)
Stop(how) == status' = how /\ UNCHANGED <<pc, x, mem, csr>>

-----------------------------------------------------------------------------
(* C++ division truncates. *)
Abs(n)         == IF n < 0 THEN -n ELSE n
Truncated(a, b) == IF (a < 0) = (b < 0) THEN Abs(a) \div Abs(b) ELSE -(Abs(a) \div Abs(b))

do_mul(a, b) == I32(a) * I32(b)
do_div(a, b) == Truncated(I32(a), I32(b))
(* Mutant: the remainder of the registers as they are. *)
do_rem_unsigned(a, b) == a % b

do_rem(a, b) == I32(a) - I32(b) * Truncated(I32(a), I32(b))

Flag(p) == IF p THEN 1 ELSE 0

(* &, | and ^ of two words: the bits both have, the others put back once or
   not at all. *)
Bit(n, k)    == (n \div 2^k) % 2
BitAnd(a, b) == MapThenSumSet(LAMBDA k : 2^k * Bit(a, k) * Bit(b, k), 0 .. W - 1)
BitOr(a, b)  == a + b - BitAnd(a, b)
BitXor(a, b) == a + b - 2 * BitAnd(a, b)

(* The bodies of opcode 0x33, with what sltu answers as a parameter. *)
AluRegWith(op, a, b, sltu) ==
  LET sh == 2^(b % W) IN
  CASE op = "add"  -> a + b
    [] op = "sub"  -> a - b
    [] op = "mul"  -> do_mul(a, b)
    [] op = "sll"  -> a * sh
    [] op = "slt"  -> Flag(I32(a) < I32(b))
    [] op = "sltu" -> sltu
    [] op = "xor"  -> BitXor(a, b)
    [] op = "div"  -> do_div(a, b)
    [] op \in {"srl", "sra"} -> a \div sh
    [] op = "or"   -> BitOr(a, b)
    [] op = "rem"  -> do_rem(a, b)
    [] op = "and"  -> BitAnd(a, b)

(* Mutant: sltu takes its operands for i32. *)
AluRegSigned(op, a, b) == AluRegWith(op, a, b, Flag(I32(a) < I32(b)))

AluReg(op, a, b) == AluRegWith(op, a, b, Flag(a < b))

(* opcode 0x13 *)
AluImm(op, a, imm) ==
  CASE op = "addi"  -> I32(a) + imm
    [] op = "slti"  -> Flag(I32(a) < imm)
    [] op = "sltiu" -> Flag(a < U32(imm))
    [] op = "xori"  -> BitXor(a, U32(imm))
    [] op = "ori"   -> BitOr(a, U32(imm))
    [] op = "andi"  -> BitAnd(a, U32(imm))
    [] op = "slli"  -> a * 2^imm
    [] op \in {"srli", "srai"} -> a \div 2^imm

AluRegOps == {"add", "sub", "mul", "sll", "slt", "sltu", "xor", "div", "srl", "sra",
              "or", "rem", "and"}
AluImmOps == {"addi", "slti", "sltiu", "xori", "ori", "andi", "slli", "srli", "srai"}

(* idiv raises SIGFPE. *)
Divides(i) == i.op \in {"div", "rem"}
Traps(i) ==
  Divides(i) /\ (x[i.rs2] = 0 \/ (I32(x[i.rs1]) = -(2^(W - 1)) /\ I32(x[i.rs2]) = -1))

OpReg(i) ==
  /\ i.op \in AluRegOps
  /\ IF Traps(i) THEN Stop("killed")
     ELSE /\ WriteReg(i.rd, AluReg(i.op, x[i.rs1], x[i.rs2]))
          /\ StepOver
          /\ UNCHANGED <<mem, csr, status>>

OpImm(i) ==
  /\ i.op \in AluImmOps
  /\ WriteReg(i.rd, AluImm(i.op, x[i.rs1], i.imm))
  /\ StepOver
  /\ UNCHANGED <<mem, csr, status>>

(* opcodes 0x37 and 0x17 *)
Lui(i) ==
  /\ i.op = "lui"
  /\ WriteReg(i.rd, i.imm)
  /\ StepOver
  /\ UNCHANGED <<mem, csr, status>>

Auipc(i) ==
  /\ i.op = "auipc"
  /\ WriteReg(i.rd, pc + i.imm)
  /\ StepOver
  /\ UNCHANGED <<mem, csr, status>>

-----------------------------------------------------------------------------
(* opcode 0x63 *)
Taken(op, a, b) ==
  CASE op = "beq"  -> a = b
    [] op = "bne"  -> a # b
    [] op = "blt"  -> I32(a) < I32(b)
    [] op = "bge"  -> I32(a) >= I32(b)
    [] op = "bltu" -> a < b
    [] op = "bgeu" -> a >= b

Branch(i) ==
  /\ i.op \in {"beq", "bne", "blt", "bge", "bltu", "bgeu"}
  /\ IF Taken(i.op, x[i.rs1], x[i.rs2]) THEN Jumped(I32(pc) + i.imm) ELSE StepOver
  /\ UNCHANGED <<x, mem, csr, status>>

(* opcode 0x6f *)
Jal(i) ==
  /\ i.op = "jal"
  /\ WriteReg(i.rd, pc + 4)
  /\ Jumped(I32(pc) + i.imm)
  /\ UNCHANGED <<mem, csr, status>>

(* The target of jalr: parseInst has doubled the offset. *)
JalrTarget(base, imm) == LET t == I32(base) + 2 * imm IN t - (t % 2)

(* Mutant: rd is written before the target is computed. *)
JalrLate(i) ==
  /\ i.op = "jalr"
  /\ WriteReg(i.rd, pc + 4)
  /\ Jumped(JalrTarget(x'[i.rs1], i.imm))
  /\ UNCHANGED <<mem, csr, status>>

(* opcode 0x67: the target is computed before rd is written. *)
Jalr(i) ==
  /\ i.op = "jalr"
  /\ WriteReg(i.rd, pc + 4)
  /\ Jumped(JalrTarget(x[i.rs1], i.imm))
  /\ UNCHANGED <<mem, csr, status>>

-----------------------------------------------------------------------------
(* Loads and stores.  readMem takes only a multiple of 4 (the assertion in
   BasicCache::read): of the paths for the other parts of a word only those
   that return before it come to an end. *)
Address(i) == U32(I32(x[i.rs1]) + i.imm)
Aligned(i) == Address(i) % 4 = 0

Loaded(op, word) ==
  CASE op = "lb"  -> I(word, BYTE)
    [] op = "lh"  -> I(word, HALF)
    [] op = "lw"  -> word
    [] op = "lbu" -> U(word, BYTE)
    [] op = "lhu" -> U(word, HALF)

(* opcode 0x03 *)
Load(i) ==
  /\ i.op \in {"lb", "lh", "lw", "lbu", "lhu"}
  /\ IF Aligned(i)
     THEN /\ WriteReg(i.rd, Loaded(i.op, mem[Address(i) \div 4]))
          /\ StepOver
          /\ UNCHANGED <<mem, csr, status>>
     ELSE Stop(IF i.op \in {"lh", "lhu"} /\ Address(i) % 2 = 1 THEN "error" ELSE "killed")

(* The word with its low w bits replaced. *)
Patched(word, v, w) == word - U(word, w) + U(v, w)

Stored(op, word, v) ==
  CASE op = "sb" -> Patched(word, v, BYTE)
    [] op = "sh" -> Patched(word, v, HALF)
    [] op = "sw" -> v

(* opcode 0x23 *)
Store(i) ==
  /\ i.op \in {"sb", "sh", "sw"}
  /\ IF Aligned(i)
     THEN /\ mem' = [mem EXCEPT ![Address(i) \div 4] = Stored(i.op, @, x[i.rs2])]
          /\ StepOver
          /\ UNCHANGED <<x, csr, status>>
     ELSE Stop("killed")

-----------------------------------------------------------------------------
(* opcode 0x73.  Every csr but mepc and mcause is mtvec. *)
csr_idx(number) == CASE number = 833 -> 1 [] number = 834 -> 2 [] OTHER -> 0

CsrRead(i) == WriteReg(i.rd, csr[csr_idx(i.imm)])
CsrWrite(i, v) == csr' = [csr EXCEPT ![csr_idx(i.imm)] = v]
AndNot(a, b) == a - BitAnd(a, b)

(* rd is written first: with rd = rs1 the csr gets its own value back. *)
CsrReg(i) ==
  /\ i.op \in {"csrrw", "csrrs", "csrrc"}
  /\ CsrRead(i)
  /\ LET old == csr[csr_idx(i.imm)]
         src == x'[i.rs1]
     IN CsrWrite(i, CASE i.op = "csrrw" -> src
                      [] i.op = "csrrs" -> BitOr(old, src)
                      [] i.op = "csrrc" -> AndNot(old, src))
  /\ StepOver
  /\ UNCHANGED <<mem, status>>

CsrImm(i) ==
  /\ i.op \in {"csrrwi", "csrrsi", "csrrci"}
  /\ CsrRead(i)
  /\ LET old == csr[csr_idx(i.imm)]
     IN CsrWrite(i, CASE i.op = "csrrwi" -> i.rs1
                      [] i.op = "csrrsi" -> BitOr(old, i.rs1)
                      [] i.op = "csrrci" -> AndNot(old, i.rs1))
  /\ StepOver
  /\ UNCHANGED <<mem, status>>

(* fence, fence.i and ebreak are named and left without a doit: calling it
   throws bad_function_call. *)
Skip(i) == i.op \in {"ebreak", "fence"} /\ Stop("killed")

-----------------------------------------------------------------------------
doit(i) ==
  \/ OpReg(i) \/ OpImm(i) \/ Lui(i) \/ Auipc(i)
  \/ Branch(i) \/ Jal(i) \/ Jalr(i)
  \/ Load(i) \/ Store(i)
  \/ CsrReg(i) \/ CsrImm(i)
  \/ Skip(i)

(* preParseInst has entered the addresses of the program's instructions. *)
Parsed == {4 * (k - 1) : k \in DOMAIN prog}
Runs   == status = "run" /\ pc \in Parsed

execute_one_step ==
  /\ Runs
  /\ doit(prog[pc \div 4 + 1])
  /\ UNCHANGED prog

Over == ~Runs /\ UNCHANGED vars

Next == execute_one_step \/ Over

Spec == Init /\ [][Next]_vars

-----------------------------------------------------------------------------
Csrs == {773, 833, 834}    \* mtvec, mepc and mcause

Manual ==
  INSTANCE Isa WITH
    x       <- [r \in Regs |-> I32(x[r])],
    mem     <- [a \in DOMAIN mem |-> I32(mem[a])],
    csr     <- [n \in Csrs |-> I32(csr[csr_idx(n)])],
    stopped <- status # "run"

(* The doit functions execute every program as the manual's machine does, for
   the instructions they implement as the manual defines them. *)
ImplementsManual == Manual!Spec

==============================================================================
