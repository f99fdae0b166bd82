------------------------------ MODULE InstProof -------------------------------
(***************************************************************************)
(* What two programs compute on the emulator's arithmetic, for every width *)
(* of a word and whatever the registers hold when they start: an addition  *)
(* of double length from add and sltu, and div, mul and rem put together   *)
(* again.  Both rest on what the conversions between u32 and i32 preserve: *)
(* a number up to multiples of 2^W.                                        *)
(***************************************************************************)
EXTENDS MCInst, TLAPS

-----------------------------------------------------------------------------
(* The conversions. *)

LEMMA Widths ==
  /\ 2^4 = 16 /\ 2^8 = 256 /\ 2^16 = 65536
  /\ 2^3 = 8 /\ 2^7 = 128 /\ 2^15 = 32768
<1>1. /\ 2^1 = 2 /\ 2^2 = 4 /\ 2^3 = 8 /\ 2^4 = 16 /\ 2^7 = 128
      /\ 2^8 = 256 /\ 2^15 = 32768 /\ 2^16 = 65536
  BY SMT
<1> QED BY <1>1

(* The number of words, and half of it. *)
LEMMA WordCount ==
  /\ 2^W \in Nat /\ 2^(W - 1) \in Nat /\ 2^W >= 16
  /\ 2^W = 2 * 2^(W - 1)
<1>1. CASE W = 4
  <2>1. W - 1 = 3 BY <1>1
  <2> QED BY <1>1, <2>1, Widths
<1>2. CASE W = 8
  <2>1. W - 1 = 7 BY <1>2
  <2> QED BY <1>2, <2>1, Widths
<1>3. CASE W = 16
  <2>1. W - 1 = 15 BY <1>3
  <2> QED BY <1>3, <2>1, Widths
<1> QED BY <1>1, <1>2, <1>3, InstAssumption

(* A number is, up to a multiple of m, the remainder it leaves. *)
LEMMA Remainder ==
  ASSUME NEW n \in Int, NEW m \in Nat, m > 0
  PROVE  /\ n % m \in Int /\ 0 <= n % m /\ n % m < m
         /\ n \div m \in Int
         /\ n = m * (n \div m) + (n % m)
OBVIOUS

(* Numbers that are the same up to a multiple of m, and up to one of 2^W: the
   same word. *)
AlikeBy(a, b, m) == \E k \in Int : a = b + m * k
Alike(a, b)      == AlikeBy(a, b, 2^W)

LEMMA SameRemainder ==
  ASSUME NEW a \in Int, NEW b \in Int, NEW m \in Nat, m > 0, AlikeBy(a, b, m)
  PROVE  a % m = b % m
<1>0. PICK k \in Int : a = b + m * k
  BY DEF AlikeBy
<1> DEFINE q1 == b \div m
           q2 == a \div m
           r1 == b % m
           r2 == a % m
<1>1. /\ q1 \in Int /\ r1 \in Int /\ 0 <= r1 /\ r1 < m /\ b = m * q1 + r1
  BY Remainder
<1>3. /\ q2 \in Int /\ r2 \in Int /\ 0 <= r2 /\ r2 < m /\ a = m * q2 + r2
  BY Remainder
<1> DEFINE d == q1 + k - q2
<1>4. d \in Int
  BY <1>1, <1>3
<1> HIDE DEF q1, q2, r1, r2
<1>5. m * d = r2 - r1
  BY <1>0, <1>1, <1>3
<1> HIDE DEF d
<1>6. d = 0
  <2>1. CASE d >= 1
    <3>1. m * d >= m
      BY <2>1, <1>4
    <3> QED BY <3>1, <1>5, <1>1, <1>3
  <2>2. CASE d <= -1
    <3>1. m * d <= -m
      BY <2>2, <1>4
    <3> QED BY <3>1, <1>5, <1>1, <1>3
  <2> QED BY <2>1, <2>2, <1>4
<1>7. r1 = r2
  BY <1>5, <1>6, <1>1, <1>3
<1> QED BY <1>7 DEF r1, r2

LEMMA SameByItself ==
  ASSUME NEW a \in Int, NEW m \in Nat
  PROVE  AlikeBy(a, a, m)
<1>1. a = a + m * 0
  OBVIOUS
<1> QED BY <1>1 DEF AlikeBy

LEMMA SameBack ==
  ASSUME NEW a \in Int, NEW b \in Int, NEW m \in Nat, AlikeBy(a, b, m)
  PROVE  AlikeBy(b, a, m)
<1>1. PICK k \in Int : a = b + m * k
  BY DEF AlikeBy
<1>2. b = a + m * (-k) /\ -k \in Int
  BY <1>1
<1> QED BY <1>2 DEF AlikeBy

LEMMA SameSum ==
  ASSUME NEW a \in Int, NEW b \in Int, NEW c \in Int, NEW d \in Int, NEW m \in Nat,
         AlikeBy(a, b, m), AlikeBy(c, d, m)
  PROVE  AlikeBy(a + c, b + d, m)
<1>1. PICK k \in Int : a = b + m * k
  BY DEF AlikeBy
<1>2. PICK l \in Int : c = d + m * l
  BY DEF AlikeBy
<1>3. a + c = b + d + m * (k + l) /\ k + l \in Int
  BY <1>1, <1>2
<1> QED BY <1>3 DEF AlikeBy

LEMMA SameDifference ==
  ASSUME NEW a \in Int, NEW b \in Int, NEW c \in Int, NEW d \in Int, NEW m \in Nat,
         AlikeBy(a, b, m), AlikeBy(c, d, m)
  PROVE  AlikeBy(a - c, b - d, m)
<1>1. PICK k \in Int : a = b + m * k
  BY DEF AlikeBy
<1>2. PICK l \in Int : c = d + m * l
  BY DEF AlikeBy
<1>3. a - c = b - d + m * (k - l) /\ k - l \in Int
  BY <1>1, <1>2
<1> QED BY <1>3 DEF AlikeBy

LEMMA SameProduct ==
  ASSUME NEW a \in Int, NEW b \in Int, NEW c \in Int, NEW d \in Int, NEW m \in Nat,
         AlikeBy(a, b, m), AlikeBy(c, d, m)
  PROVE  AlikeBy(a * c, b * d, m)
<1>1. PICK k \in Int : a = b + m * k
  BY DEF AlikeBy
<1>2. PICK l \in Int : c = d + m * l
  BY DEF AlikeBy
<1> DEFINE e == b * l + k * d + m * k * l
<1>3. a * c = b * d + m * e /\ e \in Int
  BY <1>1, <1>2
<1> HIDE DEF e
<1> QED BY <1>3 DEF AlikeBy

LEMMA SameThrough ==
  ASSUME NEW a \in Int, NEW b \in Int, NEW c \in Int, NEW m \in Nat,
         AlikeBy(a, b, m), AlikeBy(b, c, m)
  PROVE  AlikeBy(a, c, m)
<1>1. PICK k \in Int : a = b + m * k
  BY DEF AlikeBy
<1>2. PICK l \in Int : b = c + m * l
  BY DEF AlikeBy
<1>3. a = c + m * (k + l) /\ k + l \in Int
  BY <1>1, <1>2
<1> QED BY <1>3 DEF AlikeBy

(* The conversions change a number by a multiple of 2^W. *)
LEMMA U32Keeps ==
  ASSUME NEW n \in Int
  PROVE  U32(n) \in Words /\ U32(n) \in Int /\ Alike(U32(n), n)
<1> DEFINE m == 2^W
<1>1. m \in Nat /\ m > 0
  BY WordCount
<1> HIDE DEF m
<1>2. n % m \in Int /\ 0 <= n % m /\ n % m < m /\ n \div m \in Int
      /\ n = m * (n \div m) + (n % m)
  BY <1>1, Remainder
<1> DEFINE q == n \div m
           r == n % m
<1>3. n = m * q + r /\ q \in Int /\ r \in Int
  BY <1>2
<1>5. U32(n) = r
  BY DEF m, U32, U
<1> HIDE DEF q, r
<1>4. r = n + m * (-q) /\ -q \in Int
  BY <1>1, <1>3
<1>6. AlikeBy(r, n, m)
  BY <1>4 DEF AlikeBy
<1>7. r \in Words
  BY <1>1, <1>2 DEF m, r, Words
<1> QED BY <1>3, <1>5, <1>6, <1>7 DEF Alike, m

LEMMA I32Keeps ==
  ASSUME NEW n \in Int
  PROVE  I32(n) \in Int /\ Alike(I32(n), n)
<1> DEFINE m == 2^W
           u == U32(n)
<1>1. m \in Nat /\ m > 0
  BY WordCount
<1>2. u \in Int /\ AlikeBy(u, n, m)
  BY U32Keeps DEF Alike
<1>3. I32(n) = u \/ I32(n) = u - m
  BY DEF I32, I, U32
<1> HIDE DEF m, u
<1>4. PICK k \in Int : u = n + m * k
  BY <1>2 DEF AlikeBy
<1>5. u - m = n + m * (k - 1) /\ k - 1 \in Int
  BY <1>1, <1>4
<1>6. AlikeBy(u - m, n, m) /\ u - m \in Int
  BY <1>1, <1>2, <1>5 DEF AlikeBy
<1> QED BY <1>2, <1>3, <1>6 DEF Alike, m

LEMMA AWord ==
  ASSUME NEW n \in Words
  PROVE  n \in Int /\ 0 <= n /\ n < 2^W /\ U32(n) = n
<1> DEFINE m == 2^W
<1>1. m \in Nat /\ m > 0
  BY WordCount
<1>2. n \in Int /\ 0 <= n /\ n < m
  BY <1>1 DEF Words
<1> HIDE DEF m
<1>3. n % m = n
  BY <1>1, <1>2
<1> QED BY <1>2, <1>3 DEF m, U32, U

LEMMA SameWord ==
  ASSUME NEW a \in Int, NEW b \in Int, Alike(a, b)
  PROVE  U32(a) = U32(b)
<1>1. 2^W \in Nat /\ 2^W > 0
  BY WordCount
<1> QED BY <1>1, SameRemainder DEF Alike, U32, U

-----------------------------------------------------------------------------
(* A step of a program of register instructions. *)

ArithmeticOps == {"add", "sltu", "div", "mul", "rem"}

LEMMA OnlyOpReg ==
  ASSUME NEW i, i.op \in ArithmeticOps, doit(i)
  PROVE  OpReg(i)
<1>1. ~OpImm(i)
  BY DEF OpImm, AluImmOps, ArithmeticOps
<1>2. ~Lui(i) /\ ~Auipc(i)
  BY DEF Lui, Auipc, ArithmeticOps
<1>3. ~Branch(i)
  BY DEF Branch, ArithmeticOps
<1>4. ~Jal(i) /\ ~Jalr(i)
  BY DEF Jal, Jalr, ArithmeticOps
<1>5. ~Load(i)
  BY DEF Load, ArithmeticOps
<1>6. ~Store(i)
  BY DEF Store, ArithmeticOps
<1>7. ~CsrReg(i) /\ ~CsrImm(i)
  BY DEF CsrReg, CsrImm, ArithmeticOps
<1>8. ~Skip(i)
  BY DEF Skip, ArithmeticOps
<1> QED BY <1>1, <1>2, <1>3, <1>4, <1>5, <1>6, <1>7, <1>8 DEF doit

(* What write_reg leaves in the registers. *)
LEMMA Written ==
  ASSUME x \in [Regs -> Words], NEW rd \in Regs, rd # 0, NEW v \in Int, WriteReg(rd, v)
  PROVE  /\ x' \in [Regs -> Words]
         /\ x'[rd] = U32(v)
         /\ \A r \in Regs : r # rd /\ r # 0 => x'[r] = x[r]
<1>1. U32(v) \in Words
  BY U32Keeps
<1> DEFINE y == [x EXCEPT ![rd] = U32(v)]
<1>2. y \in [Regs -> Words] /\ y[rd] = U32(v) /\ \A r \in Regs : r # rd => y[r] = x[r]
  BY <1>1
<1>3. x' = [y EXCEPT ![0] = 0]
  BY DEF WriteReg
<1> HIDE DEF y
<1>4. 0 \in Regs
  BY InstAssumption
<1>5. 0 \in Words
  BY WordCount DEF Words
<1> QED BY <1>1, <1>2, <1>3, <1>4, <1>5

(* It stops where it is, or the result is in rd and the next instruction is
   at hand. *)
LEMMA ArithmeticStep ==
  ASSUME NEW i, i.op \in ArithmeticOps, i.rd \in Regs, i.rd # 0, doit(i),
         x \in [Regs -> Words],
         ~Traps(i) => AluReg(i.op, x[i.rs1], x[i.rs2]) \in Int
  PROVE  \/ Traps(i) /\ UNCHANGED <<x, pc>>
         \/ /\ ~Traps(i)
            /\ x' \in [Regs -> Words]
            /\ x'[i.rd] = U32(AluReg(i.op, x[i.rs1], x[i.rs2]))
            /\ \A r \in Regs : r # i.rd /\ r # 0 => x'[r] = x[r]
            /\ pc' = U32(pc + 4)
            /\ UNCHANGED status
<1>1. OpReg(i)
  BY OnlyOpReg
<1>2. CASE Traps(i)
  BY <1>1, <1>2 DEF OpReg, Stop
<1>3. CASE ~Traps(i)
  <2>1. WriteReg(i.rd, AluReg(i.op, x[i.rs1], x[i.rs2])) /\ StepOver /\ UNCHANGED status
    BY <1>1, <1>3 DEF OpReg
  <2> QED BY <1>3, <2>1, Written DEF StepOver
<1> QED BY <1>2, <1>3

(* The pc of a short program. *)
LEMMA NextPc ==
  /\ U32(0 + 4) = 4 /\ U32(4 + 4) = 8 /\ U32(8 + 4) = 12 /\ U32(12 + 4) \in {0, 16}
<1>1. 2^W \in {16, 256, 65536}
  <2>1. CASE W = 4
    BY <2>1, Widths
  <2>2. CASE W = 8
    BY <2>2, Widths
  <2>3. CASE W = 16
    BY <2>3, Widths
  <2> QED BY <2>1, <2>2, <2>3, InstAssumption
<1> DEFINE m == 2^W
<1> HIDE DEF m
<1>2. 4 % m = 4 /\ 8 % m = 8 /\ 12 % m = 12 /\ 16 % m \in {0, 16}
  <2>1. m \in {16, 256, 65536}
    BY <1>1 DEF m
  <2>2. 4 % m = 4
    BY <2>1
  <2>3. 8 % m = 8
    BY <2>1
  <2>4. 12 % m = 12
    BY <2>1
  <2>5. 16 % m \in {0, 16}
    BY <2>1
  <2> QED BY <2>2, <2>3, <2>4, <2>5
<1> QED BY <1>2 DEF m, U32, U

-----------------------------------------------------------------------------
(* The addition of double length. *)

(* The sum of x1 and x2 as a word, and the carry as add and sltu leave it. *)
CarryInv ==
  prog = LongAdd =>
    /\ x \in [Regs -> Words]
    /\ \/ pc = 0
       \/ pc = 4 /\ x[3] = U32(x[1] + x[2])
       \/ pc = 8 /\ x[3] = U32(x[1] + x[2]) /\ x[4] = Flag(x[3] < x[1])

(* A sum is less than its first term, as words, when it has lost a carry. *)
LEMMA CarryOfASum ==
  ASSUME NEW a \in Words, NEW b \in Words
  PROVE  Flag(U32(a + b) < a) * 2^W + U32(a + b) = a + b
<1> DEFINE m == 2^W
           s == a + b
<1>1. /\ m \in Nat /\ m > 0
      /\ a \in Int /\ 0 <= a /\ a < m
      /\ b \in Int /\ 0 <= b /\ b < m
  BY WordCount, AWord
<1> HIDE DEF m
<1>2. s \in Int /\ 0 <= s /\ s < 2 * m /\ s = a + b
  BY <1>1
<1> HIDE DEF s
<1>3. CASE s < m
  <2>1. s % m = s
    BY <1>1, <1>2, <1>3
  <2>2. ~(s < a)
    BY <1>1, <1>2
  <2>3. Flag(s % m < a) = 0
    BY <2>1, <2>2 DEF Flag
  <2>4. Flag(s % m < a) * m + (s % m) = s
    BY <2>1, <2>3, <1>1, <1>2
  <2> QED BY <2>4 DEF m, s, U32, U
<1>4. CASE ~(s < m)
  <2>1. s % m = s - m
    <3>1. AlikeBy(s, s - m, m) /\ s - m \in Int
      <4>1. s = s - m + m * 1
        BY <1>1, <1>2
      <4> QED BY <4>1, <1>1, <1>2 DEF AlikeBy
    <3>2. s % m = (s - m) % m
      BY <3>1, <1>1, <1>2, SameRemainder
    <3> DEFINE t == s - m
    <3>3. t \in Int /\ 0 <= t /\ t < m
      BY <1>1, <1>2, <1>4
    <3> HIDE DEF t
    <3>4. t % m = t
      BY <3>3, <1>1
    <3> QED BY <3>2, <3>4 DEF t
  <2>2. s - m < a
    BY <1>1, <1>2
  <2>3. Flag(s % m < a) = 1
    BY <2>1, <2>2 DEF Flag
  <2>4. Flag(s % m < a) * m + (s % m) = s
    BY <2>1, <2>3, <1>1, <1>2
  <2> QED BY <2>4 DEF m, s, U32, U
<1> QED BY <1>3, <1>4

LEMMA LongAddIs ==
  /\ LongAdd[1] = [op |-> "add", rd |-> 3, rs1 |-> 1, rs2 |-> 2, imm |-> 0]
  /\ LongAdd[2] = [op |-> "sltu", rd |-> 4, rs1 |-> 3, rs2 |-> 1, imm |-> 0]
  /\ DOMAIN LongAdd = {1, 2}
BY DEF LongAdd, Op

LEMMA CarryStarts ==
  ASSUME Init PROVE CarryInv
BY InstAssumption DEF Init, CarryInv

LEMMA CarryStep ==
  ASSUME 1 .. 4 \subseteq Regs, CarryInv, [Next]_vars
  PROVE  CarryInv'
<1>0. prog' = prog
  BY DEF Next, execute_one_step, Over, vars
<1> SUFFICES ASSUME prog = LongAdd, prog' = LongAdd PROVE CarryInv'
  BY <1>0 DEF CarryInv
<1>1. /\ x \in [Regs -> Words]
      /\ 1 \in Regs /\ 2 \in Regs /\ 3 \in Regs /\ 4 \in Regs
  BY DEF CarryInv
<1>2. /\ x[1] \in Words /\ x[2] \in Words /\ x[3] \in Words
      /\ x[1] \in Int /\ x[2] \in Int /\ x[3] \in Int
  BY <1>1, AWord
<1>3. CASE Over \/ UNCHANGED vars
  BY <1>3 DEF CarryInv, Over, vars
<1>4. CASE execute_one_step
  <2>1. pc \in {0, 4}
    BY <1>4, LongAddIs DEF execute_one_step, Runs, Parsed
  <2>2. CASE pc = 0
    <3> DEFINE i == LongAdd[1]
    <3>1. /\ i.op = "add" /\ i.rd = 3 /\ i.rs1 = 1 /\ i.rs2 = 2
      BY LongAddIs
    <3>2. doit(i)
      BY <1>4, <2>2 DEF execute_one_step
    <3> HIDE DEF i
    <3>3. ~Traps(i)
      BY <3>1 DEF Traps, Divides
    <3>4. AluReg(i.op, x[i.rs1], x[i.rs2]) = x[1] + x[2]
      BY <3>1 DEF AluReg, AluRegWith
    <3>5. /\ x' \in [Regs -> Words] /\ x'[3] = U32(x[1] + x[2])
          /\ x'[1] = x[1] /\ x'[2] = x[2] /\ pc' = U32(pc + 4)
      BY <1>1, <1>2, <3>1, <3>2, <3>3, <3>4, ArithmeticStep DEF ArithmeticOps
    <3>6. pc' = 4
      BY <3>5, <2>2, NextPc
    <3> QED BY <3>5, <3>6 DEF CarryInv
  <2>3. CASE pc = 4
    <3> DEFINE i == LongAdd[2]
    <3>1. /\ i.op = "sltu" /\ i.rd = 4 /\ i.rs1 = 3 /\ i.rs2 = 1
      BY LongAddIs
    <3>2. doit(i)
      BY <1>4, <2>3 DEF execute_one_step
    <3> HIDE DEF i
    <3>3. ~Traps(i)
      BY <3>1 DEF Traps, Divides
    <3>4. AluReg(i.op, x[i.rs1], x[i.rs2]) = Flag(x[3] < x[1])
      BY <3>1 DEF AluReg, AluRegWith
    <3>5. Flag(x[3] < x[1]) \in {0, 1}
      BY DEF Flag
    <3>6. /\ x' \in [Regs -> Words] /\ x'[4] = U32(Flag(x[3] < x[1]))
          /\ x'[1] = x[1] /\ x'[2] = x[2] /\ x'[3] = x[3] /\ pc' = U32(pc + 4)
      BY <1>1, <1>2, <3>1, <3>2, <3>3, <3>4, <3>5, ArithmeticStep DEF ArithmeticOps
    <3>7. pc' = 8
      BY <3>6, <2>3, NextPc
    <3>8. U32(Flag(x[3] < x[1])) = Flag(x[3] < x[1])
      <4>1. 0 \in Words /\ 1 \in Words
        BY WordCount DEF Words
      <4> QED BY <4>1, <3>5, AWord
    <3>9. x[3] = U32(x[1] + x[2])
      BY <2>3 DEF CarryInv
    <3> QED BY <3>6, <3>7, <3>8, <3>9 DEF CarryInv
  <2> QED BY <2>1, <2>2, <2>3
<1> QED BY <1>3, <1>4 DEF Next

(* sltu after add finds the carry, whatever the two words: registers 1 to 4
   have to be there to hold them. *)
THEOREM CarryIsAlwaysFound ==
  ASSUME 1 .. 4 \subseteq Regs
  PROVE  Spec => []CarryIsFound
<1>1. Init => CarryInv
  BY CarryStarts
<1>2. CarryInv /\ [Next]_vars => CarryInv'
  BY CarryStep
<1>3. CarryInv => CarryIsFound
  <2> SUFFICES ASSUME CarryInv, prog = LongAdd, pc = 8
               PROVE  x[4] * 2^W + x[3] = x[1] + x[2]
    BY DEF CarryIsFound
  <2>1. x[3] = U32(x[1] + x[2]) /\ x[4] = Flag(x[3] < x[1]) /\ x[1] \in Words /\ x[2] \in Words
    BY DEF CarryInv
  <2> QED BY <2>1, CarryOfASum
<1> QED BY <1>1, <1>2, <1>3, PTL DEF Spec

-----------------------------------------------------------------------------
(* The division that is undone. *)

(* What the four instructions have left, while no division has trapped. *)
DivisionInv ==
  prog = DivideBack =>
    /\ x \in [Regs -> Words]
    /\ \/ pc = 0
       \/ /\ x[2] # 0
          /\ \/ pc = 4  /\ x[3] = U32(do_div(x[1], x[2]))
             \/ pc = 8  /\ x[3] = U32(do_mul(U32(do_div(x[1], x[2])), x[2]))
             \/ /\ pc = 12
                /\ x[3] = U32(do_mul(U32(do_div(x[1], x[2])), x[2]))
                /\ x[4] = U32(do_rem(x[1], x[2]))
             \/ pc = 16 /\ x[3] = x[1]

LEMMA TruncatedIsInt ==
  ASSUME NEW a \in Int, NEW b \in Int, b # 0
  PROVE  Truncated(a, b) \in Int
<1>1. Abs(a) \in Nat /\ Abs(b) \in Nat /\ Abs(b) > 0
  BY DEF Abs
<1> DEFINE p == Abs(a)
           q == Abs(b)
<1> HIDE DEF p, q
<1>2. p \div q \in Int /\ -(p \div q) \in Int
  BY <1>1 DEF p, q
<1> QED BY <1>2 DEF p, q, Truncated

(* A word that is not 0 is not 0 as an i32. *)
LEMMA SignedNotZero ==
  ASSUME NEW b \in Words, b # 0
  PROVE  I32(b) \in Int /\ I32(b) # 0
<1> DEFINE m == 2^W
           h == 2^(W - 1)
<1>1. /\ m \in Nat /\ b \in Int /\ 0 < b /\ b < m
  BY WordCount, AWord
<1>2. U(b, W) = b
  BY AWord DEF U32
<1>3. I32(b) = b \/ I32(b) = b - m
  BY <1>2 DEF I32, I
<1> HIDE DEF m
<1> QED BY <1>1, <1>3

LEMMA DivisionIsInt ==
  ASSUME NEW a \in Words, NEW b \in Words, b # 0
  PROVE  do_div(a, b) \in Int /\ do_rem(a, b) \in Int
<1>1. a \in Int /\ I32(a) \in Int
  BY AWord, I32Keeps
<1>2. I32(b) \in Int /\ I32(b) # 0
  BY SignedNotZero
<1>3. Truncated(I32(a), I32(b)) \in Int
  BY <1>1, <1>2, TruncatedIsInt
<1>4. I32(b) * Truncated(I32(a), I32(b)) \in Int
  BY <1>2, <1>3
<1> QED BY <1>1, <1>3, <1>4 DEF do_div, do_rem

LEMMA ProductIsInt ==
  ASSUME NEW a \in Int, NEW b \in Int
  PROVE  do_mul(a, b) \in Int
<1>1. I32(a) \in Int /\ I32(b) \in Int
  BY I32Keeps
<1> QED BY <1>1 DEF do_mul

(* The quotient times the divisor and the remainder are the dividend again,
   each of them cut down to a word. *)
LEMMA DivideAndBack ==
  ASSUME NEW a \in Words, NEW b \in Words, b # 0
  PROVE  U32(U32(do_mul(U32(do_div(a, b)), b)) + U32(do_rem(a, b))) = a
<1> DEFINE m == 2^W
           q == do_div(a, b)
           p == do_mul(U32(q), b)
           r == do_rem(a, b)
           ia == I32(a)
           ib == I32(b)
           iq == I32(U32(q))
<1>1. m \in Nat /\ a \in Int /\ b \in Int
  BY WordCount, AWord
<1>2. q \in Int /\ r \in Int /\ U32(q) \in Int
  BY DivisionIsInt, U32Keeps
<1>3. ia \in Int /\ ib \in Int /\ iq \in Int /\ AlikeBy(ia, a, m)
  BY <1>1, <1>2, I32Keeps DEF Alike
<1>4. AlikeBy(iq, q, m)
  <2>1. AlikeBy(iq, U32(q), m)
    BY <1>2, I32Keeps DEF Alike
  <2>2. AlikeBy(U32(q), q, m)
    BY <1>2, U32Keeps DEF Alike
  <2> HIDE DEF m, q, iq
  <2> QED BY <1>1, <1>2, <1>3, <2>1, <2>2, SameThrough DEF iq
<1>5. p = iq * ib
  BY DEF do_mul
<1>6. r = ia - ib * q
  BY DEF do_rem, do_div
<1>7. p \in Int
  BY <1>3, <1>5
<1>8. AlikeBy(U32(p), p, m) /\ U32(p) \in Int /\ AlikeBy(U32(r), r, m) /\ U32(r) \in Int
  BY <1>2, <1>7, U32Keeps DEF Alike
<1> DEFINE s == U32(p) + U32(r)
           qb == q * ib
<1>9. AlikeBy(s, p + r, m)
  <2> DEFINE up == U32(p)
             ur == U32(r)
  <2>1. up \in Int /\ ur \in Int /\ AlikeBy(up, p, m) /\ AlikeBy(ur, r, m) /\ s = up + ur
    BY <1>8
  <2> HIDE DEF m, p, r, s, up, ur
  <2> QED BY <1>1, <1>2, <1>7, <2>1, SameSum
<1> HIDE DEF m, q, p, r, ia, ib, iq
<1>10. AlikeBy(p, qb, m)
  <2>1. AlikeBy(ib, ib, m)
    BY <1>1, <1>3, SameByItself
  <2>2. AlikeBy(iq * ib, q * ib, m)
    BY <1>1, <1>2, <1>3, <1>4, <2>1, SameProduct
  <2> QED BY <1>5, <2>2
<1>11. qb \in Int /\ qb = ib * q
  BY <1>2, <1>3
<1> HIDE DEF qb
<1>12. AlikeBy(p + r, ia, m)
  <2>1. AlikeBy(r, r, m)
    BY <1>1, <1>2, SameByItself
  <2>2. AlikeBy(p + r, qb + r, m)
    BY <1>1, <1>2, <1>7, <1>10, <1>11, <2>1, SameSum
  <2>3. qb + r = ia
    BY <1>2, <1>3, <1>6, <1>11
  <2> QED BY <2>2, <2>3
<1>13. s \in Int /\ p + r \in Int
  BY <1>2, <1>7, <1>8 DEF s
<1> HIDE DEF s
<1>14. AlikeBy(s, ia, m)
  <2> DEFINE pr == p + r
  <2>1. pr \in Int /\ AlikeBy(s, pr, m) /\ AlikeBy(pr, ia, m)
    BY <1>9, <1>12, <1>13
  <2> HIDE DEF pr
  <2> QED BY <1>1, <1>3, <1>13, <2>1, SameThrough
<1>15. AlikeBy(s, a, m)
  BY <1>1, <1>3, <1>13, <1>14, SameThrough
<1>16. U32(s) = U32(a)
  BY <1>1, <1>13, <1>15, SameWord DEF Alike, m
<1> QED BY <1>16, AWord DEF s, p, r, q

LEMMA DivideBackIs ==
  /\ DivideBack[1] = [op |-> "div", rd |-> 3, rs1 |-> 1, rs2 |-> 2, imm |-> 0]
  /\ DivideBack[2] = [op |-> "mul", rd |-> 3, rs1 |-> 3, rs2 |-> 2, imm |-> 0]
  /\ DivideBack[3] = [op |-> "rem", rd |-> 4, rs1 |-> 1, rs2 |-> 2, imm |-> 0]
  /\ DivideBack[4] = [op |-> "add", rd |-> 3, rs1 |-> 3, rs2 |-> 4, imm |-> 0]
  /\ DOMAIN DivideBack = {1, 2, 3, 4}
BY DEF DivideBack, Op

LEMMA DivisionStarts ==
  ASSUME Init PROVE DivisionInv
BY InstAssumption DEF Init, DivisionInv

LEMMA DivisionStep ==
  ASSUME 1 .. 4 \subseteq Regs, DivisionInv, [Next]_vars
  PROVE  DivisionInv'
<1>0. prog' = prog
  BY DEF Next, execute_one_step, Over, vars
<1> SUFFICES ASSUME prog = DivideBack, prog' = DivideBack PROVE DivisionInv'
  BY <1>0 DEF DivisionInv
<1>1. /\ x \in [Regs -> Words]
      /\ 1 \in Regs /\ 2 \in Regs /\ 3 \in Regs /\ 4 \in Regs
  BY DEF DivisionInv
<1>2. /\ x[1] \in Words /\ x[2] \in Words /\ x[3] \in Words /\ x[4] \in Words
      /\ x[1] \in Int /\ x[2] \in Int /\ x[3] \in Int /\ x[4] \in Int
  BY <1>1, AWord
<1>3. CASE Over \/ UNCHANGED vars
  BY <1>3 DEF DivisionInv, Over, vars
<1>4. CASE execute_one_step
  <2>1. pc \in {0, 4, 8, 12}
    BY <1>4, DivideBackIs DEF execute_one_step, Runs, Parsed
  <2>2. CASE pc = 0
    <3> DEFINE i == DivideBack[1]
    <3>1. /\ i.op = "div" /\ i.rd = 3 /\ i.rs1 = 1 /\ i.rs2 = 2
      BY DivideBackIs
    <3>2. doit(i)
      BY <1>4, <2>2 DEF execute_one_step
    <3> HIDE DEF i
    <3>3. AluReg(i.op, x[i.rs1], x[i.rs2]) = do_div(x[1], x[2])
      BY <3>1 DEF AluReg, AluRegWith
    <3>4. ~Traps(i) => x[2] # 0
      BY <3>1 DEF Traps, Divides
    <3>5. ~Traps(i) => do_div(x[1], x[2]) \in Int
      BY <3>4, <1>2, DivisionIsInt
    <3>6. \/ UNCHANGED <<x, pc>>
          \/ /\ ~Traps(i)
             /\ x' \in [Regs -> Words] /\ x'[3] = U32(do_div(x[1], x[2]))
             /\ x'[1] = x[1] /\ x'[2] = x[2] /\ pc' = U32(pc + 4)
      BY <1>1, <3>1, <3>2, <3>3, <3>5, ArithmeticStep DEF ArithmeticOps
    <3>7. U32(pc + 4) = 4
      BY <2>2, NextPc
    <3> HIDE DEF Traps
    <3> QED BY <1>1, <2>2, <3>4, <3>6, <3>7 DEF DivisionInv
  <2>3. CASE pc = 4
    <3> DEFINE i == DivideBack[2]
    <3>1. /\ i.op = "mul" /\ i.rd = 3 /\ i.rs1 = 3 /\ i.rs2 = 2
      BY DivideBackIs
    <3>2. doit(i)
      BY <1>4, <2>3 DEF execute_one_step
    <3> HIDE DEF i
    <3>3. AluReg(i.op, x[i.rs1], x[i.rs2]) = do_mul(x[3], x[2])
      BY <3>1 DEF AluReg, AluRegWith
    <3>4. ~Traps(i)
      BY <3>1 DEF Traps, Divides
    <3>5. do_mul(x[3], x[2]) \in Int
      BY <1>2, ProductIsInt
    <3>6. /\ x' \in [Regs -> Words] /\ x'[3] = U32(do_mul(x[3], x[2]))
          /\ x'[1] = x[1] /\ x'[2] = x[2] /\ pc' = U32(pc + 4)
      BY <1>1, <3>1, <3>2, <3>3, <3>4, <3>5, ArithmeticStep DEF ArithmeticOps
    <3>7. U32(pc + 4) = 8
      BY <2>3, NextPc
    <3>8. x[2] # 0 /\ x[3] = U32(do_div(x[1], x[2]))
      BY <2>3 DEF DivisionInv
    <3> QED BY <3>6, <3>7, <3>8 DEF DivisionInv
  <2>4. CASE pc = 8
    <3> DEFINE i == DivideBack[3]
    <3>1. /\ i.op = "rem" /\ i.rd = 4 /\ i.rs1 = 1 /\ i.rs2 = 2
      BY DivideBackIs
    <3>2. doit(i)
      BY <1>4, <2>4 DEF execute_one_step
    <3> HIDE DEF i
    <3>3. AluReg(i.op, x[i.rs1], x[i.rs2]) = do_rem(x[1], x[2])
      BY <3>1 DEF AluReg, AluRegWith
    <3>4. x[2] # 0 /\ x[3] = U32(do_mul(U32(do_div(x[1], x[2])), x[2]))
      BY <2>4 DEF DivisionInv
    <3>5. do_rem(x[1], x[2]) \in Int
      BY <3>4, <1>2, DivisionIsInt
    <3>6. \/ UNCHANGED <<x, pc>>
          \/ /\ x' \in [Regs -> Words] /\ x'[4] = U32(do_rem(x[1], x[2]))
             /\ x'[1] = x[1] /\ x'[2] = x[2] /\ x'[3] = x[3] /\ pc' = U32(pc + 4)
      BY <1>1, <3>1, <3>2, <3>3, <3>5, ArithmeticStep DEF ArithmeticOps
    <3>7. U32(pc + 4) = 12
      BY <2>4, NextPc
    <3> QED BY <1>1, <2>4, <3>4, <3>6, <3>7 DEF DivisionInv
  <2>5. CASE pc = 12
    <3> DEFINE i == DivideBack[4]
    <3>1. /\ i.op = "add" /\ i.rd = 3 /\ i.rs1 = 3 /\ i.rs2 = 4
      BY DivideBackIs
    <3>2. doit(i)
      BY <1>4, <2>5 DEF execute_one_step
    <3> HIDE DEF i
    <3>3. AluReg(i.op, x[i.rs1], x[i.rs2]) = x[3] + x[4]
      BY <3>1 DEF AluReg, AluRegWith
    <3>4. ~Traps(i)
      BY <3>1 DEF Traps, Divides
    <3>5. /\ x[2] # 0
          /\ x[3] = U32(do_mul(U32(do_div(x[1], x[2])), x[2]))
          /\ x[4] = U32(do_rem(x[1], x[2]))
      BY <2>5 DEF DivisionInv
    <3>6. /\ x' \in [Regs -> Words] /\ x'[3] = U32(x[3] + x[4])
          /\ x'[1] = x[1] /\ x'[2] = x[2] /\ pc' = U32(pc + 4)
      BY <1>1, <1>2, <3>1, <3>2, <3>3, <3>4, ArithmeticStep DEF ArithmeticOps
    <3>7. U32(pc + 4) \in {0, 16}
      BY <2>5, NextPc
    <3>8. U32(x[3] + x[4]) = x[1]
      BY <1>2, <3>5, DivideAndBack
    <3> QED BY <3>5, <3>6, <3>7, <3>8 DEF DivisionInv
  <2> QED BY <2>1, <2>2, <2>3, <2>4, <2>5
<1> QED BY <1>3, <1>4 DEF Next

(* Where div does not trap, mul and rem give the dividend back, whatever the
   two words: registers 1 to 4 have to be there to hold them. *)
THEOREM DivisionIsAlwaysUndone ==
  ASSUME 1 .. 4 \subseteq Regs
  PROVE  Spec => []DivisionIsUndone
<1>1. Init => DivisionInv
  BY DivisionStarts
<1>2. DivisionInv /\ [Next]_vars => DivisionInv'
  BY DivisionStep
<1>3. DivisionInv => DivisionIsUndone
  BY DEF DivisionInv, DivisionIsUndone
<1> QED BY <1>1, <1>2, <1>3, PTL DEF Spec

==============================================================================
