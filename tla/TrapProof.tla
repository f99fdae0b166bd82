------------------------------ MODULE TrapProof ------------------------------
(***************************************************************************)
(* Traps nest, return and are served as they should, whatever the program  *)
(* is, as long as it is WellBehaved; and a program that keeps to what is   *)
(* its own goes on as if there were no traps, which is what TrapService    *)
(* promises.  MCTrap is extended for its two programs, which the last      *)
(* theorems are about.                                                     *)
(***************************************************************************)
EXTENDS MCTrap, TLAPS, SequenceTheorems, FiniteSetTheorems,
        WellFoundedInduction

(* The j-th instruction of the trampoline, counted from 0. *)
At(j) == trampoline_code[j + 1]

LEMMA TrampolineAt ==
  /\ Len(trampoline_code) = 31
  /\ At(0) = ReadCause(a0)
  /\ At(1) = Addi(a1, 0, 1) /\ At(2) = Beq(a0, a1, 7)
  /\ At(3) = Addi(a1, 0, 2) /\ At(4) = Beq(a0, a1, 10)
  /\ At(5) = Addi(a1, 0, 3) /\ At(6) = Beq(a0, a1, 14)
  /\ At(7) = Addi(a1, 0, 4) /\ At(8) = Beq(a0, a1, 17)
  /\ At(9) = Addi(a7, 0, 1) /\ At(10) = Ecall /\ At(11) = Nop
  /\ At(12) = Ecall /\ At(13) = Jal(17)
  /\ At(14) = Addi(a7, 0, 1) /\ At(15) = Ecall /\ At(16) = Addi(t0, t0, 1)
  /\ At(17) = Addi(t0, t0, -1) /\ At(18) = Ecall /\ At(19) = Jal(11)
  /\ At(20) = Addi(a7, 0, 1) /\ At(21) = Ecall /\ At(22) = Addi(t1, t1, 0)
  /\ At(23) = Ecall /\ At(24) = Jal(6)
  /\ At(25) = Addi(a7, 0, 1) /\ At(26) = Ecall /\ At(27) = Bit0(t2, t2)
  /\ At(28) = Ecall /\ At(29) = Jal(1)
  /\ At(30) = Mret
BY SMTT(60) DEF At, trampoline_code, trampoline

LEMMA FetchTrampoline ==
  ASSUME NEW mm, NEW j \in 0 .. 30, mm.pc = TRAMPOLINE + j
  PROVE  Fetch(mm) = At(j)
BY TrampolineAt DEF Fetch, InTrampoline, At, TRAMPOLINE

-----------------------------------------------------------------------------
(* A set of natural numbers that is not empty has a smallest member: the most
   urgent of the traps that wait. *)
LEMMA SmallestExists ==
  ASSUME NEW S, S \subseteq Nat, S # {}
  PROVE  \E k \in S : \A j \in S : k <= j
<1>1. PICK k \in S : \A j \in S : ~(<<j, k>> \in OpToRel(<, Nat))
  BY NatLessThanWellFounded, WFMin
<1>2. \A j \in S : ~(j < k)
  BY <1>1 DEF OpToRel
<1> QED BY <1>2

(* The queue: trap_queue.top() is a trap that waits. *)
LEMMA TopWaits ==
  ASSUME NEW q \in [Traps -> Nat], ~IsEmpty(q)
  PROVE  Top(q) \in Traps /\ q[Top(q)] > 0
<1> DEFINE W == {t \in Traps : q[t] > 0}
<1>1. W \subseteq Nat /\ W # {}
  BY DEF IsEmpty, Traps
<1>2. PICK t \in W : \A u \in W : t <= u
  BY <1>1, SmallestExists
<1>3. \A u \in Traps : q[u] > 0 => ~Interrupts(u, t)
  BY <1>2 DEF Interrupts, trap_priority, Traps, Causes
<1>4. \E s \in Traps : q[s] > 0 /\ \A u \in Traps : q[u] > 0 => ~Interrupts(u, s)
  BY <1>2, <1>3
<1> QED BY <1>4 DEF Top

(* Urgency is the order of the numbers. *)
LEMMA InterruptsMeans ==
  ASSUME NEW t \in Traps, NEW c \in Causes
  PROVE  Interrupts(t, c) <=> c = 0 \/ t < c
BY DEF Interrupts, trap_priority, Traps, Causes

LEMMA ServiceFields ==
  ASSUME NEW acts \in Services
  PROVE  /\ Len(acts) \in Nat
         /\ DOMAIN acts = 1 .. Len(acts)
         /\ \A k \in 1 .. Len(acts) :
              /\ acts[k] \in [trap : Traps, printed : 0 .. 2]
              /\ acts[k].trap \in Traps
              /\ acts[k].printed \in 0 .. 2
<1> DEFINE S == [trap : Traps, printed : 0 .. 2]
<1>1. acts \in Seq(S)
  BY DEF Services
<1>2. Len(acts) \in Nat /\ DOMAIN acts = 1 .. Len(acts)
  BY <1>1, LenProperties
<1>3. \A k \in 1 .. Len(acts) : acts[k] \in S
  BY <1>1, ElementOfSeq
<1> QED BY <1>2, <1>3

(* There are never more services than traps. *)
LEMMA NestedDepth ==
  ASSUME NEW acts \in Services, Nested(acts)
  PROVE  /\ Len(acts) \in 0 .. 4
         /\ \A j, k \in 1 .. Len(acts) : j < k => acts[j].trap > acts[k].trap
<1>1. /\ Len(acts) \in Nat
      /\ \A k \in 1 .. Len(acts) : acts[k].trap \in Traps
  BY ServiceFields
<1>2. ASSUME NEW k \in 2 .. Len(acts) PROVE acts[k - 1].trap > acts[k].trap
  <2>1. k \in 1 .. Len(acts) /\ k - 1 \in 1 .. Len(acts)
    BY <1>1
  <2>2. Interrupts(acts[k].trap, acts[k - 1].trap)
    BY <2>1 DEF Nested, CauseIn
  <2>3. acts[k].trap \in Traps /\ acts[k - 1].trap \in Traps
    BY <1>1, <2>1
  <2> QED BY <2>2, <2>3, InterruptsMeans DEF Traps, Causes
<1>3. Len(acts) <= 4
  <2> SUFFICES ASSUME Len(acts) >= 5 PROVE FALSE
    BY <1>1
  <2>1. /\ 2 \in 2 .. Len(acts) /\ 3 \in 2 .. Len(acts)
        /\ 4 \in 2 .. Len(acts) /\ 5 \in 2 .. Len(acts)
    BY <1>1
  <2>2. /\ acts[1].trap > acts[2].trap /\ acts[2].trap > acts[3].trap
        /\ acts[3].trap > acts[4].trap /\ acts[4].trap > acts[5].trap
    <3>1. /\ acts[2 - 1].trap > acts[2].trap /\ acts[3 - 1].trap > acts[3].trap
          /\ acts[4 - 1].trap > acts[4].trap /\ acts[5 - 1].trap > acts[5].trap
      BY <1>2, <2>1
    <3> QED BY <3>1
  <2>3. \A k \in {1, 2, 3, 4, 5} : acts[k].trap \in 1 .. 4
    BY <1>1 DEF Traps
  <2> QED BY <2>2, <2>3
<1>4. ASSUME NEW j \in 1 .. Len(acts), NEW k \in 1 .. Len(acts), j < k
      PROVE  acts[j].trap > acts[k].trap
  <2>1. \A i \in 2 .. Len(acts) : acts[i - 1].trap > acts[i].trap
    BY <1>2
  <2>2. \A i \in 1 .. Len(acts) : acts[i].trap \in Nat
    BY <1>1 DEF Traps
  <2>3. CASE k = j + 1
    BY <1>1, <1>4, <2>1, <2>3
  <2>4. CASE k = j + 2
    <3>1. acts[j].trap > acts[j + 1].trap /\ acts[j + 1].trap > acts[j + 2].trap
      <4>1. /\ acts[(j + 1) - 1].trap > acts[j + 1].trap
            /\ acts[(j + 2) - 1].trap > acts[j + 2].trap
        BY <1>1, <2>1, <2>4
      <4> QED BY <4>1
    <3> QED BY <1>1, <2>2, <2>4, <3>1
  <2>5. CASE k = j + 3
    <3>1. /\ acts[j].trap > acts[j + 1].trap /\ acts[j + 1].trap > acts[j + 2].trap
          /\ acts[j + 2].trap > acts[j + 3].trap
      <4>1. /\ acts[(j + 1) - 1].trap > acts[j + 1].trap
            /\ acts[(j + 2) - 1].trap > acts[j + 2].trap
            /\ acts[(j + 3) - 1].trap > acts[j + 3].trap
        BY <1>1, <2>1, <2>5
      <4> QED BY <4>1
    <3> QED BY <1>1, <2>2, <2>5, <3>1
  <2>6. k = j + 1 \/ k = j + 2 \/ k = j + 3
    <3>1. j \in Int /\ k \in Int /\ 1 <= j /\ k <= 4
      BY <1>1, <1>3
    <3> QED BY <3>1, <1>4
  <2> QED BY <2>3, <2>4, <2>5, <2>6
<1>5. Len(acts) \in 0 .. 4
  <2> DEFINE n == Len(acts)
  <2>1. n \in Nat /\ n <= 4
    BY <1>1, <1>3
  <2>2. n \in 0 .. 4
    <3> HIDE DEF n
    <3> QED BY <2>1
  <2> QED BY <2>2
<1> QED BY <1>4, <1>5

-----------------------------------------------------------------------------
(* trap(), when the frame fits into the stack: what it leaves as it is, and
   where it puts what it saves. *)
LEMMA EnterFields ==
  ASSUME NEW mm, NEW t, MachineShape(mm),
         mm.x[sp] \in Int, mm.x[sp] - FRAME >= 0, mm.x[sp] <= STACK_BTM
  PROVE  LET em   == StepOver(Enter(t, mm))
             base == mm.x[sp] - FRAME
         IN /\ MachineShape(em)
            /\ em.pc = TRAMPOLINE
            /\ em.mepc = mm.pc
            /\ em.mcause = t
            /\ em.code = mm.code
            /\ em.x[sp] = base
            /\ \A r \in Regs \ {sp} : em.x[r] = mm.x[r]
            /\ em.mem[base] = mm.mepc
            /\ em.mem[base + 1] = mm.mcause
            /\ \A r \in Regs : em.mem[base + 2 + r] = em.x[r]
            /\ \A a \in StackWords : a >= mm.x[sp] => em.mem[a] = mm.mem[a]
<1> DEFINE base == mm.x[sp] - FRAME
           en   == Enter(t, mm)
           em   == StepOver(en)
           mem  == SaveAt(base, mm)
<1>1. /\ DOMAIN mm = {"code", "pc", "x", "mepc", "mcause", "mem"}
      /\ mm.code \in Programs
      /\ DOMAIN mm.x = Regs /\ mm.x[0] = 0 /\ DOMAIN mm.mem = StackWords
  BY DEF MachineShape
<1>2. /\ DOMAIN en = {"code", "pc", "x", "mepc", "mcause", "mem"}
      /\ en.code = mm.code /\ en.pc = TRAMPOLINE - 1 /\ en.mepc = mm.pc
      /\ en.mcause = t /\ en.mem = mem /\ en.x = [mm.x EXCEPT ![sp] = base]
  <2> HIDE DEF mem
  <2>1. en = [mm EXCEPT !.mem = mem, !.x[sp] = @ - FRAME, !.mepc = mm.pc,
                        !.pc = TRAMPOLINE - 1, !.mcause = t]
    BY DEF Enter, mem
  <2> QED BY <1>1, <2>1
<1>3. /\ DOMAIN em = {"code", "pc", "x", "mepc", "mcause", "mem"}
      /\ em.code = mm.code /\ em.pc = TRAMPOLINE /\ em.mepc = mm.pc
      /\ em.mcause = t /\ em.mem = mem /\ em.x = [mm.x EXCEPT ![sp] = base]
  <2> HIDE DEF en, mem
  <2> QED BY <1>2 DEF StepOver, TRAMPOLINE
<1>4. /\ DOMAIN em.x = Regs /\ em.x[sp] = base
      /\ \A r \in Regs \ {sp} : em.x[r] = mm.x[r]
  BY <1>1, <1>3 DEF Regs, sp
<1>5. base \in Int /\ base >= 0 /\ base + 10 < STACK_BTM /\ mm.x[sp] = base + 11
  BY TrapAssumption DEF FRAME
<1>6. /\ DOMAIN mem = StackWords
      /\ mem[base] = mm.mepc
      /\ mem[base + 1] = mm.mcause
      /\ \A r \in Regs : mem[base + 2 + r] = em.x[r]
      /\ \A a \in StackWords : a >= base + 11 => mem[a] = mm.mem[a]
  <2> DEFINE x == em.x
             Word(a) == CASE a = base             -> mm.mepc
                          [] a = base + 1         -> mm.mcause
                          [] a - base - 2 \in Regs -> x[a - base - 2]
                          [] OTHER                -> mm.mem[a]
  <2>1. mem = [a \in StackWords |-> Word(a)]
    BY <1>3 DEF SaveAt
  <2>2. \A a \in StackWords : mem[a] = Word(a)
    <3> HIDE DEF Word, mem
    <3> QED BY <2>1
  <2>3. \A a \in base .. base + 10 : a \in StackWords
    BY <1>5, TrapAssumption DEF StackWords
  <2> HIDE DEF mem, x, base
  <2>4. mem[base] = mm.mepc /\ mem[base + 1] = mm.mcause
    <3>1. base \in StackWords /\ base + 1 \in StackWords /\ base + 1 # base
      BY <1>5, <2>3
    <3>2. mem[base] = Word(base) /\ mem[base + 1] = Word(base + 1)
      BY <2>2, <3>1
    <3>3. base - base - 2 \notin Regs /\ (base + 1) - base - 2 \notin Regs
      BY <1>5 DEF Regs
    <3> QED BY <3>1, <3>2, <3>3
  <2>5. ASSUME NEW r \in Regs PROVE mem[base + 2 + r] = x[r]
    <3>1. base + 2 + r \in base .. base + 10 /\ (base + 2 + r) - base - 2 = r
      BY <1>5 DEF Regs
    <3>2. mem[base + 2 + r] = Word(base + 2 + r)
      BY <2>2, <2>3, <3>1
    <3>3. base + 2 + r # base /\ base + 2 + r # base + 1
      BY <1>5 DEF Regs
    <3> QED BY <3>1, <3>2, <3>3
  <2>6. ASSUME NEW a \in StackWords, a >= base + 11 PROVE mem[a] = mm.mem[a]
    <3>1. a \in Int
      BY TrapAssumption DEF StackWords
    <3>2. a # base /\ a # base + 1 /\ a - base - 2 \notin Regs
      BY <1>5, <2>6, <3>1 DEF Regs
    <3> QED BY <2>2, <3>2
  <2>7. DOMAIN mem = StackWords
    BY <2>1
  <2> QED BY <2>4, <2>5, <2>6, <2>7 DEF x
<1>7. em.x[0] = 0
  BY <1>1, <1>4 DEF Regs, sp
<1>8. MachineShape(em)
  <2> HIDE DEF em, mem, base
  <2> QED BY <1>1, <1>3, <1>4, <1>6, <1>7 DEF MachineShape
<1> HIDE DEF em, mem
<1> QED BY <1>3, <1>4, <1>5, <1>6, <1>8 DEF em, en

(* pc += 4 *)
LEMMA StepOverFields ==
  ASSUME NEW mm, MachineShape(mm)
  PROVE  LET st == StepOver(mm) IN
         /\ MachineShape(st)
         /\ st.pc = mm.pc + 1 /\ st.x = mm.x /\ st.mem = mm.mem
         /\ st.mepc = mm.mepc /\ st.mcause = mm.mcause /\ st.code = mm.code
BY DEF MachineShape, StepOver

(* A frame of eleven words lies between two bounds as n of them do. *)
LEMMA FrameArithmetic ==
  ASSUME NEW s \in Int, NEW n \in 0 .. 3, NEW k \in 1 .. n, NEW S \in Nat,
         s \in 11 * (4 - n) .. S - 11 * n
  PROVE  /\ (s - 11) + 11 * ((n + 1) - k) = s + 11 * (n - k)
         /\ s + 11 * (n - k) \in Int
         /\ s + 11 * (n - k) >= s
         /\ s + 11 * (n - k) + 10 < S
OBVIOUS

LEMMA BelowUserArithmetic ==
  ASSUME NEW s \in Int, NEW n \in 0 .. 3
  PROVE  /\ (s - 11) + 11 * ((n + 1) - 0) = s + 11 * (n - 0)
         /\ s + 11 * (n - 0) \in Int /\ s + 11 * (n - 0) >= s
OBVIOUS

LEMMA RoomArithmetic ==
  ASSUME NEW s \in Int, NEW n \in 0 .. 3, NEW S \in Nat,
         s \in 11 * (4 - n) .. S - 11 * n
  PROVE  s - 11 >= 0 /\ s <= S /\ s - 11 \in 11 * (4 - (n + 1)) .. S - 11 * (n + 1)
OBVIOUS

LEMMA HandlerStarts ==
  ASSUME NEW act, NEW va0, NEW va1, NEW va7, act.printed = 0
  PROVE  HandlerAt(act, 0, va0, va1, va7)
BY DEF HandlerAt, Once, Twice

(* What the program will go on with is the same for two machines and the services
   that run on them: its pc and registers, wherever they are kept, and the words
   at its sp and above.  (The program counts as service 0.) *)
SameUser(a, sa, b, sb) ==
  /\ a.code = b.code
  /\ PcOf(a, sa, 0) = PcOf(b, sb, 0)
  /\ FrameOf(a, sa, 0) = FrameOf(b, sb, 0)
  /\ \A r \in Regs \ {sp} : RegOf(a, sa, 0, r) = RegOf(b, sb, 0, r)
  /\ \A w \in StackWords : w >= FrameOf(b, sb, 0) => a.mem[w] = b.mem[w]

LEMMA SameUserIsTransitive ==
  ASSUME NEW a, NEW sa, NEW b, NEW sb, NEW c, NEW sc,
         SameUser(a, sa, b, sb), SameUser(b, sb, c, sc)
  PROVE  SameUser(a, sa, c, sc)
BY DEF SameUser

(* A new service is one more, and its frame lies below the others'. *)
LEMMA EnterKeeps ==
  ASSUME NEW mm, NEW acts, NEW t \in Traps,
         MachineShape(mm), Consistent(StepOver(mm), acts),
         Interrupts(t, mm.mcause),
         mm.x[sp] \in FRAME * (4 - Len(acts)) .. STACK_BTM - FRAME * Len(acts)
  PROVE  LET em    == StepOver(Enter(t, mm))
             acts2 == Append(acts, [trap |-> t, printed |-> 0])
         IN Consistent(em, acts2) /\ SameUser(em, acts2, StepOver(mm), acts)
<1> DEFINE st   == StepOver(mm)
           em   == StepOver(Enter(t, mm))
           new  == [trap |-> t, printed |-> 0]
           acts2 == Append(acts, new)
           n    == Len(acts)
           base == mm.x[sp] - FRAME
<1>1. /\ st.pc = mm.pc + 1 /\ st.x = mm.x /\ st.mem = mm.mem
      /\ st.mepc = mm.mepc /\ st.mcause = mm.mcause /\ st.code = mm.code
  BY StepOverFields
<1>2. /\ acts \in Services /\ Nested(acts) /\ mm.mcause = CauseIn(acts, n)
      /\ FramesOK(st, acts) /\ HandlersOK(st, acts)
  BY <1>1 DEF Consistent
<1>3. /\ acts2 \in Services /\ Len(acts2) = n + 1 /\ n \in Nat
      /\ \A k \in 1 .. n : acts2[k] = acts[k]
      /\ acts2[n + 1] = new
  <2>1. new \in [trap : Traps, printed : 0 .. 2]
    OBVIOUS
  <2>2. acts2 \in Services
    BY <1>2, <2>1, AppendProperties DEF Services
  <2> HIDE DEF new
  <2> QED BY <1>2, <2>1, <2>2, AppendProperties, ServiceFields DEF Services
<1> HIDE DEF st, em, acts2, n
<1>4. \A k \in 0 .. n : CauseIn(acts2, k) = CauseIn(acts, k)
  BY <1>3 DEF CauseIn
<1>5. CauseIn(acts2, n + 1) = t
  <2>1. n + 1 # 0
    BY <1>3
  <2> QED BY <1>3, <2>1 DEF CauseIn
<1>6. Nested(acts2)
  <2> SUFFICES ASSUME NEW k \in 1 .. n + 1
               PROVE  Interrupts(acts2[k].trap, CauseIn(acts2, k - 1))
    BY <1>3 DEF Nested
  <2>1. k - 1 \in 0 .. n
    BY <1>3
  <2>2. CASE k = n + 1
    <3>1. CauseIn(acts2, k - 1) = mm.mcause
      <4>1. k - 1 = n
        BY <1>3, <2>2
      <4> QED BY <1>2, <1>4, <2>1, <4>1
    <3>2. acts2[k].trap = t
      BY <1>3, <2>2
    <3> QED BY <3>1, <3>2
  <2>3. CASE k # n + 1
    <3>1. k \in 1 .. n
      BY <1>3, <2>3
    <3> QED BY <1>2, <1>3, <1>4, <2>1, <3>1 DEF Nested, n
  <2> QED BY <2>2, <2>3
<1>7. n \in 0 .. 3
  <2>1. n + 1 \in 0 .. 4
    BY <1>3, <1>6, NestedDepth
  <2> QED BY <1>3, <2>1
<1>8. /\ base \in Int /\ base >= 0 /\ mm.x[sp] = base + 11
      /\ base \in 11 * (4 - (n + 1)) .. STACK_BTM - 11 * (n + 1)
  <2> DEFINE s == mm.x[sp]
  <2>1. /\ s \in 11 * (4 - n) .. STACK_BTM - 11 * n
        /\ STACK_BTM \in Nat /\ s \in Int
    <3>1. s \in 11 * (4 - n) .. STACK_BTM - 11 * n
      BY DEF FRAME, n
    <3>2. 11 * (4 - n) \in Int /\ STACK_BTM - 11 * n \in Int
      BY <1>7, TrapAssumption
    <3> QED BY <3>1, <3>2, TrapAssumption
  <2>2. base = s - 11
    BY DEF FRAME
  <2> HIDE DEF base, s
  <2>3. s - 11 >= 0 /\ s - 11 \in 11 * (4 - (n + 1)) .. STACK_BTM - 11 * (n + 1)
    BY <1>7, <2>1, RoomArithmetic
  <2>4. s = base + 11 /\ base \in Int
    BY <2>1, <2>2
  <2> QED BY <2>2, <2>3, <2>4 DEF s
<1>9. /\ MachineShape(em)
      /\ em.pc = TRAMPOLINE /\ em.mepc = mm.pc /\ em.mcause = t
      /\ em.code = mm.code
      /\ em.x[sp] = base
      /\ \A r \in Regs \ {sp} : em.x[r] = mm.x[r]
      /\ em.mem[base] = mm.mepc
      /\ em.mem[base + 1] = mm.mcause
      /\ \A r \in Regs : em.mem[base + 2 + r] = em.x[r]
      /\ \A a \in StackWords : a >= base + 11 => em.mem[a] = mm.mem[a]
  <2>1. mm.x[sp] - FRAME >= 0 /\ mm.x[sp] <= STACK_BTM
    BY <1>7, <1>8, TrapAssumption DEF FRAME
  <2> HIDE DEF base
  <2> QED BY <1>8, <2>1, EnterFields DEF em, base
<1> HIDE DEF base
(* The frames of the services there were. *)
<1>10. ASSUME NEW k \in 1 .. n
       PROVE  /\ FrameOf(em, acts2, k) = FrameOf(st, acts, k)
              /\ FrameOf(st, acts, k) \in Int
              /\ FrameOf(st, acts, k) >= base + 11
              /\ FrameOf(st, acts, k) + 10 < STACK_BTM
  <2> DEFINE s == mm.x[sp]
  <2>1. /\ s \in 11 * (4 - n) .. STACK_BTM - 11 * n
        /\ STACK_BTM \in Nat /\ s \in Int
    <3>1. s \in 11 * (4 - n) .. STACK_BTM - 11 * n
      BY DEF FRAME, n
    <3>2. 11 * (4 - n) \in Int /\ STACK_BTM - 11 * n \in Int
      BY <1>7, TrapAssumption
    <3> QED BY <3>1, <3>2, TrapAssumption
  <2>2. s - 11 = base
    BY <1>8
  <2>3. FrameOf(st, acts, k) = s + 11 * (n - k)
    BY <1>1 DEF FrameOf, FRAME, n
  <2>4. FrameOf(em, acts2, k) = (s - 11) + 11 * ((n + 1) - k)
    BY <1>3, <1>9, <2>2 DEF FrameOf, FRAME
  <2> HIDE DEF s
  <2> QED BY <1>7, <1>8, <2>1, <2>2, <2>3, <2>4, FrameArithmetic DEF s
<1>11. ASSUME NEW k \in 1 .. n, NEW o \in 0 .. 10
       PROVE  em.mem[FrameOf(em, acts2, k) + o] = st.mem[FrameOf(st, acts, k) + o]
  <2>1. FrameOf(st, acts, k) + o \in StackWords
    <3> DEFINE f == FrameOf(st, acts, k)
    <3>1. f \in Int /\ f >= base + 11 /\ f + 10 < STACK_BTM
      BY <1>10
    <3>2. base \in Int /\ base >= 0
      BY <1>8
    <3> HIDE DEF f
    <3>3. f + o \in 0 .. STACK_BTM - 1
      BY <3>1, <3>2, TrapAssumption
    <3> QED BY <3>3 DEF f, StackWords
  <2>2. FrameOf(st, acts, k) + o >= base + 11
    BY <1>8, <1>10
  <2> QED BY <1>1, <1>9, <1>10, <2>1, <2>2
<1>12. FrameOf(em, acts2, n + 1) = base
  BY <1>3, <1>8, <1>9 DEF FrameOf, FRAME
<1>13. FramesOK(em, acts2)
  <2>1. em.x[sp] \in FRAME * (4 - Len(acts2)) .. STACK_BTM - FRAME * Len(acts2)
    BY <1>3, <1>8, <1>9 DEF FRAME
  <2>2. ASSUME NEW k \in 1 .. n + 1
        PROVE  LET b == FrameOf(em, acts2, k) IN
               /\ em.mem[b + 1] = CauseIn(acts2, k - 1)
               /\ em.mem[b + 2] = 0
               /\ em.mem[b + 2 + sp] = b
    <3>1. CASE k = n + 1
      <4>1. em.mem[base + 2 + 0] = em.x[0] /\ em.mem[base + 2 + sp] = em.x[sp]
        BY <1>9 DEF Regs, sp
      <4>2. em.x[0] = 0 /\ base + 2 + 0 = base + 2
        BY <1>8, <1>9 DEF MachineShape
      <4>3. CauseIn(acts2, k - 1) = mm.mcause
        <5>1. k - 1 = n /\ n \in 0 .. n
          BY <1>3, <3>1
        <5> QED BY <1>2, <1>4, <5>1
      <4> QED BY <1>9, <1>12, <3>1, <4>1, <4>2, <4>3
    <3>2. CASE k # n + 1
      <4> DEFINE f == FrameOf(st, acts, k)
      <4>1. k \in 1 .. n /\ k - 1 \in 0 .. n
        BY <1>3, <3>2
      <4>2. f \in Int /\ FrameOf(em, acts2, k) = f
        BY <1>10, <4>1
      <4>3. /\ em.mem[f + 1] = st.mem[f + 1] /\ em.mem[f + 2] = st.mem[f + 2]
            /\ em.mem[f + 4] = st.mem[f + 4]
        <5>1. \A o \in 0 .. 10 : em.mem[f + o] = st.mem[f + o]
          BY <1>11, <4>1, <4>2
        <5>2. 1 \in 0 .. 10 /\ 2 \in 0 .. 10 /\ 4 \in 0 .. 10
          OBVIOUS
        <5> HIDE DEF f
        <5> QED BY <5>1, <5>2
      <4>4. /\ st.mem[f + 1] = CauseIn(acts, k - 1) /\ st.mem[f + 2] = 0
            /\ st.mem[f + 2 + sp] = f
        <5>1. acts # <<>>
          BY <4>1, <1>3 DEF n
        <5> QED BY <1>2, <4>1, <5>1 DEF FramesOK, n
      <4>5. f + 2 + sp = f + 4
        BY <4>2 DEF sp
      <4> QED BY <1>4, <4>1, <4>2, <4>3, <4>4, <4>5
    <3> QED BY <3>1, <3>2
  <2> QED BY <1>3, <2>1, <2>2 DEF FramesOK
(* Where they are, and what their registers hold. *)
<1>14. ASSUME NEW k \in 0 .. n
       PROVE  PcOf(em, acts2, k) = PcOf(st, acts, k)
  <2>1. CASE k = n
    BY <1>1, <1>3, <1>9, <2>1 DEF PcOf, n
  <2>2. CASE k = n - 1
    <3>1. PcOf(em, acts2, k) = em.mem[FrameOf(em, acts2, k + 2)] + 1
      BY <1>3, <2>2 DEF PcOf
    <3>2. PcOf(st, acts, k) = st.mepc + 1
      BY <1>3, <2>2 DEF PcOf, n
    <3>3. k + 2 = n + 1
      BY <1>3, <2>2
    <3> QED BY <1>1, <1>9, <1>12, <3>1, <3>2, <3>3
  <2>3. CASE k # n /\ k # n - 1
    <3>1. PcOf(em, acts2, k) = em.mem[FrameOf(em, acts2, k + 2)] + 1
      BY <1>3, <2>3 DEF PcOf
    <3>2. PcOf(st, acts, k) = st.mem[FrameOf(st, acts, k + 2)] + 1
      BY <1>3, <2>3 DEF PcOf, n
    <3>3. k + 2 \in 1 .. n
      BY <1>3, <2>3
    <3>4. FrameOf(em, acts2, k + 2) + 0 = FrameOf(em, acts2, k + 2)
          /\ FrameOf(st, acts, k + 2) + 0 = FrameOf(st, acts, k + 2)
      BY <1>10, <3>3
    <3>5. em.mem[FrameOf(em, acts2, k + 2) + 0] = st.mem[FrameOf(st, acts, k + 2) + 0]
      BY <1>11, <3>3
    <3> QED BY <3>1, <3>2, <3>4, <3>5
  <2> QED BY <2>1, <2>2, <2>3
<1>15. ASSUME NEW k \in 0 .. n, NEW r \in Regs \ {sp}
       PROVE  RegOf(em, acts2, k, r) = RegOf(st, acts, k, r)
  <2>1. RegOf(em, acts2, k, r) = em.mem[FrameOf(em, acts2, k + 1) + 2 + r]
    BY <1>3 DEF RegOf
  <2>2. CASE k = n
    <3>1. RegOf(st, acts, k, r) = mm.x[r]
      BY <1>1, <2>2 DEF RegOf, n
    <3> QED BY <1>9, <1>12, <2>1, <2>2, <3>1
  <2>3. CASE k # n
    <3>1. RegOf(st, acts, k, r) = st.mem[FrameOf(st, acts, k + 1) + 2 + r]
      BY <2>3 DEF RegOf, n
    <3>2. k + 1 \in 1 .. n /\ 2 + r \in 0 .. 10
      BY <1>3, <2>3 DEF Regs
    <3>3. em.mem[FrameOf(em, acts2, k + 1) + (2 + r)] = st.mem[FrameOf(st, acts, k + 1) + (2 + r)]
      BY <1>11, <3>2
    <3>4. /\ FrameOf(em, acts2, k + 1) + (2 + r) = FrameOf(em, acts2, k + 1) + 2 + r
          /\ FrameOf(st, acts, k + 1) + (2 + r) = FrameOf(st, acts, k + 1) + 2 + r
      BY <1>10, <3>2 DEF Regs
    <3> QED BY <2>1, <3>1, <3>3, <3>4
  <2> QED BY <2>2, <2>3
<1>16. HandlersOK(em, acts2)
  <2> SUFFICES ASSUME NEW k \in 1 .. n + 1
      PROVE \E j \in 0 .. 30 :
              /\ PcOf(em, acts2, k) = TRAMPOLINE + j
              /\ HandlerAt(acts2[k], j, RegOf(em, acts2, k, a0), RegOf(em, acts2, k, a1),
                           RegOf(em, acts2, k, a7))
    BY <1>3 DEF HandlersOK
  <2>1. CASE k = n + 1
    <3>1. acts2[k].printed = 0
      BY <1>3, <2>1
    <3>2. PcOf(em, acts2, k) = TRAMPOLINE + 0
      BY <1>3, <1>9, <2>1 DEF PcOf, TRAMPOLINE
    <3> QED BY <3>1, <3>2, HandlerStarts
  <2>2. CASE k # n + 1
    <3>1. k \in 1 .. n /\ k \in 0 .. n
      BY <1>3, <2>2
    <3>2. {a0, a1, a7} \subseteq Regs \ {sp}
      BY DEF a0, a1, a7, sp, Regs
    <3>3. \E j \in 0 .. 30 :
            /\ PcOf(st, acts, k) = TRAMPOLINE + j
            /\ HandlerAt(acts[k], j, RegOf(st, acts, k, a0), RegOf(st, acts, k, a1),
                         RegOf(st, acts, k, a7))
      BY <1>2, <3>1 DEF HandlersOK, n
    <3> QED BY <1>3, <1>14, <1>15, <3>1, <3>2, <3>3
  <2> QED BY <2>1, <2>2
(* Where the program is, and what its registers and its stack hold. *)
<1>17. /\ FrameOf(em, acts2, 0) = FrameOf(st, acts, 0)
       /\ FrameOf(st, acts, 0) \in Int /\ FrameOf(st, acts, 0) >= base + 11
  <2> DEFINE s == mm.x[sp]
  <2>1. s \in Int /\ s = base + 11 /\ s - 11 = base
    BY <1>8
  <2>2. FrameOf(st, acts, 0) = s + 11 * (n - 0)
    BY <1>1 DEF FrameOf, FRAME, n
  <2>3. FrameOf(em, acts2, 0) = (s - 11) + 11 * ((n + 1) - 0)
    BY <1>3, <1>9, <2>1 DEF FrameOf, FRAME
  <2> HIDE DEF s
  <2> QED BY <1>7, <2>1, <2>2, <2>3, BelowUserArithmetic
<1>18. SameUser(em, acts2, st, acts)
  <2>1. 0 \in 0 .. n
    BY <1>3
  <2>2. ASSUME NEW w \in StackWords, w >= FrameOf(st, acts, 0) PROVE em.mem[w] = st.mem[w]
    <3>1. w \in Int
      BY TrapAssumption DEF StackWords
    <3>2. w >= base + 11
      BY <1>8, <1>17, <2>2, <3>1
    <3> QED BY <1>1, <1>9, <3>2
  <2> QED BY <1>1, <1>9, <1>14, <1>15, <1>17, <2>1, <2>2 DEF SameUser
<1>19. Consistent(em, acts2)
  BY <1>3, <1>5, <1>6, <1>9, <1>13, <1>16 DEF Consistent
<1> QED BY <1>18, <1>19 DEF em, acts2, st

-----------------------------------------------------------------------------
(* trap_ret(), when the frame at sp holds its own address in the place of sp:
   all registers come from that one frame. *)
LEMMA TrapRetFields ==
  ASSUME NEW mm, NEW base, MachineShape(mm),
         base = mm.x[sp], base \in Int,
         mm.mem[base + 2 + sp] = base, mm.mem[base + 2] = 0
  PROVE  LET tr == TrapRet(mm)
         IN /\ MachineShape(tr)
            /\ tr.pc = mm.mepc /\ tr.mepc = mm.mem[base] /\ tr.mcause = mm.mem[base + 1]
            /\ tr.code = mm.code /\ tr.mem = mm.mem
            /\ tr.x[sp] = base + FRAME
            /\ \A r \in Regs \ {sp} : tr.x[r] = mm.mem[base + 2 + r]
<1> DEFINE tr == TrapRet(mm)
           x  == [r \in Regs |-> mm.mem[base + 2 + r]]
           y  == [x EXCEPT ![sp] = @ + FRAME]
<1>1. tr = [mm EXCEPT !.pc = mm.mepc, !.x = y, !.mcause = mm.mem[base + 1],
                      !.mepc = mm.mem[base]]
  <2>1. x = [r \in Regs |-> IF r <= sp THEN mm.mem[base + 2 + r]
                                       ELSE mm.mem[mm.mem[base + 2 + sp] + 2 + r]]
    OBVIOUS
  <2> HIDE DEF x
  <2> QED BY <2>1 DEF TrapRet
<1>2. /\ DOMAIN y = Regs /\ y[sp] = base + FRAME
      /\ \A r \in Regs \ {sp} : y[r] = mm.mem[base + 2 + r]
  <2>1. /\ DOMAIN x = Regs /\ x[sp] = base
        /\ \A r \in Regs : x[r] = mm.mem[base + 2 + r]
    BY DEF Regs, sp
  <2> HIDE DEF x
  <2> QED BY <2>1 DEF Regs, sp
<1>3. y[0] = 0
  BY <1>2 DEF Regs, sp
<1> HIDE DEF x, y
<1> QED BY <1>1, <1>2, <1>3 DEF MachineShape

(* The services without the innermost. *)
LEMMA FrontIs ==
  ASSUME NEW acts \in Services, NEW n, n = Len(acts), n \in 1 .. n
  PROVE  LET acts1 == SubSeq(acts, 1, n - 1) IN
         /\ acts1 \in Services /\ Len(acts1) = n - 1
         /\ \A k \in 1 .. n - 1 : acts1[k] = acts[k]
<1> DEFINE S == [trap : Traps, printed : 0 .. 2]
           acts1 == SubSeq(acts, 1, n - 1)
<1>0. n \in Nat /\ n >= 1
  <2>1. n \in Nat
    BY ServiceFields
  <2> QED BY <2>1
<1>1. 1 \in Int /\ n - 1 \in Int /\ \A k \in 1 .. n - 1 : acts[k] \in S
  BY <1>0, ServiceFields
<1>2. /\ acts1 \in Seq(S)
      /\ Len(acts1) = IF 1 <= n - 1 THEN (n - 1) - 1 + 1 ELSE 0
      /\ \A k \in 1 .. (n - 1) - 1 + 1 : acts1[k] = acts[1 + k - 1]
  <2> HIDE DEF S
  <2> QED BY <1>1, SubSeqProperties
<1> HIDE DEF acts1
<1>3. Len(acts1) = n - 1
  BY <1>0, <1>2
<1>4. ASSUME NEW k \in 1 .. n - 1 PROVE acts1[k] = acts[k]
  <2>1. k \in 1 .. (n - 1) - 1 + 1 /\ 1 + k - 1 = k
    BY <1>0
  <2> QED BY <1>2, <2>1
<1> QED BY <1>2, <1>3, <1>4 DEF Services, acts1

(* The service that returns is gone, and what it interrupted goes on. *)
LEMMA ReturnKeeps ==
  ASSUME NEW mm, NEW acts, Consistent(mm, acts), acts # <<>>
  PROVE  LET tr    == TrapRet(mm)
             acts1 == SubSeq(acts, 1, Len(acts) - 1)
         IN /\ MachineShape(tr)
            /\ Consistent(StepOver(tr), acts1)
            /\ tr.x[sp] \in FRAME * (4 - Len(acts1)) .. STACK_BTM - FRAME * Len(acts1)
            /\ SameUser(StepOver(tr), acts1, mm, acts)
<1> DEFINE tr    == TrapRet(mm)
           st    == StepOver(tr)
           acts1 == SubSeq(acts, 1, Len(acts) - 1)
           n     == Len(acts)
           base  == mm.x[sp]
<1>1. /\ MachineShape(mm) /\ acts \in Services /\ Nested(acts)
      /\ mm.mcause = CauseIn(acts, n) /\ FramesOK(mm, acts) /\ HandlersOK(mm, acts)
  BY DEF Consistent
<1>2. n \in 1 .. 4
  <2>1. n # 0
    BY <1>1, EmptySeq DEF Services
  <2> HIDE DEF n
  <2>2. n \in 0 .. 4
    BY <1>1, NestedDepth DEF n
  <2> QED BY <2>1, <2>2
<1>3. /\ acts1 \in Services /\ Len(acts1) = n - 1
      /\ \A k \in 1 .. n - 1 : acts1[k] = acts[k]
  <2>1. n \in 1 .. n
    BY <1>2
  <2> QED BY <1>1, <2>1, FrontIs
<1>4. /\ base \in 11 * (4 - n) .. STACK_BTM - 11 * n
      /\ \A k \in 1 .. n :
           LET b == FrameOf(mm, acts, k) IN
           /\ mm.mem[b + 1] = CauseIn(acts, k - 1)
           /\ mm.mem[b + 2] = 0
           /\ mm.mem[b + 2 + sp] = b
  BY <1>1 DEF FramesOK, FRAME
<1>5. base \in Int
  <2>1. 11 * (4 - n) \in Int /\ STACK_BTM - 11 * n \in Int
    BY <1>2, TrapAssumption
  <2> HIDE DEF base, n
  <2> QED BY <1>4, <2>1
<1>6. FrameOf(mm, acts, n) = base
  BY <1>2, <1>5 DEF FrameOf, FRAME
<1>7. /\ mm.mem[base + 1] = CauseIn(acts, n - 1) /\ mm.mem[base + 2] = 0
      /\ mm.mem[base + 2 + sp] = base
  BY <1>2, <1>4, <1>6
<1> HIDE DEF n, base, acts1, tr
<1>8. /\ MachineShape(tr)
      /\ tr.pc = mm.mepc /\ tr.mepc = mm.mem[base] /\ tr.mcause = mm.mem[base + 1]
      /\ tr.mem = mm.mem /\ tr.code = mm.code
      /\ tr.x[sp] = base + FRAME
      /\ \A r \in Regs \ {sp} : tr.x[r] = mm.mem[base + 2 + r]
  BY <1>1, <1>5, <1>7, TrapRetFields DEF tr, base
<1>9. /\ MachineShape(st)
      /\ st.pc = mm.mepc + 1 /\ st.mepc = mm.mem[base] /\ st.mcause = mm.mem[base + 1]
      /\ st.mem = mm.mem /\ st.code = mm.code
      /\ st.x[sp] = base + 11
      /\ \A r \in Regs \ {sp} : st.x[r] = mm.mem[base + 2 + r]
  BY <1>8, StepOverFields DEF FRAME
<1> HIDE DEF st
<1>10. \A k \in 0 .. n - 1 : CauseIn(acts1, k) = CauseIn(acts, k)
  BY <1>2, <1>3 DEF CauseIn
<1>11. Nested(acts1)
  <2> SUFFICES ASSUME NEW k \in 1 .. n - 1
               PROVE  Interrupts(acts1[k].trap, CauseIn(acts1, k - 1))
    BY <1>3 DEF Nested
  <2>1. k \in 1 .. n /\ k - 1 \in 0 .. n - 1
    BY <1>2
  <2> QED BY <1>1, <1>3, <1>10, <2>1 DEF Nested, n
<1>12. tr.x[sp] \in FRAME * (4 - (n - 1)) .. STACK_BTM - FRAME * (n - 1)
  <2> HIDE DEF base
  <2>1. base + 11 \in 11 * (4 - (n - 1)) .. STACK_BTM - 11 * (n - 1)
    BY <1>2, <1>4, <1>5, TrapAssumption
  <2> QED BY <1>8, <2>1 DEF FRAME
<1>13. \A k \in 0 .. n - 1 : FrameOf(st, acts1, k) = FrameOf(mm, acts, k)
  <2> SUFFICES ASSUME NEW k \in 0 .. n - 1
               PROVE  FrameOf(st, acts1, k) = FrameOf(mm, acts, k)
    OBVIOUS
  <2>1. FrameOf(st, acts1, k) = (base + 11) + 11 * ((n - 1) - k)
    BY <1>3, <1>9 DEF FrameOf, FRAME
  <2>2. FrameOf(mm, acts, k) = base + 11 * (n - k)
    BY DEF FrameOf, FRAME, base, n
  <2> HIDE DEF base
  <2> QED BY <1>2, <1>5, <2>1, <2>2
<1>14. FramesOK(st, acts1)
  <2>1. st.x[sp] \in FRAME * (4 - Len(acts1)) .. STACK_BTM - FRAME * Len(acts1)
    BY <1>3, <1>8, <1>9, <1>12 DEF FRAME
  <2>2. ASSUME NEW k \in 1 .. n - 1
        PROVE  LET b == FrameOf(st, acts1, k) IN
               /\ st.mem[b + 1] = CauseIn(acts1, k - 1)
               /\ st.mem[b + 2] = 0
               /\ st.mem[b + 2 + sp] = b
    <3>1. k \in 1 .. n /\ k - 1 \in 0 .. n - 1 /\ k \in 0 .. n - 1
      BY <1>2
    <3> QED BY <1>4, <1>9, <1>10, <1>13, <3>1
  <2> QED BY <1>3, <2>1, <2>2 DEF FramesOK
<1>15. ASSUME NEW k \in 0 .. n - 1
       PROVE  PcOf(st, acts1, k) = PcOf(mm, acts, k)
  <2>1. CASE k = n - 1
    <3>1. k # n /\ k = n - 1
      BY <1>2, <2>1
    <3> QED BY <1>3, <1>9, <3>1 DEF PcOf, n
  <2>2. CASE k = n - 2
    <3>1. k # n /\ k # n - 1 /\ k + 2 = n /\ k = (n - 1) - 1
      BY <1>2, <2>2
    <3>2. PcOf(mm, acts, k) = mm.mem[base] + 1
      BY <1>6, <3>1 DEF PcOf, n
    <3>3. PcOf(st, acts1, k) = st.mepc + 1
      BY <1>3, <3>1 DEF PcOf
    <3> QED BY <1>9, <3>2, <3>3
  <2>3. CASE k # n - 1 /\ k # n - 2
    <3>1. k # n /\ k # n - 1 /\ k # (n - 1) - 1 /\ k + 2 \in 0 .. n - 1
      BY <1>2, <2>3
    <3>2. PcOf(mm, acts, k) = mm.mem[FrameOf(mm, acts, k + 2)] + 1
      BY <3>1 DEF PcOf, n
    <3>3. PcOf(st, acts1, k) = st.mem[FrameOf(st, acts1, k + 2)] + 1
      BY <1>3, <3>1 DEF PcOf
    <3> QED BY <1>9, <1>13, <3>1, <3>2, <3>3
  <2> QED BY <2>1, <2>2, <2>3
<1>16. ASSUME NEW k \in 0 .. n - 1, NEW r \in Regs \ {sp}
       PROVE  RegOf(st, acts1, k, r) = RegOf(mm, acts, k, r)
  <2>0. k # n
    BY <1>2
  <2>1. RegOf(mm, acts, k, r) = mm.mem[FrameOf(mm, acts, k + 1) + 2 + r]
    BY <2>0 DEF RegOf, n
  <2>2. CASE k = n - 1
    <3>1. RegOf(st, acts1, k, r) = st.x[r]
      BY <1>3, <2>2 DEF RegOf
    <3>2. k + 1 = n
      BY <1>2, <2>2
    <3> QED BY <1>6, <1>9, <2>1, <3>1, <3>2
  <2>3. CASE k # n - 1
    <3>1. RegOf(st, acts1, k, r) = st.mem[FrameOf(st, acts1, k + 1) + 2 + r]
      BY <1>3, <2>3 DEF RegOf
    <3>2. k + 1 \in 0 .. n - 1
      BY <1>2, <2>3
    <3> QED BY <1>9, <1>13, <2>1, <3>1, <3>2
  <2> QED BY <2>2, <2>3
<1>17. HandlersOK(st, acts1)
  <2> SUFFICES ASSUME NEW k \in 1 .. n - 1
      PROVE \E j \in 0 .. 30 :
              /\ PcOf(st, acts1, k) = TRAMPOLINE + j
              /\ HandlerAt(acts1[k], j, RegOf(st, acts1, k, a0), RegOf(st, acts1, k, a1),
                           RegOf(st, acts1, k, a7))
    BY <1>3 DEF HandlersOK
  <2>1. k \in 1 .. n /\ k \in 0 .. n - 1
    BY <1>2
  <2>2. {a0, a1, a7} \subseteq Regs \ {sp}
    BY DEF a0, a1, a7, sp, Regs
  <2>3. \E j \in 0 .. 30 :
          /\ PcOf(mm, acts, k) = TRAMPOLINE + j
          /\ HandlerAt(acts[k], j, RegOf(mm, acts, k, a0), RegOf(mm, acts, k, a1),
                       RegOf(mm, acts, k, a7))
    BY <1>1, <2>1 DEF HandlersOK, n
  <2> QED BY <1>3, <1>15, <1>16, <2>1, <2>2, <2>3
<1>18. st.mcause = CauseIn(acts1, n - 1)
  <2>1. n - 1 \in 0 .. n - 1
    BY <1>2
  <2> QED BY <1>7, <1>9, <1>10, <2>1
<1>19. Consistent(st, acts1)
  BY <1>3, <1>9, <1>11, <1>14, <1>17, <1>18 DEF Consistent
<1>20. SameUser(st, acts1, mm, acts)
  <2>1. 0 \in 0 .. n - 1
    BY <1>2
  <2> QED BY <1>9, <1>13, <1>15, <1>16, <2>1 DEF SameUser
<1> QED BY <1>3, <1>8, <1>12, <1>19, <1>20 DEF st, tr, acts1

-----------------------------------------------------------------------------
(* What an instruction writes: a register, x0 excepted, or pc. *)
SetReg(mm, rd, v) == [mm EXCEPT !.x = WriteReg(@, rd, v)]
SetPc(mm, v)      == [mm EXCEPT !.pc = v]

LEMMA WritesReg ==
  ASSUME NEW mm, MachineShape(mm), NEW rd \in Regs, NEW v
  PROVE  LET d == SetReg(mm, rd, v) IN
         /\ MachineShape(d)
         /\ d.pc = mm.pc /\ d.mem = mm.mem /\ d.mepc = mm.mepc
         /\ d.mcause = mm.mcause /\ d.code = mm.code
         /\ rd # 0 => d.x[rd] = v
         /\ \A r \in Regs \ {rd} : d.x[r] = mm.x[r]
<1> DEFINE x == WriteReg(mm.x, rd, v)
           d == [mm EXCEPT !.x = x]
<1>1. /\ DOMAIN x = Regs /\ x[0] = 0
      /\ rd # 0 => x[rd] = v
      /\ \A r \in Regs \ {rd} : x[r] = mm.x[r]
  BY DEF WriteReg, MachineShape, Regs
<1> HIDE DEF x
<1>2. /\ MachineShape(d)
      /\ d.pc = mm.pc /\ d.mem = mm.mem /\ d.mepc = mm.mepc
      /\ d.mcause = mm.mcause /\ d.code = mm.code /\ d.x = x
  BY <1>1 DEF MachineShape
<1> QED BY <1>1, <1>2 DEF x, SetReg

LEMMA WritesPc ==
  ASSUME NEW mm, MachineShape(mm), NEW v
  PROVE  LET d == SetPc(mm, v) IN
         /\ MachineShape(d)
         /\ d.pc = v /\ d.x = mm.x /\ d.mem = mm.mem /\ d.mepc = mm.mepc
         /\ d.mcause = mm.mcause /\ d.code = mm.code
BY DEF MachineShape, SetPc

(* The instructions of the trampoline, one kind at a time. *)
LEMMA DoesAddi ==
  ASSUME NEW mm, NEW rd, NEW rs, NEW imm
  PROVE  /\ Doit(Addi(rd, rs, imm), mm) = SetReg(mm, rd, mm.x[rs] + imm)
         /\ Prints(Addi(rd, rs, imm), mm) = <<>>
         /\ Addi(rd, rs, imm).op # "mret"
BY DEF Doit, Addi, Inst, Prints, SetReg

LEMMA DoesBit0 ==
  ASSUME NEW mm, NEW rd, NEW rs
  PROVE  /\ Doit(Bit0(rd, rs), mm) = SetReg(mm, rd, mm.x[rs] % 2)
         /\ Prints(Bit0(rd, rs), mm) = <<>>
         /\ Bit0(rd, rs).op # "mret"
BY DEF Doit, Bit0, Inst, Prints, SetReg

LEMMA DoesReadCause ==
  ASSUME NEW mm, NEW rd
  PROVE  /\ Doit(ReadCause(rd), mm) = SetReg(mm, rd, mm.mcause)
         /\ Prints(ReadCause(rd), mm) = <<>>
         /\ ReadCause(rd).op # "mret"
BY DEF Doit, ReadCause, Inst, Prints, SetReg

LEMMA DoesBeq ==
  ASSUME NEW mm, NEW rs1, NEW rs2, NEW off
  PROVE  /\ Doit(Beq(rs1, rs2, off), mm)
              = SetPc(mm, IF mm.x[rs1] = mm.x[rs2] THEN mm.pc + off - 1 ELSE mm.pc)
         /\ Prints(Beq(rs1, rs2, off), mm) = <<>>
         /\ Beq(rs1, rs2, off).op # "mret"
BY DEF Doit, Beq, Inst, Prints, SetPc

LEMMA DoesJal ==
  ASSUME NEW mm, NEW off
  PROVE  /\ Doit(Jal(off), mm) = SetPc(mm, mm.pc + off - 1)
         /\ Prints(Jal(off), mm) = <<>>
         /\ Jal(off).op # "mret"
BY DEF Doit, Jal, Inst, Prints, SetPc

LEMMA DoesEcall ==
  ASSUME NEW mm
  PROVE  /\ Doit(Ecall, mm) = mm
         /\ mm.x[a7] = 1 => Prints(Ecall, mm) = <<mm.x[a0]>>
         /\ Ecall.op # "mret"
<1>1. 1 % 256 = 1
  OBVIOUS
<1> QED BY <1>1 DEF Doit, Ecall, Inst, Prints, syscall_num

(* The trampoline by what its instructions do: it compares a0 with 1, 2, 3 and
   4, branches to a trap's own code, prints there, and jumps to its end. *)
Branch(j) == IF j = 2 THEN 9 ELSE IF j = 4 THEN 14 ELSE IF j = 6 THEN 20 ELSE 25

LEMMA TrampolineDoes ==
  /\ At(0) = ReadCause(a0)
  /\ \A j \in {1, 3, 5, 7} : At(j) = Addi(a1, 0, (j + 1) \div 2)
  /\ \A j \in {2, 4, 6, 8} : At(j) = Beq(a0, a1, Branch(j) - j)
  /\ \A j \in {9, 14, 20, 25} : At(j) = Addi(a7, 0, 1)
  /\ \A j \in {10, 12, 15, 18, 21, 23, 26, 28} : At(j) = Ecall
  /\ \A j \in {11, 16, 17, 22} :
       \E rd \in {0, t0, t1}, rs \in Regs, imm \in Int : At(j) = Addi(rd, rs, imm)
  /\ At(27) = Bit0(t2, t2)
  /\ \A j \in {13, 19, 24, 29} : At(j) = Jal(30 - j)
<1>1. \A j \in {1, 3, 5, 7} : At(j) = Addi(a1, 0, (j + 1) \div 2)
  <2>1. (1 + 1) \div 2 = 1 /\ (3 + 1) \div 2 = 2 /\ (5 + 1) \div 2 = 3 /\ (7 + 1) \div 2 = 4
    OBVIOUS
  <2> QED BY <2>1, TrampolineAt
<1>2. \A j \in {2, 4, 6, 8} : At(j) = Beq(a0, a1, Branch(j) - j)
  <2>1. Branch(2) - 2 = 7 /\ Branch(4) - 4 = 10 /\ Branch(6) - 6 = 14 /\ Branch(8) - 8 = 17
    BY DEF Branch
  <2> QED BY <2>1, TrampolineAt
<1>3. \A j \in {11, 16, 17, 22} :
        \E rd \in {0, t0, t1}, rs \in Regs, imm \in Int : At(j) = Addi(rd, rs, imm)
  <2>1. 0 \in Regs /\ t0 \in Regs /\ t1 \in Regs /\ -1 \in Int
    BY DEF Regs, t0, t1
  <2>2. At(11) = Addi(0, 0, 0) /\ At(16) = Addi(t0, t0, 1)
        /\ At(17) = Addi(t0, t0, -1) /\ At(22) = Addi(t1, t1, 0)
    BY TrampolineAt DEF Nop
  <2> QED BY <2>1, <2>2
<1>4. \A j \in {13, 19, 24, 29} : At(j) = Jal(30 - j)
  <2>1. 30 - 13 = 17 /\ 30 - 19 = 11 /\ 30 - 24 = 6 /\ 30 - 29 = 1
    OBVIOUS
  <2> QED BY <2>1, TrampolineAt
<1> QED BY <1>1, <1>2, <1>3, <1>4, TrampolineAt

(* From one instruction of the trampoline to the next. *)
LEMMA HandlerGoesOn ==
  ASSUME NEW act \in [trap : Traps, printed : 0 .. 2], NEW j \in 0 .. 30,
         NEW va0, NEW va1, NEW va7, HandlerAt(act, j, va0, va1, va7)
  PROVE  /\ j = 0 => HandlerAt(act, 1, act.trap, va1, va7)
         /\ j \in {1, 3, 5, 7} => HandlerAt(act, j + 1, va0, (j + 1) \div 2, va7)
         /\ j \in {2, 4, 6, 8} /\ va0 = va1 => HandlerAt(act, Branch(j), va0, va1, va7)
         /\ j \in {2, 4, 6, 8} /\ va0 # va1 => HandlerAt(act, j + 1, va0, va1, va7)
         /\ j \in {9, 14, 20, 25} => HandlerAt(act, j + 1, va0, va1, 1)
         /\ j \in {10, 12, 15, 18, 21, 23, 26, 28} =>
              /\ va7 = 1 /\ va0 = act.trap /\ act.printed < 2
              /\ HandlerAt([act EXCEPT !.printed = @ + 1], j + 1, va0, va1, va7)
         /\ j \in {11, 16, 17, 22, 27} => HandlerAt(act, j + 1, va0, va1, va7)
         /\ j \in {13, 19, 24, 29} => HandlerAt(act, 30, va0, va1, va7)
<1> DEFINE t == act.trap
           p == act.printed
<1>1. /\ t \in 1 .. 4
      /\ p = (IF j \in Once THEN 1 ELSE IF j \in Twice THEN 2 ELSE 0)
      /\ j # 0 => va0 = t
      /\ j \in {2, 4, 6, 8} => va1 = j \div 2
      /\ j \in 3 .. 8 => t > (j - 1) \div 2
      /\ j \in (9 .. 29) \ {9, 14, 20, 25} => va7 = 1
  BY DEF HandlerAt, Traps
<1>2. j = 0 => HandlerAt(act, 1, act.trap, va1, va7)
  BY <1>1 DEF HandlerAt, Once, Twice
<1>3. j \in {1, 3, 5, 7} => HandlerAt(act, j + 1, va0, (j + 1) \div 2, va7)
  BY <1>1 DEF HandlerAt, Once, Twice
<1>4. j \in {2, 4, 6, 8} /\ va0 = va1 => HandlerAt(act, Branch(j), va0, va1, va7)
  BY <1>1 DEF HandlerAt, Once, Twice, Branch
<1>5. j \in {2, 4, 6, 8} /\ va0 # va1 => HandlerAt(act, j + 1, va0, va1, va7)
  BY <1>1 DEF HandlerAt, Once, Twice
<1>6. j \in {9, 14, 20, 25} => HandlerAt(act, j + 1, va0, va1, 1)
  BY <1>1 DEF HandlerAt, Once, Twice
<1>7. j \in {10, 12, 15, 18, 21, 23, 26, 28} =>
        /\ va7 = 1 /\ va0 = act.trap /\ act.printed < 2
        /\ HandlerAt([act EXCEPT !.printed = @ + 1], j + 1, va0, va1, va7)
  BY <1>1 DEF HandlerAt, Once, Twice
<1>8. j \in {11, 16, 17, 22, 27} => HandlerAt(act, j + 1, va0, va1, va7)
  BY <1>1 DEF HandlerAt, Once, Twice
<1>9. j \in {13, 19, 24, 29} => HandlerAt(act, 30, va0, va1, va7)
  BY <1>1 DEF HandlerAt, Once, Twice
<1> QED BY <1>2, <1>3, <1>4, <1>5, <1>6, <1>7, <1>8, <1>9

(* What a service's instruction leaves as it is. *)
KeepsAll(mm, d) ==
  /\ MachineShape(d)
  /\ d.mem = mm.mem /\ d.mepc = mm.mepc /\ d.mcause = mm.mcause /\ d.code = mm.code
  /\ d.x[sp] = mm.x[sp]

LEMMA WritingKeepsAll ==
  ASSUME NEW mm, MachineShape(mm), NEW rd \in Regs \ {sp}, NEW v
  PROVE  LET d == SetReg(mm, rd, v) IN
         /\ KeepsAll(mm, d) /\ d.pc = mm.pc
         /\ rd # 0 => d.x[rd] = v
         /\ \A r \in Regs \ {rd} : d.x[r] = mm.x[r]
<1>1. sp \in Regs \ {rd}
  BY DEF Regs, sp
<1> QED BY <1>1, WritesReg DEF KeepsAll

LEMMA JumpingKeepsAll ==
  ASSUME NEW mm, MachineShape(mm), NEW v
  PROVE  LET d == SetPc(mm, v) IN
         KeepsAll(mm, d) /\ d.pc = v /\ d.x = mm.x
BY WritesPc DEF KeepsAll

(* A service's instruction takes it to another of the trampoline, and prints
   either nothing or the service's trap. *)
LEMMA HandlerStep ==
  ASSUME NEW mm, MachineShape(mm),
         NEW act \in [trap : Traps, printed : 0 .. 2], NEW j \in 0 .. 29,
         mm.pc = TRAMPOLINE + j, mm.mcause = act.trap,
         HandlerAt(act, j, mm.x[a0], mm.x[a1], mm.x[a7])
  PROVE  LET i    == Fetch(mm)
             d    == Doit(i, mm)
             Goes(act2) == \E k \in 0 .. 30 :
               /\ d.pc + 1 = TRAMPOLINE + k
               /\ HandlerAt(act2, k, d.x[a0], d.x[a1], d.x[a7])
         IN /\ i.op # "mret"
            /\ KeepsAll(mm, d)
            /\ \/ Prints(i, mm) = <<>> /\ Goes(act)
               \/ /\ Prints(i, mm) = <<act.trap>> /\ act.printed < 2
                  /\ Goes([act EXCEPT !.printed = @ + 1])
<1> DEFINE i == At(j)
           d == Doit(i, mm)
           Goes(act2) == \E k \in 0 .. 30 :
               /\ d.pc + 1 = TRAMPOLINE + k
               /\ HandlerAt(act2, k, d.x[a0], d.x[a1], d.x[a7])
           Done == /\ i.op # "mret"
                   /\ KeepsAll(mm, d)
                   /\ \/ Prints(i, mm) = <<>> /\ Goes(act)
                      \/ /\ Prints(i, mm) = <<act.trap>> /\ act.printed < 2
                         /\ Goes([act EXCEPT !.printed = @ + 1])
<1> SUFFICES Done
  <2>1. Fetch(mm) = At(j)
    <3>1. j \in 0 .. 30
      OBVIOUS
    <3> QED BY <3>1, FetchTrampoline
  <2> QED BY <2>1
<1>0. /\ j \in 0 .. 30 /\ j + 1 \in 0 .. 30 /\ 30 \in 0 .. 30 /\ Branch(j) \in 0 .. 30
      /\ (TRAMPOLINE + j) + 1 = TRAMPOLINE + (j + 1)
  BY DEF TRAMPOLINE, Branch
<1>1. CASE j = 0
  <2>1. /\ a0 \in Regs \ {sp} /\ a0 # 0
        /\ a1 \in Regs \ {a0} /\ a7 \in Regs \ {a0}
    BY DEF Regs, sp, a0, a1, a7
  <2>2. i = ReadCause(a0)
    BY <1>1, TrampolineDoes
  <2> HIDE DEF i
  <2>3. d = SetReg(mm, a0, act.trap) /\ Prints(i, mm) = <<>> /\ i.op # "mret"
    BY <2>2, DoesReadCause
  <2> HIDE DEF d
  <2>4. /\ KeepsAll(mm, d) /\ d.pc = mm.pc /\ d.x[a0] = act.trap
        /\ d.x[a1] = mm.x[a1] /\ d.x[a7] = mm.x[a7]
    BY <2>1, <2>3, WritingKeepsAll
  <2>5. d.pc + 1 = TRAMPOLINE + (j + 1)
    BY <1>0, <2>4
  <2>6. HandlerAt(act, j + 1, act.trap, mm.x[a1], mm.x[a7])
    <3>1. HandlerAt(act, 1, act.trap, mm.x[a1], mm.x[a7])
      BY <1>0, <1>1, HandlerGoesOn
    <3> QED BY <1>1, <3>1
  <2> QED BY <1>0, <1>1, <2>3, <2>4, <2>5, <2>6
<1>2. CASE j \in {1, 3, 5, 7}
  <2>1. /\ a1 \in Regs \ {sp} /\ a1 # 0
        /\ a0 \in Regs \ {a1} /\ a7 \in Regs \ {a1}
    BY DEF Regs, sp, a0, a1, a7
  <2> DEFINE c == (j + 1) \div 2
  <2>0. mm.x[0] + c = c
    BY <1>2 DEF MachineShape
  <2>2. i = Addi(a1, 0, c)
    BY <1>2, TrampolineDoes
  <2> HIDE DEF i
  <2>3. d = SetReg(mm, a1, c) /\ Prints(i, mm) = <<>> /\ i.op # "mret"
    <3> HIDE DEF c
    <3> QED BY <2>0, <2>2, DoesAddi
  <2> HIDE DEF d
  <2>4. /\ KeepsAll(mm, d) /\ d.pc = mm.pc /\ d.x[a1] = c
        /\ d.x[a0] = mm.x[a0] /\ d.x[a7] = mm.x[a7]
    BY <2>1, <2>3, WritingKeepsAll
  <2>5. d.pc + 1 = TRAMPOLINE + (j + 1)
    BY <1>0, <2>4
  <2>6. HandlerAt(act, j + 1, mm.x[a0], c, mm.x[a7])
    BY <1>0, <1>2, HandlerGoesOn
  <2> QED BY <1>0, <1>2, <2>3, <2>4, <2>5, <2>6
<1>3. CASE j \in {2, 4, 6, 8}
  <2> DEFINE o == Branch(j) - j
             v == IF mm.x[a0] = mm.x[a1] THEN mm.pc + o - 1 ELSE mm.pc
  <2>1. i = Beq(a0, a1, o)
    BY <1>3, TrampolineDoes
  <2> HIDE DEF i
  <2>2. d = SetPc(mm, v) /\ Prints(i, mm) = <<>> /\ i.op # "mret"
    BY <2>1, DoesBeq
  <2> HIDE DEF d
  <2>3. mm.x[a0] = mm.x[a1] => v + 1 = TRAMPOLINE + Branch(j)
    BY <1>3 DEF Branch, TRAMPOLINE
  <2>4. mm.x[a0] # mm.x[a1] => v + 1 = TRAMPOLINE + (j + 1)
    BY <1>0
  <2> HIDE DEF v
  <2>5. KeepsAll(mm, d) /\ d.pc = v /\ d.x = mm.x
    BY <2>2, JumpingKeepsAll
  <2>6. \E k \in 0 .. 30 : /\ d.pc + 1 = TRAMPOLINE + k
                       /\ HandlerAt(act, k, mm.x[a0], mm.x[a1], mm.x[a7])
    <3>1. /\ mm.x[a0] = mm.x[a1] => HandlerAt(act, Branch(j), mm.x[a0], mm.x[a1], mm.x[a7])
          /\ mm.x[a0] # mm.x[a1] => HandlerAt(act, j + 1, mm.x[a0], mm.x[a1], mm.x[a7])
      BY <1>0, <1>3, HandlerGoesOn
    <3> QED BY <1>0, <2>3, <2>4, <2>5, <3>1
  <2> QED BY <1>0, <2>2, <2>5, <2>6
<1>4. CASE j \in {9, 14, 20, 25}
  <2>1. /\ a7 \in Regs \ {sp} /\ a7 # 0
        /\ a0 \in Regs \ {a7} /\ a1 \in Regs \ {a7}
    BY DEF Regs, sp, a0, a1, a7
  <2>0. mm.x[0] + 1 = 1
    BY DEF MachineShape
  <2>2. i = Addi(a7, 0, 1)
    BY <1>4, TrampolineDoes
  <2> HIDE DEF i
  <2>3. d = SetReg(mm, a7, 1) /\ Prints(i, mm) = <<>> /\ i.op # "mret"
    BY <2>0, <2>2, DoesAddi
  <2> HIDE DEF d
  <2>4. /\ KeepsAll(mm, d) /\ d.pc = mm.pc /\ d.x[a7] = 1
        /\ d.x[a0] = mm.x[a0] /\ d.x[a1] = mm.x[a1]
    BY <2>1, <2>3, WritingKeepsAll
  <2>5. d.pc + 1 = TRAMPOLINE + (j + 1)
    BY <1>0, <2>4
  <2>6. HandlerAt(act, j + 1, mm.x[a0], mm.x[a1], 1)
    BY <1>0, <1>4, HandlerGoesOn
  <2> QED BY <1>0, <1>4, <2>3, <2>4, <2>5, <2>6
<1>5. CASE j \in {10, 12, 15, 18, 21, 23, 26, 28}
  <2>1. /\ mm.x[a7] = 1 /\ mm.x[a0] = act.trap /\ act.printed < 2
        /\ HandlerAt([act EXCEPT !.printed = @ + 1], j + 1, mm.x[a0], mm.x[a1], mm.x[a7])
    BY <1>0, <1>5, HandlerGoesOn
  <2>2. i = Ecall
    BY <1>5, TrampolineDoes
  <2> HIDE DEF i
  <2>3. d = mm /\ Prints(i, mm) = <<act.trap>> /\ i.op # "mret"
    BY <2>1, <2>2, DoesEcall
  <2> HIDE DEF d
  <2>4. KeepsAll(mm, d)
    BY <2>3 DEF KeepsAll
  <2>5. d.pc + 1 = TRAMPOLINE + (j + 1)
    BY <1>0, <2>3
  <2> QED BY <1>0, <2>1, <2>3, <2>4, <2>5
<1>6. CASE j \in {11, 16, 17, 22, 27}
  <2>1. PICK rd \in {0, t0, t1, t2} : \E v :
          d = SetReg(mm, rd, v) /\ Prints(i, mm) = <<>> /\ i.op # "mret"
    <3>1. CASE j = 27
      <4>1. i = Bit0(t2, t2)
        BY <3>1, TrampolineDoes
      <4> HIDE DEF i
      <4> QED BY ZenonT(60), <4>1, DoesBit0
    <3>2. CASE j # 27
      <4>1. PICK rd \in {0, t0, t1}, rs \in Regs, imm \in Int : i = Addi(rd, rs, imm)
        BY <1>6, <3>2, TrampolineDoes
      <4> DEFINE w == mm.x[rs] + imm
      <4> HIDE DEF i
      <4>2. d = SetReg(mm, rd, w) /\ Prints(i, mm) = <<>> /\ i.op # "mret"
        BY <4>1, DoesAddi
      <4> HIDE DEF d, w
      <4>3. rd \in {0, t0, t1, t2}
        OBVIOUS
      <4> QED BY <4>2, <4>3
    <3> QED BY <3>1, <3>2
  <2>2. /\ rd \in Regs \ {sp}
        /\ a0 \in Regs \ {rd} /\ a1 \in Regs \ {rd} /\ a7 \in Regs \ {rd}
    BY DEF Regs, sp, t0, t1, t2, a0, a1, a7
  <2> HIDE DEF d, i
  <2>3. /\ KeepsAll(mm, d) /\ d.pc = mm.pc
        /\ d.x[a0] = mm.x[a0] /\ d.x[a1] = mm.x[a1] /\ d.x[a7] = mm.x[a7]
    BY <2>1, <2>2, WritingKeepsAll
  <2>4. d.pc + 1 = TRAMPOLINE + (j + 1)
    BY <1>0, <2>3
  <2>5. HandlerAt(act, j + 1, mm.x[a0], mm.x[a1], mm.x[a7])
    BY <1>0, <1>6, HandlerGoesOn
  <2> QED BY <1>0, <2>1, <2>3, <2>4, <2>5
<1>7. CASE j \in {13, 19, 24, 29}
  <2> DEFINE o == 30 - j
             v == mm.pc + o - 1
  <2>1. i = Jal(o)
    BY <1>7, TrampolineDoes
  <2> HIDE DEF i
  <2>2. d = SetPc(mm, v) /\ Prints(i, mm) = <<>> /\ i.op # "mret"
    BY <2>1, DoesJal
  <2> HIDE DEF d
  <2>3. v + 1 = TRAMPOLINE + 30
    BY DEF TRAMPOLINE
  <2> HIDE DEF v
  <2>4. KeepsAll(mm, d) /\ d.pc = v /\ d.x = mm.x
    BY <2>2, JumpingKeepsAll
  <2>5. HandlerAt(act, 30, mm.x[a0], mm.x[a1], mm.x[a7])
    BY <1>0, <1>7, HandlerGoesOn
  <2> QED BY <1>0, <2>2, <2>3, <2>4, <2>5
<1>8. \/ j = 0 \/ j \in {1, 3, 5, 7} \/ j \in {2, 4, 6, 8} \/ j \in {9, 14, 20, 25}
      \/ j \in {10, 12, 15, 18, 21, 23, 26, 28} \/ j \in {11, 16, 17, 22, 27}
      \/ j \in {13, 19, 24, 29}
  OBVIOUS
<1> HIDE DEF Done
<1> QED BY <1>1, <1>2, <1>3, <1>4, <1>5, <1>6, <1>7, <1>8

(* The innermost service is what the machine executes; it returns at the last
   instruction of the trampoline. *)
LEMMA InnermostRuns ==
  ASSUME NEW mm, NEW acts, Consistent(mm, acts), acts # <<>>
  PROVE  /\ Len(acts) \in 1 .. 4
         /\ mm.mcause = acts[Len(acts)].trap
         /\ \E j \in 0 .. 30 :
              /\ mm.pc = TRAMPOLINE + j
              /\ HandlerAt(acts[Len(acts)], j, mm.x[a0], mm.x[a1], mm.x[a7])
<1> DEFINE n == Len(acts)
<1>1. /\ acts \in Services /\ Nested(acts)
      /\ mm.mcause = CauseIn(acts, n) /\ HandlersOK(mm, acts)
  BY DEF Consistent
<1>2. n \in 1 .. 4
  <2>1. n # 0
    BY <1>1, EmptySeq DEF Services
  <2> HIDE DEF n
  <2>2. n \in 0 .. 4
    BY <1>1, NestedDepth DEF n
  <2> QED BY <2>1, <2>2
<1>3. /\ n \in 1 .. n /\ n # 0
  BY <1>2
<1> HIDE DEF n
<1>4. mm.mcause = acts[n].trap
  BY <1>1, <1>3 DEF CauseIn
<1>5. \E j \in 0 .. 30 :
        mm.pc = TRAMPOLINE + j /\ HandlerAt(acts[n], j, mm.x[a0], mm.x[a1], mm.x[a7])
  <2>1. \E j \in 0 .. 30 :
          /\ PcOf(mm, acts, n) = TRAMPOLINE + j
          /\ HandlerAt(acts[n], j, RegOf(mm, acts, n, a0), RegOf(mm, acts, n, a1),
                       RegOf(mm, acts, n, a7))
    BY <1>1, <1>3 DEF HandlersOK, n
  <2>2. PcOf(mm, acts, n) = mm.pc /\ \A r : RegOf(mm, acts, n, r) = mm.x[r]
    BY DEF PcOf, RegOf, n
  <2> QED BY <2>1, <2>2
<1> QED BY <1>2, <1>4, <1>5 DEF n

LEMMA ReturnsAtMret ==
  ASSUME NEW mm, NEW j \in 0 .. 30, mm.pc = TRAMPOLINE + j
  PROVE  j = 30 => Fetch(mm).op = "mret"
<1>1. Fetch(mm) = At(j)
  BY FetchTrampoline
<1> QED BY <1>1, TrampolineAt DEF Mret, Inst

(* An instruction of the innermost service leaves the others as they are. *)
LEMMA HandlerKeeps ==
  ASSUME NEW mm, NEW acts, Consistent(mm, acts), acts # <<>>, Fetch(mm).op # "mret"
  PROVE  LET i     == Fetch(mm)
             d     == Doit(i, mm)
             out   == Prints(i, mm)
             n     == Len(acts)
             acts2 == [acts EXCEPT ![n].printed = @ + Len(out)]
         IN /\ MachineShape(d) /\ Consistent(StepOver(d), acts2)
            /\ d.x[sp] \in FRAME * (4 - Len(acts2)) .. STACK_BTM - FRAME * Len(acts2)
            /\ KeepsAll(mm, d) /\ SameUser(StepOver(d), acts2, mm, acts)
            /\ \/ out = <<>> /\ acts2 = acts
               \/ /\ out = <<acts[n].trap>> /\ acts[n].printed < 2
                  /\ acts2 = [acts EXCEPT ![n].printed = @ + 1]
<1> DEFINE i     == Fetch(mm)
           d     == Doit(i, mm)
           st    == StepOver(d)
           out   == Prints(i, mm)
           n     == Len(acts)
           acts2 == [acts EXCEPT ![n].printed = @ + Len(out)]
           S     == [trap : Traps, printed : 0 .. 2]
<1>1. /\ MachineShape(mm) /\ acts \in Services /\ Nested(acts)
      /\ mm.mcause = CauseIn(acts, n) /\ FramesOK(mm, acts) /\ HandlersOK(mm, acts)
  BY DEF Consistent
<1>2. n \in 1 .. 4 /\ mm.mcause = acts[n].trap
  BY InnermostRuns
<1>3. PICK j \in 0 .. 30 :
        mm.pc = TRAMPOLINE + j /\ HandlerAt(acts[n], j, mm.x[a0], mm.x[a1], mm.x[a7])
  BY InnermostRuns
<1>4. j \in 0 .. 29
  <2>1. j # 30
    BY <1>3, ReturnsAtMret
  <2> QED BY <1>3, <2>1
<1>5. n \in 1 .. n
  BY <1>2
<1>6. acts[n] \in S
  BY <1>1, <1>5, ServiceFields
<1> DEFINE Goes(act2) == \E k \in 0 .. 30 :
             /\ d.pc + 1 = TRAMPOLINE + k
             /\ HandlerAt(act2, k, d.x[a0], d.x[a1], d.x[a7])
<1>7. /\ KeepsAll(mm, d)
      /\ \/ out = <<>> /\ Goes(acts[n])
         \/ /\ out = <<acts[n].trap>> /\ acts[n].printed < 2
            /\ Goes([acts[n] EXCEPT !.printed = @ + 1])
  <2> HIDE DEF n
  <2> QED BY <1>1, <1>2, <1>3, <1>4, <1>6, HandlerStep
<1> HIDE DEF i, d, out, n, Goes
<1>8. /\ MachineShape(d)
      /\ d.mem = mm.mem /\ d.mepc = mm.mepc /\ d.mcause = mm.mcause
      /\ d.x[sp] = mm.x[sp] /\ d.code = mm.code
  BY <1>7 DEF KeepsAll
<1>9. /\ MachineShape(st)
      /\ st.mem = mm.mem /\ st.mepc = mm.mepc /\ st.mcause = mm.mcause
      /\ st.x = d.x /\ st.x[sp] = mm.x[sp] /\ st.pc = d.pc + 1
      /\ st.code = mm.code
  BY <1>8, StepOverFields
<1>10. /\ \/ out = <<>> /\ acts2 = acts
          \/ /\ out = <<acts[n].trap>> /\ acts[n].printed < 2
             /\ acts2 = [acts EXCEPT ![n].printed = @ + 1]
       /\ acts2 \in Services /\ Len(acts2) = n
       /\ acts2[n].trap = acts[n].trap
       /\ \A k \in 1 .. n : k # n => acts2[k] = acts[k]
       /\ Goes(acts2[n])
  <2>0. acts \in Seq(S) /\ n \in 1 .. Len(acts) /\ Len(acts) = n /\ DOMAIN acts = 1 .. n
    BY <1>1, <1>5, ServiceFields DEF Services, n
  <2>1. CASE out = <<>> /\ Goes(acts[n])
    <3>1. Len(out) = 0
      BY <2>1
    <3>2. acts[n].printed + 0 = acts[n].printed
      BY <1>6
    <3>3. [acts[n] EXCEPT !.printed = @ + 0] = acts[n]
      BY <1>6, <3>2
    <3>4. acts2 = [acts EXCEPT ![n] = [acts[n] EXCEPT !.printed = @ + 0]]
      BY <3>1
    <3>5. acts2 = acts
      BY <2>0, <3>3, <3>4
    <3> HIDE DEF acts2
    <3> QED BY <1>1, <2>0, <2>1, <3>5
  <2>2. CASE /\ out = <<acts[n].trap>> /\ acts[n].printed < 2
             /\ Goes([acts[n] EXCEPT !.printed = @ + 1])
    <3> DEFINE a2 == [acts[n] EXCEPT !.printed = @ + 1]
    <3>1. Len(out) = 1
      BY <2>2
    <3>2. a2 \in S /\ a2.trap = acts[n].trap
      BY <1>6, <2>2
    <3>3. acts2 = [acts EXCEPT ![n] = a2]
      BY <3>1
    <3>4. acts2 = [acts EXCEPT ![n].printed = @ + 1]
      BY <3>1
    <3>5. Goes(a2)
      BY <2>2
    <3> HIDE DEF a2, acts2, S
    <3>6. acts2 \in Seq(S) /\ Len(acts2) = n
      BY <2>0, <3>2, <3>3, ExceptSeq
    <3>7. acts2[n] = a2 /\ \A k \in 1 .. n : k # n => acts2[k] = acts[k]
      BY <2>0, <3>3
    <3> QED BY <2>2, <3>2, <3>4, <3>5, <3>6, <3>7 DEF Services, S
  <2> QED BY <1>7, <2>1, <2>2
<1> HIDE DEF acts2, st
<1>11. \A k \in 1 .. n : acts2[k].trap = acts[k].trap
  BY <1>10
<1>12. \A k \in 0 .. n : CauseIn(acts2, k) = CauseIn(acts, k)
  <2> SUFFICES ASSUME NEW k \in 0 .. n PROVE CauseIn(acts2, k) = CauseIn(acts, k)
    OBVIOUS
  <2>1. k = 0 \/ k \in 1 .. n
    BY <1>2
  <2> QED BY <1>11, <2>1 DEF CauseIn
<1>13. Nested(acts2)
  <2> SUFFICES ASSUME NEW k \in 1 .. n
               PROVE  Interrupts(acts2[k].trap, CauseIn(acts2, k - 1))
    BY <1>10 DEF Nested
  <2>1. k - 1 \in 0 .. n
    BY <1>2
  <2> QED BY <1>1, <1>11, <1>12, <2>1 DEF Nested, n
<1>14. \A k \in 0 .. n : FrameOf(st, acts2, k) = FrameOf(mm, acts, k)
  BY <1>9, <1>10 DEF FrameOf, n
<1>15. FramesOK(st, acts2)
  <2>1. mm.x[sp] \in FRAME * (4 - n) .. STACK_BTM - FRAME * n
    BY <1>1 DEF FramesOK, n
  <2>2. ASSUME NEW k \in 1 .. n
        PROVE  LET b == FrameOf(st, acts2, k) IN
               /\ st.mem[b + 1] = CauseIn(acts2, k - 1)
               /\ st.mem[b + 2] = 0
               /\ st.mem[b + 2 + sp] = b
    <3>1. k - 1 \in 0 .. n /\ k \in 0 .. n
      BY <1>2
    <3>2. LET b == FrameOf(mm, acts, k) IN
          /\ mm.mem[b + 1] = CauseIn(acts, k - 1)
          /\ mm.mem[b + 2] = 0
          /\ mm.mem[b + 2 + sp] = b
      BY <1>1 DEF FramesOK, n
    <3> QED BY <1>9, <1>12, <1>14, <3>1, <3>2
  <2> QED BY <1>9, <1>10, <2>1, <2>2 DEF FramesOK
<1>16. ASSUME NEW k \in 0 .. n - 1
       PROVE  /\ PcOf(st, acts2, k) = PcOf(mm, acts, k)
              /\ \A r : RegOf(st, acts2, k, r) = RegOf(mm, acts, k, r)
  <2>0. k # n /\ k + 1 \in 0 .. n
    BY <1>2
  <2>1. PcOf(st, acts2, k) = PcOf(mm, acts, k)
    <3>1. k # n - 1 => k + 2 \in 0 .. n
      BY <1>2
    <3> QED BY <1>9, <1>10, <1>14, <2>0, <3>1 DEF PcOf, n
  <2>2. \A r : RegOf(st, acts2, k, r) = RegOf(mm, acts, k, r)
    BY <1>9, <1>10, <1>14, <2>0 DEF RegOf, n
  <2> QED BY <2>1, <2>2
<1>17. HandlersOK(st, acts2)
  <2> SUFFICES ASSUME NEW k \in 1 .. n
      PROVE \E l \in 0 .. 30 :
              /\ PcOf(st, acts2, k) = TRAMPOLINE + l
              /\ HandlerAt(acts2[k], l, RegOf(st, acts2, k, a0), RegOf(st, acts2, k, a1),
                           RegOf(st, acts2, k, a7))
    BY <1>10 DEF HandlersOK
  <2>1. CASE k = n
    <3>1. PcOf(st, acts2, k) = d.pc + 1
      BY <1>9, <1>10, <2>1 DEF PcOf
    <3>2. \A r : RegOf(st, acts2, k, r) = d.x[r]
      BY <1>9, <1>10, <2>1 DEF RegOf
    <3> QED BY ZenonT(60), <1>10, <2>1, <3>1, <3>2 DEF Goes
  <2>2. CASE k # n
    <3>1. k \in 0 .. n - 1
      BY <1>2, <2>2
    <3>2. PcOf(st, acts2, k) = PcOf(mm, acts, k)
      BY <1>16, <3>1
    <3>3. \A r : RegOf(st, acts2, k, r) = RegOf(mm, acts, k, r)
      BY <1>16, <3>1
    <3>4. \E l \in 0 .. 30 :
            /\ PcOf(mm, acts, k) = TRAMPOLINE + l
            /\ HandlerAt(acts[k], l, RegOf(mm, acts, k, a0), RegOf(mm, acts, k, a1),
                         RegOf(mm, acts, k, a7))
      BY <1>1 DEF HandlersOK, n
    <3>5. acts2[k] = acts[k]
      BY <1>10, <2>2
    <3>6. /\ RegOf(st, acts2, k, a0) = RegOf(mm, acts, k, a0)
          /\ RegOf(st, acts2, k, a1) = RegOf(mm, acts, k, a1)
          /\ RegOf(st, acts2, k, a7) = RegOf(mm, acts, k, a7)
      BY <3>3
    <3> QED BY <3>2, <3>4, <3>5, <3>6
  <2> QED BY <2>1, <2>2
<1>18. st.mcause = CauseIn(acts2, n)
  <2>1. n \in 0 .. n
    BY <1>2
  <2> QED BY <1>1, <1>9, <1>12, <2>1
<1>19. Consistent(st, acts2)
  BY <1>9, <1>10, <1>13, <1>15, <1>17, <1>18 DEF Consistent
<1>20. d.x[sp] \in FRAME * (4 - n) .. STACK_BTM - FRAME * n
  BY <1>1, <1>8 DEF FramesOK, n
<1>21. SameUser(st, acts2, mm, acts)
  <2>1. 0 \in 0 .. n /\ 0 \in 0 .. n - 1
    BY <1>2
  <2> QED BY <1>9, <1>14, <1>16, <2>1 DEF SameUser
<1> QED BY <1>7, <1>8, <1>10, <1>19, <1>20, <1>21 DEF i, d, st, out, n, acts2

-----------------------------------------------------------------------------
(* The program's own instructions: they may do anything to registers, stack and
   pc, and nothing to what trap() keeps. *)
LEMMA DoitShape ==
  ASSUME NEW mm, MachineShape(mm), NEW i \in Instruction, i.op \notin {"mret", "data"}
  PROVE  LET d == Doit(i, mm) IN
         MachineShape(d) /\ d.mcause = mm.mcause /\ d.mepc = mm.mepc /\ d.code = mm.code
<1> DEFINE d == Doit(i, mm)
<1>1. CASE i.op \in {"addi", "bit0", "lw", "csrrsi"}
  <2>1. PICK v : d = SetReg(mm, i.rd, v)
    BY <1>1 DEF Doit, SetReg
  <2>2. i.rd \in Regs
    BY DEF Instruction
  <2> HIDE DEF d
  <2>3. MachineShape(d) /\ d.mcause = mm.mcause /\ d.mepc = mm.mepc /\ d.code = mm.code
    BY <2>1, <2>2, WritesReg
  <2> QED BY <2>3 DEF d
<1>2. CASE i.op \in {"beq", "jal", "jalr"}
  <2>1. PICK v : d = SetPc(mm, v)
    BY <1>2 DEF Doit, SetPc
  <2> HIDE DEF d
  <2>2. MachineShape(d) /\ d.mcause = mm.mcause /\ d.mepc = mm.mepc /\ d.code = mm.code
    BY <2>1, WritesPc
  <2> QED BY <2>2 DEF d
<1>3. CASE i.op = "sw"
  <2>1. PICK a, v : d = [mm EXCEPT !.mem[a] = v]
    BY <1>3 DEF Doit
  <2> HIDE DEF d
  <2>2. MachineShape(d) /\ d.mcause = mm.mcause /\ d.mepc = mm.mepc /\ d.code = mm.code
    BY <2>1 DEF MachineShape
  <2> QED BY <2>2 DEF d
<1>4. CASE i.op = "ecall"
  BY <1>4 DEF Doit
<1>5. i.op \in Ops
  BY DEF Instruction
<1> QED BY <1>1, <1>2, <1>3, <1>4, <1>5 DEF Ops

LEMMA FetchProgram ==
  ASSUME NEW mm, MachineShape(mm), InProgram(mm.code, mm.pc)
  PROVE  /\ Fetch(mm) = mm.code[mm.pc + 1] /\ Fetch(mm) \in Instruction
         /\ mm.pc + 1 \in 1 .. Len(mm.code)
<1> DEFINE c == mm.code
<1>1. c \in Seq(Instruction) /\ Len(c) \in 1 .. 1000
  BY ZenonT(60), TrapAssumption DEF MachineShape, TRAMPOLINE
<1>2. mm.pc \in 0 .. Len(c) - 1
  BY DEF InProgram
<1> HIDE DEF c
<1>3. mm.pc + 1 \in 1 .. Len(c) /\ mm.pc \in Int /\ mm.pc < 1000
  <2> DEFINE n == Len(c)
             q == mm.pc
  <2>1. n \in 1 .. 1000 /\ q \in 0 .. n - 1
    BY <1>1, <1>2
  <2> HIDE DEF n, q
  <2>2. q + 1 \in 1 .. n /\ q \in Int /\ q < 1000
    BY <2>1
  <2> QED BY <2>2 DEF n, q
<1>4. c[mm.pc + 1] \in Instruction
  BY ZenonT(60), <1>1, <1>3, ElementOfSeq
<1>5. ~InTrampoline(mm.pc)
  <2> DEFINE q == mm.pc
  <2> HIDE DEF q
  <2>1. q \in Int /\ q < 1000
    BY <1>3 DEF q
  <2>2. q \notin 1000 .. 1000 + 31 - 1
    BY <2>1
  <2> QED BY <2>2, TrampolineAt DEF InTrampoline, TRAMPOLINE, q
<1> QED BY <1>3, <1>4, <1>5 DEF Fetch, c

LEMMA UserKeeps ==
  ASSUME NEW mm, Consistent(mm, <<>>),
         InProgram(mm.code, mm.pc), Fetch(mm).op \notin {"mret", "data"}
  PROVE  LET d == Doit(Fetch(mm), mm) IN
         MachineShape(d) /\ Consistent(StepOver(d), <<>>) /\ d.mcause = 0
<1> DEFINE d  == Doit(Fetch(mm), mm)
           st == StepOver(d)
<1>1. MachineShape(mm) /\ mm.mcause = 0
  BY DEF Consistent, CauseIn
<1>2. MachineShape(d) /\ d.mcause = 0
  BY <1>1, FetchProgram, DoitShape
<1> HIDE DEF d
<1>3. MachineShape(st) /\ st.mcause = 0
  BY <1>2, StepOverFields
<1> HIDE DEF st
<1>4. Consistent(st, <<>>)
  <2>1. <<>> \in Services /\ Len(<<>>) = 0
    BY EmptySeq DEF Services
  <2> QED BY <1>3, <2>1 DEF Consistent, Nested, FramesOK, HandlersOK, CauseIn
<1> QED BY <1>2, <1>4 DEF d, st

-----------------------------------------------------------------------------
(* The poll after an instruction: whether or not trap() begins a service. *)
LEMMA PollKeeps ==
  ASSUME NEW mm, NEW acts, queue \in [Traps -> Nat],
         MachineShape(mm), Consistent(StepOver(mm), acts),
         mm.x[sp] \in FRAME * (4 - Len(acts)) .. STACK_BTM - FRAME * Len(acts),
         Poll(mm, acts)
  PROVE  TrapInv' /\ SameUser(m', active', StepOver(mm), acts)
<1>1. CASE Polls(mm)
  <2> DEFINE t == Top(queue)
  <2>1. t \in Traps /\ queue[t] > 0 /\ Interrupts(t, mm.mcause)
    BY <1>1, TopWaits DEF Polls
  <2>2. /\ m' = StepOver(Enter(t, mm)) /\ queue' = Popped(t)
        /\ active' = Append(acts, [trap |-> t, printed |-> 0])
    BY <1>1 DEF Poll, PollWhen
  <2> HIDE DEF t
  <2>3. queue' \in [Traps -> Nat]
    <3>1. queue[t] - 1 \in Nat
      BY <2>1
    <3> QED BY <2>2, <3>1 DEF Popped
  <2>4. /\ Consistent(StepOver(Enter(t, mm)), Append(acts, [trap |-> t, printed |-> 0]))
        /\ SameUser(StepOver(Enter(t, mm)), Append(acts, [trap |-> t, printed |-> 0]),
                    StepOver(mm), acts)
    BY <2>1, EnterKeeps
  <2>5. Consistent(m, active)'
    BY <2>2, <2>4
  <2>6. SameUser(m', active', StepOver(mm), acts)
    BY <2>2, <2>4
  <2> QED BY <2>3, <2>5, <2>6 DEF TrapInv
<1>2. CASE ~Polls(mm)
  <2>1. m' = StepOver(mm) /\ queue' = queue /\ active' = acts
    BY <1>2 DEF Poll, PollWhen
  <2>2. Consistent(m, active)'
    BY <2>1
  <2>3. SameUser(m', active', StepOver(mm), acts)
    BY <2>1 DEF SameUser
  <2> QED BY <2>1, <2>2, <2>3 DEF TrapInv
<1> QED BY <1>1, <1>2

(* The services after an instruction of the machine and before the poll. *)
Acts ==
  IF active = <<>> THEN active
  ELSE [active EXCEPT ![Len(active)].printed = @ + Len(Prints(Fetch(m), m))]

(* An instruction but for mret, executed by a service or by the program. *)
LEMMA ExecuteMeans ==
  ASSUME TrapInv, WellBehaved, Execute
  PROVE  LET mm  == Doit(Fetch(m), m)
             out == Prints(Fetch(m), m)
             n   == Len(active)
         IN /\ MachineShape(mm) /\ Consistent(StepOver(mm), Acts)
            /\ mm.x[sp] \in FRAME * (4 - Len(Acts)) .. STACK_BTM - FRAME * Len(Acts)
            /\ Poll(mm, Acts)
            /\ console' = console \o out
            /\ UNCHANGED <<running, raised>>
            /\ active = <<>> => Acts = <<>>
            /\ active # <<>> =>
                 /\ KeepsAll(m, mm) /\ SameUser(StepOver(mm), Acts, m, active)
                 /\ \/ out = <<>> /\ Acts = active
                    \/ /\ out = <<active[n].trap>> /\ active[n].printed < 2
                       /\ Acts = [active EXCEPT ![n].printed = @ + 1]
<1> DEFINE mm  == Doit(Fetch(m), m)
           out == Prints(Fetch(m), m)
           n   == Len(active)
<1>1. Consistent(m, active) /\ queue \in [Traps -> Nat]
  BY DEF TrapInv
<1>2. /\ m.pc >= 0 /\ Fetch(m).op # "mret" /\ console' = console \o out
      /\ UNCHANGED <<running, raised>>
  BY DEF Execute
<1>3. Poll(mm, Acts)
  BY DEF Execute, Acts
<1>4. CASE active = <<>>
  <2>1. /\ InProgram(m.code, m.pc) /\ Fetch(m).op \notin {"mret", "data"}
        /\ mm.x[sp] \in 4 * FRAME .. STACK_BTM
    BY <1>2, <1>4 DEF WellBehaved
  <2>2. MachineShape(mm) /\ Consistent(StepOver(mm), <<>>)
    BY <1>1, <1>4, <2>1, UserKeeps
  <2>3. Acts = <<>> /\ Len(Acts) = 0
    BY <1>4 DEF Acts
  <2> HIDE DEF mm
  <2>4. mm.x[sp] \in FRAME * (4 - Len(Acts)) .. STACK_BTM - FRAME * Len(Acts)
    BY <2>1, <2>3, TrapAssumption DEF FRAME
  <2> QED BY <1>2, <1>3, <1>4, <2>2, <2>3, <2>4 DEF mm
<1>5. CASE active # <<>>
  <2>1. Acts = [active EXCEPT ![n].printed = @ + Len(out)]
    BY <1>5 DEF Acts
  <2>2. /\ MachineShape(mm)
        /\ Consistent(StepOver(mm), [active EXCEPT ![n].printed = @ + Len(out)])
        /\ mm.x[sp] \in FRAME * (4 - Len([active EXCEPT ![n].printed = @ + Len(out)]))
             .. STACK_BTM - FRAME * Len([active EXCEPT ![n].printed = @ + Len(out)])
        /\ KeepsAll(m, mm)
        /\ SameUser(StepOver(mm), [active EXCEPT ![n].printed = @ + Len(out)], m, active)
        /\ \/ out = <<>> /\ [active EXCEPT ![n].printed = @ + Len(out)] = active
           \/ /\ out = <<active[n].trap>> /\ active[n].printed < 2
              /\ [active EXCEPT ![n].printed = @ + Len(out)] = [active EXCEPT ![n].printed = @ + 1]
    BY ZenonT(60), <1>1, <1>2, <1>5, HandlerKeeps
  <2> HIDE DEF mm, out, n
  <2>3. /\ MachineShape(mm) /\ Consistent(StepOver(mm), Acts)
        /\ mm.x[sp] \in FRAME * (4 - Len(Acts)) .. STACK_BTM - FRAME * Len(Acts)
        /\ KeepsAll(m, mm) /\ SameUser(StepOver(mm), Acts, m, active)
        /\ \/ out = <<>> /\ Acts = active
           \/ /\ out = <<active[n].trap>> /\ active[n].printed < 2
              /\ Acts = [active EXCEPT ![n].printed = @ + 1]
    BY <2>1, <2>2
  <2> QED BY <1>2, <1>3, <1>5, <2>3 DEF mm, out, n
<1> QED BY <1>4, <1>5

(* A mret ends the service that runs, which has printed twice. *)
LEMMA ReturnMeans ==
  ASSUME TrapInv, WellBehaved, Return
  PROVE  LET tr    == TrapRet(m)
             n     == Len(active)
             acts1 == SubSeq(active, 1, n - 1)
         IN /\ active # <<>> /\ n \in 1 .. 4 /\ active[n].printed = 2
            /\ MachineShape(tr) /\ Consistent(StepOver(tr), acts1)
            /\ tr.x[sp] \in FRAME * (4 - Len(acts1)) .. STACK_BTM - FRAME * Len(acts1)
            /\ SameUser(StepOver(tr), acts1, m, active)
            /\ Poll(tr, acts1)
            /\ UNCHANGED <<console, running, raised>>
<1> DEFINE n == Len(active)
<1>1. Consistent(m, active) /\ queue \in [Traps -> Nat]
  BY DEF TrapInv
<1>2. /\ m.pc >= 0 /\ Fetch(m).op = "mret"
      /\ Poll(TrapRet(m), SubSeq(active, 1, n - 1))
      /\ UNCHANGED <<console, running, raised>>
  BY DEF Return, ReturnBy
<1>3. active # <<>>
  BY <1>2 DEF WellBehaved
<1>4. n \in 1 .. 4 /\ m.mcause = active[n].trap
  BY <1>1, <1>3, InnermostRuns
<1>5. PICK j \in 0 .. 30 :
        m.pc = TRAMPOLINE + j /\ HandlerAt(active[n], j, m.x[a0], m.x[a1], m.x[a7])
  BY <1>1, <1>3, InnermostRuns
<1>6. active[n].printed = 2
  <2>1. MachineShape(m) /\ active[n] \in [trap : Traps, printed : 0 .. 2]
    <3>1. n \in 1 .. n
      BY <1>4
    <3> QED BY <1>1, <3>1, ServiceFields DEF Consistent
  <2>2. j \notin 0 .. 29
    BY <1>2, <1>4, <1>5, <2>1, HandlerStep
  <2>3. j = 30
    BY <1>5, <2>2
  <2> QED BY <1>5, <2>3 DEF HandlerAt, Once, Twice
<1> QED BY <1>1, <1>2, <1>3, <1>4, <1>6, ReturnKeeps

LEMMA PcIsNumber ==
  ASSUME TrapInv, WellBehaved
  PROVE  m.pc \in Int
<1>1. CASE active = <<>>
  BY <1>1 DEF WellBehaved
<1>2. CASE active # <<>>
  <2>1. \E j \in 0 .. 30 : m.pc = TRAMPOLINE + j
    BY <1>2, InnermostRuns DEF TrapInv
  <2> QED BY <2>1 DEF TRAMPOLINE
<1> QED BY <1>1, <1>2

(* What holds when a program is loaded. *)
LEMMA TrapInvInit ==
  ASSUME Init
  PROVE  TrapInv
<1>1. PICK p \in Programs : m = Reset(p)
  BY DEF Init
<1>2. active = <<>> /\ queue = NoTraps
  BY DEF Init
<1>3. MachineShape(m) /\ m.mcause = 0
  <2> DEFINE x   == [r \in Regs |-> CASE r = 0 -> 0 [] r = sp -> STACK_BTM
                                       [] r = ra -> END [] OTHER -> MAGIC]
             mem == [a \in StackWords |-> MAGIC]
  <2>1. m = [code |-> p, pc |-> 0, x |-> x, mepc |-> 0, mcause |-> 0, mem |-> mem]
    BY <1>1 DEF Reset
  <2>2. DOMAIN x = Regs /\ x[0] = 0 /\ DOMAIN mem = StackWords
    BY DEF Regs, sp, ra
  <2> HIDE DEF x, mem
  <2> QED BY <2>1, <2>2 DEF MachineShape
<1>4. Consistent(m, active)
  <2>1. <<>> \in Services /\ Len(<<>>) = 0
    BY EmptySeq DEF Services
  <2> QED BY <1>2, <1>3, <2>1 DEF Consistent, Nested, FramesOK, HandlersOK, CauseIn
<1> QED BY <1>2, <1>4 DEF TrapInv, NoTraps

LEMMA TrapInvStep ==
  ASSUME TrapInv, WellBehaved, [Next]_vars
  PROVE  TrapInv'
<1>1. queue \in [Traps -> Nat] /\ Consistent(m, active)
  BY DEF TrapInv
<1>2. ASSUME NEW t \in Traps, Raise(t) PROVE TrapInv'
  BY <1>1, <1>2 DEF Raise, TrapInv
<1>3. CASE Execute
  BY <1>1, <1>3, ExecuteMeans, PollKeeps
<1>4. CASE Return
  BY <1>1, <1>4, ReturnMeans, PollKeeps
<1>5. CASE Quit
  BY <1>1, <1>5 DEF Quit, TrapInv
<1>6. CASE Stopped \/ UNCHANGED vars
  BY <1>1, <1>6 DEF Stopped, vars, TrapInv
<1> QED BY <1>2, <1>3, <1>4, <1>5, <1>6 DEF Next, Step

(* Whatever program is loaded, as long as it is well behaved: the services that
   run nest by urgency, each frame of the stack holds what trap_ret needs, and
   each handler is at an instruction of the trampoline with the registers it
   needs there. *)
THEOREM TrapInvariance == Spec /\ []WellBehaved => []TrapInv
<1>1. Init => TrapInv
  BY TrapInvInit
<1>2. TrapInv /\ WellBehaved /\ [Next]_vars => TrapInv'
  BY TrapInvStep
<1> QED BY <1>1, <1>2, PTL DEF Spec

LEMMA NestedByInv ==
  ASSUME TrapInv
  PROVE  NestedByUrgency
<1>1. active \in Services /\ Nested(active) /\ m.mcause = CauseIn(active, Depth)
  BY DEF TrapInv, Consistent, Depth
<1>2. \A k : Cause(k) = CauseIn(active, k)
  BY DEF Cause, CauseIn
<1>3. ASSUME NEW k \in 1 .. Depth PROVE Interrupts(Cause(k), Cause(k - 1))
  <2>1. Depth \in Nat
    BY <1>1, ServiceFields DEF Depth
  <2>2. k # 0
    BY <2>1
  <2> QED BY <1>1, <1>2, <2>2 DEF Nested, Cause, Depth
<1>4. Depth <= Cardinality(Traps)
  <2>1. Depth \in 0 .. 4
    BY <1>1, NestedDepth DEF Depth
  <2>2. Cardinality(Traps) = 4
    <3>1. \A a, b \in Int : Cardinality(a .. b) = IF a > b THEN 0 ELSE b - a + 1
      BY FS_Interval
    <3>2. 1 \in Int /\ 4 \in Int
      OBVIOUS
    <3>3. Cardinality(1 .. 4) = IF 1 > 4 THEN 0 ELSE 4 - 1 + 1
      BY <3>1, <3>2, Zenon
    <3> QED BY <3>3 DEF Traps
  <2> QED BY <2>1, <2>2
<1> QED BY <1>1, <1>2, <1>3, <1>4 DEF NestedByUrgency

(* Services nest by urgency. *)
THEOREM ServicesNest == Spec /\ []WellBehaved => []NestedByUrgency
<1>1. TrapInv => NestedByUrgency
  BY NestedByInv
<1> QED BY <1>1, TrapInvariance, PTL

LEMMA EndsServedStep ==
  ASSUME TrapInv, TrapInv', WellBehaved, [Next]_vars, m.pc >= 0, m'.pc < 0
  PROVE  IsEmpty(queue') /\ active' = <<>>
<1>1. active' = <<>>
  <2> SUFFICES ASSUME active' # <<>> PROVE FALSE
    OBVIOUS
  <2>1. Consistent(m', active')
    BY DEF TrapInv
  <2>2. \E j \in 0 .. 30 : m'.pc = TRAMPOLINE + j
    BY <2>1, InnermostRuns
  <2> QED BY <2>2 DEF TRAMPOLINE
<1>2. ASSUME NEW mm, NEW acts, MachineShape(mm), Consistent(StepOver(mm), acts), Poll(mm, acts)
      PROVE  IsEmpty(queue')
  <2>1. ~Polls(mm)
    <3> SUFFICES ASSUME Polls(mm) PROVE FALSE
      OBVIOUS
    <3>1. active' = Append(acts, [trap |-> Top(queue), printed |-> 0])
      BY <1>2 DEF Poll, PollWhen
    <3>2. acts \in Services
      BY <1>2 DEF Consistent
    <3>3. Top(queue) \in Traps
      BY TopWaits DEF Polls, TrapInv
    <3>4. Len(active') = Len(acts) + 1 /\ Len(acts) \in Nat
      BY <3>1, <3>2, <3>3, AppendProperties DEF Services
    <3> QED BY <1>1, <3>4
  <2>2. queue' = queue /\ active' = acts
    BY <1>2, <2>1 DEF Poll, PollWhen
  <2>3. mm.mcause = 0
    <3>1. StepOver(mm).mcause = CauseIn(acts, Len(acts))
      BY <1>2 DEF Consistent
    <3>2. Len(acts) = 0
      BY <1>1, <2>2
    <3> QED BY <1>2, <3>1, <3>2, StepOverFields DEF CauseIn
  <2>4. queue \in [Traps -> Nat]
    BY DEF TrapInv
  <2>5. CASE ~IsEmpty(queue)
    <3>1. Top(queue) \in Traps /\ 0 \in Causes
      BY <2>4, <2>5, TopWaits DEF Causes
    <3>2. Interrupts(Top(queue), mm.mcause)
      BY <2>3, <3>1, InterruptsMeans
    <3> QED BY <2>1, <2>5, <3>2 DEF Polls
  <2> QED BY <2>2, <2>5
<1>3. CASE Execute
  <2> DEFINE mm == Doit(Fetch(m), m)
  <2>1. MachineShape(mm) /\ Consistent(StepOver(mm), Acts) /\ Poll(mm, Acts)
    BY <1>3, ExecuteMeans
  <2> HIDE DEF mm
  <2> QED BY <1>1, <1>2, <2>1
<1>4. CASE Return
  <2> DEFINE mm   == TrapRet(m)
             acts == SubSeq(active, 1, Len(active) - 1)
  <2>1. MachineShape(mm) /\ Consistent(StepOver(mm), acts) /\ Poll(mm, acts)
    BY <1>4, ReturnMeans
  <2> HIDE DEF mm, acts
  <2> QED BY <1>1, <1>2, <2>1
<1>5. m' # m
  <2>1. m.pc \in Int
    BY PcIsNumber
  <2> QED BY <2>1
<1>6. ASSUME NEW t \in Traps, Raise(t) PROVE FALSE
  BY <1>5, <1>6 DEF Raise
<1>7. ~Quit /\ ~Stopped /\ ~UNCHANGED vars
  BY <1>5 DEF Quit, Stopped, vars
<1> QED BY <1>1, <1>3, <1>4, <1>6, <1>7 DEF Next, Step

(* The program does not reach its end with a trap unserved. *)
THEOREM EndsServedAlways == Spec /\ []WellBehaved => EndsServed
<1>1. TrapInv /\ TrapInv' /\ WellBehaved /\ [Next]_vars
        => [m.pc >= 0 /\ m'.pc < 0 => IsEmpty(queue') /\ active' = <<>>]_vars
  BY EndsServedStep
<1> QED BY <1>1, TrapInvariance, PTL DEF Spec, EndsServed

-----------------------------------------------------------------------------
(* What the services that run have still to print of trap t. *)
BegunIn(acts, t) == {k \in 1 .. Len(acts) : acts[k].trap = t}

Owed(acts, t) ==
  2 * Cardinality(BegunIn(acts, t))
    - (IF \E k \in BegunIn(acts, t) : acts[k].printed = 1 THEN 1 ELSE 0)
    - (IF \E k \in BegunIn(acts, t) : acts[k].printed = 2 THEN 2 ELSE 0)

LEMMA OwedByNone ==
  ASSUME NEW acts, NEW t, \A k \in 1 .. Len(acts) : acts[k].trap # t
  PROVE  Owed(acts, t) = 0
<1>1. BegunIn(acts, t) = {}
  BY DEF BegunIn
<1>2. Cardinality({}) = 0
  BY FS_EmptySet
<1> QED BY <1>1, <1>2 DEF Owed

LEMMA OwedByOne ==
  ASSUME NEW acts \in Services, Nested(acts), NEW k \in 1 .. Len(acts)
  PROVE  Owed(acts, acts[k].trap) = 2 - acts[k].printed
<1> DEFINE t == acts[k].trap
<1>1. \A j \in 1 .. Len(acts) : acts[j].trap \in Int /\ acts[j].printed \in 0 .. 2
  BY ServiceFields DEF Traps
<1>2. BegunIn(acts, t) = {k}
  <2> SUFFICES ASSUME NEW j \in 1 .. Len(acts), acts[j].trap = t PROVE j = k
    BY DEF BegunIn
  <2>1. ~(j < k) /\ ~(k < j)
    BY <1>1, NestedDepth
  <2>2. Len(acts) \in Nat
    BY ServiceFields
  <2> QED BY <2>1, <2>2
<1>3. Cardinality({k}) = 1
  BY FS_Singleton
<1> QED BY <1>1, <1>2, <1>3 DEF Owed

LEMMA OwedIsNumber ==
  ASSUME NEW acts \in Services, Nested(acts), NEW t
  PROVE  Owed(acts, t) \in Int
<1>1. CASE \A k \in 1 .. Len(acts) : acts[k].trap # t
  BY <1>1, OwedByNone
<1>2. ASSUME NEW k \in 1 .. Len(acts), acts[k].trap = t PROVE Owed(acts, t) \in Int
  BY <1>2, OwedByOne, ServiceFields
<1> QED BY <1>1, <1>2

(* A service that prints owes one less, one that ends owed nothing, one that
   begins owes two. *)
LEMMA OwedAfterPrint ==
  ASSUME NEW acts \in Services, Nested(acts), NEW acts2 \in Services, Nested(acts2),
         NEW n, n = Len(acts), n \in 1 .. n, NEW t, Len(acts2) = n,
         \A k \in 1 .. n : k # n => acts2[k] = acts[k],
         acts2[n].trap = acts[n].trap, acts2[n].printed = acts[n].printed + 1
  PROVE  /\ t = acts[n].trap => Owed(acts2, t) = Owed(acts, t) - 1
         /\ t # acts[n].trap => Owed(acts2, t) = Owed(acts, t)
<1>1. \A k \in 1 .. n : acts[k] \in [trap : Traps, printed : 0 .. 2]
  BY ServiceFields
<1>2. /\ \A k \in 1 .. n : acts2[k].trap = acts[k].trap
      /\ \A k \in 1 .. n : k # n => acts2[k] = acts[k]
      /\ acts2[n].printed = acts[n].printed + 1
  OBVIOUS
<1>3. Len(acts2) = n
  OBVIOUS
<1>4. CASE t = acts[n].trap
  <2>1. Owed(acts, t) = 2 - acts[n].printed
    BY <1>4, OwedByOne
  <2>2. Owed(acts2, acts2[n].trap) = 2 - acts2[n].printed
    BY <1>3, OwedByOne
  <2>3. acts[n].printed \in 0 .. 2
    BY <1>1
  <2> QED BY <1>2, <1>4, <2>1, <2>2, <2>3
<1>5. CASE t # acts[n].trap
  <2>1. ASSUME \A k \in 1 .. n : acts[k].trap # t
        PROVE  Owed(acts2, t) = Owed(acts, t)
    <3>1. Owed(acts, t) = 0
      BY <2>1, OwedByNone
    <3>2. \A k \in 1 .. Len(acts2) : acts2[k].trap # t
      BY <1>2, <1>3, <2>1
    <3>3. Owed(acts2, t) = 0
      BY <3>2, OwedByNone
    <3> QED BY <3>1, <3>3
  <2>2. ASSUME NEW k \in 1 .. n, acts[k].trap = t
        PROVE  Owed(acts2, t) = Owed(acts, t)
    <3>1. k # n
      BY <1>5, <2>2
    <3>2. Owed(acts2, acts2[k].trap) = 2 - acts2[k].printed
      BY <1>3, OwedByOne
    <3>3. Owed(acts, acts[k].trap) = 2 - acts[k].printed
      BY OwedByOne
    <3> QED BY <1>2, <2>2, <3>1, <3>2, <3>3
  <2>3. Owed(acts, t) \in Int
    BY OwedIsNumber
  <2>4. Owed(acts2, t) = Owed(acts, t)
    BY <2>1, <2>2
  <2> QED BY <1>5, <2>4
<1> QED BY <1>4, <1>5

LEMMA OwedAfterEnd ==
  ASSUME NEW acts \in Services, Nested(acts), NEW acts1 \in Services, Nested(acts1),
         NEW n, n = Len(acts), n \in 1 .. n, acts[n].printed = 2,
         acts1 = SubSeq(acts, 1, n - 1), NEW t
  PROVE  Owed(acts1, t) = Owed(acts, t)
<1>1. n \in Nat
  BY ServiceFields
<1>2. Len(acts1) = n - 1 /\ \A k \in 1 .. n - 1 : acts1[k] = acts[k]
  BY <1>1, FrontIs
<1>3. \A k \in 1 .. n - 1 : k \in 1 .. n
  BY <1>1
<1>4. CASE \A k \in 1 .. n : acts[k].trap # t
  <2>1. Owed(acts, t) = 0
    BY <1>4, OwedByNone
  <2>2. \A k \in 1 .. Len(acts1) : acts1[k].trap # t
    BY <1>2, <1>3, <1>4
  <2>3. Owed(acts1, t) = 0
    BY <2>2, OwedByNone
  <2> QED BY <2>1, <2>3
<1>5. CASE t = acts[n].trap
  <2>1. Owed(acts, t) = 2 - 2
    BY <1>5, OwedByOne
  <2>2. \A k \in 1 .. n - 1 : acts1[k].trap # t
    <3> SUFFICES ASSUME NEW k \in 1 .. n - 1 PROVE acts[k].trap # acts[n].trap
      BY <1>2, <1>5
    <3>1. k \in 1 .. n /\ k < n
      BY <1>1
    <3>2. acts[k].trap > acts[n].trap
      BY <3>1, NestedDepth
    <3>3. acts[k].trap \in Int /\ acts[n].trap \in Int
      BY <3>1, ServiceFields DEF Traps
    <3> QED BY <3>2, <3>3
  <2>3. \A k \in 1 .. Len(acts1) : acts1[k].trap # t
    BY <1>2, <2>2
  <2>4. Owed(acts1, t) = 0
    BY <2>3, OwedByNone
  <2> QED BY <2>1, <2>4
<1>6. ASSUME NEW k \in 1 .. n, acts[k].trap = t, t # acts[n].trap
      PROVE  Owed(acts1, t) = Owed(acts, t)
  <2>1. k \in 1 .. n - 1
    <3>1. k # n
      BY <1>6
    <3> QED BY <1>1, <3>1
  <2>2. Owed(acts1, acts1[k].trap) = 2 - acts1[k].printed
    BY <1>2, <2>1, OwedByOne
  <2>3. Owed(acts, acts[k].trap) = 2 - acts[k].printed
    BY OwedByOne
  <2> QED BY <1>2, <1>6, <2>1, <2>2, <2>3
<1> QED BY <1>4, <1>5, <1>6

LEMMA OwedAfterBegin ==
  ASSUME NEW acts \in Services, Nested(acts), NEW acts2 \in Services, Nested(acts2),
         NEW u \in Traps, NEW t, NEW n, n = Len(acts), Len(acts2) = n + 1,
         \A k \in 1 .. n : acts2[k] = acts[k],
         acts2[n + 1].trap = u, acts2[n + 1].printed = 0
  PROVE  Owed(acts2, t) = Owed(acts, t) + (IF t = u THEN 2 ELSE 0)
<1>1. n \in Nat
  BY ServiceFields
<1>2. /\ Len(acts2) = n + 1 /\ \A k \in 1 .. n : acts2[k] = acts[k]
      /\ acts2[n + 1].trap = u /\ acts2[n + 1].printed = 0
  OBVIOUS
<1>3. n + 1 \in 1 .. n + 1 /\ \A k \in 1 .. n : k \in 1 .. n + 1 /\ k < n + 1
  BY <1>1
<1>4. \A k \in 1 .. n : acts[k].trap # u
  <2> SUFFICES ASSUME NEW k \in 1 .. n PROVE acts[k].trap # u
    OBVIOUS
  <2>1. acts2[k].trap > acts2[n + 1].trap
    BY <1>2, <1>3, NestedDepth
  <2>2. acts2[k].trap \in Int /\ acts2[n + 1].trap \in Int
    BY <1>2, <1>3, ServiceFields DEF Traps
  <2>3. acts2[k].trap # acts2[n + 1].trap
    BY <2>1, <2>2
  <2>4. acts2[k].trap = acts[k].trap /\ acts2[n + 1].trap = u
    BY <1>2
  <2> QED BY <2>3, <2>4
<1>5. CASE t = u
  <2>1. Owed(acts, t) = 0
    BY <1>4, <1>5, OwedByNone
  <2>2. Owed(acts2, acts2[n + 1].trap) = 2 - acts2[n + 1].printed
    BY <1>2, <1>3, OwedByOne
  <2> QED BY <1>2, <1>5, <2>1, <2>2
<1>6. CASE t # u /\ \A k \in 1 .. n : acts[k].trap # t
  <2>1. \A k \in 1 .. n + 1 : k \in 1 .. n \/ k = n + 1
    BY <1>1
  <2>2. Owed(acts, t) = 0
    BY <1>6, OwedByNone
  <2>3. \A k \in 1 .. Len(acts2) : acts2[k].trap # t
    <3>1. acts2[n + 1].trap = u
      BY <1>2
    <3> QED BY <1>2, <1>6, <2>1, <3>1
  <2>4. Owed(acts2, t) = 0
    BY <2>3, OwedByNone
  <2>5. Owed(acts2, t) = Owed(acts, t) + 0
    BY <2>2, <2>4
  <2> QED BY <1>6, <2>5
<1>7. ASSUME NEW k \in 1 .. n, acts[k].trap = t, t # u
      PROVE  Owed(acts2, t) = Owed(acts, t) + 0
  <2>1. Owed(acts2, acts2[k].trap) = 2 - acts2[k].printed
    BY <1>2, <1>3, OwedByOne
  <2>2. Owed(acts, acts[k].trap) = 2 - acts[k].printed
    BY OwedByOne
  <2>3. Owed(acts, t) \in Int
    BY OwedIsNumber
  <2>4. acts2[k] = acts[k]
    BY <1>2
  <2>5. Owed(acts2, t) = Owed(acts, t)
    BY <1>7, <2>1, <2>2, <2>4
  <2> QED BY <2>3, <2>5
<1> QED BY <1>5, <1>6, <1>7

(* What a console shows of trap t. *)
PrintsIn(c, t) == Cardinality({k \in 1 .. Len(c) : c[k] = t})

Printed(c, v) == c \o <<v>>

LEMMA PrintsAppended ==
  ASSUME NEW S, NEW c \in Seq(S), NEW v
  PROVE  Printed(c, v) \in Seq(S \cup {v})
<1> DEFINE T == S \cup {v}
<1>1. c \in Seq(T) /\ <<v>> \in Seq(T)
  OBVIOUS
<1> HIDE DEF T
<1>2. c \o <<v>> \in Seq(T)
  BY <1>1, ConcatProperties
<1> QED BY <1>2 DEF Printed, T

LEMMA PrintsExtended ==
  ASSUME NEW S, NEW c \in Seq(S), NEW d, NEW v, d = Printed(c, v)
  PROVE  /\ Len(c) \in Nat /\ Len(d) = Len(c) + 1
         /\ \A k \in 1 .. Len(c) : d[k] = c[k]
         /\ d[Len(c) + 1] = v
<1> DEFINE n == Len(c)
           T == S \cup {v}
<1>1. c \in Seq(T) /\ <<v>> \in Seq(T) /\ Len(<<v>>) = 1 /\ <<v>>[1] = v /\ n \in Nat
  BY LenProperties
<1> HIDE DEF T
<1>2. /\ Len(d) = n + 1
      /\ \A k \in 1 .. Len(d) : d[k] = IF k <= n THEN c[k] ELSE <<v>>[k - n]
  BY <1>1, ConcatProperties DEF Printed
<1> HIDE DEF n
<1>3. \A k \in 1 .. n : k \in 1 .. Len(d) /\ k <= n
  BY <1>1, <1>2
<1>4. n + 1 \in 1 .. Len(d) /\ ~(n + 1 <= n) /\ (n + 1) - n = 1
  BY <1>1, <1>2
<1>5. d[n + 1] = v
  BY <1>1, <1>2, <1>4
<1>6. \A k \in 1 .. n : d[k] = c[k]
  BY <1>2, <1>3
<1> QED BY <1>1, <1>2, <1>5, <1>6 DEF n

LEMMA PrintsAreCounted ==
  ASSUME NEW c, NEW t, Len(c) \in Nat
  PROVE  PrintsIn(c, t) \in Nat
<1> DEFINE n == Len(c)
<1> HIDE DEF n
<1>1. IsFiniteSet({k \in 1 .. n : c[k] = t})
  <2>1. IsFiniteSet(1 .. n)
    BY FS_Interval DEF n
  <2> QED BY <2>1, FS_Subset
<1> QED BY <1>1, FS_CardinalityType DEF PrintsIn, n

LEMMA PrintsCounted ==
  ASSUME NEW c, NEW d, NEW v, NEW t,
         Len(c) \in Nat, Len(d) = Len(c) + 1,
         \A k \in 1 .. Len(c) : d[k] = c[k], d[Len(c) + 1] = v
  PROVE  (v = t => PrintsIn(d, t) = PrintsIn(c, t) + 1) /\ (v # t => PrintsIn(d, t) = PrintsIn(c, t))
<1> DEFINE n == Len(c)
           P == {k \in 1 .. n : c[k] = t}
           Q == {k \in 1 .. Len(d) : d[k] = t}
<1>1. /\ n \in Nat /\ Len(d) = n + 1
      /\ \A k \in 1 .. n : d[k] = c[k]
      /\ d[n + 1] = v
  OBVIOUS
<1> HIDE DEF n
<1>2. IsFiniteSet(P) /\ Cardinality(P) \in Nat
  <2>1. IsFiniteSet(1 .. n)
    BY <1>1, FS_Interval
  <2>2. IsFiniteSet(P)
    BY <2>1, FS_Subset
  <2> QED BY <2>2, FS_CardinalityType
<1>3. n + 1 \notin P
  BY <1>1
<1>4. \A k \in 1 .. n + 1 : k \in 1 .. n \/ k = n + 1
  BY <1>1
<1>5. n + 1 \in 1 .. n + 1 /\ \A k \in 1 .. n : k \in 1 .. n + 1
  BY <1>1
<1>6. ASSUME v = t PROVE Cardinality(Q) = Cardinality(P) + 1
  <2>1. Q = P \cup {n + 1}
    BY <1>1, <1>4, <1>5, <1>6
  <2> QED BY <1>2, <1>3, <2>1, FS_AddElement
<1>7. ASSUME v # t PROVE Cardinality(Q) = Cardinality(P)
  <2>1. Q = P
    BY <1>1, <1>4, <1>5, <1>7
  <2> QED BY <2>1
<1> QED BY <1>1, <1>2, <1>6, <1>7 DEF PrintsIn, n


(* What is printed of trap t is twice what was raised and does not wait, but for
   what the services that run owe. *)
CountInv ==
  /\ raised \in [Traps -> Nat]
  /\ \E S : console \in Seq(S)
  /\ \A t \in Traps :
       PrintsIn(console, t) = 2 * (raised[t] - queue[t]) - Owed(active, t)

LEMMA CountIsServed ==
  ASSUME TrapInv, CountInv
  PROVE  ServedExactlyOnce
<1> SUFFICES ASSUME NEW t \in Traps
             PROVE  LET served == raised[t] - queue[t] - Cardinality(Begun(t)) IN
                    PrintsOf(t) = 2 * served
                      + (IF \E k \in Begun(t) : active[k].printed = 1 THEN 1 ELSE 0)
                      + (IF \E k \in Begun(t) : active[k].printed = 2 THEN 2 ELSE 0)
  BY DEF ServedExactlyOnce
<1>1. Begun(t) = BegunIn(active, t) /\ PrintsOf(t) = PrintsIn(console, t)
  BY DEF Begun, BegunIn, PrintsOf, PrintsIn, Depth
<1> DEFINE c == Cardinality(BegunIn(active, t))
           a == IF \E k \in BegunIn(active, t) : active[k].printed = 1 THEN 1 ELSE 0
           b == IF \E k \in BegunIn(active, t) : active[k].printed = 2 THEN 2 ELSE 0
           r == raised[t]
           q == queue[t]
           p == PrintsIn(console, t)
<1>2. p = 2 * (r - q) - (2 * c - a - b)
  BY DEF CountInv, Owed
<1>3. r \in Int /\ q \in Int /\ a \in Int /\ b \in Int
  BY DEF CountInv, TrapInv
<1>4. c \in Int
  <2>1. Len(active) \in Nat
    BY ServiceFields DEF TrapInv, Consistent
  <2>2. IsFiniteSet(1 .. Len(active))
    BY <2>1, FS_Interval
  <2>3. IsFiniteSet(BegunIn(active, t))
    BY <2>2, FS_Subset DEF BegunIn
  <2> QED BY <2>3, FS_CardinalityType
<1> HIDE DEF a, b, c, r, q, p
<1>5. p = 2 * (r - q - c) + a + b
  BY <1>2, <1>3, <1>4
<1> QED BY <1>1, <1>5 DEF a, b, c, r, q, p

(* The poll takes a trap from the queue when its service begins. *)
LEMMA PollOwes ==
  ASSUME NEW mm, NEW acts, TrapInv, TrapInv', Poll(mm, acts), acts \in Services, Nested(acts),
         NEW t \in Traps
  PROVE  Owed(active', t) + 2 * queue'[t] = Owed(acts, t) + 2 * queue[t]
<1>1. queue \in [Traps -> Nat] /\ active' \in Services /\ Nested(active')
  BY DEF TrapInv, Consistent
<1>2. CASE Polls(mm)
  <2> DEFINE u == Top(queue)
  <2>1. u \in Traps
    BY <1>1, <1>2, TopWaits DEF Polls
  <2>2. /\ queue' = Popped(u)
        /\ active' = Append(acts, [trap |-> u, printed |-> 0])
    BY <1>2 DEF Poll, PollWhen
  <2> HIDE DEF u
  <2>3. [trap |-> u, printed |-> 0] \in [trap : Traps, printed : 0 .. 2]
    BY <2>1
  <2>4. /\ Len(active') = Len(acts) + 1
        /\ \A k \in 1 .. Len(acts) : active'[k] = acts[k]
        /\ active'[Len(acts) + 1] = [trap |-> u, printed |-> 0]
    BY <2>2, <2>3, AppendProperties DEF Services
  <2>5. Owed(active', t) = Owed(acts, t) + (IF t = u THEN 2 ELSE 0)
    <3> DEFINE n == Len(acts)
               b == active'
    <3>1. /\ n = Len(acts) /\ b \in Services /\ Nested(b) /\ Len(b) = n + 1
          /\ \A k \in 1 .. n : b[k] = acts[k]
          /\ b[n + 1].trap = u /\ b[n + 1].printed = 0
      BY <1>1, <2>4
    <3> HIDE DEF n, b
    <3>2. Owed(b, t) = Owed(acts, t) + (IF t = u THEN 2 ELSE 0)
      BY <2>1, <3>1, OwedAfterBegin
    <3> QED BY <3>2 DEF b
  <2>6. queue'[t] = queue[t] - (IF t = u THEN 1 ELSE 0)
    BY <1>1, <2>1, <2>2 DEF Popped
  <2>7. Owed(acts, t) \in Int /\ queue[t] \in Int
    BY <1>1, OwedIsNumber
  <2> QED BY <2>5, <2>6, <2>7
<1>3. CASE ~Polls(mm)
  BY <1>3 DEF Poll, PollWhen
<1> QED BY <1>2, <1>3

LEMMA CountInvStep ==
  ASSUME TrapInv, TrapInv', WellBehaved, PrintsNoTrap, CountInv, [Next]_vars
  PROVE  CountInv'
<1>1. /\ queue \in [Traps -> Nat] /\ raised \in [Traps -> Nat]
      /\ active \in Services /\ Nested(active)
      /\ active' \in Services /\ Nested(active')
      /\ queue' \in [Traps -> Nat]
  BY DEF TrapInv, Consistent, CountInv
<1>2. PICK S : console \in Seq(S)
  BY DEF CountInv
<1>3. \A t \in Traps :
        PrintsIn(console, t) = 2 * (raised[t] - queue[t]) - Owed(active, t)
  BY DEF CountInv
<1>4. ASSUME NEW u \in Traps, Raise(u) PROVE CountInv'
  <2>1. /\ raised' = [raised EXCEPT ![u] = @ + 1] /\ queue' = [queue EXCEPT ![u] = @ + 1]
        /\ active' = active /\ console' = console
    BY <1>4 DEF Raise
  <2>2. raised' \in [Traps -> Nat]
    BY <1>1, <2>1
  <2>3. \A t \in Traps : raised'[t] - queue'[t] = raised[t] - queue[t]
    BY <1>1, <2>1
  <2> QED BY <1>2, <1>3, <2>1, <2>2, <2>3 DEF CountInv
<1>5. CASE Execute
  <2> DEFINE mm  == Doit(Fetch(m), m)
             out == Prints(Fetch(m), m)
             n   == Len(active)
  <2>1. /\ Consistent(StepOver(mm), Acts) /\ Poll(mm, Acts)
        /\ console' = console \o out /\ raised' = raised
        /\ active = <<>> => Acts = <<>>
        /\ active # <<>> =>
             \/ out = <<>> /\ Acts = active
             \/ /\ out = <<active[n].trap>> /\ active[n].printed < 2
                /\ Acts = [active EXCEPT ![n].printed = @ + 1]
    BY <1>5, ExecuteMeans
  <2>2. out = <<>> \/ out = <<m.x[a0]>>
    BY DEF Prints
  <2>3. active = <<>> => \A t \in Traps : out # <<t>>
    BY <1>5 DEF PrintsNoTrap, Execute
  <2> HIDE DEF mm, out, n
  <2>4. Acts \in Services /\ Nested(Acts)
    BY <2>1 DEF Consistent
  <2>5. \E T : console' \in Seq(T)
    <3>1. CASE out = <<>>
      <4>1. console' = console
        BY <1>2, <2>1, <3>1, ConcatEmptySeq
      <4> QED BY <1>2, <4>1
    <3>2. CASE out = <<m.x[a0]>>
      <4>1. console' = Printed(console, m.x[a0])
        BY <2>1, <3>2 DEF Printed
      <4> QED BY <1>2, <4>1, PrintsAppended
    <3> QED BY <2>2, <3>1, <3>2
  <2>6. ASSUME NEW t \in Traps
        PROVE  /\ PrintsIn(console', t) + Owed(Acts, t) = PrintsIn(console, t) + Owed(active, t)
               /\ PrintsIn(console, t) \in Nat /\ PrintsIn(console', t) \in Nat
    <3>0. PrintsIn(console, t) \in Nat
      <4>1. Len(console) \in Nat
        BY <1>2, LenProperties
      <4> QED BY <4>1, PrintsAreCounted
    <3>4. \A v : out = <<v>> =>
            /\ v = t => PrintsIn(console', t) = PrintsIn(console, t) + 1
            /\ v # t => PrintsIn(console', t) = PrintsIn(console, t)
      <4> SUFFICES ASSUME NEW v, out = <<v>>
                   PROVE  /\ v = t => PrintsIn(console', t) = PrintsIn(console, t) + 1
                          /\ v # t => PrintsIn(console', t) = PrintsIn(console, t)
        OBVIOUS
      <4>1. console' = Printed(console, v)
        BY <2>1 DEF Printed
      <4>2. /\ Len(console) \in Nat /\ Len(console') = Len(console) + 1
            /\ \A k \in 1 .. Len(console) : console'[k] = console[k]
            /\ console'[Len(console) + 1] = v
        BY <1>2, <4>1, PrintsExtended
      <4> QED BY <4>2, PrintsCounted
    <3>1. CASE out = <<>> /\ Acts = active
      <4>1. console' = console
        BY <1>2, <2>1, <3>1, ConcatEmptySeq
      <4> QED BY <3>0, <3>1, <4>1
    <3>2. CASE active = <<>> /\ out = <<m.x[a0]>>
      <4>1. m.x[a0] # t
        BY <2>3, <3>2
      <4>2. PrintsIn(console', t) = PrintsIn(console, t)
        BY <3>2, <3>4, <4>1
      <4> QED BY <2>1, <3>0, <3>2, <4>2
    <3>3. CASE /\ active # <<>> /\ out = <<active[n].trap>> /\ active[n].printed < 2
               /\ Acts = [active EXCEPT ![n].printed = @ + 1]
      <4>1. n = Len(active) /\ n \in 1 .. n
        <5>1. Len(active) \in 1 .. 4
          BY <3>3, InnermostRuns DEF TrapInv
        <5> QED BY <5>1 DEF n
      <4>2. /\ t = active[n].trap => Owed(Acts, t) = Owed(active, t) - 1
            /\ t # active[n].trap => Owed(Acts, t) = Owed(active, t)
        <5>1. /\ DOMAIN active = 1 .. n /\ n \in Nat
              /\ \A k \in 1 .. n : active[k] \in [trap : Traps, printed : 0 .. 2]
          BY <1>1, <4>1, ServiceFields
        <5>2. /\ DOMAIN Acts = 1 .. n
              /\ \A k \in 1 .. n : k # n => Acts[k] = active[k]
              /\ Acts[n].trap = active[n].trap /\ Acts[n].printed = active[n].printed + 1
          BY <3>3, <4>1, <5>1
        <5>3. Len(Acts) = n
          BY <2>4, <5>1, <5>2, LenProperties, ServiceFields
        <5> DEFINE a == active
                   b == Acts
        <5>4. /\ a \in Services /\ Nested(a) /\ b \in Services /\ Nested(b)
              /\ n = Len(a) /\ n \in 1 .. n /\ Len(b) = n
              /\ \A k \in 1 .. n : k # n => b[k] = a[k]
              /\ b[n].trap = a[n].trap /\ b[n].printed = a[n].printed + 1
          BY <1>1, <2>4, <4>1, <5>2, <5>3
        <5> HIDE DEF a, b
        <5>5. /\ t = a[n].trap => Owed(b, t) = Owed(a, t) - 1
              /\ t # a[n].trap => Owed(b, t) = Owed(a, t)
          BY <5>4, OwedAfterPrint
        <5> QED BY <5>5 DEF a, b
      <4>3. Owed(active, t) \in Int
        BY <1>1, OwedIsNumber
      <4>4. CASE t = active[n].trap
        <5>1. PrintsIn(console', t) = PrintsIn(console, t) + 1
          BY <3>3, <3>4, <4>4
        <5>2. Owed(Acts, t) = Owed(active, t) - 1
          BY <4>2, <4>4
        <5> QED BY <3>0, <4>3, <5>1, <5>2
      <4>5. CASE t # active[n].trap
        <5>1. PrintsIn(console', t) = PrintsIn(console, t)
          BY <3>3, <3>4, <4>5
        <5>2. Owed(Acts, t) = Owed(active, t)
          BY <4>2, <4>5
        <5> QED BY <3>0, <4>3, <5>1, <5>2
      <4> QED BY <4>4, <4>5
    <3> QED BY <2>1, <2>2, <3>1, <3>2, <3>3
  <2>7. ASSUME NEW t \in Traps
        PROVE  PrintsIn(console', t) = 2 * (raised'[t] - queue'[t]) - Owed(active', t)
    <3>1. Owed(active', t) + 2 * queue'[t] = Owed(Acts, t) + 2 * queue[t]
      BY <2>1, <2>4, PollOwes
    <3>2. /\ Owed(active, t) \in Int /\ Owed(active', t) \in Int /\ Owed(Acts, t) \in Int
      BY <1>1, <2>4, OwedIsNumber
    <3>3. queue[t] \in Int /\ queue'[t] \in Int /\ raised[t] \in Int
      BY <1>1
    <3>4. PrintsIn(console, t) = 2 * (raised[t] - queue[t]) - Owed(active, t)
      BY <1>3
    <3> DEFINE p == PrintsIn(console, t)
               p2 == PrintsIn(console', t)
               oa == Owed(active, t)
               ob == Owed(Acts, t)
               oc == Owed(active', t)
               q == queue[t]
               q2 == queue'[t]
               r == raised[t]
    <3>5. /\ oc + 2 * q2 = ob + 2 * q /\ p2 + ob = p + oa /\ p = 2 * (r - q) - oa
          /\ oa \in Int /\ ob \in Int /\ oc \in Int /\ q \in Int /\ q2 \in Int /\ r \in Int
          /\ p \in Int /\ p2 \in Int
      BY <2>6, <3>1, <3>2, <3>3, <3>4
    <3> HIDE DEF p, p2, oa, ob, oc, q, q2, r
    <3>6. p2 = 2 * (r - q2) - oc
      BY <3>5
    <3> QED BY <2>1, <3>6 DEF p2, r, q2, oc
  <2> QED BY <1>1, <2>1, <2>5, <2>7 DEF CountInv
<1>6. CASE Return
  <2> DEFINE mm    == TrapRet(m)
             n     == Len(active)
             acts1 == SubSeq(active, 1, n - 1)
  <2>1. /\ n \in 1 .. 4 /\ active[n].printed = 2
        /\ Consistent(StepOver(mm), acts1) /\ Poll(mm, acts1)
        /\ console' = console /\ raised' = raised
    BY <1>6, ReturnMeans
  <2>2. acts1 \in Services /\ Nested(acts1)
    BY <2>1 DEF Consistent
  <2>3. ASSUME NEW t \in Traps
        PROVE  PrintsIn(console', t) = 2 * (raised'[t] - queue'[t]) - Owed(active', t)
    <3>1. Owed(acts1, t) = Owed(active, t)
      <4>1. n = Len(active) /\ n \in 1 .. n /\ acts1 = SubSeq(active, 1, n - 1)
        BY <2>1
      <4> HIDE DEF n, acts1
      <4> QED BY <1>1, <2>1, <2>2, <4>1, OwedAfterEnd
    <3> HIDE DEF mm, acts1
    <3>2. Owed(active', t) + 2 * queue'[t] = Owed(acts1, t) + 2 * queue[t]
      BY <2>1, <2>2, PollOwes
    <3>3. Owed(active, t) \in Int /\ Owed(active', t) \in Int
      BY <1>1, OwedIsNumber
    <3>4. queue[t] \in Int /\ queue'[t] \in Int /\ raised[t] \in Int
      BY <1>1
    <3>5. PrintsIn(console, t) = 2 * (raised[t] - queue[t]) - Owed(active, t)
      BY <1>3
    <3> DEFINE oa == Owed(active, t)
               oc == Owed(active', t)
               q == queue[t]
               q2 == queue'[t]
               r == raised[t]
    <3>6. /\ oc + 2 * q2 = oa + 2 * q
          /\ oa \in Int /\ oc \in Int /\ q \in Int /\ q2 \in Int /\ r \in Int
      BY <3>1, <3>2, <3>3, <3>4
    <3>7. PrintsIn(console, t) = 2 * (r - q) - oa
      BY <3>5
    <3> HIDE DEF oa, oc, q, q2, r
    <3>8. 2 * (r - q) - oa = 2 * (r - q2) - oc
      BY <3>6
    <3> QED BY <2>1, <3>7, <3>8 DEF r, q2, oc
  <2> QED BY <1>1, <1>2, <2>1, <2>3 DEF CountInv
<1>7. CASE Quit \/ Stopped \/ UNCHANGED vars
  <2>1. UNCHANGED <<queue, console, active, raised>>
    BY <1>7 DEF Quit, Stopped, vars
  <2> QED BY <2>1 DEF CountInv
<1> QED BY <1>4, <1>5, <1>6, <1>7 DEF Next, Step

LEMMA CountInvInit ==
  ASSUME Init
  PROVE  CountInv
<1>1. /\ active = <<>> /\ queue = NoTraps /\ raised = NoTraps /\ console = <<>>
  BY DEF Init
<1>2. console \in Seq({})
  BY <1>1, EmptySeq
<1>3. ASSUME NEW t \in Traps
      PROVE  PrintsIn(console, t) = 2 * (raised[t] - queue[t]) - Owed(active, t)
  <2>1. raised[t] = 0 /\ queue[t] = 0
    BY <1>1 DEF NoTraps
  <2>2. Len(<<>>) = 0 /\ 1 .. 0 = {}
    BY EmptySeq
  <2>3. Owed(active, t) = 0
    BY <1>1, <2>2, OwedByNone
  <2>4. PrintsIn(console, t) = 0
    <3>1. {k \in 1 .. Len(console) : console[k] = t} = {}
      BY <1>1, <2>2
    <3> QED BY <3>1, FS_EmptySet DEF PrintsIn
  <2> QED BY <2>1, <2>3, <2>4
<1> QED BY <1>1, <1>2, <1>3 DEF CountInv, NoTraps

(* No trap is lost, served twice or served by another's handler. *)
THEOREM EachTrapServedOnce ==
  Spec /\ []WellBehaved /\ []PrintsNoTrap => []ServedExactlyOnce
<1>1. Init => CountInv
  BY CountInvInit
<1>2. TrapInv /\ TrapInv' /\ WellBehaved /\ PrintsNoTrap /\ CountInv /\ [Next]_vars => CountInv'
  BY CountInvStep
<1>3. TrapInv /\ CountInv => ServedExactlyOnce
  BY CountIsServed
<1> QED BY <1>1, <1>2, <1>3, TrapInvariance, PTL DEF Spec


-----------------------------------------------------------------------------
(* The promise: what TrapService says of the program and its services. *)
IsFun(x) == x = [r \in Regs |-> x[r]]

ViewInv ==
  /\ IsFun(m.x) /\ m.x[sp] \in Int
  /\ \E S : console \in Seq(S)
  /\ raised \in [Traps -> Nat]

User == ProgramView(m.code, UserPc, UserX, m.mem)

(* The program is service 0. *)
UserView(mm, acts) ==
  ProgramView(mm.code, PcOf(mm, acts, 0),
              [r \in Regs |-> IF r = sp THEN FrameOf(mm, acts, 0) ELSE RegOf(mm, acts, 0, r)],
              mm.mem)

LEMMA SameView ==
  ASSUME NEW a, NEW sa, NEW b, NEW sb, SameUser(a, sa, b, sb)
  PROVE  UserView(a, sa) = UserView(b, sb)
<1> DEFINE x == [r \in Regs |-> IF r = sp THEN FrameOf(a, sa, 0) ELSE RegOf(a, sa, 0, r)]
           y == [r \in Regs |-> IF r = sp THEN FrameOf(b, sb, 0) ELSE RegOf(b, sb, 0, r)]
<1>1. x = y /\ y[sp] = FrameOf(b, sb, 0)
  BY DEF SameUser, Regs, sp
<1> HIDE DEF x, y
<1>2. ASSUME NEW w \in StackWords
      PROVE  (IF w >= x[sp] THEN a.mem[w] ELSE MAGIC) = (IF w >= y[sp] THEN b.mem[w] ELSE MAGIC)
  BY <1>1 DEF SameUser
<1>3. ProgramView(a.code, PcOf(a, sa, 0), x, a.mem) = ProgramView(b.code, PcOf(b, sb, 0), y, b.mem)
  BY <1>1, <1>2 DEF ProgramView, SameUser
<1> QED BY <1>3 DEF UserView, x, y

LEMMA OwnView ==
  ASSUME NEW mm, IsFun(mm.x), mm.x[sp] \in Int
  PROVE  UserView(mm, <<>>) = ProgramView(mm.code, mm.pc, mm.x, mm.mem)
<1> DEFINE y == [r \in Regs |-> IF r = sp THEN FrameOf(mm, <<>>, 0) ELSE RegOf(mm, <<>>, 0, r)]
           x == mm.x
<1>1. Len(<<>>) = 0
  OBVIOUS
<1>2. FrameOf(mm, <<>>, 0) = x[sp] /\ PcOf(mm, <<>>, 0) = mm.pc
  BY <1>1 DEF FrameOf, PcOf, FRAME
<1>3. \A r \in Regs : RegOf(mm, <<>>, 0, r) = x[r]
  BY <1>1 DEF RegOf
<1>4. y = [r \in Regs |-> x[r]]
  BY <1>2, <1>3
<1>5. y = x
  BY <1>4 DEF IsFun
<1> HIDE DEF x, y
<1> QED BY <1>2, <1>5 DEF UserView, x, y

LEMMA ViewIs ==
  ASSUME NEW mm, NEW acts, Consistent(mm, acts), IsFun(mm.x), mm.x[sp] \in Int,
         NEW n, n = Len(acts), NEW b, b = mm.x[sp] + FRAME * (n - 1),
         NEW x, x = IF acts = <<>> THEN mm.x
                    ELSE [r \in Regs |-> IF r = sp THEN b + FRAME ELSE mm.mem[b + 2 + r]],
         NEW p, p = CASE n = 0 -> mm.pc [] n = 1 -> mm.mepc + 1
                      [] OTHER -> mm.mem[b - FRAME] + 1
  PROVE  ProgramView(mm.code, p, x, mm.mem) = UserView(mm, acts)
<1>1. CASE acts = <<>>
  <2>1. n = 0 /\ x = mm.x
    BY <1>1
  <2>2. p = mm.pc
    BY <2>1
  <2> QED BY <1>1, <2>1, <2>2, OwnView
<1>2. CASE acts # <<>>
  <2>1. n \in 1 .. 4
    BY <1>2, InnermostRuns
  <2> DEFINE s == mm.x[sp]
  <2>2. FrameOf(mm, acts, 0) = s + 11 * (n - 0) /\ FrameOf(mm, acts, 1) = s + 11 * (n - 1)
        /\ FrameOf(mm, acts, 2) = s + 11 * (n - 2) /\ b = s + 11 * (n - 1)
    BY DEF FrameOf, FRAME
  <2>3. s \in Int
    OBVIOUS
  <2> HIDE DEF s
  <2>4. b + 11 = s + 11 * (n - 0) /\ b - 11 = s + 11 * (n - 2)
    BY <2>1, <2>2, <2>3
  <2>5. FrameOf(mm, acts, 0) = b + FRAME /\ FrameOf(mm, acts, 1) = b
        /\ FrameOf(mm, acts, 2) = b - FRAME
    BY <2>2, <2>4 DEF FRAME
  <2>6. p = PcOf(mm, acts, 0)
    <3>1. CASE n = 1
      <4>1. p = mm.mepc + 1
        BY <3>1
      <4>2. 0 # Len(acts) /\ 0 = Len(acts) - 1
        BY <3>1
      <4> QED BY <4>1, <4>2 DEF PcOf
    <3>2. CASE n # 1
      <4>1. p = mm.mem[b - FRAME] + 1
        BY <2>1, <3>2
      <4>2. 0 # Len(acts) /\ 0 # Len(acts) - 1 /\ 0 + 2 = 2
        BY <2>1, <3>2
      <4> QED BY <2>5, <4>1, <4>2 DEF PcOf
    <3> QED BY <3>1, <3>2
  <2>7. \A r \in Regs : RegOf(mm, acts, 0, r) = mm.mem[b + 2 + r]
    <3>1. 0 # Len(acts) /\ 0 + 1 = 1
      BY <2>1
    <3> QED BY <2>5, <3>1 DEF RegOf
  <2>8. x = [r \in Regs |-> IF r = sp THEN FrameOf(mm, acts, 0) ELSE RegOf(mm, acts, 0, r)]
    BY <1>2, <2>5, <2>7
  <2> QED BY <2>6, <2>8 DEF UserView
<1> QED BY <1>1, <1>2

LEMMA UserIs ==
  ASSUME TrapInv, ViewInv
  PROVE  User = UserView(m, active)
<1>1. Consistent(m, active) /\ IsFun(m.x) /\ m.x[sp] \in Int
  BY DEF TrapInv, ViewInv
<1>2. /\ Depth = Len(active) /\ Bottom = m.x[sp] + FRAME * (Depth - 1)
      /\ UserX = IF active = <<>> THEN m.x
                  ELSE [r \in Regs |-> IF r = sp THEN Bottom + FRAME ELSE m.mem[Bottom + 2 + r]]
      /\ UserPc = CASE Depth = 0 -> m.pc [] Depth = 1 -> m.mepc + 1
                     [] OTHER -> m.mem[Bottom - FRAME] + 1
  BY DEF Depth, Bottom, UserX, UserPc
<1>3. ProgramView(m.code, UserPc, UserX, m.mem) = UserView(m, active)
  BY <1>1, <1>2, ViewIs
<1> QED BY <1>3 DEF User

LEMMA UserWillBe ==
  ASSUME TrapInv', ViewInv'
  PROVE  User' = UserView(m', active')
<1>1. Consistent(m', active') /\ IsFun(m'.x) /\ m'.x[sp] \in Int
  BY DEF TrapInv, ViewInv
<1>2. /\ Depth' = Len(active') /\ Bottom' = m'.x[sp] + FRAME * (Depth' - 1)
      /\ UserX' = IF active' = <<>> THEN m'.x
                  ELSE [r \in Regs |-> IF r = sp THEN Bottom' + FRAME ELSE m'.mem[Bottom' + 2 + r]]
      /\ UserPc' = CASE Depth' = 0 -> m'.pc [] Depth' = 1 -> m'.mepc + 1
                     [] OTHER -> m'.mem[Bottom' - FRAME] + 1
  BY DEF Depth, Bottom, UserX, UserPc
<1>3. ProgramView(m'.code, UserPc', UserX', m'.mem) = UserView(m', active')
  BY <1>1, <1>2, ViewIs
<1> QED BY <1>3 DEF User

Executed == {"addi", "bit0", "lw", "sw", "beq", "jal", "jalr", "csrrsi", "ecall"}

LEMMA TrampolineOps ==
  ASSUME NEW j \in 0 .. 29
  PROVE  At(j).op \in Executed /\ At(j).op # "lw"
<1>1. CASE j = 0
  BY <1>1, TrampolineDoes DEF ReadCause, Inst, Executed
<1>2. CASE j \in {1, 3, 5, 7}
  BY <1>2, TrampolineDoes DEF Addi, Inst, Executed
<1>3. CASE j \in {2, 4, 6, 8}
  BY <1>3, TrampolineDoes DEF Beq, Inst, Executed
<1>4. CASE j \in {9, 14, 20, 25}
  BY <1>4, TrampolineDoes DEF Addi, Inst, Executed
<1>5. CASE j \in {10, 12, 15, 18, 21, 23, 26, 28}
  BY <1>5, TrampolineDoes DEF Ecall, Inst, Executed
<1>6. CASE j \in {11, 16, 17, 22}
  BY <1>6, TrampolineDoes DEF Addi, Inst, Executed
<1>7. CASE j = 27
  BY <1>7, TrampolineDoes DEF Bit0, Inst, Executed
<1>8. CASE j \in {13, 19, 24, 29}
  BY <1>8, TrampolineDoes DEF Jal, Inst, Executed
<1> QED BY <1>1, <1>2, <1>3, <1>4, <1>5, <1>6, <1>7, <1>8

(* Registers stay a function on Regs. *)
LEMMA WriteRegIsFun ==
  ASSUME NEW x, IsFun(x), NEW rd, NEW v
  PROVE  IsFun(WriteReg(x, rd, v))
<1> DEFINE y == [x EXCEPT ![rd] = v]
           z == [y EXCEPT ![0] = 0]
<1>1. DOMAIN x = Regs
  BY DEF IsFun
<1>2. y = [r \in Regs |-> IF r = rd THEN v ELSE x[r]]
  BY <1>1
<1>3. z = [r \in Regs |-> IF r = 0 THEN 0 ELSE y[r]]
  BY <1>2
<1>4. z = [r \in Regs |-> z[r]]
  BY <1>3
<1>5. z = WriteReg(x, rd, v)
  BY DEF WriteReg
<1> HIDE DEF z
<1> QED BY <1>4, <1>5 DEF IsFun

LEMMA DoitIsFun ==
  ASSUME NEW mm, MachineShape(mm), IsFun(mm.x), NEW i, i.op \in Executed
  PROVE  IsFun(Doit(i, mm).x)
<1> DEFINE d == Doit(i, mm)
<1>1. CASE i.op \in {"addi", "bit0", "lw", "csrrsi"}
  <2>1. PICK v : d = SetReg(mm, i.rd, v)
    BY <1>1 DEF Doit, SetReg
  <2> HIDE DEF d
  <2>2. d.x = WriteReg(mm.x, i.rd, v)
    BY <2>1 DEF SetReg, MachineShape
  <2>3. IsFun(d.x)
    BY <2>2, WriteRegIsFun
  <2> QED BY <2>3 DEF d
<1>2. CASE i.op \in {"beq", "jal", "jalr"}
  <2>1. PICK v : d = SetPc(mm, v)
    BY <1>2 DEF Doit, SetPc
  <2> HIDE DEF d
  <2>2. d.x = mm.x
    BY <2>1, WritesPc
  <2> QED BY <2>2 DEF d
<1>3. CASE i.op = "sw"
  <2>1. PICK a, v : d = [mm EXCEPT !.mem[a] = v]
    BY <1>3 DEF Doit
  <2> HIDE DEF d
  <2>2. d.x = mm.x
    BY <2>1 DEF MachineShape
  <2> QED BY <2>2 DEF d
<1>4. CASE i.op = "ecall"
  BY <1>4 DEF Doit
<1> QED BY <1>1, <1>2, <1>3, <1>4 DEF Executed

LEMMA PollIsFun ==
  ASSUME NEW mm, NEW acts, MachineShape(mm), IsFun(mm.x), mm.x[sp] \in Int, Poll(mm, acts)
  PROVE  IsFun(m'.x) /\ m'.x[sp] \in Int
<1>1. CASE Polls(mm)
  <2> DEFINE t == Top(queue)
             x == [mm.x EXCEPT ![sp] = @ - FRAME]
             mem == SaveAt(mm.x[sp] - FRAME, mm)
  <2>1. m' = StepOver(Enter(t, mm))
    BY <1>1 DEF Poll, PollWhen
  <2> HIDE DEF t
  <2>2. DOMAIN mm.x = Regs
    BY DEF IsFun
  <2>3. x = [r \in Regs |-> IF r = sp THEN mm.x[sp] - FRAME ELSE mm.x[r]]
    BY <2>2
  <2>4. IsFun(x) /\ x[sp] \in Int
    BY <2>3 DEF IsFun, Regs, sp, FRAME
  <2>5. m'.x = x
    <3> HIDE DEF mem
    <3>1. Enter(t, mm) = [mm EXCEPT !.mem = mem, !.x[sp] = @ - FRAME, !.mepc = mm.pc,
                                    !.pc = TRAMPOLINE - 1, !.mcause = t]
      BY DEF Enter, mem
    <3>2. Enter(t, mm).x = x /\ "x" \in DOMAIN Enter(t, mm)
      BY <3>1 DEF MachineShape
    <3> HIDE DEF x
    <3> QED BY <2>1, <3>2 DEF StepOver
  <2> QED BY <2>4, <2>5
<1>2. CASE ~Polls(mm)
  <2>1. m' = StepOver(mm)
    BY <1>2 DEF Poll, PollWhen
  <2>2. m'.x = mm.x
    BY <2>1, StepOverFields
  <2> QED BY <2>2
<1> QED BY <1>1, <1>2

LEMMA TrapRetIsFun ==
  ASSUME NEW mm, MachineShape(mm)
  PROVE  IsFun(TrapRet(mm).x)
<1> DEFINE x == [r \in Regs |-> IF r <= sp THEN mm.mem[mm.x[sp] + 2 + r]
                                ELSE mm.mem[mm.mem[mm.x[sp] + 2 + sp] + 2 + r]]
           y == [x EXCEPT ![sp] = @ + FRAME]
           c == mm.mem[mm.mem[mm.x[sp] + 2 + sp] + 1]
           e == mm.mem[mm.mem[mm.x[sp] + 2 + sp]]
<1>1. DOMAIN x = Regs
  OBVIOUS
<1>2. TrapRet(mm) = [mm EXCEPT !.pc = mm.mepc, !.x = y, !.mcause = c, !.mepc = e]
  BY DEF TrapRet
<1> HIDE DEF x
<1>3. y = [r \in Regs |-> IF r = sp THEN x[sp] + FRAME ELSE x[r]]
  BY <1>1
<1>4. IsFun(y)
  <2>1. y = [r \in Regs |-> y[r]]
    BY <1>3
  <2> HIDE DEF y
  <2> QED BY <2>1 DEF IsFun
<1> HIDE DEF y, c, e
<1>5. TrapRet(mm).x = y
  BY <1>2 DEF MachineShape
<1> QED BY <1>4, <1>5

LEMMA ViewInvInit ==
  ASSUME Init
  PROVE  ViewInv
<1>1. PICK p \in Programs : m = Reset(p)
  BY DEF Init
<1> DEFINE x == [r \in Regs |-> CASE r = 0 -> 0 [] r = sp -> STACK_BTM
                                  [] r = ra -> END [] OTHER -> MAGIC]
<1>2. m.x = x
  BY <1>1 DEF Reset
<1>3. IsFun(x)
  <2>1. x = [r \in Regs |-> x[r]]
    OBVIOUS
  <2> HIDE DEF x
  <2> QED BY <2>1 DEF IsFun
<1>4. x[sp] \in Int
  BY TrapAssumption DEF Regs, sp, ra
<1>5. console \in Seq({}) /\ raised \in [Traps -> Nat]
  BY EmptySeq DEF Init, NoTraps
<1> HIDE DEF x
<1> QED BY <1>2, <1>3, <1>4, <1>5 DEF ViewInv

LEMMA FetchIsExecuted ==
  ASSUME TrapInv, WellBehaved, Execute
  PROVE  Fetch(m).op \in Executed
<1>1. Consistent(m, active) /\ m.pc >= 0 /\ Fetch(m).op # "mret"
  BY DEF TrapInv, Execute
<1>2. CASE active = <<>>
  <2>1. InProgram(m.code, m.pc) /\ Fetch(m).op \notin {"mret", "data"}
    BY <1>1, <1>2 DEF WellBehaved
  <2>2. Fetch(m) \in Instruction
    BY <1>1, <2>1, FetchProgram DEF Consistent
  <2> QED BY <2>1, <2>2 DEF Instruction, Ops, Executed
<1>3. CASE active # <<>>
  <2>1. PICK j \in 0 .. 30 : m.pc = TRAMPOLINE + j
    BY <1>1, <1>3, InnermostRuns
  <2>2. j \in 0 .. 29
    <3>1. j # 30
      BY <1>1, <2>1, ReturnsAtMret
    <3> QED BY <3>1
  <2> QED BY <2>1, <2>2, FetchTrampoline, TrampolineOps
<1> QED BY <1>2, <1>3

LEMMA ViewInvStep ==
  ASSUME TrapInv, WellBehaved, ViewInv, [Next]_vars
  PROVE  ViewInv'
<1>1. /\ Consistent(m, active) /\ MachineShape(m) /\ queue \in [Traps -> Nat]
      /\ IsFun(m.x) /\ m.x[sp] \in Int /\ raised \in [Traps -> Nat]
  BY DEF TrapInv, Consistent, ViewInv
<1>2. PICK S : console \in Seq(S)
  BY DEF ViewInv
<1>3. ASSUME NEW t \in Traps, Raise(t) PROVE ViewInv'
  <2>1. m' = m /\ console' = console /\ raised' = [raised EXCEPT ![t] = @ + 1]
    BY <1>3 DEF Raise
  <2>2. raised' \in [Traps -> Nat]
    BY <1>1, <2>1
  <2> QED BY <1>1, <1>2, <2>1, <2>2 DEF ViewInv
<1>4. CASE Execute
  <2> DEFINE mm  == Doit(Fetch(m), m)
             out == Prints(Fetch(m), m)
  <2>1. /\ MachineShape(mm) /\ Poll(mm, Acts)
        /\ mm.x[sp] \in FRAME * (4 - Len(Acts)) .. STACK_BTM - FRAME * Len(Acts)
        /\ console' = console \o out /\ raised' = raised
    BY <1>4, ExecuteMeans
  <2>2. out = <<>> \/ out = <<m.x[a0]>>
    BY DEF Prints
  <2>3. IsFun(mm.x)
    BY <1>1, <1>4, FetchIsExecuted, DoitIsFun
  <2> HIDE DEF mm, out
  <2>4. IsFun(m'.x) /\ m'.x[sp] \in Int
    <3>1. mm.x[sp] \in Int
      BY <2>1
    <3> QED BY <2>1, <2>3, <3>1, PollIsFun
  <2>5. \E T : console' \in Seq(T)
    <3>1. CASE out = <<>>
      <4>1. console' = console
        BY <1>2, <2>1, <3>1, ConcatEmptySeq
      <4> QED BY <1>2, <4>1
    <3>2. CASE out = <<m.x[a0]>>
      <4>1. console' = Printed(console, m.x[a0])
        BY <2>1, <3>2 DEF Printed
      <4> QED BY <1>2, <4>1, PrintsAppended
    <3> QED BY <2>2, <3>1, <3>2
  <2> QED BY <1>1, <2>1, <2>4, <2>5 DEF ViewInv
<1>5. CASE Return
  <2> DEFINE tr == TrapRet(m)
  <2>1. PICK acts1 :
          /\ MachineShape(tr) /\ Poll(tr, acts1)
          /\ tr.x[sp] \in FRAME * (4 - Len(acts1)) .. STACK_BTM - FRAME * Len(acts1)
          /\ console' = console /\ raised' = raised
    BY <1>5, ReturnMeans
  <2>2. IsFun(tr.x)
    BY <1>1, TrapRetIsFun
  <2> HIDE DEF tr
  <2>3. IsFun(m'.x) /\ m'.x[sp] \in Int
    <3>1. tr.x[sp] \in Int
      BY <2>1
    <3> QED BY <2>1, <2>2, <3>1, PollIsFun
  <2> QED BY <1>1, <1>2, <2>1, <2>3 DEF ViewInv
<1>6. CASE Quit
  BY <1>1, <1>2, <1>6 DEF Quit, ViewInv
<1>7. CASE Stopped \/ UNCHANGED vars
  BY <1>1, <1>2, <1>7 DEF Stopped, vars, ViewInv
<1> QED BY <1>3, <1>4, <1>5, <1>6, <1>7 DEF Next, Step

(* TrapService's copy of Core is Core. *)
LEMMA SameCore ==
  /\ Promised!Traps = Traps /\ Promised!StackWords = StackWords
  /\ \A t, c : Promised!Interrupts(t, c) <=> Interrupts(t, c)
  /\ \A c, pc : Promised!InProgram(c, pc) <=> InProgram(c, pc)
  /\ \A c, pc, x, mem : Promised!ProgramView(c, pc, x, mem) = ProgramView(c, pc, x, mem)
  /\ \A i, mm : Promised!Doit(i, mm) = Doit(i, mm) /\ Promised!Prints(i, mm) = Prints(i, mm)
  /\ \A mm : Promised!StepOver(mm) = StepOver(mm)
  /\ \A p : Promised!Reset(p) = Reset(p)
BY DEF Promised!Traps, Traps, Promised!StackWords, StackWords,
       Promised!Interrupts, Interrupts, Promised!trap_priority, trap_priority,
       Promised!Causes, Causes, Promised!InProgram, InProgram,
       Promised!ProgramView, ProgramView, Promised!Doit, Doit, Promised!WriteReg, WriteReg,
       Promised!Prints, Prints, Promised!syscall_num, syscall_num, Promised!StepOver, StepOver, Promised!Reset, Reset,
       Promised!Regs, Regs, Promised!END, END, Promised!sp, sp, Promised!ra, ra,
       Promised!a0, a0, Promised!a7, a7

LEMMA NothingInterruptsTop ==
  ASSUME NEW q \in [Traps -> Nat], NEW u \in Traps, q[u] > 0
  PROVE  ~Interrupts(u, Top(q))
<1> DEFINE W == {t \in Traps : q[t] > 0}
<1>1. W \subseteq Nat /\ W # {}
  BY DEF Traps
<1>2. PICK t \in W : \A v \in W : t <= v
  BY <1>1, SmallestExists
<1>3. \A v \in Traps : q[v] > 0 => ~Interrupts(v, t)
  BY <1>2 DEF Interrupts, trap_priority, Traps, Causes
<1>4. \E s \in Traps : q[s] > 0 /\ \A v \in Traps : q[v] > 0 => ~Interrupts(v, s)
  BY <1>2, <1>3
<1> QED BY <1>4 DEF Top

LEMMA BeginsService ==
  ASSUME NEW mm, NEW acts, queue \in [Traps -> Nat], Consistent(StepOver(mm), acts),
         MachineShape(mm), Poll(mm, acts)
  PROVE  Promised!BeginService(acts)
<1> DEFINE c == CauseIn(acts, Len(acts))
<1>1. acts \in Services /\ mm.mcause = c
  BY StepOverFields DEF Consistent
<1>2. Promised!Running(acts) = c /\ c \in Causes
  <2>1. Len(acts) \in Nat /\ (Len(acts) = 0 <=> acts = <<>>)
    BY <1>1, EmptySeq, LenProperties DEF Services
  <2>2. CASE acts = <<>>
    BY <2>1, <2>2 DEF Promised!Running, CauseIn, Causes
  <2>3. CASE acts # <<>>
    <3>1. Len(acts) \in 1 .. Len(acts) /\ Len(acts) # 0
      BY <2>1, <2>3
    <3>2. acts[Len(acts)].trap \in Traps
      BY <1>1, <3>1, ServiceFields
    <3> QED BY <2>3, <3>1, <3>2 DEF Promised!Running, CauseIn, Traps, Causes
  <2> QED BY <2>2, <2>3
<1> HIDE DEF c
<1>3. CASE Polls(mm)
  <2> DEFINE t == Top(queue)
  <2>1. t \in Traps /\ queue[t] > 0 /\ Interrupts(t, c)
    BY <1>1, <1>3, TopWaits DEF Polls
  <2>2. queue' = [queue EXCEPT ![t] = @ - 1] /\ active' = Append(acts, [trap |-> t, printed |-> 0])
    BY <1>3 DEF Poll, PollWhen, Popped
  <2>3. \A u \in Traps : queue[u] > 0 => ~Interrupts(u, t)
    BY NothingInterruptsTop
  <2> HIDE DEF t
  <2> QED BY <1>2, <2>1, <2>2, <2>3, SameCore DEF Promised!BeginService
<1>4. CASE ~Polls(mm)
  <2>1. queue' = queue /\ active' = acts
    BY <1>4 DEF Poll, PollWhen
  <2>2. ASSUME NEW t \in Traps, queue[t] > 0 PROVE ~Interrupts(t, c)
    <3> DEFINE u == Top(queue)
    <3>1. ~IsEmpty(queue)
      BY <2>2 DEF IsEmpty
    <3>2. u \in Traps /\ ~Interrupts(t, u)
      BY <2>2, <3>1, TopWaits, NothingInterruptsTop
    <3>3. ~Interrupts(u, c)
      BY <1>1, <1>4, <3>1 DEF Polls
    <3> HIDE DEF u
    <3>4. u \in Causes
      BY <3>2 DEF Traps, Causes
    <3> QED BY <1>2, <2>2, <3>2, <3>3, <3>4, InterruptsMeans DEF Traps, Causes
  <2> QED BY <1>2, <2>1, <2>2, SameCore DEF Promised!BeginService
<1> QED BY <1>3, <1>4


(* An instruction of the program does the same on two machines that agree in what
   the program can rely on. *)
LEMMA RunsAlike ==
  ASSUME NEW a, NEW b, NEW i, NEW s, i.op \in Executed \ {"csrrsi"},
         {"code", "pc", "x", "mem"} \subseteq DOMAIN a,
         {"code", "pc", "x", "mem"} \subseteq DOMAIN b,
         a.code = b.code, a.pc = b.pc, a.x = b.x,
         DOMAIN a.mem = StackWords, DOMAIN b.mem = StackWords,
         \A w \in StackWords : w >= s => a.mem[w] = b.mem[w],
         i.op = "lw" => a.x[i.rs1] + i.imm \in {w \in StackWords : w >= s}
  PROVE  LET c == StepOver(Doit(i, a))
             d == StepOver(Doit(i, b))
         IN /\ c.code = d.code /\ c.pc = d.pc /\ c.x = d.x
            /\ \A w \in StackWords : w >= s => c.mem[w] = d.mem[w]
            /\ Prints(i, a) = Prints(i, b)
<1> DEFINE Alike(c, d) ==
             /\ {"code", "pc", "x", "mem"} \subseteq DOMAIN c
             /\ {"code", "pc", "x", "mem"} \subseteq DOMAIN d
             /\ c.code = d.code /\ c.pc = d.pc /\ c.x = d.x
             /\ \A w \in StackWords : w >= s => c.mem[w] = d.mem[w]
           c == Doit(i, a)
           d == Doit(i, b)
<1>1. Alike(a, b)
  OBVIOUS
<1>2. Alike(c, d)
  <2>1. CASE i.op \in {"addi", "bit0", "lw"}
    <3>1. PICK v : c = SetReg(a, i.rd, v) /\ d = SetReg(b, i.rd, v)
      <4>1. CASE i.op = "addi"
        BY <4>1 DEF Doit, SetReg
      <4>2. CASE i.op = "bit0"
        BY <4>2 DEF Doit, SetReg
      <4>3. CASE i.op = "lw"
        <5>1. a.mem[a.x[i.rs1] + i.imm] = b.mem[b.x[i.rs1] + i.imm]
          BY <4>3
        <5> QED BY <4>3, <5>1 DEF Doit, SetReg
      <4> QED BY <2>1, <4>1, <4>2, <4>3
    <3> HIDE DEF c, d
    <3>2. DOMAIN c = DOMAIN a /\ c.code = a.code /\ c.pc = a.pc /\ c.mem = a.mem
          /\ c.x = WriteReg(a.x, i.rd, v)
      BY <3>1 DEF SetReg
    <3>3. DOMAIN d = DOMAIN b /\ d.code = b.code /\ d.pc = b.pc /\ d.mem = b.mem
          /\ d.x = WriteReg(b.x, i.rd, v)
      BY <3>1 DEF SetReg
    <3> QED BY <3>2, <3>3
  <2>2. CASE i.op \in {"beq", "jal", "jalr"}
    <3>1. PICK v : c = SetPc(a, v) /\ d = SetPc(b, v)
      <4>1. CASE i.op = "beq"
        BY <4>1 DEF Doit, SetPc
      <4>2. CASE i.op = "jal"
        BY <4>2 DEF Doit, SetPc
      <4>3. CASE i.op = "jalr"
        BY <4>3 DEF Doit, SetPc
      <4> QED BY <2>2, <4>1, <4>2, <4>3
    <3> HIDE DEF c, d
    <3>2. DOMAIN c = DOMAIN a /\ c.code = a.code /\ c.pc = v /\ c.mem = a.mem /\ c.x = a.x
      BY <3>1 DEF SetPc
    <3>3. DOMAIN d = DOMAIN b /\ d.code = b.code /\ d.pc = v /\ d.mem = b.mem /\ d.x = b.x
      BY <3>1 DEF SetPc
    <3> QED BY <3>2, <3>3
  <2>3. CASE i.op = "sw"
    <3>1. PICK u, v : c = [a EXCEPT !.mem[u] = v] /\ d = [b EXCEPT !.mem[u] = v]
      BY <2>3 DEF Doit
    <3> HIDE DEF c, d
    <3>2. /\ DOMAIN c = DOMAIN a /\ c.code = a.code /\ c.pc = a.pc /\ c.x = a.x
          /\ c.mem = [a.mem EXCEPT ![u] = v]
      BY <3>1
    <3>3. /\ DOMAIN d = DOMAIN b /\ d.code = b.code /\ d.pc = b.pc /\ d.x = b.x
          /\ d.mem = [b.mem EXCEPT ![u] = v]
      BY <3>1
    <3>4. ASSUME NEW w \in StackWords, w >= s PROVE c.mem[w] = d.mem[w]
      BY <3>2, <3>3, <3>4
    <3> QED BY <3>2, <3>3, <3>4
  <2>4. CASE i.op = "ecall"
    BY <2>4 DEF Doit
  <2> QED BY <2>1, <2>2, <2>3, <2>4 DEF Executed
<1> HIDE DEF c, d
<1>3. /\ StepOver(c).code = c.code /\ StepOver(c).pc = c.pc + 1 /\ StepOver(c).x = c.x
      /\ StepOver(c).mem = c.mem
      /\ StepOver(d).code = d.code /\ StepOver(d).pc = d.pc + 1 /\ StepOver(d).x = d.x
      /\ StepOver(d).mem = d.mem
  BY <1>2 DEF StepOver
<1>4. Prints(i, a) = Prints(i, b)
  BY DEF Prints, syscall_num
<1> QED BY <1>2, <1>3, <1>4 DEF c, d

(* What a program can rely on of what it can rely on. *)
LEMMA ViewOfView ==
  ASSUME NEW code, NEW pc, NEW x, NEW mem
  PROVE  LET v == ProgramView(code, pc, x, mem) IN
         /\ v.code = code /\ v.pc = pc /\ v.x = x
         /\ DOMAIN v = {"code", "pc", "x", "mem"} /\ DOMAIN v.mem = StackWords
         /\ \A a \in StackWords : v.mem[a] = IF a >= x[sp] THEN mem[a] ELSE MAGIC
         /\ ProgramView(code, pc, x, v.mem) = v
BY DEF ProgramView

(* The program executes an instruction. *)
LEMMA ProgramRuns ==
  ASSUME TrapInv, ViewInv, WellBehaved, KeepsToItsStack, active = <<>>, Execute,
         TrapInv', ViewInv'
  PROVE  LET i == Fetch(m)
             u == StepOver(Doit(i, User))
         IN /\ i = User.code[User.pc + 1] /\ InProgram(User.code, User.pc)
            /\ User' = ProgramView(u.code, u.pc, u.x, User'.mem)
            /\ \A a \in StackWords :
                 a >= User.x[sp] /\ a >= u.x[sp] => User'.mem[a] = u.mem[a]
            /\ console' = console \o Prints(i, User)
<1> DEFINE i  == Fetch(m)
           mm == Doit(i, m)
           st == StepOver(mm)
           v  == User
           u  == StepOver(Doit(i, v))
           w  == User'
<1>1. /\ MachineShape(m) /\ IsFun(m.x) /\ m.x[sp] \in Int
      /\ InProgram(m.code, m.pc) /\ m.pc >= 0
      /\ i.op \in Executed \ {"csrrsi"}
      /\ i.op = "lw" => m.x[i.rs1] + i.imm \in {a \in StackWords : a >= m.x[sp]}
      /\ queue \in [Traps -> Nat]
  <2>1. m.pc >= 0
    BY DEF Execute
  <2>2. i.op \in Executed
    BY FetchIsExecuted
  <2> QED BY <2>1, <2>2 DEF TrapInv, Consistent, ViewInv, WellBehaved, KeepsToItsStack
<1>2. i = m.code[m.pc + 1]
  BY <1>1, FetchProgram
<1>3. v = ProgramView(m.code, m.pc, m.x, m.mem)
  BY <1>1, UserIs, OwnView
<1>4. /\ v.code = m.code /\ v.pc = m.pc /\ v.x = m.x
      /\ DOMAIN v = {"code", "pc", "x", "mem"} /\ DOMAIN v.mem = StackWords
      /\ \A a \in StackWords : v.mem[a] = IF a >= m.x[sp] THEN m.mem[a] ELSE MAGIC
  BY <1>3, ViewOfView
<1>5. /\ MachineShape(mm) /\ Consistent(st, <<>>) /\ Poll(mm, <<>>)
      /\ mm.x[sp] \in FRAME * (4 - Len(<<>>)) .. STACK_BTM - FRAME * Len(<<>>)
      /\ console' = console \o Prints(i, m)
  BY ExecuteMeans
<1>6. IsFun(mm.x) /\ mm.x[sp] \in Int
  <2>1. IsFun(mm.x)
    BY <1>1, DoitIsFun
  <2> QED BY <1>5, <2>1
<1> HIDE DEF i, mm, v, w
<1>7. /\ MachineShape(st) /\ st.x = mm.x /\ IsFun(st.x) /\ st.x[sp] \in Int
  BY <1>5, <1>6, StepOverFields
<1>8. SameUser(m', active', st, <<>>)
  BY <1>1, <1>5, PollKeeps
<1>9. w = ProgramView(st.code, st.pc, st.x, st.mem)
  <2>1. w = UserView(m', active')
    BY UserWillBe DEF w
  <2> HIDE DEF st
  <2> QED BY <1>7, <1>8, <2>1, SameView, OwnView
<1>10. /\ st.code = u.code /\ st.pc = u.pc /\ st.x = u.x
       /\ \A a \in StackWords : a >= m.x[sp] => st.mem[a] = u.mem[a]
       /\ Prints(i, m) = Prints(i, v)
  <2> DEFINE s == m.x[sp]
  <2>1. \A a \in StackWords : a >= s => m.mem[a] = v.mem[a]
    BY <1>4
  <2>2. i.op = "lw" => m.x[i.rs1] + i.imm \in {a \in StackWords : a >= s}
    BY <1>1
  <2>3. /\ {"code", "pc", "x", "mem"} \subseteq DOMAIN m /\ DOMAIN m.mem = StackWords
        /\ {"code", "pc", "x", "mem"} \subseteq DOMAIN v /\ DOMAIN v.mem = StackWords
        /\ m.code = v.code /\ m.pc = v.pc /\ m.x = v.x /\ i.op \in Executed \ {"csrrsi"}
    BY <1>1, <1>4 DEF MachineShape
  <2> HIDE DEF s
  <2>4. LET c == StepOver(Doit(i, m))
            d == StepOver(Doit(i, v))
        IN /\ c.code = d.code /\ c.pc = d.pc /\ c.x = d.x
           /\ \A a \in StackWords : a >= s => c.mem[a] = d.mem[a]
           /\ Prints(i, m) = Prints(i, v)
    BY <2>1, <2>2, <2>3, RunsAlike
  <2> QED BY <2>4 DEF s, mm
<1> HIDE DEF st, u
<1>11. /\ \A a \in StackWords : w.mem[a] = IF a >= st.x[sp] THEN st.mem[a] ELSE MAGIC
       /\ w = ProgramView(st.code, st.pc, st.x, w.mem)
  BY <1>9, ViewOfView
<1>12. w = ProgramView(u.code, u.pc, u.x, w.mem)
  BY <1>10, <1>11
<1>13. \A a \in StackWords : a >= v.x[sp] /\ a >= u.x[sp] => w.mem[a] = u.mem[a]
  BY <1>4, <1>10, <1>11
<1> QED BY <1>1, <1>2, <1>4, <1>5, <1>10, <1>12, <1>13 DEF i, v, u, w

(* What a service executes is nothing to the program. *)
LEMMA ServiceRuns ==
  ASSUME TrapInv, ViewInv, NEW mm, NEW acts,
         MachineShape(mm), Consistent(StepOver(mm), acts),
         mm.x[sp] \in FRAME * (4 - Len(acts)) .. STACK_BTM - FRAME * Len(acts),
         Poll(mm, acts), SameUser(StepOver(mm), acts, m, active), TrapInv', ViewInv'
  PROVE  User' = User
<1>1. SameUser(m', active', StepOver(mm), acts)
  BY PollKeeps DEF TrapInv
<1>2. SameUser(m', active', m, active)
  BY <1>1, SameUserIsTransitive
<1>3. UserView(m', active') = UserView(m, active)
  BY <1>2, SameView
<1> QED BY <1>3, UserIs, UserWillBe

(* The program's machine is at what it can rely on, also when it has ended. *)
LEMMA IdleUser ==
  ASSUME TrapInv, ViewInv, active = <<>>
  PROVE  User.code = m.code /\ User.pc = m.pc
<1>1. IsFun(m.x) /\ m.x[sp] \in Int
  BY DEF ViewInv
<1>2. User = ProgramView(m.code, m.pc, m.x, m.mem)
  BY <1>1, UserIs, OwnView
<1> QED BY <1>2, ViewOfView

LEMMA PromisedInit ==
  ASSUME Init
  PROVE  Promised!Init
<1>1. PICK p \in Programs : m = Reset(p)
  BY DEF Init
<1>2. active = <<>> /\ Len(active) = 0
  BY DEF Init
<1>3. UserX = m.x /\ UserPc = m.pc
  BY <1>2 DEF UserX, UserPc, Depth
<1>4. m.code = p
  BY <1>1 DEF Reset
<1>5. User = ProgramView(p, m.pc, m.x, m.mem)
  BY <1>3, <1>4 DEF User
<1>6. User = Promised!ProgramView(p, Promised!Reset(p).pc, Promised!Reset(p).x,
                                  Promised!Reset(p).mem)
  BY <1>1, <1>5, SameCore
<1>7. Raises = 0
  BY DEF Init, Raises, NoTraps, Traps
<1>8. queue = [t \in Promised!Traps |-> 0] /\ console = <<>> /\ running = TRUE
  BY SameCore DEF Init, NoTraps
<1> QED BY <1>2, <1>6, <1>7, <1>8 DEF Promised!Init, User

LEMMA PromisedRaise ==
  ASSUME TrapInv, ViewInv, TrapInv', ViewInv', NEW t \in Traps, Raise(t)
  PROVE  Promised!Raise(t)
<1>1. /\ running /\ Raises < MaxRaised
      /\ queue' = [queue EXCEPT ![t] = @ + 1] /\ raised' = [raised EXCEPT ![t] = @ + 1]
      /\ UNCHANGED <<m, running, console, active>>
  BY DEF Raise
<1>2. User' = User
  BY <1>1, UserIs, UserWillBe
<1>3. Raises' = Raises + 1
  <2>1. /\ \A c \in 1 .. 4 : raised[c] \in Int
        /\ \A c \in 1 .. 4 : raised'[c] = IF c = t THEN raised[c] + 1 ELSE raised[c]
        /\ t \in 1 .. 4
    BY <1>1 DEF ViewInv, Traps
  <2> QED BY <2>1 DEF Raises
<1> QED BY <1>1, <1>2, <1>3 DEF Promised!Raise, User

LEMMA PromisedExecute ==
  ASSUME TrapInv, ViewInv, WellBehaved, KeepsToItsStack, TrapInv', ViewInv', Execute
  PROVE  Promised!Run \/ Promised!PrintCause \/ Promised!Work
<1> DEFINE mm  == Doit(Fetch(m), m)
           out == Prints(Fetch(m), m)
           n   == Len(active)
<1>1. /\ queue \in [Traps -> Nat] /\ running
      /\ MachineShape(mm) /\ Consistent(StepOver(mm), Acts)
      /\ mm.x[sp] \in FRAME * (4 - Len(Acts)) .. STACK_BTM - FRAME * Len(Acts)
      /\ Poll(mm, Acts)
      /\ console' = console \o out
      /\ UNCHANGED <<running, raised>>
      /\ active = <<>> => Acts = <<>>
      /\ active # <<>> =>
           /\ SameUser(StepOver(mm), Acts, m, active)
           /\ \/ out = <<>> /\ Acts = active
              \/ /\ out = <<active[n].trap>> /\ active[n].printed < 2
                 /\ Acts = [active EXCEPT ![n].printed = @ + 1]
  BY ExecuteMeans DEF TrapInv, Execute
<1> HIDE DEF mm, out
<1>2. Promised!BeginService(Acts) /\ Raises' = Raises
  BY <1>1, BeginsService DEF Raises
<1>3. CASE active = <<>>
  <2> DEFINE i == Fetch(m)
             u == StepOver(Doit(i, User))
  <2>1. /\ i = User.code[User.pc + 1] /\ InProgram(User.code, User.pc)
        /\ User' = ProgramView(u.code, u.pc, u.x, User'.mem)
        /\ \A a \in StackWords :
             a >= User.x[sp] /\ a >= u.x[sp] => User'.mem[a] = u.mem[a]
        /\ console' = console \o Prints(i, User)
    BY <1>3, ProgramRuns
  <2> HIDE DEF i
  <2>2. /\ Promised!InProgram(User.code, User.pc)
        /\ LET j == User.code[User.pc + 1]
               w == Promised!StepOver(Promised!Doit(j, User))
           IN /\ User' = Promised!ProgramView(w.code, w.pc, w.x, User'.mem)
              /\ \A a \in Promised!StackWords :
                   a >= User.x[Promised!sp] /\ a >= w.x[Promised!sp] => User'.mem[a] = w.mem[a]
              /\ console' = console \o Promised!Prints(j, User)
    BY <2>1, SameCore DEF Promised!sp, sp
  <2>3. active = <<>> /\ Promised!BeginService(active)
    BY <1>1, <1>2, <1>3
  <2> QED BY <1>1, <1>2, <2>2, <2>3 DEF Promised!Run, User
<1>4. CASE active # <<>>
  <2>1. User' = User
    BY <1>1, <1>4, ServiceRuns
  <2>2. CASE out = <<>> /\ Acts = active
    <3>1. console' = console
      <4>1. PICK S : console \in Seq(S)
        BY DEF ViewInv
      <4> QED BY <1>1, <2>2, <4>1, ConcatEmptySeq
    <3>2. Promised!BeginService(active)
      BY <1>2, <2>2
    <3> QED BY <1>1, <1>2, <1>4, <2>1, <3>1, <3>2 DEF Promised!Work, User
  <2>3. CASE /\ out = <<active[n].trap>> /\ active[n].printed < 2
             /\ Acts = [active EXCEPT ![n].printed = @ + 1]
    <3>1. console' = Append(console, active[n].trap)
      <4>1. PICK S : console \in Seq(S)
        BY DEF ViewInv
      <4> QED BY <1>1, <2>3, <4>1, AppendIsConcat
    <3>2. Promised!BeginService([active EXCEPT ![Len(active)].printed = @ + 1])
      BY <1>2, <2>3
    <3> QED BY <1>1, <1>2, <1>4, <2>1, <2>3, <3>1, <3>2
            DEF Promised!PrintCause, Promised!Top1, User
  <2> QED BY <1>1, <1>4, <2>2, <2>3
<1> QED BY <1>3, <1>4

LEMMA PromisedReturn ==
  ASSUME TrapInv, ViewInv, WellBehaved, TrapInv', ViewInv', Return
  PROVE  Promised!EndService
<1> DEFINE tr    == TrapRet(m)
           n     == Len(active)
           acts1 == SubSeq(active, 1, n - 1)
<1>1. /\ queue \in [Traps -> Nat] /\ running
      /\ active # <<>> /\ active[n].printed = 2
      /\ MachineShape(tr) /\ Consistent(StepOver(tr), acts1)
      /\ tr.x[sp] \in FRAME * (4 - Len(acts1)) .. STACK_BTM - FRAME * Len(acts1)
      /\ SameUser(StepOver(tr), acts1, m, active)
      /\ Poll(tr, acts1)
      /\ UNCHANGED <<console, running, raised>>
  BY ReturnMeans DEF TrapInv, Return, ReturnBy
<1> HIDE DEF tr, acts1
<1>2. Promised!BeginService(acts1) /\ Raises' = Raises
  BY <1>1, BeginsService DEF Raises
<1>3. User' = User
  BY <1>1, ServiceRuns
<1>4. Promised!BeginService(SubSeq(active, 1, Len(active) - 1))
  BY <1>2 DEF acts1
<1> QED BY <1>1, <1>2, <1>3, <1>4 DEF Promised!EndService, Promised!Top1, User

LEMMA PromisedQuit ==
  ASSUME TrapInv, ViewInv, TrapInv', ViewInv', Quit
  PROVE  Promised!Quit
<1>1. /\ running /\ m.pc < 0 /\ running' = FALSE
      /\ UNCHANGED <<m, queue, console, active, raised>>
  BY DEF Quit
<1>2. active = <<>>
  <2> SUFFICES ASSUME active # <<>> PROVE FALSE
    OBVIOUS
  <2>1. \E j \in 0 .. 30 : m.pc = TRAMPOLINE + j
    BY InnermostRuns DEF TrapInv
  <2> QED BY <1>1, <2>1 DEF TRAMPOLINE
<1>3. User' = User /\ Raises' = Raises
  BY <1>1, UserIs, UserWillBe DEF Raises
<1>4. ~InProgram(User.code, User.pc)
  <2>1. m.pc \notin 0 .. Len(m.code) - 1
    BY <1>1
  <2> QED BY <1>2, <2>1, IdleUser DEF InProgram
<1>5. ~Promised!InProgram(User.code, User.pc)
  BY <1>4, SameCore
<1> QED BY <1>1, <1>2, <1>3, <1>5 DEF Promised!Quit, User

LEMMA PromisedStep ==
  ASSUME TrapInv, ViewInv, WellBehaved, KeepsToItsStack, TrapInv', ViewInv', [Next]_vars
  PROVE  Promised!Next \/ UNCHANGED Promised!vars
<1>1. ASSUME NEW t \in Traps, Raise(t) PROVE Promised!Next
  BY <1>1, PromisedRaise, SameCore DEF Promised!Next
<1>2. CASE Execute
  BY <1>2, PromisedExecute DEF Promised!Next
<1>3. CASE Return
  BY <1>3, PromisedReturn DEF Promised!Next
<1>4. CASE Quit
  BY <1>4, PromisedQuit DEF Promised!Next
<1>5. CASE Stopped \/ UNCHANGED vars
  <2>1. UNCHANGED <<m, queue, running, console, active, raised>>
    BY <1>5 DEF Stopped, vars
  <2>2. User' = User /\ Raises' = Raises
    BY <2>1, UserIs, UserWillBe DEF Raises
  <2> QED BY <2>1, <2>2 DEF Promised!vars, User
<1> QED BY <1>1, <1>2, <1>3, <1>4, <1>5 DEF Next, Step

(* For every program that keeps to what is its own, traps do what TrapService
   promises: it goes on as if there were no traps, in its registers, its pc and
   its stack, a service begins as soon as a trap is urgent enough, and what is
   printed is what program and services print. *)
THEOREM TrapsServeUnnoticed ==
  Spec /\ []WellBehaved /\ []KeepsToItsStack => ImplementsTrapService
<1>1. Init => ViewInv
  BY ViewInvInit
<1>2. TrapInv /\ WellBehaved /\ ViewInv /\ [Next]_vars => ViewInv'
  BY ViewInvStep
<1>3. Init => Promised!Init
  BY PromisedInit
<1>4. /\ TrapInv /\ ViewInv /\ WellBehaved /\ KeepsToItsStack /\ TrapInv' /\ ViewInv'
      /\ [Next]_vars
      => [Promised!Next]_(Promised!vars)
  BY PromisedStep
<1> QED BY <1>1, <1>2, <1>3, <1>4, TrapInvariance, PTL
        DEF Spec, ImplementsTrapService, Promised!Spec

-----------------------------------------------------------------------------
(* The hypotheses WellBehaved, KeepsToItsStack and PrintsNoTrap are about what a
   program does while traps come.  They hold of every program that keeps to what
   is its own when it runs alone, as no trap ever changes what it finds.  For
   that, registers and the words of the stack have to be numbers. *)
Numbers(mm) ==
  /\ mm.x \in [Regs -> Int] /\ mm.mem \in [StackWords -> Int]
  /\ mm.pc \in Int /\ mm.mepc \in Int /\ mm.mcause \in Int

LEMMA TrampolineInstructions ==
  ASSUME NEW j \in 0 .. 30
  PROVE  At(j) \in Instruction
<1> DEFINE Fits(i) == i \in Instruction
<1>1. \A rd \in Regs, rs \in Regs, imm \in Int :
        Fits(Addi(rd, rs, imm)) /\ Fits(Beq(rd, rs, imm)) /\ Fits(Jal(imm))
        /\ Fits(ReadCause(rd)) /\ Fits(Bit0(rd, rs)) /\ Fits(Ecall) /\ Fits(Mret) /\ Fits(Nop)
  BY DEF Addi, Beq, Jal, ReadCause, Bit0, Ecall, Mret, Nop, Inst, Instruction, Ops, Regs
<1>2. {0, a0, a1, a7, t0, t1, t2} \subseteq Regs
  BY DEF a0, a1, a7, t0, t1, t2, Regs
<1> HIDE DEF Fits
<1>3. CASE j \in 0 .. 13
  <2>1. Fits(At(0)) /\ Fits(At(1)) /\ Fits(At(2)) /\ Fits(At(3)) /\ Fits(At(4))
    BY <1>1, <1>2, TrampolineAt
  <2>2. Fits(At(5)) /\ Fits(At(6)) /\ Fits(At(7)) /\ Fits(At(8)) /\ Fits(At(9))
    BY <1>1, <1>2, TrampolineAt
  <2>3. Fits(At(10)) /\ Fits(At(11)) /\ Fits(At(12)) /\ Fits(At(13))
    BY <1>1, <1>2, TrampolineAt
  <2> QED BY <1>3, <2>1, <2>2, <2>3 DEF Fits
<1>4. CASE j \in 14 .. 30
  <2>1. Fits(At(14)) /\ Fits(At(15)) /\ Fits(At(16)) /\ Fits(At(17)) /\ Fits(At(18))
    BY <1>1, <1>2, TrampolineAt
  <2>2. Fits(At(19)) /\ Fits(At(20)) /\ Fits(At(21)) /\ Fits(At(22)) /\ Fits(At(23))
    BY <1>1, <1>2, TrampolineAt
  <2>3. Fits(At(24)) /\ Fits(At(25)) /\ Fits(At(26)) /\ Fits(At(27)) /\ Fits(At(28))
    BY <1>1, <1>2, TrampolineAt
  <2>4. Fits(At(29)) /\ Fits(At(30))
    BY <1>1, <1>2, TrampolineAt
  <2> QED BY <1>4, <2>1, <2>2, <2>3, <2>4 DEF Fits
<1> QED BY <1>3, <1>4

LEMMA WriteRegNumbers ==
  ASSUME NEW x \in [Regs -> Int], NEW rd, NEW v \in Int
  PROVE  WriteReg(x, rd, v) \in [Regs -> Int]
<1> DEFINE y == [x EXCEPT ![rd] = v]
<1>1. y \in [Regs -> Int]
  OBVIOUS
<1>2. WriteReg(x, rd, v) = [y EXCEPT ![0] = 0]
  BY DEF WriteReg
<1> HIDE DEF y
<1>3. [y EXCEPT ![0] = 0] = [r \in Regs |-> IF r = 0 THEN 0 ELSE y[r]]
  BY <1>1
<1>4. \A r \in Regs : (IF r = 0 THEN 0 ELSE y[r]) \in Int
  BY <1>1
<1>5. [r \in Regs |-> IF r = 0 THEN 0 ELSE y[r]] \in [Regs -> Int]
  BY <1>4
<1> QED BY <1>2, <1>3, <1>5

LEMMA DoitNumbers ==
  ASSUME NEW mm, MachineShape(mm), Numbers(mm), NEW i \in Instruction, i.op \in Executed,
         i.op = "lw" => mm.x[i.rs1] + i.imm \in StackWords
  PROVE  Numbers(Doit(i, mm))
<1> DEFINE d == Doit(i, mm)
<1>1. /\ i.rs1 \in Regs /\ i.rs2 \in Regs /\ i.rd \in Regs /\ i.imm \in Int
      /\ mm.x[i.rs1] \in Int /\ mm.x[i.rs2] \in Int
  BY DEF Instruction, Numbers
<1>2. CASE i.op \in {"addi", "bit0", "lw", "csrrsi"}
  <2>1. PICK v \in Int : d = SetReg(mm, i.rd, v)
    <3>1. CASE i.op = "addi"
      <4>1. d = SetReg(mm, i.rd, mm.x[i.rs1] + i.imm)
        BY <3>1 DEF Doit, SetReg
      <4> HIDE DEF d
      <4> QED BY <1>1, <4>1
    <3>2. CASE i.op = "bit0"
      <4>1. d = SetReg(mm, i.rd, mm.x[i.rs1] % 2)
        BY <3>2 DEF Doit, SetReg
      <4> HIDE DEF d
      <4> QED BY <1>1, <4>1
    <3>3. CASE i.op = "lw"
      <4>1. d = SetReg(mm, i.rd, mm.mem[mm.x[i.rs1] + i.imm])
        BY <3>3 DEF Doit, SetReg
      <4>2. mm.mem[mm.x[i.rs1] + i.imm] \in Int
        BY <3>3 DEF Numbers
      <4> HIDE DEF d
      <4> QED BY <4>1, <4>2
    <3>4. CASE i.op = "csrrsi"
      <4>1. d = SetReg(mm, i.rd, mm.mcause)
        BY <3>4 DEF Doit, SetReg
      <4> HIDE DEF d
      <4> QED BY <4>1 DEF Numbers
    <3> QED BY <1>2, <3>1, <3>2, <3>3, <3>4
  <2> HIDE DEF d
  <2>2. /\ d.pc = mm.pc /\ d.mem = mm.mem /\ d.mepc = mm.mepc /\ d.mcause = mm.mcause
        /\ d.x = WriteReg(mm.x, i.rd, v)
    BY <2>1 DEF SetReg, MachineShape
  <2>3. Numbers(d)
    BY <2>2, WriteRegNumbers DEF Numbers
  <2> QED BY <2>3 DEF d
<1>3. CASE i.op \in {"beq", "jal", "jalr"}
  <2>1. PICK v \in Int : d = SetPc(mm, v)
    <3>1. CASE i.op = "beq"
      <4>1. d = SetPc(mm, IF mm.x[i.rs1] = mm.x[i.rs2] THEN mm.pc + i.imm - 1 ELSE mm.pc)
        BY <3>1 DEF Doit, SetPc
      <4> HIDE DEF d
      <4> QED BY <1>1, <4>1 DEF Numbers
    <3>2. CASE i.op = "jal"
      <4>1. d = SetPc(mm, mm.pc + i.imm - 1)
        BY <3>2 DEF Doit, SetPc
      <4> HIDE DEF d
      <4> QED BY <1>1, <4>1 DEF Numbers
    <3>3. CASE i.op = "jalr"
      <4>1. d = SetPc(mm, mm.x[i.rs1] + i.imm - 1)
        BY <3>3 DEF Doit, SetPc
      <4> HIDE DEF d
      <4> QED BY <1>1, <4>1
    <3> QED BY <1>3, <3>1, <3>2, <3>3
  <2> HIDE DEF d
  <2>2. /\ d.pc = v /\ d.mem = mm.mem /\ d.mepc = mm.mepc /\ d.mcause = mm.mcause
        /\ d.x = mm.x
    BY <2>1, WritesPc
  <2>3. Numbers(d)
    BY <2>2 DEF Numbers
  <2> QED BY <2>3 DEF d
<1>4. CASE i.op = "sw"
  <2>1. PICK a : d = [mm EXCEPT !.mem[a] = mm.x[i.rs2]]
    BY <1>4 DEF Doit
  <2> HIDE DEF d
  <2>2. /\ d.pc = mm.pc /\ d.mepc = mm.mepc /\ d.mcause = mm.mcause /\ d.x = mm.x
        /\ d.mem = [mm.mem EXCEPT ![a] = mm.x[i.rs2]]
    BY <2>1 DEF MachineShape
  <2>3. Numbers(d)
    BY <1>1, <2>2 DEF Numbers
  <2> QED BY <2>3 DEF d
<1>5. CASE i.op = "ecall"
  BY <1>5 DEF Doit
<1> QED BY <1>2, <1>3, <1>4, <1>5 DEF Executed

LEMMA StepOverNumbers ==
  ASSUME NEW mm, MachineShape(mm), Numbers(mm)
  PROVE  Numbers(StepOver(mm))
<1> DEFINE st == StepOver(mm)
<1>1. /\ st.pc = mm.pc + 1 /\ st.x = mm.x /\ st.mem = mm.mem
      /\ st.mepc = mm.mepc /\ st.mcause = mm.mcause
  BY StepOverFields
<1> HIDE DEF st
<1>2. Numbers(st)
  BY <1>1 DEF Numbers
<1> QED BY <1>2 DEF st

LEMMA SaveAtNumbers ==
  ASSUME NEW mm, Numbers(mm), NEW base \in Int
  PROVE  SaveAt(base, mm) \in [StackWords -> Int]
<1> DEFINE x == [mm.x EXCEPT ![sp] = base]
           f(a) == CASE a = base             -> mm.mepc
                     [] a = base + 1         -> mm.mcause
                     [] a - base - 2 \in Regs -> x[a - base - 2]
                     [] OTHER                -> mm.mem[a]
<1>1. x \in [Regs -> Int]
  BY DEF Numbers
<1> HIDE DEF x
<1>2. ASSUME NEW a \in StackWords PROVE f(a) \in Int
  BY <1>1 DEF Numbers
<1>3. SaveAt(base, mm) = [a \in StackWords |-> f(a)]
  BY DEF SaveAt, x
<1> HIDE DEF f
<1> QED BY <1>2, <1>3

LEMMA PollNumbers ==
  ASSUME NEW mm, NEW acts, MachineShape(mm), Numbers(mm), queue \in [Traps -> Nat],
         Poll(mm, acts)
  PROVE  Numbers(m')
<1>1. CASE Polls(mm)
  <2> DEFINE t   == Top(queue)
             en  == Enter(t, mm)
             mem == SaveAt(mm.x[sp] - FRAME, mm)
             x   == [mm.x EXCEPT ![sp] = @ - FRAME]
  <2>1. m' = StepOver(en)
    BY <1>1 DEF Poll, PollWhen
  <2>2. t \in Int
    BY <1>1, TopWaits DEF Polls, Traps
  <2>3. mm.x[sp] - FRAME \in Int
    BY DEF Numbers, Regs, sp, FRAME
  <2>4. mem \in [StackWords -> Int]
    BY <2>3, SaveAtNumbers
  <2>5. x \in [Regs -> Int]
    BY <2>3 DEF Numbers
  <2>6. en = [mm EXCEPT !.mem = mem, !.x = x, !.mepc = mm.pc, !.pc = TRAMPOLINE - 1,
                        !.mcause = t]
    BY DEF Enter
  <2> HIDE DEF en, mem, x, t
  <2>7. /\ en.mem = mem /\ en.x = x /\ en.mepc = mm.pc /\ en.pc = TRAMPOLINE - 1
        /\ en.mcause = t /\ "pc" \in DOMAIN en
    BY <2>6 DEF MachineShape
  <2>8. /\ m'.mem = mem /\ m'.x = x /\ m'.mepc = mm.pc /\ m'.pc = TRAMPOLINE - 1 + 1
        /\ m'.mcause = t
    BY <2>1, <2>7 DEF StepOver
  <2> QED BY <2>2, <2>4, <2>5, <2>8 DEF Numbers, TRAMPOLINE
<1>2. CASE ~Polls(mm)
  <2>1. m' = StepOver(mm)
    BY <1>2 DEF Poll, PollWhen
  <2> QED BY <2>1, StepOverNumbers
<1> QED BY <1>1, <1>2

LEMMA TrapRetNumbers ==
  ASSUME NEW mm, NEW acts, Consistent(mm, acts), acts # <<>>, Numbers(mm)
  PROVE  Numbers(TrapRet(mm))
<1> DEFINE n    == Len(acts)
           base == mm.x[sp]
           tr   == TrapRet(mm)
<1>1. n \in 1 .. 4
  BY InnermostRuns
<1>2. /\ MachineShape(mm) /\ base \in 11 * (4 - n) .. STACK_BTM - 11 * n
      /\ \A k \in 1 .. n :
           LET b == FrameOf(mm, acts, k) IN
           mm.mem[b + 2] = 0 /\ mm.mem[b + 2 + sp] = b
  BY DEF Consistent, FramesOK, FRAME
<1>3. base \in Int
  BY DEF Numbers, Regs, sp
<1>4. FrameOf(mm, acts, n) = base + FRAME * (n - n)
  BY DEF FrameOf
<1> HIDE DEF n, base
<1>5. n \in 1 .. n /\ n - n = 0 /\ base + 11 * 0 = base
  BY <1>1, <1>3
<1>6. base >= 0 /\ base + 11 <= STACK_BTM
  BY <1>1, <1>2, <1>3, TrapAssumption
<1>7. FrameOf(mm, acts, n) = base
  BY <1>4, <1>5 DEF FRAME
<1>8. mm.mem[base + 2] = 0 /\ mm.mem[base + 2 + sp] = base
  BY <1>2, <1>5, <1>7
<1>9. /\ MachineShape(tr)
      /\ tr.pc = mm.mepc /\ tr.mepc = mm.mem[base] /\ tr.mcause = mm.mem[base + 1]
      /\ tr.mem = mm.mem /\ tr.x[sp] = base + FRAME
      /\ \A r \in Regs \ {sp} : tr.x[r] = mm.mem[base + 2 + r]
  BY <1>2, <1>3, <1>8, TrapRetFields DEF base
<1>10. base \in StackWords /\ base + 1 \in StackWords
       /\ \A r \in Regs : base + 2 + r \in StackWords
  BY <1>3, <1>6, TrapAssumption DEF StackWords, Regs
<1>11. IsFun(tr.x)
  BY <1>2, TrapRetIsFun
<1> HIDE DEF tr
<1>12. tr.x \in [Regs -> Int]
  <2>1. \A r \in Regs : tr.x[r] \in Int
    <3>1. base + FRAME \in Int
      BY <1>3 DEF FRAME
    <3>2. \A r \in Regs \ {sp} : mm.mem[base + 2 + r] \in Int
      BY <1>10 DEF Numbers
    <3> QED BY <1>9, <3>1, <3>2
  <2> QED BY <1>11, <2>1 DEF IsFun
<1>13. Numbers(tr)
  BY <1>9, <1>10, <1>12 DEF Numbers
<1> QED BY <1>13 DEF tr

LEMMA NumbersInit ==
  ASSUME Init
  PROVE  Numbers(m)
<1>1. PICK p \in Programs : m = Reset(p)
  BY DEF Init
<1> DEFINE x == [r \in Regs |-> CASE r = 0 -> 0 [] r = sp -> STACK_BTM
                                  [] r = ra -> END [] OTHER -> MAGIC]
           mem == [a \in StackWords |-> MAGIC]
<1>2. m.x = x /\ m.mem = mem /\ m.pc = 0 /\ m.mepc = 0 /\ m.mcause = 0
  BY <1>1 DEF Reset
<1>3. x \in [Regs -> Int] /\ mem \in [StackWords -> Int]
  BY TrapAssumption DEF END
<1> HIDE DEF x, mem
<1> QED BY <1>2, <1>3 DEF Numbers

LEMMA NumbersStep ==
  ASSUME TrapInv, WellBehaved, KeepsToItsStack, Numbers(m), [Next]_vars
  PROVE  Numbers(m')
<1>1. Consistent(m, active) /\ MachineShape(m) /\ queue \in [Traps -> Nat]
  BY DEF TrapInv, Consistent
<1>2. CASE Execute
  <2> DEFINE i  == Fetch(m)
             mm == Doit(i, m)
  <2>1. MachineShape(mm) /\ Poll(mm, Acts) /\ i.op \in Executed
    BY <1>2, ExecuteMeans, FetchIsExecuted
  <2>2. i \in Instruction /\ (i.op = "lw" => m.x[i.rs1] + i.imm \in StackWords)
    <3>1. CASE active = <<>>
      <4>1. InProgram(m.code, m.pc) /\ m.pc >= 0
        BY <1>2, <3>1 DEF WellBehaved, Execute
      <4>2. i \in Instruction
        BY <1>1, <4>1, FetchProgram
      <4> QED BY <3>1, <4>1, <4>2 DEF KeepsToItsStack
    <3>2. CASE active # <<>>
      <4>1. PICK j \in 0 .. 30 : m.pc = TRAMPOLINE + j
        BY <1>1, <3>2, InnermostRuns
      <4>2. i = At(j) /\ i \in Instruction
        BY <4>1, FetchTrampoline, TrampolineInstructions
      <4>3. i.op # "lw"
        <5>1. j # 30
          BY <1>2, <4>1, ReturnsAtMret DEF Execute
        <5>2. j \in 0 .. 29
          BY <5>1
        <5> QED BY <4>2, <5>2, TrampolineOps
      <4> QED BY <4>2, <4>3
    <3> QED BY <3>1, <3>2
  <2>3. Numbers(mm)
    BY <1>1, <2>1, <2>2, DoitNumbers
  <2> HIDE DEF mm
  <2> QED BY <1>1, <2>1, <2>3, PollNumbers
<1>3. CASE Return
  <2> DEFINE tr == TrapRet(m)
  <2>1. PICK acts1 : MachineShape(tr) /\ Poll(tr, acts1) /\ active # <<>>
    BY <1>3, ReturnMeans
  <2>2. Numbers(tr)
    BY <1>1, <2>1, TrapRetNumbers
  <2> HIDE DEF tr
  <2> QED BY <1>1, <2>1, <2>2, PollNumbers
<1>4. CASE (\E t \in Traps : Raise(t)) \/ Quit \/ Stopped \/ UNCHANGED vars
  <2>1. m' = m
    BY <1>4 DEF Raise, Quit, Stopped, vars
  <2> QED BY <2>1
<1> QED BY <1>2, <1>3, <1>4 DEF Next, Step

(* What the machine makes of v, all that a program can rely on, by executing the
   program's instruction; and what the program can rely on then, when a word that
   it gets by moving its sp down holds any number. *)
Upcoming(v) == v.code[v.pc + 1]
Alone(v)    == StepOver(Doit(Upcoming(v), v))

NextViews(v) ==
  {ProgramView(Alone(v).code, Alone(v).pc, Alone(v).x, mem) :
     mem \in {f \in [StackWords -> Int] :
                \A a \in StackWords :
                  a >= v.x[sp] /\ a >= Alone(v).x[sp] => f[a] = Alone(v).mem[a]}}

(* The program loaded stays in the set V when it runs alone, and in V it keeps to
   what is its own: it executes its own instructions, among them no mret and none
   that asks for mcause, loads nothing from below its sp, and leaves room for a
   frame of each trap. *)
KeepsToItsOwn(V) ==
  /\ \A p \in Programs : ProgramView(p, Reset(p).pc, Reset(p).x, Reset(p).mem) \in V
  /\ \A v \in V :
       v.pc >= 0 =>
         /\ InProgram(v.code, v.pc)
         /\ Upcoming(v).op \notin {"mret", "data", "csrrsi"}
         /\ Upcoming(v).op = "lw" =>
              v.x[Upcoming(v).rs1] + Upcoming(v).imm \in {a \in StackWords : a >= v.x[sp]}
         /\ Alone(v).x[sp] \in 4 * FRAME .. STACK_BTM
         /\ NextViews(v) \subseteq V

PrintsNoTrapIn(V) ==
  \A v \in V : v.pc >= 0 => \A t \in Traps : Prints(Upcoming(v), v) # <<t>>

(* In V the program does with traps what it does alone. *)
LEMMA OwnIsKept ==
  ASSUME NEW V, KeepsToItsOwn(V), TrapInv, ViewInv, Numbers(m), User \in V
  PROVE  /\ WellBehaved /\ KeepsToItsStack
         /\ PrintsNoTrapIn(V) => PrintsNoTrap
<1> SUFFICES ASSUME active = <<>>
             PROVE  /\ WellBehaved /\ KeepsToItsStack
                    /\ PrintsNoTrapIn(V) => PrintsNoTrap
  BY DEF WellBehaved, KeepsToItsStack, PrintsNoTrap
<1> DEFINE v == User
           i == Fetch(m)
<1>1. MachineShape(m) /\ IsFun(m.x) /\ m.x[sp] \in Int /\ m.pc \in Int
  BY DEF TrapInv, Consistent, ViewInv, Numbers
<1>2. v = ProgramView(m.code, m.pc, m.x, m.mem)
  BY <1>1, UserIs, OwnView
<1>3. /\ v.code = m.code /\ v.pc = m.pc /\ v.x = m.x
      /\ DOMAIN v = {"code", "pc", "x", "mem"} /\ DOMAIN v.mem = StackWords
      /\ \A a \in StackWords : v.mem[a] = IF a >= m.x[sp] THEN m.mem[a] ELSE MAGIC
  BY <1>2, ViewOfView
<1>4. CASE m.pc >= 0
  <2>1. InProgram(m.code, m.pc)
    BY <1>3, <1>4 DEF KeepsToItsOwn
  <2>2. i = Upcoming(v) /\ i \in Instruction
    BY <1>1, <1>3, <2>1, FetchProgram DEF Upcoming
  <2> HIDE DEF v, i
  <2>3. /\ i.op \notin {"mret", "data", "csrrsi"}
        /\ i.op = "lw" => m.x[i.rs1] + i.imm \in {a \in StackWords : a >= m.x[sp]}
        /\ StepOver(Doit(i, v)).x[sp] \in 4 * FRAME .. STACK_BTM
        /\ PrintsNoTrapIn(V) => \A t \in Traps : Prints(i, v) # <<t>>
    <3>1. v \in V
      BY DEF v
    <3> QED BY <1>3, <1>4, <2>2, <3>1 DEF KeepsToItsOwn, Alone, PrintsNoTrapIn
  <2>4. i.op \in Executed \ {"csrrsi"}
    BY <2>2, <2>3 DEF Instruction, Ops, Executed
  <2>5. StepOver(Doit(i, m)).x = StepOver(Doit(i, v)).x /\ Prints(i, m) = Prints(i, v)
    <3> DEFINE s == m.x[sp]
    <3>1. \A a \in StackWords : a >= s => m.mem[a] = v.mem[a]
      BY <1>3
    <3>2. i.op = "lw" => m.x[i.rs1] + i.imm \in {a \in StackWords : a >= s}
      BY <2>3
    <3>3. /\ {"code", "pc", "x", "mem"} \subseteq DOMAIN m /\ DOMAIN m.mem = StackWords
          /\ {"code", "pc", "x", "mem"} \subseteq DOMAIN v /\ DOMAIN v.mem = StackWords
          /\ m.code = v.code /\ m.pc = v.pc /\ m.x = v.x
      BY <1>1, <1>3 DEF MachineShape
    <3> HIDE DEF s
    <3>4. LET c == StepOver(Doit(i, m))
              d == StepOver(Doit(i, v))
          IN /\ c.code = d.code /\ c.pc = d.pc /\ c.x = d.x
             /\ \A a \in StackWords : a >= s => c.mem[a] = d.mem[a]
             /\ Prints(i, m) = Prints(i, v)
      BY <2>4, <3>1, <3>2, <3>3, RunsAlike
    <3> QED BY <3>4
  <2>6. MachineShape(Doit(i, m))
    BY <1>1, <2>2, <2>3, DoitShape
  <2>7. Doit(i, m).x = StepOver(Doit(i, m)).x
    BY <2>6, StepOverFields
  <2>8. WellBehaved
    BY <1>1, <2>1, <2>3, <2>5, <2>7 DEF WellBehaved, i
  <2>9. KeepsToItsStack
    BY <2>3 DEF KeepsToItsStack, i
  <2>10. PrintsNoTrapIn(V) => PrintsNoTrap
    BY <2>3, <2>5 DEF PrintsNoTrap, i
  <2> QED BY <2>8, <2>9, <2>10
<1>5. CASE ~(m.pc >= 0)
  BY <1>1, <1>5 DEF WellBehaved, KeepsToItsStack, PrintsNoTrap
<1> QED BY <1>4, <1>5

(* With traps the program goes on in V. *)
LEMMA OwnIsGoneOnIn ==
  ASSUME NEW V, KeepsToItsOwn(V), TrapInv, ViewInv, WellBehaved, KeepsToItsStack, User \in V,
         TrapInv', ViewInv', Numbers(m'), [Next]_vars
  PROVE  User' \in V
<1>1. CASE active = <<>> /\ Execute
  <2> DEFINE v == User
             w == User'
             u == Alone(v)
  <2>1. /\ w = ProgramView(u.code, u.pc, u.x, w.mem)
        /\ \A a \in StackWords : a >= v.x[sp] /\ a >= u.x[sp] => w.mem[a] = u.mem[a]
    BY <1>1, ProgramRuns DEF Alone, Upcoming
  <2>2. v.pc >= 0
    BY <1>1, IdleUser DEF Execute
  <2>3. NextViews(v) \subseteq V
    BY <2>2 DEF KeepsToItsOwn
  <2>4. w.mem \in [StackWords -> Int]
    <3> DEFINE mem == [a \in StackWords |-> IF a >= UserX'[sp] THEN m'.mem[a] ELSE MAGIC]
    <3>1. m'.mem \in [StackWords -> Int] /\ MAGIC \in Int
      BY TrapAssumption DEF Numbers
    <3>2. mem \in [StackWords -> Int]
      BY <3>1
    <3>3. w.mem = mem
      BY DEF User, ProgramView
    <3> QED BY <3>2, <3>3
  <2> HIDE DEF v, w
  <2>5. w \in NextViews(v)
    BY <2>1, <2>4 DEF NextViews
  <2> QED BY <2>3, <2>5 DEF w
<1>2. CASE active # <<>> /\ Execute
  <2>1. User' = User
    <3> DEFINE mm == Doit(Fetch(m), m)
    <3>1. /\ MachineShape(mm) /\ Consistent(StepOver(mm), Acts) /\ Poll(mm, Acts)
          /\ mm.x[sp] \in FRAME * (4 - Len(Acts)) .. STACK_BTM - FRAME * Len(Acts)
          /\ SameUser(StepOver(mm), Acts, m, active)
      BY <1>2, ExecuteMeans
    <3> HIDE DEF mm
    <3> QED BY <3>1, ServiceRuns
  <2> QED BY <2>1
<1>3. CASE Return
  <2>1. User' = User
    <3> DEFINE tr    == TrapRet(m)
               acts1 == SubSeq(active, 1, Len(active) - 1)
    <3>1. /\ MachineShape(tr) /\ Consistent(StepOver(tr), acts1) /\ Poll(tr, acts1)
          /\ tr.x[sp] \in FRAME * (4 - Len(acts1)) .. STACK_BTM - FRAME * Len(acts1)
          /\ SameUser(StepOver(tr), acts1, m, active)
      BY <1>3, ReturnMeans
    <3> HIDE DEF tr, acts1
    <3> QED BY <3>1, ServiceRuns
  <2> QED BY <2>1
<1>4. CASE (\E t \in Traps : Raise(t)) \/ Quit \/ Stopped \/ UNCHANGED vars
  <2>1. m' = m /\ active' = active
    BY <1>4 DEF Raise, Quit, Stopped, vars
  <2>2. User' = User
    BY <2>1, UserIs, UserWillBe
  <2> QED BY <2>2
<1> QED BY <1>1, <1>2, <1>3, <1>4 DEF Next, Step

(* A program that alone stays in V, where it keeps to what is its own, does so
   whatever traps are raised while it runs, and at whatever points. *)
THEOREM OwnIsKeptAlways ==
  ASSUME NEW V, KeepsToItsOwn(V)
  PROVE  Spec => [](WellBehaved /\ KeepsToItsStack /\ (PrintsNoTrapIn(V) => PrintsNoTrap))
<1> DEFINE Inv == TrapInv /\ ViewInv /\ Numbers(m) /\ User \in V
<1>1. Init => Inv
  <2> SUFFICES ASSUME Init PROVE Inv
    OBVIOUS
  <2>1. TrapInv /\ ViewInv /\ Numbers(m)
    BY TrapInvInit, ViewInvInit, NumbersInit
  <2>2. PICK p \in Programs : m = Reset(p)
    BY DEF Init
  <2>3. active = <<>> /\ m.code = p
    BY <2>2 DEF Init, Reset
  <2>4. User = ProgramView(p, Reset(p).pc, Reset(p).x, Reset(p).mem)
    BY <2>1, <2>2, <2>3, UserIs, OwnView DEF ViewInv
  <2> QED BY <2>1, <2>4 DEF KeepsToItsOwn
<1>2. Inv => WellBehaved /\ KeepsToItsStack /\ (PrintsNoTrapIn(V) => PrintsNoTrap)
  BY OwnIsKept
<1>3. Inv /\ [Next]_vars => Inv'
  <2> SUFFICES ASSUME Inv, [Next]_vars PROVE Inv'
    OBVIOUS
  <2>1. WellBehaved /\ KeepsToItsStack
    BY <1>2
  <2>2. TrapInv' /\ ViewInv'
    BY <2>1, TrapInvStep, ViewInvStep
  <2>3. Numbers(m')
    BY <2>1, NumbersStep
  <2>4. User' \in V
    BY <2>1, <2>2, <2>3, OwnIsGoneOnIn
  <2> QED BY <2>2, <2>3, <2>4
<1> HIDE DEF Inv
<1> QED BY <1>1, <1>2, <1>3, PTL DEF Spec

(* So such a program keeps to its stack, and prints no trap's number ... *)
LEMMA OwnStackIsKept ==
  ASSUME NEW V, KeepsToItsOwn(V)
  PROVE  Spec => [](WellBehaved /\ KeepsToItsStack)
BY OwnIsKeptAlways, PTL

LEMMA NoTrapIsPrinted ==
  ASSUME NEW V, KeepsToItsOwn(V), PrintsNoTrapIn(V)
  PROVE  Spec => []PrintsNoTrap
BY OwnIsKeptAlways, PTL

(* ... the promise is kept to it ... *)
THEOREM PromiseKept ==
  ASSUME NEW V, KeepsToItsOwn(V)
  PROVE  Spec => ImplementsTrapService
BY OwnIsKeptAlways, TrapsServeUnnoticed, PTL

(* ... and every trap is served once, if the program prints no trap's number. *)
THEOREM ServedOnceBesides ==
  ASSUME NEW V, KeepsToItsOwn(V), PrintsNoTrapIn(V)
  PROVE  Spec => []ServedExactlyOnce
BY OwnIsKeptAlways, EachTrapServedOnce, PTL

-----------------------------------------------------------------------------
(* The programs of the run keep to their own: the one that saves a0 on the stack,
   and the loop.  What they find at each pc: *)
LoopHas(pc, x) == pc = 0 /\ x[sp] = STACK_BTM

SaverHas(pc, x, mem) ==
  /\ x[ra] = END
  /\ x[sp] = IF pc \in {0, 1} THEN STACK_BTM ELSE STACK_BTM - 1
  /\ pc # 0 => x[a7] = 1
  /\ pc # 4 => x[a0] = MAGIC
  /\ pc \in 3 .. 6 => mem[STACK_BTM - 1] = MAGIC

OwnViews ==
  {v \in [code : MCPrograms, pc : -1 .. 6, x : [Regs -> Int], mem : [StackWords -> Int]] :
     /\ v.x[0] = 0
     /\ \/ v.code = Loop /\ LoopHas(v.pc, v.x)
        \/ v.code = SavesA0 /\ SaverHas(v.pc, v.x, v.mem)}

(* The view after an instruction that makes d of v. *)
LEMMA NextViewIs ==
  ASSUME NEW v, NEW w \in NextViews(v), NEW d, d = Alone(v),
         d.code \in MCPrograms, d.pc \in -1 .. 6, d.x \in [Regs -> Int]
  PROVE  /\ w \in [code : MCPrograms, pc : -1 .. 6, x : [Regs -> Int], mem : [StackWords -> Int]]
         /\ w.code = d.code /\ w.pc = d.pc /\ w.x = d.x
         /\ \A a \in StackWords : a >= v.x[sp] /\ a >= d.x[sp] => w.mem[a] = d.mem[a]
<1>1. PICK mem \in [StackWords -> Int] :
        /\ w = ProgramView(d.code, d.pc, d.x, mem)
        /\ \A a \in StackWords : a >= v.x[sp] /\ a >= d.x[sp] => mem[a] = d.mem[a]
  BY DEF NextViews
<1> DEFINE k == [a \in StackWords |-> IF a >= d.x[sp] THEN mem[a] ELSE MAGIC]
<1>2. k \in [StackWords -> Int] /\ \A a \in StackWords : a >= d.x[sp] => k[a] = mem[a]
  BY TrapAssumption
<1>3. w = [code |-> d.code, pc |-> d.pc, x |-> d.x, mem |-> k]
  BY <1>1 DEF ProgramView
<1> HIDE DEF k
<1> QED BY <1>1, <1>2, <1>3

LEMMA ViewWrites ==
  ASSUME NEW v, {"code", "pc", "x", "mem"} \subseteq DOMAIN v, v.x \in [Regs -> Int],
         NEW rd \in Regs \ {0}, NEW val \in Int, NEW d, d = StepOver(SetReg(v, rd, val))
  PROVE  /\ d.code = v.code /\ d.pc = v.pc + 1 /\ d.mem = v.mem /\ d.x \in [Regs -> Int]
         /\ d.x[0] = 0 /\ d.x[rd] = val
         /\ \A r \in Regs \ {0, rd} : d.x[r] = v.x[r]
<1> DEFINE x == WriteReg(v.x, rd, val)
<1>1. x \in [Regs -> Int]
  BY WriteRegNumbers
<1>2. x[0] = 0 /\ x[rd] = val /\ \A r \in Regs \ {0, rd} : x[r] = v.x[r]
  BY DEF WriteReg, Regs
<1> HIDE DEF x
<1>3. d.code = v.code /\ d.pc = v.pc + 1 /\ d.mem = v.mem /\ d.x = x
  BY DEF StepOver, SetReg, x
<1> QED BY <1>1, <1>2, <1>3

LEMMA SaverInstructions ==
  /\ Len(SavesA0) = 7
  /\ SavesA0[1] = Addi(a7, 0, 1) /\ SavesA0[2] = Addi(sp, sp, -1)
  /\ SavesA0[3] = Sw(a0, sp, 0) /\ SavesA0[4] = Addi(a0, 0, 9)
  /\ SavesA0[5] = Lw(a0, sp, 0) /\ SavesA0[6] = Ecall /\ SavesA0[7] = Jalr(ra)
BY DEF SavesA0

(* The seven instructions of the program that saves a0. *)
LEMMA SaverGoesOn ==
  ASSUME STACK_BTM > 4 * FRAME, NEW v, v.code = SavesA0, v.x \in [Regs -> Int],
         {"code", "pc", "x", "mem"} \subseteq DOMAIN v, v.mem \in [StackWords -> Int],
         v.pc \in 0 .. 6, v.x[0] = 0, SaverHas(v.pc, v.x, v.mem), NEW d, d = Alone(v)
  PROVE  /\ d.code = SavesA0 /\ d.pc \in -1 .. 6 /\ d.x \in [Regs -> Int] /\ d.x[0] = 0
         /\ SaverHas(d.pc, d.x, d.mem)
         /\ Upcoming(v).op \in {"addi", "sw", "lw", "ecall", "jalr"}
         /\ Upcoming(v).op = "lw" => v.x[Upcoming(v).rs1] + Upcoming(v).imm = STACK_BTM - 1 /\ v.x[sp] = STACK_BTM - 1
         /\ Upcoming(v).op = "ecall" => v.x[a0] = MAGIC
         /\ d.pc \in 3 .. 6 => v.x[sp] = STACK_BTM - 1
<1>1. STACK_BTM \in Int /\ MAGIC \in Int /\ STACK_BTM - 1 \in StackWords /\ FRAME = 11
  BY TrapAssumption DEF StackWords, FRAME
<1> DEFINE i == Upcoming(v)
<1>2. i = SavesA0[v.pc + 1] /\ d = StepOver(Doit(i, v))
  BY DEF Upcoming, Alone
<1>3. /\ v.x[ra] = END
      /\ v.x[sp] = IF v.pc \in {0, 1} THEN STACK_BTM ELSE STACK_BTM - 1
      /\ v.pc # 0 => v.x[a7] = 1
      /\ v.pc # 4 => v.x[a0] = MAGIC
      /\ v.pc \in 3 .. 6 => v.mem[STACK_BTM - 1] = MAGIC
  BY DEF SaverHas
<1>4. {ra, sp, a0, a7} \subseteq Regs \ {0} /\ sp # a0 /\ sp # a7 /\ sp # ra /\ a0 # a7
      /\ ra # a0 /\ ra # a7
  BY DEF ra, sp, a0, a7, Regs
<1> HIDE DEF i
<1>5. CASE v.pc = 0
  <2>1. i = Addi(a7, 0, 1)
    BY <1>2, <1>5, SaverInstructions
  <2>2. d = StepOver(SetReg(v, a7, 1)) /\ i.op = "addi"
    BY <1>2, <2>1 DEF Doit, Addi, Inst, SetReg
  <2>3. /\ d.code = v.code /\ d.pc = 1 /\ d.mem = v.mem /\ d.x \in [Regs -> Int]
        /\ d.x[0] = 0 /\ d.x[a7] = 1
        /\ \A r \in Regs \ {0, a7} : d.x[r] = v.x[r]
    BY <1>4, <1>5, <2>2, ViewWrites
  <2> QED BY <1>3, <1>4, <1>5, <2>2, <2>3 DEF SaverHas, i
<1>6. CASE v.pc = 1
  <2>1. i = Addi(sp, sp, -1)
    BY <1>2, <1>6, SaverInstructions
  <2>2. d = StepOver(SetReg(v, sp, v.x[sp] + (-1))) /\ i.op = "addi"
    BY <1>2, <2>1 DEF Doit, Addi, Inst, SetReg
  <2>3. v.x[sp] + (-1) = STACK_BTM - 1 /\ STACK_BTM - 1 \in Int
    BY <1>1, <1>3, <1>6
  <2>4. /\ d.code = v.code /\ d.pc = 2 /\ d.mem = v.mem /\ d.x \in [Regs -> Int]
        /\ d.x[0] = 0 /\ d.x[sp] = STACK_BTM - 1
        /\ \A r \in Regs \ {0, sp} : d.x[r] = v.x[r]
    BY <1>4, <1>6, <2>2, <2>3, ViewWrites
  <2> QED BY <1>3, <1>4, <1>6, <2>2, <2>4 DEF SaverHas, i
<1>7. CASE v.pc = 2
  <2>1. i = Sw(a0, sp, 0)
    BY <1>2, <1>7, SaverInstructions
  <2>2. d = StepOver([v EXCEPT !.mem[v.x[sp] + 0] = v.x[a0]]) /\ i.op = "sw"
    BY <1>2, <2>1 DEF Doit, Sw, Inst
  <2>3. v.x[sp] + 0 = STACK_BTM - 1 /\ v.x[a0] = MAGIC
    BY <1>1, <1>3, <1>7
  <2>4. d.code = v.code /\ d.pc = 3 /\ d.x = v.x /\ d.mem = [v.mem EXCEPT ![STACK_BTM - 1] = MAGIC]
    BY <1>7, <2>2, <2>3 DEF StepOver
  <2>5. d.mem[STACK_BTM - 1] = MAGIC
    BY <1>1, <2>4
  <2> QED BY <1>3, <1>7, <2>2, <2>4, <2>5 DEF SaverHas, i
<1>8. CASE v.pc = 3
  <2>1. i = Addi(a0, 0, 9)
    BY <1>2, <1>8, SaverInstructions
  <2>2. d = StepOver(SetReg(v, a0, 9)) /\ i.op = "addi"
    BY <1>2, <2>1 DEF Doit, Addi, Inst, SetReg
  <2>3. /\ d.code = v.code /\ d.pc = 4 /\ d.mem = v.mem /\ d.x \in [Regs -> Int]
        /\ d.x[0] = 0
        /\ \A r \in Regs \ {0, a0} : d.x[r] = v.x[r]
    BY <1>4, <1>8, <2>2, ViewWrites
  <2> QED BY <1>3, <1>4, <1>8, <2>2, <2>3 DEF SaverHas, i
<1>9. CASE v.pc = 4
  <2>1. i = Lw(a0, sp, 0)
    BY <1>2, <1>9, SaverInstructions
  <2>2. /\ d = StepOver(SetReg(v, a0, v.mem[v.x[sp] + 0])) /\ i.op = "lw"
        /\ i.rs1 = sp /\ i.imm = 0
    BY <1>2, <2>1 DEF Doit, Lw, Inst, SetReg
  <2>3. v.x[sp] + 0 = STACK_BTM - 1 /\ v.mem[STACK_BTM - 1] = MAGIC /\ v.x[sp] = STACK_BTM - 1
    BY <1>1, <1>3, <1>9
  <2>4. /\ d.code = v.code /\ d.pc = 5 /\ d.mem = v.mem /\ d.x \in [Regs -> Int]
        /\ d.x[0] = 0 /\ d.x[a0] = MAGIC
        /\ \A r \in Regs \ {0, a0} : d.x[r] = v.x[r]
    BY <1>1, <1>4, <1>9, <2>2, <2>3, ViewWrites
  <2> QED BY <1>3, <1>4, <1>9, <2>2, <2>3, <2>4 DEF SaverHas, i
<1>10. CASE v.pc = 5
  <2>1. i = Ecall
    BY <1>2, <1>10, SaverInstructions
  <2>2. d = StepOver(v) /\ i.op = "ecall"
    BY <1>2, <2>1 DEF Doit, Ecall, Inst
  <2>3. d.code = v.code /\ d.pc = 6 /\ d.mem = v.mem /\ d.x = v.x
    BY <1>10, <2>2 DEF StepOver
  <2> QED BY <1>3, <1>10, <2>2, <2>3 DEF SaverHas, i
<1>11. CASE v.pc = 6
  <2>1. i = Jalr(ra)
    BY <1>2, <1>11, SaverInstructions
  <2>2. d = StepOver(SetPc(v, v.x[ra] + 0 - 1)) /\ i.op = "jalr"
    BY <1>2, <2>1 DEF Doit, Jalr, Inst, SetPc
  <2>3. v.x[ra] + 0 - 1 = -2
    BY <1>3 DEF END
  <2>4. d.code = v.code /\ d.pc = -1 /\ d.mem = v.mem /\ d.x = v.x
    BY <2>2, <2>3 DEF StepOver, SetPc
  <2> QED BY <1>3, <1>11, <2>2, <2>4 DEF SaverHas, i
<1> QED BY <1>5, <1>6, <1>7, <1>8, <1>9, <1>10, <1>11

LEMMA LoopGoesOn ==
  ASSUME NEW v, v.code = Loop, {"code", "pc", "x", "mem"} \subseteq DOMAIN v,
         LoopHas(v.pc, v.x), NEW d, d = Alone(v)
  PROVE  /\ d.code = Loop /\ d.pc = 0 /\ d.x = v.x /\ d.mem = v.mem
         /\ Upcoming(v).op = "jal"
<1>1. Upcoming(v) = Jal(0)
  BY DEF Upcoming, Loop, LoopHas
<1>2. d = StepOver(SetPc(v, 0 + 0 - 1))
  BY <1>1 DEF Alone, Doit, Jal, Inst, SetPc, LoopHas
<1>3. d.code = v.code /\ d.pc = 0 /\ d.x = v.x /\ d.mem = v.mem
  BY <1>2 DEF StepOver, SetPc
<1> QED BY <1>1, <1>3 DEF Jal, Inst

LEMMA RunProgramsKeepToTheirOwn ==
  ASSUME Programs = MCPrograms, STACK_BTM > 4 * FRAME
  PROVE  KeepsToItsOwn(OwnViews) /\ (MAGIC \notin Traps => PrintsNoTrapIn(OwnViews))
<1>1. /\ STACK_BTM \in Nat /\ MAGIC \in Int /\ STACK_BTM - 1 \in StackWords /\ FRAME = 11
      /\ STACK_BTM \in 4 * FRAME .. STACK_BTM /\ STACK_BTM - 1 \in 4 * FRAME .. STACK_BTM
  BY TrapAssumption DEF StackWords, FRAME
<1>2. ASSUME NEW p \in Programs
      PROVE  ProgramView(p, Reset(p).pc, Reset(p).x, Reset(p).mem) \in OwnViews
  <2> DEFINE x   == [r \in Regs |-> CASE r = 0 -> 0 [] r = sp -> STACK_BTM
                                      [] r = ra -> END [] OTHER -> MAGIC]
             mem == [a \in StackWords |-> MAGIC]
             v   == ProgramView(p, 0, x, mem)
  <2>1. Reset(p).pc = 0 /\ Reset(p).x = x /\ Reset(p).mem = mem
    BY DEF Reset
  <2>2. /\ x \in [Regs -> Int] /\ x[0] = 0 /\ x[sp] = STACK_BTM /\ x[ra] = END
        /\ x[a0] = MAGIC
    BY <1>1 DEF Regs, sp, ra, a0, END
  <2> HIDE DEF x
  <2>3. v = [code |-> p, pc |-> 0, x |-> x,
             mem |-> [a \in StackWords |-> IF a >= x[sp] THEN mem[a] ELSE MAGIC]]
    BY DEF ProgramView
  <2>4. [a \in StackWords |-> IF a >= x[sp] THEN mem[a] ELSE MAGIC] \in [StackWords -> Int]
    BY <1>1
  <2> HIDE DEF mem, v
  <2>5. /\ v \in [code : MCPrograms, pc : -1 .. 6, x : [Regs -> Int], mem : [StackWords -> Int]]
        /\ v.code = p /\ v.pc = 0 /\ v.x = x
    BY <2>2, <2>3, <2>4
  <2>6. p = Loop \/ p = SavesA0
    BY DEF MCPrograms
  <2>7. v \in OwnViews
    BY <2>2, <2>5, <2>6 DEF OwnViews, LoopHas, SaverHas
  <2> QED BY <2>1, <2>7 DEF v
<1>3. ASSUME NEW v \in OwnViews, v.pc >= 0
      PROVE  /\ InProgram(v.code, v.pc)
             /\ Upcoming(v).op \notin {"mret", "data", "csrrsi"}
             /\ Upcoming(v).op = "lw" =>
                  v.x[Upcoming(v).rs1] + Upcoming(v).imm \in {a \in StackWords : a >= v.x[sp]}
             /\ Alone(v).x[sp] \in 4 * FRAME .. STACK_BTM
             /\ NextViews(v) \subseteq OwnViews
             /\ MAGIC \notin Traps => \A t \in Traps : Prints(Upcoming(v), v) # <<t>>
  <2> DEFINE d == Alone(v)
             i == Upcoming(v)
  <2>1. /\ v.code \in MCPrograms /\ v.pc \in -1 .. 6 /\ v.x \in [Regs -> Int]
        /\ v.mem \in [StackWords -> Int] /\ {"code", "pc", "x", "mem"} \subseteq DOMAIN v
        /\ v.x[0] = 0
        /\ \/ v.code = Loop /\ LoopHas(v.pc, v.x)
           \/ v.code = SavesA0 /\ SaverHas(v.pc, v.x, v.mem)
    BY DEF OwnViews
  <2>2. v.pc \in 0 .. 6
    BY <1>3, <2>1
  <2>3. CASE v.code = Loop /\ LoopHas(v.pc, v.x)
    <3>1. d.code = Loop /\ d.pc = 0 /\ d.x = v.x /\ i.op = "jal"
      BY <2>1, <2>3, LoopGoesOn
    <3>2. Len(Loop) = 1 /\ v.pc = 0 /\ v.x[sp] = STACK_BTM
      BY <2>3 DEF Loop, LoopHas
    <3>3. InProgram(v.code, v.pc)
      BY <2>3, <3>2 DEF InProgram
    <3>4. Prints(i, v) = <<>>
      BY <3>1 DEF Prints
    <3> HIDE DEF d, i
    <3>5. NextViews(v) \subseteq OwnViews
      <4> SUFFICES ASSUME NEW w \in NextViews(v) PROVE w \in OwnViews
        OBVIOUS
      <4>1. /\ w \in [code : MCPrograms, pc : -1 .. 6, x : [Regs -> Int], mem : [StackWords -> Int]]
            /\ w.code = d.code /\ w.pc = d.pc /\ w.x = d.x
        <5>1. d.code \in MCPrograms /\ d.pc \in -1 .. 6 /\ d.x \in [Regs -> Int]
          BY <2>1, <2>3, <3>1
        <5> QED BY <5>1, NextViewIs DEF d
      <4> QED BY <2>1, <2>3, <3>1, <3>2, <4>1 DEF OwnViews, LoopHas
    <3>6. d.x[sp] \in 4 * FRAME .. STACK_BTM
      BY <1>1, <3>1, <3>2
    <3>7. \A t : <<>> # <<t>>
      OBVIOUS
    <3> QED BY <3>1, <3>3, <3>4, <3>5, <3>6, <3>7 DEF d, i
  <2>4. CASE v.code = SavesA0 /\ SaverHas(v.pc, v.x, v.mem)
    <3>1. /\ d.code = SavesA0 /\ d.pc \in -1 .. 6 /\ d.x \in [Regs -> Int] /\ d.x[0] = 0
          /\ SaverHas(d.pc, d.x, d.mem)
          /\ i.op \in {"addi", "sw", "lw", "ecall", "jalr"}
          /\ i.op = "lw" => v.x[i.rs1] + i.imm = STACK_BTM - 1 /\ v.x[sp] = STACK_BTM - 1
          /\ i.op = "ecall" => v.x[a0] = MAGIC
          /\ d.pc \in 3 .. 6 => v.x[sp] = STACK_BTM - 1
      BY <2>1, <2>2, <2>4, SaverGoesOn
    <3>2. InProgram(v.code, v.pc)
      BY <2>2, <2>4, SaverInstructions DEF InProgram
    <3>3. d.x[sp] \in {STACK_BTM, STACK_BTM - 1} /\ (d.pc \in 3 .. 6 => d.x[sp] = STACK_BTM - 1)
      BY <3>1 DEF SaverHas
    <3>4. MAGIC \notin Traps => \A t \in Traps : Prints(i, v) # <<t>>
      <4>1. Prints(i, v) \in {<<>>, <<MAGIC>>}
        BY <3>1 DEF Prints
      <4>2. \A t : <<>> # <<t>>
        OBVIOUS
      <4>3. \A t : <<MAGIC>> = <<t>> => MAGIC = t
        OBVIOUS
      <4> HIDE DEF i
      <4> QED BY <4>1, <4>2, <4>3
    <3> HIDE DEF d, i
    <3>5. NextViews(v) \subseteq OwnViews
      <4> SUFFICES ASSUME NEW w \in NextViews(v) PROVE w \in OwnViews
        OBVIOUS
      <4>1. /\ w \in [code : MCPrograms, pc : -1 .. 6, x : [Regs -> Int], mem : [StackWords -> Int]]
            /\ w.code = d.code /\ w.pc = d.pc /\ w.x = d.x
            /\ \A a \in StackWords : a >= v.x[sp] /\ a >= d.x[sp] => w.mem[a] = d.mem[a]
        <5>1. d.code \in MCPrograms
          BY <2>1, <2>4, <3>1
        <5> QED BY <3>1, <5>1, NextViewIs DEF d
      <4>2. w.pc \in 3 .. 6 => w.mem[STACK_BTM - 1] = MAGIC
        <5> SUFFICES ASSUME w.pc \in 3 .. 6 PROVE w.mem[STACK_BTM - 1] = MAGIC
          OBVIOUS
        <5>1. d.mem[STACK_BTM - 1] = MAGIC
          BY <3>1, <4>1 DEF SaverHas
        <5>2. v.x[sp] = STACK_BTM - 1 /\ d.x[sp] = STACK_BTM - 1
          BY <3>1, <3>3, <4>1
        <5>3. STACK_BTM - 1 \in StackWords /\ STACK_BTM - 1 >= STACK_BTM - 1
          BY <1>1
        <5> QED BY <4>1, <5>1, <5>2, <5>3
      <4>3. SaverHas(w.pc, w.x, w.mem)
        BY <3>1, <4>1, <4>2 DEF SaverHas
      <4> QED BY <3>1, <4>1, <4>3 DEF OwnViews
    <3>6. d.x[sp] \in 4 * FRAME .. STACK_BTM
      BY <1>1, <3>3
    <3>7. i.op = "lw" => v.x[i.rs1] + i.imm \in {a \in StackWords : a >= v.x[sp]}
      BY <1>1, <3>1
    <3> QED BY <3>1, <3>2, <3>4, <3>5, <3>6, <3>7 DEF d, i
  <2> QED BY <2>1, <2>3, <2>4
<1> QED BY <1>2, <1>3 DEF KeepsToItsOwn, PrintsNoTrapIn

(* The programs of the run Trap, on a stack of any size that has room for a frame
   of each trap and the program's word: with any number of traps, raised at any
   points, they go on as if there were none. *)
THEOREM RunProgramsUnnoticed ==
  ASSUME Programs = MCPrograms, STACK_BTM > 4 * FRAME
  PROVE  Spec => ImplementsTrapService
BY RunProgramsKeepToTheirOwn, PromiseKept

(* And every trap raised is served exactly once beside them. *)
THEOREM RunProgramsServedOnce ==
  ASSUME Programs = MCPrograms, STACK_BTM > 4 * FRAME, MAGIC \notin Traps
  PROVE  Spec => []ServedExactlyOnce
BY RunProgramsKeepToTheirOwn, ServedOnceBesides

-----------------------------------------------------------------------------
(* The discipline of a compiler keeps a program to its own, and it can be read
   off the program's text: at every instruction that is reached it is known how
   many words are in use on the stack.  sp changes by what is added to it and ra not at all, what
   is loaded is one of the words in use, and the program is left by jalr ra. *)
Room == STACK_BTM - 4 * FRAME

Lines(p) == 0 .. Len(p) - 1

(* The words in use after the instruction i, when there were n before. *)
InUseAfter(i, n) == IF i.op = "addi" /\ i.rd = sp THEN n - i.imm ELSE n

Successors(i, k) ==
  IF i.op = "jalr" THEN {} ELSE IF i.op = "jal" THEN {k + i.imm}
  ELSE IF i.op = "beq" THEN {k + 1, k + i.imm} ELSE {k + 1}

KeepsDiscipline(i, k, inUse) ==
  /\ i.op \in {"addi", "bit0", "lw", "sw", "beq", "jal", "jalr", "ecall"}
  /\ i.op \in {"addi", "bit0", "lw"} =>
       /\ i.rd # ra
       /\ i.rd = sp => i.op = "addi" /\ i.rs1 = sp
  /\ i.op = "lw" => i.rs1 = sp /\ i.imm \in 0 .. inUse[k] - 1
  /\ i.op = "jalr" => i.rs1 = ra /\ i.imm = 0
  /\ \A j \in Successors(i, k) : j \in DOMAIN inUse /\ inUse[j] = InUseAfter(i, inUse[k])

Disciplined(p, inUse) ==
  /\ DOMAIN inUse \subseteq Lines(p)
  /\ inUse \in [DOMAIN inUse -> 0 .. Room]
  /\ 0 \in DOMAIN inUse /\ inUse[0] = 0
  /\ \A k \in DOMAIN inUse : KeepsDiscipline(p[k + 1], k, inUse)

(* Where such a program is when it runs alone. *)
AtLine(v, inUse) ==
  /\ Disciplined(v.code, inUse)
  /\ v.pc \in DOMAIN inUse
  /\ v.x[sp] = STACK_BTM - inUse[v.pc]

FramedViews ==
  {v \in [code : Programs, pc : Int, x : [Regs -> Int], mem : [StackWords -> Int]] :
     /\ v.x[0] = 0 /\ v.x[ra] = END
     /\ (v.pc = END \/ \E inUse : AtLine(v, inUse))}

LEMMA ViewWritesAny ==
  ASSUME NEW v, {"code", "pc", "x", "mem"} \subseteq DOMAIN v, v.x \in [Regs -> Int],
         NEW rd \in Regs, NEW val \in Int, NEW d, d = StepOver(SetReg(v, rd, val))
  PROVE  /\ d.code = v.code /\ d.pc = v.pc + 1 /\ d.mem = v.mem /\ d.x \in [Regs -> Int]
         /\ d.x[0] = 0 /\ (rd # 0 => d.x[rd] = val)
         /\ \A r \in Regs \ {0, rd} : d.x[r] = v.x[r]
<1> DEFINE x == WriteReg(v.x, rd, val)
<1>1. x \in [Regs -> Int]
  BY WriteRegNumbers
<1>2. x[0] = 0 /\ (rd # 0 => x[rd] = val) /\ \A r \in Regs \ {0, rd} : x[r] = v.x[r]
  BY DEF WriteReg, Regs
<1> HIDE DEF x
<1>3. d.code = v.code /\ d.pc = v.pc + 1 /\ d.mem = v.mem /\ d.x = x
  BY DEF StepOver, SetReg, x
<1> QED BY <1>1, <1>2, <1>3

(* A disciplined program's next instruction leaves it where the annotation says. *)
LEMMA DisciplineGoesOn ==
  ASSUME NEW v \in FramedViews, NEW inUse, AtLine(v, inUse),
         NEW i, i = Upcoming(v), NEW d, d = Alone(v)
  PROVE  /\ KeepsDiscipline(i, v.pc, inUse)
         /\ d.code = v.code /\ d.x \in [Regs -> Int] /\ d.x[0] = 0 /\ d.x[ra] = END
         /\ d.x[sp] \in 4 * FRAME .. STACK_BTM
         /\ (d.pc = END \/ (d.pc \in DOMAIN inUse /\ d.x[sp] = STACK_BTM - inUse[d.pc]))
<1> DEFINE k == v.pc
           p == v.code
           n == inUse[k]
<1>1. /\ p \in Seq(Instruction) /\ k \in Lines(p) /\ k \in DOMAIN inUse /\ k \in Int
      /\ v.x \in [Regs -> Int] /\ v.mem \in [StackWords -> Int]
      /\ {"code", "pc", "x", "mem"} \subseteq DOMAIN v
      /\ v.x[0] = 0 /\ v.x[ra] = END /\ v.x[sp] = STACK_BTM - n
  BY TrapAssumption DEF FramedViews, AtLine, Disciplined, Lines
<1>2. /\ inUse \in [DOMAIN inUse -> 0 .. Room] /\ n \in 0 .. Room
      /\ STACK_BTM \in Nat /\ FRAME = 11 /\ Room \in Int /\ Room = STACK_BTM - 4 * FRAME
  BY <1>1, TrapAssumption DEF AtLine, Disciplined, FRAME, Room
<1>3. i \in Instruction /\ d = StepOver(Doit(i, v))
  <2>1. p[k + 1] \in Instruction
    BY <1>1 DEF Lines
  <2> QED BY <2>1 DEF Upcoming, Alone
<1>4. KeepsDiscipline(i, k, inUse)
  BY <1>1 DEF AtLine, Disciplined, Upcoming
<1>5. \A m0 \in 0 .. Room : STACK_BTM - m0 \in 4 * FRAME .. STACK_BTM
  BY <1>2
<1>6. /\ i.rd \in Regs /\ i.rs1 \in Regs /\ i.rs2 \in Regs /\ i.imm \in Int
      /\ v.x[i.rs1] \in Int /\ v.x[i.rs2] \in Int
  BY <1>1, <1>3 DEF Instruction
<1>7. {ra, sp} \subseteq Regs \ {0} /\ ra # sp
  BY DEF ra, sp, Regs
<1> HIDE DEF k, p, n
<1>8. ASSUME NEW j \in Successors(i, k), d.pc = j, d.code = p, d.x \in [Regs -> Int],
             d.x[0] = 0, d.x[ra] = END, d.x[sp] = STACK_BTM - InUseAfter(i, n)
      PROVE  /\ d.code = p /\ d.x \in [Regs -> Int] /\ d.x[0] = 0 /\ d.x[ra] = END
             /\ d.x[sp] \in 4 * FRAME .. STACK_BTM
             /\ d.pc \in DOMAIN inUse /\ d.x[sp] = STACK_BTM - inUse[d.pc]
  <2>1. j \in DOMAIN inUse /\ inUse[j] = InUseAfter(i, n)
    BY <1>4 DEF KeepsDiscipline, n
  <2>2. inUse[j] \in 0 .. Room
    BY <2>1, <1>2
  <2> QED BY <1>5, <1>8, <2>1, <2>2
<1>9. CASE i.op \in {"addi", "bit0", "lw"}
  <2>1. PICK val \in Int : /\ d = StepOver(SetReg(v, i.rd, val))
                           /\ i.op = "addi" => val = v.x[i.rs1] + i.imm
    <3>1. CASE i.op = "addi"
      <4>1. d = StepOver(SetReg(v, i.rd, v.x[i.rs1] + i.imm))
        BY <1>3, <3>1 DEF Doit, SetReg
      <4> QED BY <1>6, <4>1
    <3>2. CASE i.op = "bit0"
      <4>1. d = StepOver(SetReg(v, i.rd, v.x[i.rs1] % 2))
        BY <1>3, <3>2 DEF Doit, SetReg
      <4> QED BY <1>6, <3>2, <4>1
    <3>3. CASE i.op = "lw"
      <4>1. d = StepOver(SetReg(v, i.rd, v.mem[v.x[i.rs1] + i.imm]))
        BY <1>3, <3>3 DEF Doit, SetReg
      <4>2. v.x[i.rs1] + i.imm \in StackWords
        <5>1. i.rs1 = sp /\ i.imm \in 0 .. n - 1
          BY <1>4, <3>3 DEF KeepsDiscipline, n
        <5>2. n \in Int /\ 0 <= n /\ n <= STACK_BTM - 44 /\ STACK_BTM \in Int
          BY <1>2
        <5>3. v.x[i.rs1] + i.imm = STACK_BTM - n + i.imm
          BY <1>1, <5>1
        <5> QED BY <5>1, <5>2, <5>3 DEF StackWords
      <4>3. v.mem[v.x[i.rs1] + i.imm] \in Int
        BY <1>1, <4>2
      <4> QED BY <3>3, <4>1, <4>3
    <3> QED BY <1>9, <3>1, <3>2, <3>3
  <2>2. /\ d.code = v.code /\ d.pc = v.pc + 1 /\ d.x \in [Regs -> Int]
        /\ d.x[0] = 0 /\ (i.rd # 0 => d.x[i.rd] = val)
        /\ \A r \in Regs \ {0, i.rd} : d.x[r] = v.x[r]
    <3>1. d = StepOver(SetReg(v, i.rd, val))
      BY <2>1
    <3>2. v.x \in [Regs -> Int] /\ {"code", "pc", "x", "mem"} \subseteq DOMAIN v /\ i.rd \in Regs
      BY <1>1, <1>6
    <3> QED BY <3>1, <3>2, ViewWritesAny
  <2>3. i.rd # ra /\ (i.rd = sp => i.op = "addi" /\ i.rs1 = sp)
    BY <1>4, <1>9 DEF KeepsDiscipline
  <2>4. d.x[ra] = END
    BY <1>1, <1>7, <2>2, <2>3
  <2>5. d.x[sp] = STACK_BTM - InUseAfter(i, n)
    <3>1. CASE i.rd = sp
      <4>1. d.x[sp] = v.x[sp] + i.imm /\ i.op = "addi"
        BY <1>7, <2>1, <2>2, <2>3, <3>1
      <4>2. /\ n \in Int /\ STACK_BTM \in Int /\ v.x[sp] = STACK_BTM - n /\ i.imm \in Int
            /\ InUseAfter(i, n) = n - i.imm
        BY <1>1, <1>2, <1>6, <3>1, <4>1 DEF InUseAfter
      <4> QED BY <4>1, <4>2
    <3>2. CASE i.rd # sp
      BY <1>1, <1>7, <2>2, <3>2 DEF InUseAfter
    <3> QED BY <3>1, <3>2
  <2>6. k + 1 \in Successors(i, k)
    BY <1>9 DEF Successors
  <2> QED BY <1>4, <1>8, <2>2, <2>4, <2>5, <2>6 DEF k, p
<1>10. CASE i.op \in {"sw", "ecall"}
  <2>1. d.code = v.code /\ d.pc = v.pc + 1 /\ d.x = v.x
    BY <1>1, <1>3, <1>10 DEF Doit, StepOver
  <2>2. k + 1 \in Successors(i, k) /\ InUseAfter(i, n) = n
    BY <1>10 DEF Successors, InUseAfter
  <2> QED BY <1>1, <1>4, <1>8, <2>1, <2>2 DEF k, p
<1>11. CASE i.op \in {"beq", "jal"}
  <2>1. d.code = v.code /\ d.x = v.x
    BY <1>1, <1>3, <1>11 DEF Doit, StepOver
  <2>2. d.pc = k + i.imm \/ (i.op = "beq" /\ d.pc = k + 1)
    BY SMTT(60), <1>1, <1>3, <1>6, <1>11 DEF Doit, StepOver, k
  <2>3. d.pc \in Successors(i, k) /\ InUseAfter(i, n) = n
    BY <1>11, <2>2 DEF Successors, InUseAfter
  <2> QED BY <1>1, <1>4, <1>8, <2>1, <2>3 DEF k, p
<1>12. CASE i.op = "jalr"
  <2>1. d.code = v.code /\ d.x = v.x
    BY <1>1, <1>3, <1>12 DEF Doit, StepOver
  <2>2. i.rs1 = ra /\ i.imm = 0
    BY <1>4, <1>12 DEF KeepsDiscipline
  <2>3. d.pc = v.x[ra] + 0 - 1 + 1
    BY <1>1, <1>3, <1>12, <2>2 DEF Doit, StepOver
  <2>4. d.pc = END
    BY <1>1, <2>3 DEF END
  <2> QED BY <1>1, <1>2, <1>4, <1>5, <2>1, <2>4 DEF k, p
<1>13. i.op \in {"addi", "bit0", "lw", "sw", "beq", "jal", "jalr", "ecall"}
  BY <1>4 DEF KeepsDiscipline
<1> QED BY <1>9, <1>10, <1>11, <1>12, <1>13

LEMMA DisciplineKeepsToItsOwn ==
  ASSUME \A p \in Programs : \E inUse : Disciplined(p, inUse)
  PROVE  KeepsToItsOwn(FramedViews)
<1>1. STACK_BTM \in Nat /\ MAGIC \in Int /\ FRAME = 11
  BY TrapAssumption DEF FRAME
<1>2. ASSUME NEW p \in Programs
      PROVE  ProgramView(p, Reset(p).pc, Reset(p).x, Reset(p).mem) \in FramedViews
  <2> DEFINE x   == [r \in Regs |-> CASE r = 0 -> 0 [] r = sp -> STACK_BTM
                                      [] r = ra -> END [] OTHER -> MAGIC]
             mem == [a \in StackWords |-> MAGIC]
             v   == ProgramView(p, 0, x, mem)
  <2>1. Reset(p).pc = 0 /\ Reset(p).x = x /\ Reset(p).mem = mem
    BY DEF Reset
  <2>2. x \in [Regs -> Int] /\ x[0] = 0 /\ x[sp] = STACK_BTM /\ x[ra] = END
    BY <1>1 DEF Regs, sp, ra, END
  <2> HIDE DEF x
  <2>3. v = [code |-> p, pc |-> 0, x |-> x,
             mem |-> [a \in StackWords |-> IF a >= x[sp] THEN mem[a] ELSE MAGIC]]
    BY DEF ProgramView
  <2>4. [a \in StackWords |-> IF a >= x[sp] THEN mem[a] ELSE MAGIC] \in [StackWords -> Int]
    BY <1>1
  <2> HIDE DEF mem, v
  <2>5. /\ v \in [code : Programs, pc : Int, x : [Regs -> Int], mem : [StackWords -> Int]]
        /\ v.code = p /\ v.pc = 0 /\ v.x = x
    BY <2>2, <2>3, <2>4
  <2>6. PICK inUse : Disciplined(p, inUse)
    OBVIOUS
  <2>8. AtLine(v, inUse)
    BY <1>1, <2>2, <2>5, <2>6 DEF AtLine, Disciplined
  <2>9. v \in FramedViews
    BY <2>2, <2>5, <2>8 DEF FramedViews
  <2> QED BY <2>1, <2>9 DEF v
<1>3. ASSUME NEW v \in FramedViews, v.pc >= 0
      PROVE  /\ InProgram(v.code, v.pc)
             /\ Upcoming(v).op \notin {"mret", "data", "csrrsi"}
             /\ Upcoming(v).op = "lw" =>
                  v.x[Upcoming(v).rs1] + Upcoming(v).imm \in {a \in StackWords : a >= v.x[sp]}
             /\ Alone(v).x[sp] \in 4 * FRAME .. STACK_BTM
             /\ NextViews(v) \subseteq FramedViews
  <2> DEFINE d == Alone(v)
             i == Upcoming(v)
  <2>1. PICK inUse : AtLine(v, inUse)
    BY <1>3 DEF FramedViews, END
  <2>2. /\ KeepsDiscipline(i, v.pc, inUse)
        /\ d.code = v.code /\ d.x \in [Regs -> Int] /\ d.x[0] = 0 /\ d.x[ra] = END
        /\ d.x[sp] \in 4 * FRAME .. STACK_BTM
        /\ (d.pc = END \/ (d.pc \in DOMAIN inUse /\ d.x[sp] = STACK_BTM - inUse[d.pc]))
    BY <2>1, DisciplineGoesOn
  <2>3. InProgram(v.code, v.pc)
    BY <2>1 DEF AtLine, Disciplined, Lines, InProgram
  <2>4. i.op = "lw" => v.x[i.rs1] + i.imm \in {a \in StackWords : a >= v.x[sp]}
    <3> SUFFICES ASSUME i.op = "lw"
                 PROVE  v.x[i.rs1] + i.imm \in {a \in StackWords : a >= v.x[sp]}
      OBVIOUS
    <3>1. i.rs1 = sp /\ i.imm \in 0 .. inUse[v.pc] - 1
      BY <2>2 DEF KeepsDiscipline
    <3>2. v.x[sp] = STACK_BTM - inUse[v.pc] /\ inUse[v.pc] \in 0 .. Room
      BY <2>1 DEF AtLine, Disciplined
    <3> HIDE DEF i
    <3> QED BY <1>1, <3>1, <3>2 DEF Room, StackWords
  <2>5. NextViews(v) \subseteq FramedViews
    <3> SUFFICES ASSUME NEW w \in NextViews(v) PROVE w \in FramedViews
      OBVIOUS
    <3>1. PICK mem \in [StackWords -> Int] : w = ProgramView(d.code, d.pc, d.x, mem)
      BY DEF NextViews
    <3> HIDE DEF d
    <3> DEFINE f == [a \in StackWords |-> IF a >= d.x[sp] THEN mem[a] ELSE MAGIC]
    <3>2. f \in [StackWords -> Int]
      BY <1>1
    <3>3. w = [code |-> d.code, pc |-> d.pc, x |-> d.x, mem |-> f]
      BY <3>1 DEF ProgramView
    <3> HIDE DEF f
    <3>4. d.code \in Programs /\ d.pc \in Int
      BY <2>1, <2>2 DEF FramedViews, END, AtLine, Disciplined, Lines
    <3>5. /\ w \in [code : Programs, pc : Int, x : [Regs -> Int], mem : [StackWords -> Int]]
          /\ w.code = d.code /\ w.pc = d.pc /\ w.x = d.x
      BY <2>2, <3>2, <3>3, <3>4
    <3>6. w.pc = END \/ AtLine(w, inUse)
      BY <2>1, <2>2, <3>5 DEF AtLine
    <3> QED BY <2>2, <3>5, <3>6 DEF FramedViews
  <2>6. i.op \notin {"mret", "data", "csrrsi"}
    BY <2>2 DEF KeepsDiscipline
  <2> QED BY <2>2, <2>3, <2>4, <2>5, <2>6
<1> QED BY <1>2, <1>3 DEF KeepsToItsOwn

(* Whatever traps are raised and whenever, a disciplined program does not look
   below its sp or ask which trap runs, and leaves each trap its frame. *)
THEOREM DisciplineIsKept ==
  ASSUME \A p \in Programs : \E inUse : Disciplined(p, inUse)
  PROVE  Spec => [](WellBehaved /\ KeepsToItsStack)
<1>1. KeepsToItsOwn(FramedViews)
  BY DisciplineKeepsToItsOwn
<1> QED BY <1>1, OwnStackIsKept

(* So services nest by urgency on frames that hold what trap_ret needs, and the
   program does not end before they have. *)
THEOREM DisciplineNests ==
  ASSUME \A p \in Programs : \E inUse : Disciplined(p, inUse)
  PROVE  Spec => []TrapInv /\ []NestedByUrgency /\ EndsServed
<1>1. Spec => [](WellBehaved /\ KeepsToItsStack)
  BY DisciplineIsKept
<1> QED BY <1>1, TrapInvariance, ServicesNest, EndsServedAlways, PTL

(* Such a program, for any stack and any number of traps, goes on as if there
   were none. *)
THEOREM DisciplineIsUnnoticed ==
  ASSUME \A p \in Programs : \E inUse : Disciplined(p, inUse)
  PROVE  Spec => ImplementsTrapService
BY DisciplineKeepsToItsOwn, PromiseKept

LEMMA DisciplinePrintsNoTrap ==
  ASSUME \A p \in Programs : \A k \in Lines(p) : p[k + 1].op # "ecall"
  PROVE  PrintsNoTrapIn(FramedViews)
<1> SUFFICES ASSUME NEW v \in FramedViews, v.pc >= 0, NEW t \in Traps
             PROVE  Prints(Upcoming(v), v) # <<t>>
  BY DEF PrintsNoTrapIn
<1>1. v.pc \in Lines(v.code) /\ v.code \in Programs
  BY DEF FramedViews, AtLine, Disciplined, END
<1>2. Upcoming(v).op # "ecall"
  BY <1>1 DEF Upcoming
<1>3. Prints(Upcoming(v), v) = <<>>
  BY <1>2 DEF Prints
<1> QED BY <1>3

(* If it makes no system call, what is printed is the services' alone, each
   trap's number twice. *)
THEOREM DisciplineIsServed ==
  ASSUME \A p \in Programs :
           /\ \E inUse : Disciplined(p, inUse)
           /\ \A k \in Lines(p) : p[k + 1].op # "ecall"
  PROVE  Spec => []PrintsNoTrap /\ []ServedExactlyOnce
<1>1. KeepsToItsOwn(FramedViews)
  BY DisciplineKeepsToItsOwn
<1>2. PrintsNoTrapIn(FramedViews)
  BY DisciplinePrintsNoTrap
<1>3. Spec => []PrintsNoTrap
  BY <1>1, <1>2, NoTrapIsPrinted
<1>4. Spec => []ServedExactlyOnce
  BY <1>1, <1>2, ServedOnceBesides
<1> QED BY <1>3, <1>4

(* Both programs of the run are disciplined. *)
LEMMA RunProgramsAreDisciplined ==
  ASSUME STACK_BTM > 4 * FRAME
  PROVE  \A p \in MCPrograms : \E inUse : Disciplined(p, inUse)
<1>1. STACK_BTM \in Nat /\ FRAME = 11 /\ Room \in Int /\ 1 <= Room
  BY TrapAssumption DEF FRAME, Room
<1>2. \E inUse : Disciplined(Loop, inUse)
  <2> DEFINE u == [k \in 0 .. 0 |-> 0]
  <2>1. Lines(Loop) = 0 .. 0 /\ Loop[1] = Jal(0)
    BY DEF Lines, Loop
  <2>2. u \in [0 .. 0 -> 0 .. Room] /\ u[0] = 0 /\ DOMAIN u = 0 .. 0
    BY <1>1
  <2>3. KeepsDiscipline(Loop[0 + 1], 0, u)
    <3>1. Successors(Jal(0), 0) = {0} /\ InUseAfter(Jal(0), u[0]) = u[0]
      BY DEF Successors, InUseAfter, Jal, Inst
    <3> HIDE DEF u
    <3>2. Jal(0).op = "jal"
      BY DEF Jal, Inst
    <3>3. Loop[0 + 1] = Jal(0)
      BY <2>1
    <3>4. \A j \in Successors(Jal(0), 0) : j \in DOMAIN u /\ u[j] = InUseAfter(Jal(0), u[0])
      BY <2>2, <3>1
    <3>5. KeepsDiscipline(Jal(0), 0, u)
      BY <3>2, <3>4 DEF KeepsDiscipline
    <3> QED BY <3>3, <3>5
  <2> HIDE DEF u
  <2>4. Disciplined(Loop, u)
    BY <2>1, <2>2, <2>3 DEF Disciplined
  <2> QED BY <2>4
<1>3. \E inUse : Disciplined(SavesA0, inUse)
  <2> DEFINE u == [k \in 0 .. 6 |-> IF k <= 1 THEN 0 ELSE 1]
  <2>1. Lines(SavesA0) = 0 .. 6
    BY SaverInstructions DEF Lines
  <2>2. u \in [0 .. 6 -> 0 .. Room] /\ DOMAIN u = 0 .. 6
    BY <1>1
  <2>3. /\ u[0] = 0 /\ u[1] = 0 /\ u[2] = 1 /\ u[3] = 1 /\ u[4] = 1 /\ u[5] = 1 /\ u[6] = 1
    OBVIOUS
  <2> HIDE DEF u
  <2>4. ra # sp /\ a0 # ra /\ a0 # sp /\ a7 # ra /\ a7 # sp
    BY DEF ra, sp, a0, a7
  <2>5. ASSUME NEW k \in 0 .. 5, NEW i, Successors(i, k) = {k + 1},
               u[k + 1] = InUseAfter(i, u[k]),
               i.op \in {"addi", "sw", "lw", "ecall"},
               i.op \in {"addi", "lw"} => i.rd # ra /\ (i.rd = sp => i.op = "addi" /\ i.rs1 = sp),
               i.op = "lw" => i.rs1 = sp /\ i.imm \in 0 .. u[k] - 1
        PROVE  KeepsDiscipline(i, k, u)
    BY <2>2, <2>5 DEF KeepsDiscipline
  <2>6. KeepsDiscipline(SavesA0[0 + 1], 0, u)
    BY <2>3, <2>4, <2>5, SaverInstructions DEF Addi, Inst, Successors, InUseAfter
  <2>7. KeepsDiscipline(SavesA0[1 + 1], 1, u)
    BY <2>3, <2>4, <2>5, SaverInstructions DEF Addi, Inst, Successors, InUseAfter
  <2>8. KeepsDiscipline(SavesA0[2 + 1], 2, u)
    BY <2>3, <2>4, <2>5, SaverInstructions DEF Sw, Inst, Successors, InUseAfter
  <2>9. KeepsDiscipline(SavesA0[3 + 1], 3, u)
    BY <2>3, <2>4, <2>5, SaverInstructions DEF Addi, Inst, Successors, InUseAfter
  <2>10. KeepsDiscipline(SavesA0[4 + 1], 4, u)
    BY <2>3, <2>4, <2>5, SaverInstructions DEF Lw, Inst, Successors, InUseAfter
  <2>11. KeepsDiscipline(SavesA0[5 + 1], 5, u)
    BY <2>3, <2>4, <2>5, SaverInstructions DEF Ecall, Inst, Successors, InUseAfter
  <2>12. KeepsDiscipline(SavesA0[6 + 1], 6, u)
    BY SaverInstructions DEF Jalr, Inst, Successors, KeepsDiscipline
  <2>13. \A k \in 0 .. 6 : KeepsDiscipline(SavesA0[k + 1], k, u)
    <3> DEFINE Keeps(k) == KeepsDiscipline(SavesA0[k + 1], k, u)
    <3>1. Keeps(0) /\ Keeps(1) /\ Keeps(2) /\ Keeps(3) /\ Keeps(4) /\ Keeps(5) /\ Keeps(6)
      BY <2>6, <2>7, <2>8, <2>9, <2>10, <2>11, <2>12
    <3> HIDE DEF Keeps
    <3>2. \A k \in 0 .. 6 : Keeps(k)
      BY <3>1
    <3> QED BY <3>2 DEF Keeps
  <2>14. Disciplined(SavesA0, u)
    BY <2>1, <2>2, <2>3, <2>13 DEF Disciplined
  <2> QED BY <2>14
<1> QED BY <1>2, <1>3 DEF MCPrograms

(* So the run's programs keep to their stack on a stack of any size with room ... *)
THEOREM RunProgramsKeepToTheirStack ==
  ASSUME Programs = MCPrograms, STACK_BTM > 4 * FRAME
  PROVE  Spec => []KeepsToItsStack
<1>1. Spec => [](WellBehaved /\ KeepsToItsStack)
  BY RunProgramsAreDisciplined, DisciplineIsKept
<1> QED BY <1>1, PTL

(* ... and print no trap's number, if no register starts with one. *)
THEOREM RunProgramsPrintNoTrap ==
  ASSUME Programs = MCPrograms, STACK_BTM > 4 * FRAME, MAGIC \notin Traps
  PROVE  Spec => []PrintsNoTrap
BY RunProgramsKeepToTheirOwn, NoTrapIsPrinted
==============================================================================
