-------------------------------- MODULE Trap --------------------------------
(***************************************************************************)
(* Traps: src/src/Trap.hpp, and execute_one_step of src/src/sdb.hpp, which *)
(* polls for them.                                                         *)
(*                                                                         *)
(* The user raises traps at the prompt, between two commands, and commands *)
(* execute any number of instructions: a trap may be raised between any    *)
(* two steps.  After each instruction trap() may interrupt what runs, be   *)
(* it the program or the handler of a less urgent trap: it saves all       *)
(* registers on the running program's own stack and goes to the            *)
(* trampoline, which ends with mret.                                       *)
(*                                                                         *)
(* mstatus does not appear: initTrap sets its bit 3, and nothing a program *)
(* or the user can do clears it.                                           *)
(***************************************************************************)
EXTENDS Core, FiniteSets

CONSTANT MaxRaised   \* bound: how many traps the user raises

VARIABLES
  m,        \* Machine m
  queue,    \* trap_queue: queue[t] is how often trap t waits in it
  running,  \* FALSE once the emulator quit
  console,  \* history: the numbers sys_print_reg printed
  active,   \* history: the services begun and not ended, the outermost first,
            \*          each with its trap and how often it has printed
  raised    \* history: how often each trap was raised

vars == <<m, queue, running, console, active, raised>>

ASSUME TrapAssumption ==
  /\ STACK_BTM \in Nat
  /\ MAGIC \in Int
  /\ Programs \subseteq Seq(Instruction)
  /\ \A p \in Programs : Len(p) \in 1 .. TRAMPOLINE
  /\ MaxRaised \in Nat

NoTraps == [t \in Traps |-> 0]

Raises == raised[1] + raised[2] + raised[3] + raised[4]

Init ==
  /\ \E p \in Programs : m = Reset(p)
  /\ queue = NoTraps
  /\ running = TRUE
  /\ console = <<>>
  /\ active = <<>>
  /\ raised = NoTraps

(* cmd_trap *)
Raise(t) ==
  /\ running
  /\ Raises < MaxRaised
  /\ queue' = [queue EXCEPT ![t] = @ + 1]
  /\ raised' = [raised EXCEPT ![t] = @ + 1]
  /\ UNCHANGED <<m, running, console, active>>

-----------------------------------------------------------------------------
(* The words trap() writes at the sp it has moved. *)
SaveAt(base, mm) ==
  LET x == [mm.x EXCEPT ![sp] = base] IN
  [a \in StackWords |->
     CASE a = base             -> mm.mepc
       [] a = base + 1         -> mm.mcause
       [] a - base - 2 \in Regs -> x[a - base - 2]
       [] OTHER                -> mm.mem[a]]

Enter(t, mm) ==
  [mm EXCEPT !.mem = SaveAt(mm.x[sp] - FRAME, mm),
             !.x[sp] = @ - FRAME,
             !.mepc = mm.pc,
             !.pc = TRAMPOLINE - 1,
             !.mcause = t]

(* trap_ret.  The loop that restores the registers addresses the frame by sp,
   which it restores itself when i is 2. *)
TrapRet(mm) ==
  LET base == mm.x[sp]
      sp2  == mm.mem[base + 2 + sp]
      x    == [r \in Regs |-> IF r <= sp THEN mm.mem[base + 2 + r]
                                         ELSE mm.mem[sp2 + 2 + r]]
  IN [mm EXCEPT !.pc = mm.mepc,
                !.x = [x EXCEPT ![sp] = @ + FRAME],
                !.mcause = mm.mem[sp2 + 1],
                !.mepc = mm.mem[sp2]]

-----------------------------------------------------------------------------
(* trap(): whether it interrupts the machine mm that just executed. *)
Polls(mm) == ~IsEmpty(queue) /\ Interrupts(Top(queue), mm.mcause)

(* Mutant: a mret returns to what it interrupted before the next poll. *)
PollsNotAfterMret(mm) ==
  Polls(mm) /\ Fetch(m).op # "mret"

(* Mutant: taking a trap empties the queue. *)
PoppedAll(t) == NoTraps

Popped(t) == [queue EXCEPT ![t] = @ - 1]

(* trap(m) and pc += 4, once the instruction has made mm of the machine and acts
   of the services. *)
PollWhen(takes, mm, acts) ==
  IF takes
  THEN LET t == Top(queue) IN
       /\ m' = StepOver(Enter(t, mm))
       /\ queue' = Popped(t)
       /\ active' = Append(acts, [trap |-> t, printed |-> 0])
  ELSE /\ m' = StepOver(mm)
       /\ queue' = queue
       /\ active' = acts

PollLate(mm, acts) == PollWhen(PollsNotAfterMret(mm), mm, acts)

Poll(mm, acts) == PollWhen(Polls(mm), mm, acts)

(* execute_one_step *)
Execute ==
  LET i    == Fetch(m)
      out  == Prints(i, m)
      acts == IF active = <<>> THEN active
              ELSE [active EXCEPT ![Len(active)].printed = @ + Len(out)]
  IN
  /\ running
  /\ m.pc >= 0
  /\ i.op # "mret"
  /\ console' = console \o out
  /\ Poll(Doit(i, m), acts)
  /\ UNCHANGED <<running, raised>>

ReturnBy(back) ==
  /\ running
  /\ m.pc >= 0
  /\ Fetch(m).op = "mret"
  /\ Poll(back, SubSeq(active, 1, Len(active) - 1))
  /\ UNCHANGED <<console, running, raised>>

(* Mutants: the sp is left two words short, or too high; mcause, or a0, is not
   restored. *)
ReturnShort      == ReturnBy([TrapRet(m) EXCEPT !.x[sp] = @ - 2])
ReturnHigh       == ReturnBy([TrapRet(m) EXCEPT !.x[sp] = @ + 2])
ReturnKeepsCause == ReturnBy([TrapRet(m) EXCEPT !.mcause = m.mcause])
ReturnKeepsA0    == ReturnBy([TrapRet(m) EXCEPT !.x[a0] = m.x[a0]])

Return == ReturnBy(TrapRet(m))

(* pc is below CODE_START: the result 1 means CMD_QUIT to main. *)
Quit ==
  /\ running
  /\ m.pc < 0
  /\ running' = FALSE
  /\ UNCHANGED <<m, queue, console, active, raised>>

Stopped == ~running /\ UNCHANGED vars

Step == Execute \/ Return \/ Quit

Next ==
  \/ \E t \in Traps : Raise(t)
  \/ Step
  \/ Stopped

Spec     == Init /\ [][Next]_vars
FairSpec == Spec /\ WF_vars(Step)

-----------------------------------------------------------------------------
(* Services nest by urgency alone: each interrupted a less urgent one, so no
   trap interrupts itself, there are never more than four frames, and they take
   what trap() says they take of the program's stack. *)
Depth == Len(active)

Cause(k) == IF k = 0 THEN 0 ELSE active[k].trap

NestedByUrgency ==
  /\ \A k \in 1 .. Depth : Interrupts(Cause(k), Cause(k - 1))
  /\ m.mcause = Cause(Depth)
  /\ Depth <= Cardinality(Traps)

(* What of a sequence of services and a console is about trap t. *)
PrintsOf(t) == Cardinality({k \in 1 .. Len(console) : console[k] = t})
Begun(t)    == {k \in 1 .. Depth : active[k].trap = t}

(* No trap is lost, served twice or served by another's handler: each trap t the
   user raised waits, or is being serviced, or has printed t exactly twice.
   (For a program that prints no trap's number itself.) *)
ServedExactlyOnce ==
  \A t \in Traps :
    LET served == raised[t] - queue[t] - Cardinality(Begun(t)) IN
    PrintsOf(t) = 2 * served + (IF \E k \in Begun(t) : active[k].printed = 1 THEN 1 ELSE 0)
                             + (IF \E k \in Begun(t) : active[k].printed = 2 THEN 2 ELSE 0)

(* The program does not get to its end, where the emulator quits, with a trap
   unserved: the poll that follows its last instruction, and the one that
   follows each mret, are before the test of pc. *)
EndsServed ==
  [][m.pc >= 0 /\ m'.pc < 0 => IsEmpty(queue') /\ active' = <<>>]_vars

-----------------------------------------------------------------------------
(* The inductive invariant.  Its parts are about a machine mm and the services
   acts that run on it: m and active between two steps, and within a step what
   the instruction, trap() and trap_ret() have made of them. *)

(* What the services need of the program, and what they have to leave it with:
   whenever it runs, it has ended or executes an instruction of its own that is
   no mret, and leaves room on its stack for a frame of each trap.  (A trap_ret
   that gives it a wrong sp or pc takes it out of its stack or its code.) *)
WellBehaved ==
  active = <<>> =>
    /\ m.pc \in Int
    /\ m.pc >= 0 =>
         /\ InProgram(m.code, m.pc)
         /\ Fetch(m).op \notin {"mret", "data"}
         /\ Doit(Fetch(m), m).x[sp] \in 4 * FRAME .. STACK_BTM

(* Only services print the numbers of traps: the program does not by itself, and
   never gets the number that a service had in a0. *)
PrintsNoTrap ==
  active = <<>> /\ m.pc >= 0 =>
    \A t \in Traps : Prints(Fetch(m), m) # <<t>>

(* The program neither looks below its sp nor asks which trap runs: what is there
   is what services have left. *)
KeepsToItsStack ==
  active = <<>> /\ m.pc >= 0 =>
    LET i == Fetch(m) IN
    /\ i.op # "csrrsi"
    /\ i.op = "lw" => m.x[i.rs1] + i.imm \in {a \in StackWords : a >= m.x[sp]}

MachineShape(mm) ==
  /\ DOMAIN mm = {"code", "pc", "x", "mepc", "mcause", "mem"}
  /\ mm.code \in Programs
  /\ DOMAIN mm.x = Regs
  /\ mm.x[0] = 0
  /\ DOMAIN mm.mem = StackWords

Services == Seq([trap : Traps, printed : 0 .. 2])

CauseIn(acts, k) == IF k = 0 THEN 0 ELSE acts[k].trap

Nested(acts) == \A k \in 1 .. Len(acts) : Interrupts(acts[k].trap, CauseIn(acts, k - 1))

(* The frame trap() made when it began the k-th service. *)
FrameOf(mm, acts, k) == mm.x[sp] + FRAME * (Len(acts) - k)

(* A frame holds what trap_ret needs to go on with what the k-th service
   interrupted, its own address in the place of sp among it. *)
FramesOK(mm, acts) ==
  acts # <<>> =>
    /\ mm.x[sp] \in FRAME * (4 - Len(acts)) .. STACK_BTM - FRAME * Len(acts)
    /\ \A k \in 1 .. Len(acts) :
         LET base == FrameOf(mm, acts, k) IN
         /\ mm.mem[base + 1] = CauseIn(acts, k - 1)
         /\ mm.mem[base + 2] = 0
         /\ mm.mem[base + 2 + sp] = base

(* Where the k-th service is, and what its registers hold: those it was
   interrupted with are in the frame of the next service, its pc was in mepc. *)
PcOf(mm, acts, k) ==
  CASE k = Len(acts)     -> mm.pc
    [] k = Len(acts) - 1 -> mm.mepc + 1
    [] OTHER             -> mm.mem[FrameOf(mm, acts, k + 2)] + 1

RegOf(mm, acts, k, r) ==
  IF k = Len(acts) THEN mm.x[r] ELSE mm.mem[FrameOf(mm, acts, k + 1) + 2 + r]

(* The instructions of the trampoline before which a service has printed its
   number once, and those before which it has printed it twice. *)
Once  == {11, 12, 16, 17, 18, 22, 23, 27, 28}
Twice == {13, 19, 24, 29, 30}

(* A service at the j-th instruction, with a0, a1 and a7 as given: the chain of
   comparisons has excluded the traps below, the branches print a0. *)
HandlerAt(act, j, va0, va1, va7) ==
  /\ act.printed = (IF j \in Once THEN 1 ELSE IF j \in Twice THEN 2 ELSE 0)
  /\ j # 0 => va0 = act.trap
  /\ j \in {2, 4, 6, 8} => va1 = j \div 2
  /\ j \in 3 .. 8 => act.trap > (j - 1) \div 2
  /\ j \in (9 .. 29) \ {9, 14, 20, 25} => va7 = 1

HandlersOK(mm, acts) ==
  \A k \in 1 .. Len(acts) : \E j \in 0 .. 30 :
    /\ PcOf(mm, acts, k) = TRAMPOLINE + j
    /\ HandlerAt(acts[k], j, RegOf(mm, acts, k, a0), RegOf(mm, acts, k, a1),
                 RegOf(mm, acts, k, a7))

Consistent(mm, acts) ==
  /\ MachineShape(mm)
  /\ acts \in Services
  /\ Nested(acts)
  /\ mm.mcause = CauseIn(acts, Len(acts))
  /\ FramesOK(mm, acts)
  /\ HandlersOK(mm, acts)

TrapInv ==
  /\ queue \in [Traps -> Nat]
  /\ Consistent(m, active)

-----------------------------------------------------------------------------
(* The base of the outermost frame: the frames lie one below the other, and
   nothing else lies between the program's sp and the handler's. *)
Bottom == m.x[sp] + FRAME * (Depth - 1)

(* The registers and the pc the program would have if it ran now: those of the
   outermost frame, and what went into mepc when that frame was made. *)
UserX ==
  IF active = <<>> THEN m.x
  ELSE [r \in Regs |-> IF r = sp THEN Bottom + FRAME ELSE m.mem[Bottom + 2 + r]]

UserPc ==
  CASE Depth = 0 -> m.pc
    [] Depth = 1 -> m.mepc + 1
    [] OTHER     -> m.mem[Bottom - FRAME] + 1

Promised ==
  INSTANCE TrapService WITH
    user     <- ProgramView(m.code, UserPc, UserX, m.mem),
    waiting  <- queue,
    services <- active,
    printed  <- console,
    raises   <- Raises,
    on       <- running

(* Traps do what TrapService promises: in particular the program goes on as if
   there were no traps, in its registers, its pc and its stack, and what is
   printed is what program and services print. *)
ImplementsTrapService == Promised!Spec

-----------------------------------------------------------------------------
(* Every trap that waits is served, or the user is told that the program has
   ended: under fairness of the executing machine alone.  As traps are raised
   finitely often, the queue is empty in the end. *)
EveryTrapServed == <>[](IsEmpty(queue) \/ ~running)

(* What is interrupted goes on: in the end no service is left. *)
ServicesEnd == <>[](active = <<>>)

(* A program that returns to main without traps returns with them. *)
Returns(code) == \E k \in 1 .. Len(code) : code[k] = Jalr(ra)

ProgramEnds == Returns(m.code) => <>~running

==============================================================================
