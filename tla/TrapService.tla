----------------------------- MODULE TrapService -----------------------------
(***************************************************************************)
(* What the trap mechanism promises.  A program runs on a machine of its   *)
(* own that traps never touch; services run beside it, each prints its     *)
(* trap's number twice and ends.  A service starts as soon as its trap is  *)
(* more urgent than all that runs, and what it interrupted goes on when it *)
(* has ended.  Frames, saved registers, mepc, mcause and the trampoline do *)
(* not exist.                                                              *)
(***************************************************************************)
EXTENDS Core

CONSTANT MaxRaised

VARIABLES
  user,      \* the program's machine: code, pc, x and the words of its stack
  waiting,   \* waiting[t]: how many traps t wait
  services,  \* the services begun and not ended: [trap, printed]
  printed,   \* the numbers printed, by program and services
  raises,    \* how many traps were raised
  on         \* FALSE once the emulator quit

vars == <<user, waiting, services, printed, raises, on>>

Init ==
  /\ \E p \in Programs :
       LET r == Reset(p) IN user = ProgramView(p, r.pc, r.x, r.mem)
  /\ waiting = [t \in Traps |-> 0]
  /\ services = <<>>
  /\ printed = <<>>
  /\ raises = 0
  /\ on = TRUE

Raise(t) ==
  /\ on
  /\ raises < MaxRaised
  /\ raises' = raises + 1
  /\ waiting' = [waiting EXCEPT ![t] = @ + 1]
  /\ UNCHANGED <<user, services, printed, on>>

Running(srv) == IF srv = <<>> THEN 0 ELSE srv[Len(srv)].trap

(* After every instruction the most urgent trap that waits is looked at, and its
   service begun when it is more urgent than the one of srv that runs. *)
BeginService(srv) ==
  \/ /\ \A t \in Traps : waiting[t] > 0 => ~Interrupts(t, Running(srv))
     /\ services' = srv
     /\ UNCHANGED waiting
  \/ \E t \in Traps :
       /\ waiting[t] > 0
       /\ Interrupts(t, Running(srv))
       /\ \A u \in Traps : waiting[u] > 0 => ~Interrupts(u, t)
       /\ services' = Append(srv, [trap |-> t, printed |-> 0])
       /\ waiting' = [waiting EXCEPT ![t] = @ - 1]

(* The program executes an instruction.  A stack word it gets by moving sp down
   may hold anything. *)
Run ==
  /\ on
  /\ services = <<>>
  /\ InProgram(user.code, user.pc)
  /\ LET i == user.code[user.pc + 1]
         u == StepOver(Doit(i, user))
     IN /\ user' = ProgramView(u.code, u.pc, u.x, user'.mem)
        /\ \A a \in StackWords :
             a >= user.x[sp] /\ a >= u.x[sp] => user'.mem[a] = u.mem[a]
        /\ printed' = printed \o Prints(i, user)
  /\ BeginService(services)
  /\ UNCHANGED <<raises, on>>

Top1 == services[Len(services)]

(* The service that runs prints its number ... *)
PrintCause ==
  /\ on
  /\ services # <<>>
  /\ Top1.printed < 2
  /\ printed' = Append(printed, Top1.trap)
  /\ BeginService([services EXCEPT ![Len(services)].printed = @ + 1])
  /\ UNCHANGED <<user, raises, on>>

(* ... does something nobody sees ... *)
Work ==
  /\ on
  /\ services # <<>>
  /\ BeginService(services)
  /\ UNCHANGED <<user, printed, raises, on>>

(* ... or ends. *)
EndService ==
  /\ on
  /\ services # <<>>
  /\ Top1.printed = 2
  /\ BeginService(SubSeq(services, 1, Len(services) - 1))
  /\ UNCHANGED <<user, printed, raises, on>>

(* The emulator quits when the program has ended. *)
Quit ==
  /\ on
  /\ services = <<>>
  /\ ~InProgram(user.code, user.pc)
  /\ on' = FALSE
  /\ UNCHANGED <<user, waiting, services, printed, raises>>

Next ==
  \/ \E t \in Traps : Raise(t)
  \/ Run
  \/ PrintCause
  \/ Work
  \/ EndService
  \/ Quit

Spec == Init /\ [][Next]_vars

==============================================================================
