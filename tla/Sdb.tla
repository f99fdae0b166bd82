--------------------------------- MODULE Sdb ---------------------------------
(***************************************************************************)
(* The debugger: main's loop over the commands of src/src/sdb.hpp and the  *)
(* watchpoints of src/src/Watch.hpp, over the machine and the traps of     *)
(* module Trap.                                                            *)
(*                                                                         *)
(* A command that executes instructions is a sequence of steps, each of    *)
(* which may be the last one: pc left the code, the address is not one of  *)
(* getParsedInst, the word there is no instruction, the instruction        *)
(* failed, a watchpoint changed, or as many as asked for were made.  The   *)
(* other commands are one step.  Those that only print are left out (x,    *)
(* info, hit, queue, help, clear); ls is not one of them.                  *)
(***************************************************************************)
EXTENDS Trap, SequencesExt

CONSTANTS
  RegNames,     \* the names the user gives to w r, ...
  WatchWords,   \* ... and the words of the stack he gives to w m
  Counts,       \* the N of si N
  MaxWatch,     \* bound: how many watchpoints there are at once
  Forever       \* todo while c executes

VARIABLES
  parsed,       \* DOMAIN getParsedInst
  watch_list,   \* watchList.watch_list
  todo,         \* steps the command still has to make; 0 at the prompt
  aborted       \* an assertion ended the process

sdbVars == <<vars, parsed, watch_list, todo, aborted>>

(* CPU::reg2idx.  A csr's name gives its place among the csrs. *)
reg2idx ==
  [name \in {"a0", "sp", "mcause"} |-> CASE name = "a0"     -> a0
                                         [] name = "sp"     -> sp
                                         [] name = "mcause" -> 2]

ASSUME SdbAssumption ==
  /\ RegNames \subseteq DOMAIN reg2idx
  /\ WatchWords \subseteq StackWords
  /\ Counts \subseteq Nat \ {0}
  /\ MaxWatch \in Nat
  /\ Forever \notin Nat

Trampoline == TRAMPOLINE .. TRAMPOLINE + Len(trampoline_code) - 1

(* preParseInst: it stops at the first word it cannot parse. *)
preParseInst(code) ==
  {a \in 0 .. Len(code) - 1 : \A b \in 0 .. a : code[b + 1].op # "data"} \cup Trampoline

(* The words of Memory that are not MAGIC. *)
Loaded(a) == InProgram(m.code, a) \/ InTrampoline(a)

SdbInit ==
  /\ Init
  /\ parsed = preParseInst(m.code)
  /\ watch_list = <<>>
  /\ todo = 0
  /\ aborted = FALSE

AtPrompt == running /\ todo = 0

-----------------------------------------------------------------------------
(* Watchpoints. *)
Target(type, n) == [type |-> type, n |-> n]

(* A word of memory is read past the caches, where no store ever arrives
   (CacheMod!StoresNeverReachMemory): stack words there are as resetMemory left
   them. *)
Value(wp, mm) == IF wp.target.type = "REG" THEN mm.x[wp.target.n] ELSE MAGIC

(* The least number that is not in the list, if that is sorted. *)
FreeId(list) ==
  Min({k \in 0 .. Len(list) : k = Len(list) \/ list[k + 1].id # k})

WatchPoint(target, list) ==
  LET wp == [id |-> FreeId(list), target |-> target, old_val |-> MAGIC] IN
  [wp EXCEPT !.old_val = Value(wp, m)]

(* Mutant: the list is not sorted again. *)
AddUnsorted(target, list) == Append(list, WatchPoint(target, list))

(* std::sort by id, of a list in which no two ids are the same. *)
Sorted(list) ==
  CHOOSE s \in [DOMAIN list -> Range(list)] :
    /\ Range(s) = Range(list)
    /\ \A j, k \in DOMAIN list : j < k => s[j].id < s[k].id

Added(target, list) == Sorted(Append(list, WatchPoint(target, list)))

(* update_watchpoint's list, when only the watchpoints of the set seen are
   asked for their values. *)
UpdatedBy(list, mm, seen) ==
  [k \in DOMAIN list |-> IF k \in seen THEN [list[k] EXCEPT !.old_val = Value(list[k], mm)]
                                       ELSE list[k]]

HasChanged(list, k, mm) == Value(list[k], mm) # list[k].old_val

(* Mutant: `r || wp.update_val(...)' asks nobody after the first change. *)
UpdatedToFirst(list, mm) ==
  UpdatedBy(list, mm, {k \in DOMAIN list : \A j \in 1 .. k - 1 : ~HasChanged(list, j, mm)})

Updated(list, mm) == UpdatedBy(list, mm, DOMAIN list)

(* Mutant: `r = wp.update_val(...)' has the last one decide. *)
LastChanged(list, mm) == list # <<>> /\ HasChanged(list, Len(list), mm)

(* update_watchpoint's result *)
AnyChanged(list, mm) == \E k \in DOMAIN list : HasChanged(list, k, mm)

-----------------------------------------------------------------------------
(* Commands that start to execute: c and si N. *)
cmd_continue ==
  /\ AtPrompt
  /\ todo' = Forever
  /\ UNCHANGED <<vars, parsed, watch_list, aborted>>

cmd_si(n) ==
  /\ AtPrompt
  /\ todo' = n
  /\ UNCHANGED <<vars, parsed, watch_list, aborted>>

cmd_w(target) ==
  /\ AtPrompt
  /\ Len(watch_list) < MaxWatch
  /\ watch_list' = Added(target, watch_list)
  /\ UNCHANGED <<vars, parsed, todo, aborted>>

cmd_d(id) ==
  /\ AtPrompt
  /\ \E k \in DOMAIN watch_list :
       watch_list[k].id = id /\ watch_list' = RemoveAt(watch_list, k)
  /\ UNCHANGED <<vars, parsed, todo, aborted>>

cmd_trap(t) ==
  /\ AtPrompt
  /\ Raise(t)
  /\ UNCHANGED <<parsed, watch_list, todo, aborted>>

cmd_quit ==
  /\ AtPrompt
  /\ running' = FALSE
  /\ UNCHANGED <<m, queue, console, active, raised, parsed, watch_list, todo, aborted>>

(* The addresses cmd_ls looks at: those from five before pc, or from the start of
   its region, to five after. *)
Window ==
  LET start == IF InTrampoline(m.pc) THEN TRAMPOLINE ELSE 0
  IN Max({start, m.pc - 5}) .. m.pc + 5

(* Mutant: words that are MAGIC are listed, too. *)
ListedThrough == Window

(* The listing ends at the first word that is MAGIC. *)
Listed == {a \in Window : \A b \in Window : b <= a => Loaded(b)}

(* Each address listed is looked up with operator[], which enters it.  Below the
   code, at END, there is no memory to read. *)
cmd_ls ==
  /\ AtPrompt
  /\ \/ /\ m.pc < 0
        /\ aborted' = TRUE
        /\ running' = FALSE
        /\ UNCHANGED parsed
     \/ /\ m.pc >= 0
        /\ parsed' = IF Loaded(m.pc) THEN parsed \cup Listed ELSE parsed
        /\ UNCHANGED <<running, aborted>>
  /\ UNCHANGED <<m, queue, console, active, raised, watch_list, todo>>

-----------------------------------------------------------------------------
(* A round of the loops in execute and cmd_si. *)
Executing == running /\ todo # 0

Refused == Loaded(m.pc) /\ Fetch(m).op = "data"

(* execute_one_step finds nothing to do at pc, or its doit fails: both return
   -1 before trap() and pc += 4. *)
Stuck == m.pc >= 0 /\ (m.pc \notin parsed \/ (~Refused /\ Fails(Fetch(m), m)))

(* Mutants: the step counter is not counted down; a watchpoint that changed does not
   stop a c. *)
CountOn == IF AnyChanged(watch_list, m') THEN 0 ELSE todo

Count ==
  IF AnyChanged(watch_list, m') THEN 0
  ELSE IF todo = Forever THEN Forever ELSE todo - 1

StepOn ==
  /\ Executing
  /\ m.pc >= 0
  /\ ~Stuck
  /\ ~Refused
  /\ Execute \/ Return
  /\ watch_list' = Updated(watch_list, m')
  /\ todo' = Count
  /\ UNCHANGED <<parsed, aborted>>

(* Mutant: trap() is called although the instruction failed. *)
FailThenTrap ==
  /\ Executing
  /\ Stuck
  /\ todo' = 0
  /\ Poll(m, active)
  /\ UNCHANGED <<running, console, raised, parsed, watch_list, aborted>>

Fail ==
  /\ Executing
  /\ Stuck
  /\ todo' = 0
  /\ UNCHANGED <<vars, parsed, watch_list, aborted>>

(* A result of 1, for pc below CODE_START or for a word that is no instruction
   (and that only ls can have entered), is main's CMD_QUIT. *)
Finish ==
  /\ Executing
  /\ m.pc < 0 \/ (m.pc \in parsed /\ Refused)
  /\ running' = FALSE
  /\ todo' = 0
  /\ UNCHANGED <<m, queue, console, active, raised, parsed, watch_list, aborted>>

Round == StepOn \/ Fail \/ Finish

Targets == {Target("REG", reg2idx[name]) : name \in RegNames}
           \cup {Target("MEM", a) : a \in WatchWords}

Over == ~running /\ UNCHANGED sdbVars

SdbNext ==
  \/ cmd_continue
  \/ \E n \in Counts : cmd_si(n)
  \/ \E target \in Targets : cmd_w(target)
  \/ \E id \in 0 .. MaxWatch : cmd_d(id)
  \/ \E t \in Traps : cmd_trap(t)
  \/ cmd_quit
  \/ cmd_ls
  \/ Round
  \/ Over

SdbSpec     == SdbInit /\ [][SdbNext]_sdbVars
FairSdbSpec == SdbSpec /\ WF_sdbVars(Round)

-----------------------------------------------------------------------------
(* Properties. *)

(* Every watchpoint was asked after every instruction: what it takes for the old
   value is the value, so that the next change is noticed and an old one is not
   reported late. *)
WatchpointsCurrent ==
  \A k \in DOMAIN watch_list : watch_list[k].old_val = Value(watch_list[k], m)

(* A command stops at the first instruction that changes something watched, and
   for nothing else that an instruction does: c goes on. *)
StopsAtFirstChange ==
  [][m' # m =>
       LET changed == \E k \in DOMAIN watch_list :
                        Value(watch_list[k], m) # Value(watch_list[k], m')
       IN (todo' = 0 <=> changed \/ todo = 1)]_sdbVars

(* However watchpoints are added and deleted, each can be told from the others by
   its number, and d deletes the one that was meant. *)
Ids == {watch_list[k].id : k \in DOMAIN watch_list}

SeenBook ==
  [id \in Ids |->
     watch_list[CHOOSE k \in DOMAIN watch_list : watch_list[k].id = id].target]

Book == INSTANCE WatchBook WITH book <- SeenBook

ImplementsWatchBook == Book!Spec

(* An instruction that failed is where the machine stays: neither c nor a trap
   that is raised gets it on, unless ls enters the address. *)
StuckStays == [][Stuck /\ parsed' = parsed => m' = m /\ active' = active]_sdbVars

(* Whatever is listed where, execute_one_step fetches no word that was not
   loaded: getParsedInst has none. *)
EntersLoadedOnly == \A a \in parsed : Loaded(a)

(* si N comes back to the prompt, or ends the emulator. *)
CountedStepsReturn == todo \in Nat \ {0} ~> todo = 0

(* Memory::read_pmem's assertion holds. *)
NeverAborts == ~aborted

-----------------------------------------------------------------------------
(* The inductive invariant. *)

(* The program stays the one that was loaded: no instruction writes code. *)
MachineOK ==
  /\ DOMAIN m = {"code", "pc", "x", "mepc", "mcause", "mem"}
  /\ m.code \in Programs

(* A list of watchpoints, ... *)
IsWatchList(list) ==
  /\ list \in Seq(Range(list))
  /\ \A k \in DOMAIN list :
       LET wp == list[k] IN
       /\ wp = [id |-> wp.id, target |-> wp.target, old_val |-> wp.old_val]
       /\ wp.id \in Nat
       /\ wp.target \in Targets

(* ... in the order of their numbers: add_watchpoint's search for the first
   free one relies on it. *)
InOrder(list) == \A j, k \in DOMAIN list : j < k => list[j].id < list[k].id

SdbInv ==
  /\ MachineOK
  /\ todo \in Nat \cup {Forever}
  /\ IsWatchList(watch_list)
  /\ InOrder(watch_list)
  /\ WatchpointsCurrent
  /\ EntersLoadedOnly

==============================================================================
