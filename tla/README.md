# liemu in TLA+

Specifications, model-checking runs and proofs for `liemu`, the RISC-V
emulator of this repository. Paths are relative to the repository's root,
which here is `src/`: `src/src/Cache.hpp` is the emulator's cache.

## 1. Inventory

| Component | State | Operations | Talks to |
|---|---|---|---|
| Memory (`Memory.hpp`) | `mem`, one array of words | `read`, `write`, `resetMemory` | called by L3, and directly by the loader, `preParseInst`, `initTrap`, `sys_print_str`, watchpoints, `x`, `ls` |
| Cache hierarchy (`Cache.hpp`) | per level `data`, `valid`, `dirty`, `line2memAddr`, `lfu_cnt`, `inCache`, `addr2line`, `cnt`, `hit` | `read`, `write`, `load_line`, `write_back`, `showHit` | each level calls the next once per word; L3 calls Memory |
| Machine (`Machine.hpp`) | owns CPU, Memory, two `CacheMod`s, a Bus | `readMem`, `writeMem` | chooses instruction or data cache by address |
| CPU (`CPU.hpp`) | 32 registers, `pc`, four csrs | `write_reg`, `resetCPU` | written by the doit functions and by traps |
| Instructions (`Inst.hpp`) | none | `parseInst`, one `doit` per instruction, system calls | CPU, `readMem`, `writeMem`, `trap_ret` |
| Traps (`Trap.hpp`, table in `common.hpp`) | `trap_queue`, frames on the program's stack, `mepc`, `mcause` | `trap_comming`, `trap`, `trap_ret`, the trampoline's code | CPU, `readMem`, `writeMem` |
| Debugger (`sdb.hpp`) | `getParsedInst`, the watch list | `execute_one_step`, `execute`, the commands | everything |
| Watchpoints (`Watch.hpp`) | `watch_list` | add, delete, update | CPU registers, Memory directly |
| Program loader (`ProgramLoader.hpp`) | none | pads, packs words, writes Memory | Memory |
| Bus (`Bus.hpp`, `Device.hpp`) | `regions` | `lookup`, `handleEvent` | nothing calls it |
| Main loop (`main.cpp`) | none | prompt, dispatch, quit | debugger |

The program has one thread. What is hard about it is not concurrency of threads
but orders of steps:

* A load that misses L1 loads sixteen words from L2, each of which may miss and
  load sixteen from L3. Slots are half filled while other levels evict. Which
  lines a level knows, which slots it thinks they have and what is in these
  slots are three pieces of state (`inCache`, `addr2line`, `data`) that only stay
  together if no step forgets one of them; eviction forgets two.
* The user raises traps between any two instructions. A trap may interrupt the
  program between moving `sp` and using the stack, or the service of a less
  urgent trap. State is saved on the program's own stack and restored by a loop
  that overwrites the register it is addressing with.
* The queue of traps is a standard heap with a comparator that is not a strict
  order.
* The doit functions depend on one cast per operand for their sign, and the
  decoding on one shift and one cast per piece of an immediate.
* A command executes until the first of six things stops it, and each leaves the
  machine, the queue of traps and the watchpoints in another state. What may be
  executed is what `preParseInst` found, and what `ls` has listed since.

The hazards, each at its line and with the properties that guard it, are the list
`hazards` of `PROJECT.json`. What makes each component correct:

* Cache: a load returns the word stored last at its address; the levels do
  not influence what the program reads; every access returns.
* Traps: the program cannot tell that it was interrupted; every trap is
  served, once, by its own service, the most urgent first; services nest by
  urgency.
* Instructions: they do what the RISC-V manual says.
* Debugger: it stops where it is told, keeps going where it is not, and
  looking at the machine does not change it.
* Watchpoints: distinct ids; a watched value's change stops the program.

## 2. Modules

```
CacheGeometry        the shape of a level, and the choice of a slot
 |   |- CacheGeometryProof
 |- CacheMod         three levels over Memory, call by call
 |   |- CacheModProof
 |- FirstTouch       abstract: one table of slots over an image; CacheMod implements it
     |- LoadStore          FirstTouch with the words stored last
         |- LoadStoreProof
WordStore            abstract: a memory; LoadStore implements it while groups fit

Core                 the machine a trap interrupts: instructions, registers, stack
 |- Trap             trap, trap_ret, execute_one_step, raising and quitting
 |   |- TrapProof
 |   |- Sdb          the commands, watchpoints, getParsedInst; over Trap's machine
 |       |- SdbProof (extends TrapProof, too)
 |- TrapHeap         the heap under trap_queue
     |- TrapHeapProof
TrapService          abstract: services that nest; Trap implements it
TrapBag              abstract: take the most urgent; TrapHeap implements it
WatchBook            abstract: watchpoints under distinct numbers; Sdb implements it

Decode               which doit a word gets, and its preValue
 |- Loader           initTrap, loadProgram, preParseInst
     |- LoaderProof
Assembler            the manual's encodings; Loader is checked against it, and
                     against Core's trampoline

Inst                 every doit at a small width
 |- InstProof        what its arithmetic adds up to, at every width
Isa                  abstract: the manual's machine; Inst implements it
```

`MC*` modules give constants their values; each `.cfg` names a run. `*Proof`
modules hold the theorems about the module they extend (section 5); `TrapProof` and
`InstProof` extend it through its `MC` module, for theorems about programs of the run.

### CacheGeometry, CacheMod

An address is a pair of a line and an offset, and an index into `data` the pair
of a group and a way it stands for. The eleven variables are the members of the
three `BasicCache` objects, with `mem` and, in `call`, the C++ call stack:
`call[lv]` is the activation record of the `read` or `write` that level `lv` is
executing.

| Action | Code |
|---|---|
| `Read`, `Write`, `Deliver` | `CacheMod::read` and `::write`: call L1, return to the program |
| `Hit` | the `inCache` branch, 108-113 and 168-174 |
| `Miss` | 115-141 and 176-202 up to the first call: the slot is chosen, `write_back` or `load_line` begins |
| `CallNext`, `Resume` | the two loops, 78-90: one call per word, and its return |
| `Install` | 144-156 and 205-215 |
| `MemAccess` | `Memory::read` and `::write` |

A step is the code between two calls. `read` and `write` share their actions, for
their bodies are the same text but for the last statement (`Serve`). The code
never takes a record from `inCache`; neither does `Install`.

`FirstTouch` says what this amounts to: a line gets a slot when it is touched
first, has it for ever, and shares it with every line that gets it later. L2 and
L3 do not exist in it. `LoadStore` adds what the program stored last at each
address; `WordStore` is the memory a program expects.

### Core, Trap, TrapHeap

`Core` has the instructions that the trampoline and a small program use, as
records, and the trampoline with the offsets `initTrap` writes, counted in
instructions. `pc` and addresses count words. Nine registers stand for 32: those
the trampoline, the frames and the program use; a frame is then 11 words and not
34. `Trap` has a step per instruction: `Execute` is `execute_one_step` with the
poll for traps that follows every instruction, `Return` the same for `mret`,
`Raise` the command `trap N`, `Quit` the test of `pc` and main's reaction.

Memory in `Core` returns what was stored last. That is what `ImplementsWordStore`
shows of the caches, until two lines share a slot, and what `LoadStoreOverflow`
shows not to hold for others: trap frames of a program that touches many lines
are exposed to the first finding, and so are the trampoline's instructions, which
`readMem` fetches through the data cache.

Of `Machine` there is no module of its own. Its two `CacheMod`s are asked for the
lines of disjoint regions (`readMem` and `writeMem` choose by address, at a
multiple of the line size) and share only `Memory`, which neither ever writes: each is
`CacheMod` on its own lines.

`TrapHeap` has the two loops of libstdc++'s heap, for the standard leaves open
what a heap does with `TrapCmp`. Each round of a loop is a step, with the place
that is still to be filled in `hole` and what goes there in `value`:

| Action | Code |
|---|---|
| `Push`, `Pop` | `trap_comming`, and `trap_queue.pop()` in `trap`, up to the loop they enter |
| `MoveDown`, `TurnUp` | a round of `__adjust_heap`, and its call of `__push_heap` |
| `MoveUp`, `Fill` | a round of `__push_heap`, and its last assignment |

`Trap` uses the queue as a bag of which the most urgent is taken, in one step, and
`TrapBag` is the interface between the two: to whoever looks at the bag
(`Contents`) the rounds of the loops are not to be seen.

### Sdb, WatchBook

`Sdb` extends `Trap` by `parsed` (the domain of `getParsedInst`), `watch_list`,
`todo` (how many steps the command being executed still has to make; 0 at the
prompt) and `aborted`. Commands are given at the prompt only.

| Action | Code |
|---|---|
| `cmd_continue`, `cmd_si` | the command begins: the loops of `execute` and `cmd_si` |
| `StepOn` | a round in which the instruction executes (`Execute` or `Return` of `Trap`), then `update_watchpoint` |
| `Fail` | a round in which `execute_one_step` returns -1 before `trap` |
| `Finish` | a round in which it returns 1: `CMD_QUIT` |
| `cmd_w`, `cmd_d` | `add_watchpoint` with its `std::sort` by number (`Sorted`), `del_watchpoint` |
| `cmd_ls` | enters the addresses it lists; fails an assertion below the code |
| `cmd_trap`, `cmd_quit` | `Raise` of `Trap`; the end |

`Trap` lets traps be raised between any two steps and has no steps that fail;
`Sdb` says when the prompt is reached, and has them. A memory watchpoint reads
`Memory`, where no store ever arrives, so its value is a constant. Names of
registers are those a constant lists; the name of a csr is the index that
`reg2idx` returns for it, which is `sp`'s for `mcause`.

### Decode, Assembler, Loader

A word is its four bytes. `Decode` cuts fields out of it as `parseInst` does:
`Signed(w, lo)` is `(i32)inst >> lo`, `Field(w, lo, n)` a shift and a mask, and
`|` of pieces that do not overlap is `+`. `Assembler` puts words together from the
manual's formats. The words that opcode 0x73 has at `funct3` 0 are told apart in the order
in which the code asks: the whole word is `mret`'s, else the upper twelve bits are not 0
(`ebreak`), else `ecall`. `Loader` has one step per round of the loops of `loadProgram` and
`preParseInst`. `TrampolineIsCores` relates the 31 hexadecimal words of
`initTrap` to the trampoline of `Core`, by register numbers and by what `Core` names
differently.

### Inst, Isa

`Inst` has one operator per group of doit functions, with the code's casts, at
a width of `W` bits and with bytes of `W / 4`. `status` records that a doit
returned -1 (`error`) or that the process died in it (`killed`: an assertion, a
SIGFPE, a `bad_function_call`). `Isa` is written from the manual's side:
registers are signed numbers, operations are defined on numbers and bits, and the
machine stops only at `ebreak`, and where the host refuses a division, which is
no part of RV32I. A `fence` does nothing, and any byte or half of a word can be
accessed at a multiple of its size; for other addresses the manual leaves the outcome
to the implementation, so `Isa` has no step and the run no program.
The bitwise operators are sums over the bits of a word (`BitAnd`), and `|` and `^` what
is left of `+` when the common bits are taken off once and twice.

Some of the code's instructions do not do what the manual says: `fence`, loads and
stores of the parts of a word but the lowest, `srai` and `sra`,
`jalr` with an offset, a csr instruction with `rd = rs1`, and csrs other than
`mtvec`, `mepc` and `mcause`. `Inst` has them as the code has them; the programs
of the run `Inst` leave them out, and the runs `InstSkip`, `InstParts` and `InstErrant`
show all but the last and `sra`. `i32` multiplication that overflows is undefined in
C++; the model takes the wrapped product that the compiler's `imul` makes.

## 3. Runs

| Run | Shows | Bounds |
|---|---|---|
| `CacheMod` | `IInv` and its consequences, `CacheMod` implements `FirstTouch`, each access returns | 2 groups of 2 slots of 2 words; 3 lines for one group and 1 for the other; 4 accesses |
| `LoadStore` | a load is right until its line shares a slot; no line shares before its group is full; sharing is for ever; until the first two lines share, the cache is a `WordStore` | 4 lines for one group, 1 for the other; 5 accesses |
| `LoadStoreOverflow` | **violated**: a load returns the word stored last | as `LoadStore` |
| `Trap` | frames and handlers are as trap_ret needs them (`TrapInv`); `Trap` implements `TrapService`; nesting, exactly one service, none left at the end; the program ends; each waiting trap is served, each interrupted service goes on; the programs are such as the proofs assume (`WellBehaved`, `KeepsToItsStack`, `PrintsNoTrap`): a wrong `sp` or `pc` after a service violates these first | 7 instructions that end, 1 that jumps to itself; 3 traps of 4 kinds |
| `TrapHeap` | after each round of its loops the heap is one but for the hole (`HeapInv`); it is a `TrapBag`, its top the most urgent | 7 traps waiting |
| `Sdb` | the list stays in order and its values current (`SdbInv`), a command stops at the first change and only there, `Sdb` implements `WatchBook`, a failed instruction is where the machine stays, only loaded words are entered, `si N` comes back | 5 programs of up to 4 instructions; 1 trap; 3 watchpoints on 3 targets |
| `SdbList` | **violated**: no assertion fails | as `Sdb` |
| `Loader` | memory is the file, as far as it has been loaded, and what is entered is in memory (`LoaderInv`); what is parsed is what was assembled, the trampoline is `Core`'s | 405 programs: each instruction with 2 choices of registers and 4 to 9 immediates, data between instructions; files that lack 0 to 3 bytes |
| `Inst` | the doit functions implement `Isa`; add and sltu find a carry, div, mul and rem fit together | 8 bits; 288 starting states; single instructions with all overlaps of `rd` and operands, and short programs |
| `InstSkip` | **violated**: what is named "(skip)" does not end the emulator | the last four instructions of `fib5.s`, a `fence` |
| `InstParts` | **violated**: bytes and halves that are not a word's lowest can be accessed | each load and store of a part, at each multiple of its size but 0 |
| `InstErrant` | **violated**: `srai`, `csrrw` and `jalr` leave what the manual says | one program with all three, from negative values; 2 shift amounts, 2 offsets |

Why these bounds are enough. Caches: three lines for two ways are what it takes to
evict, a fourth access comes back to what was evicted; the fourth line of
`LoadStore` lets a second eviction choose by use counts. Two words per line make
the loops loop and tell the offsets apart; the second group shows that groups do
not disturb each other. In one respect the instance is smaller than the code: the code has 4 ways and 16
words. The proofs of section 5 do not depend on either. Traps: three
raised traps cover a trap that interrupts a service that interrupted the program,
one that waits behind it and two of a kind; a fourth frame is not reached. The
stack has room for four frames and the program's own word: a frame that is put in the
wrong place falls out of it. Debugger: the programs end, jump over
data to code that was not parsed, run into data, ask for a system call that does not exist,
and loop; a third watchpoint is what it takes for a list out of order to give a
number twice; one trap is enough to have its service under a count, at a failing
instruction and under a watched `sp`. Decoding: the immediates have both signs, each
end of their range, and alternating bits, as have the register numbers. The heap: seven elements fill three
levels, in every order of pushes and pops. Instructions: eight bits are the
smallest width with a byte (two bits) and a half that are not the same
as a bit, and the values are zero and one, alternating bits, and the values around the
sign's change and around the wrap.

The counters are bounded by `MaxAccesses`, `MaxRaised`, `MaxWatch` and `MaxLength`. Where the
system really stops (all accesses made, emulator quit, program over) a step
of its own stutters (`Halt`, `Stopped`, `Over`, `Ready`), so that deadlock is checked in
every run.

## 4. Fairness

`CacheMod` assumes weak fairness of `Step`: the C++ call stack goes on. `Trap`
assumes weak fairness of `Step`: the user goes on giving commands that execute
instructions (`c`, or `si` again and again), and the single thread then
executes them. `Sdb` assumes weak fairness of `Round`: a command that has begun
goes on, but nobody has to give one. None assumes that the program makes another access or
that the user raises another trap. No strong fairness is used: there is never
more than one executing actor.

## 5. Proofs

Every theorem holds for all values of the constants that satisfy the named
assumptions of the modules, for programs, files, lists and queues of any size,
and for any number of accesses, traps and commands: `MaxAccesses`, `MaxRaised`,
`MaxWatch` and `MaxLength` are any numbers. Beside the invariants stand their
consequences, the action properties, and the refinements of the five abstract
modules that TLAPS can reach (all but `Isa`). Every safety invariant and every action
property that a passing run checks is stated by a theorem, but `ImplementsManual`.

| Module | Inductive invariant | What is proved with it |
|---|---|---|
| `CacheGeometryProof` | | `TargetInGroup`, `TargetIsFree`: what slot a miss chooses |
| `CacheModProof` | `IInv`, `CountsOK` | `Invariance`, `MemoryIsNeverWritten`, `SameLines`, `KnownLinesStayPut`, `LowerHitRates`, `CacheModIsFirstTouch` |
| `LoadStoreProof` | `LSInv` | `LSInvariance`, `LoadsAreRightUntilShared`, `SharingIsForEver`, `SharingNeedsFullGroup`, `CacheIsAWordStore` |
| `TrapProof` | `TrapInv`, `CountInv`, `ViewInv`, `Numbers` | `TrapInvariance`, `ServicesNest`, `EndsServedAlways`, `EachTrapServedOnce`, `TrapsServeUnnoticed`, `OwnIsKeptAlways`; without a condition on the run `PromiseKept`, `ServedOnceBesides`; from the program's text alone `DisciplineIsKept`, `DisciplineNests`, `DisciplineIsUnnoticed`, `DisciplineIsServed`; for the programs of the run `RunPrograms...` |
| `TrapHeapProof` | `HeapInv` | `IsAHeap`, `TopIsFirst`, `QueueIsABag` |
| `SdbProof` | `SdbInv`, `OwnInv` | `SdbInvariance`, `WatchpointsStayCurrent`, `OnlyLoadedIsEntered`, `StopsExactlyAtChange`, `StuckForGood`, `WatchListIsABook`; over `TrapProof` `DebuggedTrapsNest`, `DebuggedUnnoticed`, `DebuggedTrapsAreServed` |
| `LoaderProof` | `LoaderInv`, `SourceInv` | `LoaderInvariance`, `FileIsLoaded`, `EnteredIsInMemory`, `AssembledIsEntered`, `TrampolineIsTheHandler` |
| `InstProof` | `CarryInv`, `DivisionInv` | `CarryIsAlwaysFound`, `DivisionIsAlwaysUndone` |

The invariants without which no other can be stated (`IInv`, `LSInv`, `TrapInv`, `HeapInv`,
`SdbInv`, `LoaderInv`) are invariants of a run, too.

### Caches

The assumptions are `GeometryAssumption` (lines are numbers; at least one group,
way and word), `CacheModAssumption`, `FirstTouchAssumption` and `SeenAssumption`
(what is stored are words; the values for "nothing" are apart from the others).
No finiteness of `Lines` is used.

That memory is never written is not inductive: a `write_back` would write it, and so
would a store passed down by `load_line`. So `NeverDirty` says that nothing is dirty
and no call is in `write_back`, and `StackOK` that what a level is called for is
exactly the word that `load_line` above it is at. To show that what is loaded is
memory's words, `LoadedIsImage` needs to know what the level below returns
(`ReturnIsImage`), and that one holds the line unchanged while the load lasts
(`SourceIsImage`): it is not called for any other line until the load is over, and
the line's slot (`MapsOK`) is not given away by a hit. `SourceIsImage` is true only
because a level that already knows a line is never asked for it again by a level
that has lost it, which is `Inclusion`: as L1 never forgets a line, L2 is asked for
it once. There is one lemma for each action (`HitStep`, `MissStep`, ...), with one
step for each part of `IInv`.

`CountsOK` relates the counters of a level to those of the level above in the
middle of a load as well: how many words it has been asked for, and whether it has
missed the line yet. The refinement maps L1's steps to those of `FirstTouch`: the
call to `Issue`, the choice of a slot to `Place` (from then on the slot counts as
filled with the line's image), serving the word to `Perform`, the return to
`Finish`. Every step of L2, L3 and `Memory` is a stutter; that what arrives word by
word is the line's image is in `IInv`.

For `LoadStore` the invariant keeps, beside what is stored in a slot that one line has
to itself, that lines share a slot only in a group with no free way
(`SharedIsFull`). That more lines than ways have been placed there is then a matter of
counting: the ways of a full group have different lines, and the line that shares is one
more.

### Traps

`TrapInv` says that the frames lie one below the other down to the handler's `sp`,
each with the `mcause` and the `sp` that `trap_ret` will need, and that every handler,
the running one and those it has interrupted, is at one of the trampoline's 31
instructions with what `a0`, `a1` and `a7` have to hold there (`HandlerAt`).
It is inductive only beside a program that stays in its code and leaves room on its
stack: `WellBehaved`. That every trap has printed its number exactly twice is counted
by `CountInv`, and is true only if the program prints no such number itself
(`PrintsNoTrap`). That `Trap` implements `TrapService` needs `ViewInv`, that the
registers are a function on `Regs`, and that the program does not look below its `sp`,
where services leave their frames (`KeepsToItsStack`).

These three are conditions on the run with traps. They are discharged:
`KeepsToItsOwn(V)` asks for a set `V` of views (code, pc, registers and stack of a
program) that contains where each program begins and is closed under the program's
own instructions, in which it keeps to its code, its stack and its room: a condition on the
program running alone. `OwnIsKeptAlways` shows, by the invariant that the
program's view (`User`) is in `V` even while services run, that the three conditions then
hold whatever traps are raised, and `PromiseKept` and `ServedOnceBesides` follow without
any condition on the run. The two programs of the run `Trap` are shown to be such
programs on every stack with more than four frames: `RunProgramsUnnoticed`,
`RunProgramsServedOnce`, which assume nothing but values of constants (for the second
one, that MAGIC is no trap's number).

For other programs nobody has to find a set of views. `Disciplined(p, inUse)` is a
condition on a program's text such as a compiler meets: to each instruction that is reached
belongs a number of words in use on the stack, `sp` changes only by what is added to it,
and `inUse` with it, a load is from one of the words in use, `ra` is not written and the program is left by
`jalr ra`, and there is room for a frame of each trap besides (`Room`). Branches and loops are
free, and so is every other use of registers; stores may go anywhere, for the frames are
made when a trap comes and a program has nothing below its `sp` to lose. `DisciplineKeepsToItsOwn` shows that
the views in which `sp` is where the annotation says (`FramedViews`) are closed; the
theorems `Discipline...` follow, for every set of such programs. `RunProgramsAreDisciplined`
annotates the two of the run. `DisciplineIsServed` asks for no `ecall`, as what a program prints is
then nothing. `TrapAssumption` says that programs are sequences
of instructions of at most 1000 words, which is where the trampoline begins.

### The queue

`HeapInv` says that on every way down the numbers grow, but where the hole is. It is
needed in three shapes: with the hole anywhere (its neighbours above and below are in
order, as if it were not there), for a loop that goes up also with `value` no greater
than what is below the hole, and at rest without a hole. Going up stops only where
`TrapCmp` is false, which is where the parent is strictly more urgent; among equal traps
it goes up further than a strict order would make it, and the invariant does
not mind. `TopIsFirst` takes the place with the smallest index that would hold
a smaller number than the first: its parent contradicts it. `QueueIsABag` counts: a
round changes two places of the filled vector, `Pop` exchanges the first and the last
and cuts it off.

### Debugger

`SdbInv` has `InOrder`, on which the search for the first free number relies: with it
that number is the least, which is what `WatchBook` asks for. `SdbAssumption`
says that the names watched are known to `reg2idx`, the words watched on the stack and the
counts of `si` positive. `StopsExactlyAtChange` and
`StuckForGood` are action properties, from `SdbInv` and the actions.

`TrapProof` is about `Trap`, where a trap may be raised between any two steps and no
instruction fails. That its results go for the program with its debugger is shown, not
assumed: `CommandsAreTraps` says that each step of `Sdb` is a step of `Trap` or leaves the
machine, the queue, the console and the services alone, and `OwnInv` (the four invariants of
`TrapProof` together, for a set of views) is inductive under both. So for disciplined
programs services nest and every trap is served once whatever is watched, counted,
listed or quit, and wherever a command ends, also in the middle of a service. The
refinement is weaker by one step: `quit` ends the emulator while `TrapService` has more to do, which
`DebuggedUnnoticed` allows as a step that shows nothing (`Unseen`).

### Loader

`LoaderInv` follows the three loops: the words in front of `at` are the file's and those
behind it still MAGIC; what is entered is `Found` of the regions that are parsed, and the
prefix up to `at` of the one that is being parsed. That the padded file is a whole number of
words of which each has a byte of the file (`BufferIs`) is why no word of zeros is
written behind it; that the region is one word longer than any program
(`LoaderAssumption`), and the trampoline followed by MAGIC, is why both loops of
`preParseInst` end inside of their regions.

`AssembledIsEntered` is about what `parseInst` makes of a word. An encoding is a sum of fields
times powers of two; `FieldsAre` cuts each out of it again, one lemma for each format puts the
pieces of its immediate together (`ImmediatesB`, `ImmediatesJ`, ...), and `EntriesAre` finds the
name in the switch. It assumes `IsProgram` of every source: instructions that the emulator supports
(`Supported`: no `srai` and `sra`, which the findings are about, `jalr` without an offset, which
it doubles, `jal`'s offset in the 16 bits of an `i16`) and words that are MAGIC or no
instruction. Every source of the run is such a program. `TrampolineIsTheHandler` assumes
nothing: the 31 words are parsed one by one (`HandlerWords`).

### Instructions

`U32` and `I32`, which the casts are, keep a number up to multiples of `2^W` (`Alike`), and so
do sums, differences and products. `DivisionInv` follows `div`, `mul`, `rem` and `add`
through a program of four instructions with what each register is alike to; that the
quotient times the divisor and the remainder are the dividend, for signs of every kind, is then
about numbers and not about words. `CarryInv` does the same for `add` and `sltu`. The hypothesis `1 .. 4 \subseteq Regs`
is that the registers these programs name exist; `InstAssumption` allows widths of 4, 8 and 16 bits.

### Only model-checked

* Liveness: `AccessReturns`, `ProgramEnds`, `EveryTrapServed`, `ServicesEnd`,
  `CountedStepsReturn`. Fairness is out of the prover's reach.
* `ImplementsManual`: the bitwise instructions are sums over bits (`MapThenSumSet`), and that
  `Inst`'s and `Isa`'s agree is by induction over a word's bits, a fold the provers cannot unfold.
* What the runs that expect a violation show.

## 6. Findings

1. `Cache.hpp:148`: an evicted line's `inCache` entry is not reset, so later
   accesses to it hit the other line's words. `LoadStoreOverflow` has the trace.
   The other runs say how bad it is: the program is safe exactly as long as no
   group is asked for more lines than it has ways (`SharedOnlyWhenFull`,
   `ImplementsWordStore`), and never recovers after (`SharedForEver`).
2. `Inst.hpp:878`: `ebreak` throws `bad_function_call`. `fib5.s`, which
   `make run` runs, ends with one. `fence` (line 215) does the same. TLC stops at the
   `fence`, its shortest trace; the program with the `ebreak` violates the property, too.
3. `Cache.hpp:94`: `lb`, `lh`, `sb` and their like pass the address of a part of a word to
   `readMem`, which asserts that it is a word's. The branches they have for the other
   parts never come to an end: every access of the run `InstParts` ends the emulator.
4. `Inst.hpp:352`: `srai` shifts in zeros (and `sra`, line 600). `Decode` adds that
   no assembled word is ever taken for one: bit 31 is asked and not bit 30.
5. `Inst.hpp:909`: `csrrw` (`csrrs`, `csrrc`) writes `rd` before it reads `rs1`: a
   register that is exchanged with a csr is lost.
6. `Inst.hpp:802`: `jalr` doubles its offset. The trace of `InstErrant` shows 4, 5 and 6,
   one after the other, and from its starts no execution gets any of the three right.
7. `sdb.hpp:292`: `ls` after the last instruction fails an assertion of `Memory`.

A consequence of the code that no document contradicts, but that a reader should
know: no store of the program ever reaches `Memory` (`StoresNeverReachMemory`), so
`sys_print_str`, memory watchpoints and the command `x` never see one.

## 7. Not modelled, and the plan

Left out on purpose: names and printing of instructions and registers, the commands
that only print, readline, the bus (nothing calls it), accesses outside of memory
(but for `ls`), stores to code (`writeMem` asserts), `jal` over more than 32 KB
(its offset is kept in 16 bits, but the code region has 8 KB), programs
that overwrite `mcause` or `mepc` while traps come (an urgency outside of the
table is undefined behaviour), names of registers that do not exist, a `mret`
outside of a service, `sys_print_str`, accesses that are not at a multiple of their size
(`Inst` has what becomes of them, no run does), the words below `STACK_TOP`, the masks that
cut line and offset out of an address. `mstatus` is not in `Trap`: `initTrap` sets its
bit 3 and no instruction can name it (`Inst.hpp:861`). `xx` is a load like the program's: what it does to the cache is `LoadStore`'s subject.

What is left of the plan:

1. `Trap` over `FirstTouch`: frames and the trampoline's code that go through the
   data cache, with the groups' sizes of the code. With it, that the promise of
   `TrapService` holds as long as no group is overfull.
2. Proofs: a discipline for programs that call and return, which save `ra` on
   their stack: `Core` would need a `jal` that links, and `Disciplined` to know in which word `ra` is.
