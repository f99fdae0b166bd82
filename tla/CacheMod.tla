------------------------------ MODULE CacheMod ------------------------------
(***************************************************************************)
(* CacheMod of src/src/Cache.hpp: an L1, an L2 and an L3 BasicCache over a  *)
(* Memory.                                                                 *)
(*                                                                         *)
(* BasicCache::read and ::write call load_line and write_back, and these   *)
(* call read and write of the next level once per word.  The model keeps   *)
(* that call stack: call[lv] is the activation record of the call level lv *)
(* is executing, and one step is what happens between two calls.  Level 4  *)
(* is the Memory.                                                          *)
(*                                                                         *)
(* A std::map entry that was never assigned reads as FALSE or zero.        *)
(***************************************************************************)
EXTENDS CacheGeometry

CONSTANTS
  Stores,       \* the words the program stores
  Idle,         \* call[lv] when level lv is not executing a call
  None,         \* an entry of line2memAddr or addr2line never assigned
  MaxAccesses   \* bound: how many loads and stores the program makes

VARIABLES
  mem,           \* Memory::mem, by line and offset
  data,          \* data[lv][slot][offset]
  valid,         \* valid[lv][slot]
  dirty,         \* dirty[lv][slot]
  line2memAddr,  \* line2memAddr[lv][slot]: the line loaded last into the slot
  lfu_cnt,       \* lfu_cnt[lv][slot]
  inCache,       \* inCache[lv][line]
  addr2line,     \* addr2line[lv][line]: the slot of the line
  cnt, hit,      \* cnt[lv], hit[lv]: the counters showHit prints
  call           \* call[lv]: the activation record of level lv

tables == <<valid, dirty, line2memAddr, inCache, addr2line>>
vars   == <<mem, data, tables, lfu_cnt, cnt, hit, call>>

Levels == 1 .. 3
Mem    == 4          \* the level that is the Memory

AnyWord == MAGIC     \* `val' of a read before it returns

(***************************************************************************)
(* An activation record.  phase says where the call stands: entered,       *)
(* in the loop of write_back, in the loop of load_line, or returning val.  *)
(* slot is target_line, i the loop's counter.                              *)
(***************************************************************************)
Phases == {"enter", "wb", "load", "ret"}
Frame  == [phase : Phases, op : {"read", "write"}, line : Lines, off : Offsets,
           val : Words, slot : Slots, i : 0 .. LINE_SIZE]

ASSUME CacheModAssumption ==
  /\ Stores \subseteq Words
  /\ Idle \notin Frame
  /\ None \notin Lines \cup Slots
  /\ MaxAccesses \in Nat

In(lv, phase) == call[lv] # Idle /\ call[lv].phase = phase

Invoke(op, l, o, v) ==
  [phase |-> "enter", op |-> op, line |-> l, off |-> o, val |-> v,
   slot |-> <<0, 0>>, i |-> 0]

Return(c, v) == [c EXCEPT !.phase = "ret", !.val = v]

-----------------------------------------------------------------------------
Init ==
  /\ mem = Image
  /\ data = [lv \in Levels |-> [s \in Slots |-> [o \in Offsets |-> MAGIC]]]
  /\ valid = [lv \in Levels |-> [s \in Slots |-> FALSE]]
  /\ dirty = [lv \in Levels |-> [s \in Slots |-> FALSE]]
  /\ line2memAddr = [lv \in Levels |-> [s \in Slots |-> None]]
  /\ lfu_cnt = [lv \in Levels |-> [s \in Slots |-> 0]]
  /\ inCache = [lv \in Levels |-> [l \in Lines |-> FALSE]]
  /\ addr2line = [lv \in Levels |-> [l \in Lines |-> None]]
  /\ cnt = [lv \in Levels |-> 0]
  /\ hit = [lv \in Levels |-> 0]
  /\ call = [lv \in 1 .. Mem |-> Idle]

(* CacheMod::read and CacheMod::write pass the program's access to L1. *)
Access(op, l, o, v) ==
  /\ call[1] = Idle
  /\ cnt[1] < MaxAccesses
  /\ call' = [call EXCEPT ![1] = Invoke(op, l, o, v)]
  /\ UNCHANGED <<mem, data, tables, lfu_cnt, cnt, hit>>

Read(l, o)     == Access("read", l, o, AnyWord)
Write(l, o, v) == Access("write", l, o, v)

(* read or write returns to the program. *)
Deliver ==
  /\ In(1, "ret")
  /\ call' = [call EXCEPT ![1] = Idle]
  /\ UNCHANGED <<mem, data, tables, lfu_cnt, cnt, hit>>

(* Level lv does what its call asks for on a slot that holds the line (or is
   taken to), and returns: the last statements of read and of write. *)
Serve(lv, s) ==
  LET c == call[lv] IN
  /\ data' = IF c.op = "write" THEN [data EXCEPT ![lv][s][c.off] = c.val] ELSE data
  /\ call' = [call EXCEPT ![lv] =
                Return(c, IF c.op = "write" THEN c.val ELSE data[lv][s][c.off])]

(* Nothing marks the slot dirty: neither here nor in Install does a store.
   The arguments are the counters as the hit leaves them. *)
HitCounting(lv, cnts, uses) ==
  LET c == call[lv] IN
  /\ In(lv, "enter")
  /\ inCache[lv][c.line]
  /\ cnt' = [cnt EXCEPT ![lv] = cnts]
  /\ hit' = [hit EXCEPT ![lv] = @ + 1]
  /\ lfu_cnt' = [lfu_cnt EXCEPT ![lv][addr2line[lv][c.line]] = uses]
  /\ Serve(lv, addr2line[lv][c.line])
  /\ UNCHANGED <<mem, tables>>

Uses(lv) == lfu_cnt[lv][addr2line[lv][call[lv].line]]

(* Mutants: a hit returns before cnt++; only a load counts as a use. *)
HitUncounted(lv)  == HitCounting(lv, cnt[lv], Uses(lv) + 1)
HitStoreUnused(lv) ==
  HitCounting(lv, cnt[lv] + 1, Uses(lv) + (IF call[lv].op = "read" THEN 1 ELSE 0))

Hit(lv) == HitCounting(lv, cnt[lv] + 1, Uses(lv) + 1)

Miss(lv) ==
  LET c == call[lv]
      target == TargetLine(valid[lv], lfu_cnt[lv], c.line)
  IN
  /\ In(lv, "enter")
  /\ ~inCache[lv][c.line]
  /\ cnt' = [cnt EXCEPT ![lv] = @ + 1]
  /\ call' = [call EXCEPT ![lv] =
                [c EXCEPT !.phase = IF dirty[lv][target] THEN "wb" ELSE "load",
                          !.slot = target]]
  /\ UNCHANGED <<mem, data, tables, lfu_cnt, hit>>

(* Mutant: load_line passes a missing store down as a store. *)
WordCallStore(lv) ==
  LET c == call[lv] IN Invoke(c.op, c.line, c.i, c.val)

(* The call the loop of write_back or of load_line makes for its i-th word. *)
WordCall(lv) ==
  LET c == call[lv] IN
  IF c.phase = "wb"
  THEN Invoke("write", line2memAddr[lv][c.slot], c.i, data[lv][c.slot][c.i])
  ELSE Invoke("read", c.line, c.i, AnyWord)

CallNextUpTo(lv, n) ==
  /\ call[lv] # Idle /\ call[lv].phase \in {"wb", "load"}
  /\ call[lv].i < n
  /\ call[lv + 1] = Idle
  /\ call' = [call EXCEPT ![lv + 1] = WordCall(lv)]
  /\ UNCHANGED <<mem, data, tables, lfu_cnt, cnt, hit>>

(* Mutant: the loop leaves out the last word. *)
CallNextShort(lv) == CallNextUpTo(lv, LINE_SIZE - 1)

CallNext(lv) == CallNextUpTo(lv, LINE_SIZE)

(* The loop goes on to its next word; load_line follows write_back. *)
NextWord(c) ==
  IF c.phase = "wb" /\ c.i + 1 = LINE_SIZE
  THEN [c EXCEPT !.phase = "load", !.i = 0]
  ELSE [c EXCEPT !.i = @ + 1]

Resume(lv) ==
  LET c == call[lv] IN
  /\ call[lv] # Idle
  /\ In(lv + 1, "ret")
  /\ data' = IF c.phase = "load"
             THEN [data EXCEPT ![lv][c.slot][c.i] = call[lv + 1].val]
             ELSE data
  /\ call' = [call EXCEPT ![lv] = NextWord(c), ![lv + 1] = Idle]
  /\ UNCHANGED <<mem, tables, lfu_cnt, cnt, hit>>

(* The line is loaded: the slot is entered in the maps as its slot.  The line
   that had the slot before keeps its inCache and addr2line entries. *)
InstallWith(lv, dirt, known) ==
  LET c == call[lv] IN
  /\ In(lv, "load")
  /\ c.i = LINE_SIZE
  /\ valid' = [valid EXCEPT ![lv][c.slot] = TRUE]
  /\ dirty' = [dirty EXCEPT ![lv][c.slot] = dirt]
  /\ line2memAddr' = [line2memAddr EXCEPT ![lv][c.slot] = c.line]
  /\ addr2line' = [addr2line EXCEPT ![lv][c.line] = c.slot]
  /\ inCache' = [inCache EXCEPT ![lv] = known]
  /\ lfu_cnt' = [lfu_cnt EXCEPT ![lv][c.slot] = 1]
  /\ Serve(lv, c.slot)
  /\ UNCHANGED <<mem, cnt, hit>>

Known(lv) == [inCache[lv] EXCEPT ![call[lv].line] = TRUE]

(* Mutants: a missing store leaves its slot dirty; the line that had the slot
   is forgotten. *)
InstallDirty(lv)   == InstallWith(lv, call[lv].op = "write", Known(lv))
InstallForget(lv) ==
  InstallWith(lv, FALSE,
    [l \in Lines |-> Known(lv)[l] /\ line2memAddr[lv][call[lv].slot] # l])

Install(lv) == InstallWith(lv, FALSE, Known(lv))

(* Memory::read and Memory::write. *)
MemAccess ==
  LET c == call[Mem] IN
  /\ In(Mem, "enter")
  /\ mem' = IF c.op = "write" THEN [mem EXCEPT ![c.line][c.off] = c.val] ELSE mem
  /\ call' = [call EXCEPT ![Mem] =
                Return(c, IF c.op = "write" THEN c.val ELSE mem[c.line][c.off])]
  /\ UNCHANGED <<data, tables, lfu_cnt, cnt, hit>>

(* The program has made all its accesses. *)
Halt ==
  /\ cnt[1] = MaxAccesses
  /\ call[1] = Idle
  /\ UNCHANGED vars

Step ==
  \/ \E lv \in Levels : Hit(lv) \/ Miss(lv) \/ CallNext(lv) \/ Resume(lv) \/ Install(lv)
  \/ MemAccess
  \/ Deliver

Next ==
  \/ \E l \in Lines, o \in Offsets : Read(l, o) \/ \E v \in Stores : Write(l, o, v)
  \/ Step
  \/ Halt

Spec     == Init /\ [][Next]_vars
FairSpec == Spec /\ WF_vars(Step)

-----------------------------------------------------------------------------
TypeOK ==
  /\ mem \in [Lines -> Line]
  /\ data \in [Levels -> [Slots -> Line]]
  /\ valid \in [Levels -> [Slots -> BOOLEAN]]
  /\ dirty \in [Levels -> [Slots -> BOOLEAN]]
  /\ line2memAddr \in [Levels -> [Slots -> Lines \cup {None}]]
  /\ lfu_cnt \in [Levels -> [Slots -> Nat]]
  /\ inCache \in [Levels -> [Lines -> BOOLEAN]]
  /\ addr2line \in [Levels -> [Lines -> Slots \cup {None}]]
  /\ cnt \in [Levels -> Nat]
  /\ hit \in [Levels -> Nat]
  /\ call \in [1 .. Mem -> Frame \cup {Idle}]

(* No store the program makes ever reaches Memory::mem, whatever is evicted:
   write_back exists, but no code ever asks for it.  What reads Memory behind
   the caches (sys_print_str, the memory watchpoints, the x command) never sees
   a store. *)
StoresNeverReachMemory == mem = Image

(* Between two accesses of the program the three levels know the same lines:
   a lower level never gets the chance to serve a line L1 has dropped. *)
LevelsKnowTheSameLines ==
  call[1] = Idle => /\ inCache[1] = inCache[2]
                    /\ inCache[2] = inCache[3]

(* Below L1 the hit rate printed by the hit command does not depend on the
   program: each line costs a level one miss and LINE_SIZE - 1 hits. *)
LowerHitRatesAreFixed ==
  call[1] = Idle =>
    \A lv \in {2, 3} : /\ cnt[lv] = LINE_SIZE * (cnt[1] - hit[1])
                       /\ hit[lv] = (LINE_SIZE - 1) * (cnt[1] - hit[1])

(* A line known to a level keeps its slot there for ever, evicted or not. *)
LinesStayPut ==
  [][\A lv \in Levels, l \in Lines :
       inCache[lv][l] => /\ inCache'[lv][l]
                         /\ addr2line'[lv][l] = addr2line[lv][l]]_vars

(* Every load and store of the program returns. *)
AccessReturns == (call[1] # Idle) ~> (call[1] = Idle)

-----------------------------------------------------------------------------
(* The inductive invariant. *)

(* Nothing is ever dirty, so no call is ever in write_back's loop. *)
NeverDirty ==
  /\ \A lv \in Levels, s \in Slots : ~dirty[lv][s]
  /\ \A lv \in 1 .. Mem : ~In(lv, "wb")

(* A level below L1 is called only by load_line of the level above, for the
   word that one is at. *)
StackOK ==
  /\ \A lv \in 1 .. Mem : In(lv, "enter") => call[lv].i = 0
  /\ \A lv \in Levels :
       call[lv + 1] # Idle =>
         /\ In(lv, "load")
         /\ call[lv].i < LINE_SIZE
         /\ call[lv + 1].op = "read"
         /\ call[lv + 1].line = call[lv].line
         /\ call[lv + 1].off = call[lv].i

(* The maps give a known line a slot of its group, and no other line a slot. *)
MapsOK ==
  \A lv \in Levels, l \in Lines :
    IF inCache[lv][l] THEN addr2line[lv][l] \in {Group(l)} \X Ways
                      ELSE addr2line[lv][l] = None

(* A level knows what the level above knows, and more only while the level
   above is loading the line. *)
Inclusion ==
  \A lv \in {1, 2}, l \in Lines :
    /\ inCache[lv][l] => inCache[lv + 1][l]
    /\ inCache[lv + 1][l] => \/ inCache[lv][l]
                             \/ In(lv, "load") /\ call[lv].line = l

(* What a level has loaded so far is the line as memory has it ... *)
LoadedIsImage ==
  \A lv \in Levels :
    In(lv, "load") =>
      LET c == call[lv] IN
      /\ ~inCache[lv][c.line]
      /\ c.slot \in {Group(c.line)} \X Ways
      /\ \A o \in Offsets : o < c.i => data[lv][c.slot][o] = Image[c.line][o]

(* ... because the level below either is still to load it, or holds it whole
   and unchanged for as long as the load lasts ... *)
SourceIsImage ==
  \A lv \in {1, 2} :
    In(lv, "load") =>
      LET l == call[lv].line IN
      IF inCache[lv + 1][l]
      THEN data[lv + 1][addr2line[lv + 1][l]] = Image[l]
      ELSE call[lv].i = 0

(* ... and so it returns the word memory has, of a line it knows from now on. *)
ReturnIsImage ==
  \A lv \in 2 .. Mem :
    In(lv, "ret") =>
      /\ call[lv].val = Image[call[lv].line][call[lv].off]
      /\ lv # Mem => inCache[lv][call[lv].line]

(* The levels, taken together: what a level copies down the hierarchy and what
   it returns to the level above are always memory's words, whatever was evicted
   and stored in between (load_line, read and write of Cache.hpp). *)
IInv ==
  /\ TypeOK
  /\ StoresNeverReachMemory
  /\ NeverDirty
  /\ StackOK
  /\ MapsOK
  /\ Inclusion
  /\ LoadedIsImage
  /\ SourceIsImage
  /\ ReturnIsImage

(* The counters, for LowerHitRatesAreFixed: a level has been asked for LINE_SIZE
   words for every load of the level above, counting for the load under way the
   words that one has and the one it waits for ... *)
Misses(lv) == cnt[lv] - hit[lv]

One(b) == IF b THEN 1 ELSE 0

WordsServed(lv) ==
  LINE_SIZE * (Misses(lv) - One(In(lv, "load")))
    + (IF In(lv, "load") THEN call[lv].i ELSE 0)
    + One(call[lv + 1] # Idle /\ call[lv + 1].phase # "enter")

(* ... and has missed the line of every load once, the one under way unless its
   first word has not been looked up yet. *)
NotMissedYet(lv) ==
  In(lv, "load") /\ ~inCache[lv + 1][call[lv].line] /\ ~In(lv + 1, "load")

CountsOK ==
  \A lv \in {1, 2} :
    /\ cnt[lv + 1] = WordsServed(lv)
    /\ Misses(lv + 1) = Misses(lv) - One(NotMissedYet(lv))

-----------------------------------------------------------------------------
(* The hierarchy as the program sees it.  A line is placed when its miss picks
   a slot; from then until it is installed the slot counts as filled. *)
Loading(s) == In(1, "load") /\ call[1].slot = s

SlotOf(l) ==
  IF In(1, "load") /\ call[1].line = l THEN call[1].slot ELSE addr2line[1][l]

SeenSlotOf == [l \in Lines |-> SlotOf(l)]
SeenTaken  == [s \in Slots |-> valid[1][s] \/ Loading(s)]
SeenUsed   == [s \in Slots |-> IF Loading(s) THEN 0 ELSE lfu_cnt[1][s]]
SeenBlock  == [s \in Slots |-> IF Loading(s) THEN Image[call[1].line] ELSE data[1][s]]
SeenReq ==
  IF call[1] = Idle THEN Idle
  ELSE [op |-> call[1].op, line |-> call[1].line, off |-> call[1].off,
        val |-> call[1].val, done |-> call[1].phase = "ret"]
SeenAccesses == cnt[1] + (IF In(1, "enter") THEN 1 ELSE 0)

Seen ==
  INSTANCE FirstTouch WITH
    slotOf <- SeenSlotOf, taken <- SeenTaken, used <- SeenUsed, block <- SeenBlock,
    req <- SeenReq, accesses <- SeenAccesses

(* Idle is no access, either (FirstTouchAssumption). *)
ASSUME SeenAssumption == Idle \notin Seen!Request

(* CacheMod implements FirstTouch. *)
ImplementsFirstTouch == Seen!Spec

==============================================================================
