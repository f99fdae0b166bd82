------------------------------ MODULE SdbProof ------------------------------
(***************************************************************************)
(* The debugger: what holds of its watchpoints and of what it executes,    *)
(* for every set of programs, of watched registers and words and of counts.*)
(***************************************************************************)
EXTENDS Sdb, TrapProof

(* The trampoline is 31 instructions. *)
LEMMA TrampolineType ==
  /\ Len(trampoline_code) = 31
  /\ \A k \in 1 .. 31 : trampoline_code[k].op \in Ops
BY DEF trampoline_code, trampoline, ReadCause, Addi, Beq, Ecall, Nop, Jal, Bit0, Mret, Inst, Ops

(* What execute_one_step finds at a loaded address is an instruction. *)
LEMMA FetchType ==
  ASSUME MachineOK, NEW a \in Int, Loaded(a), m.pc = a
  PROVE  Fetch(m).op \in Ops
<1>1. CASE InTrampoline(a)
  BY <1>1, TrampolineType DEF InTrampoline, Fetch, TRAMPOLINE
<1>2. CASE ~InTrampoline(a)
  <2>1. m.code \in Seq(Instruction) /\ a \in 0 .. Len(m.code) - 1
    BY <1>2, TrapAssumption DEF MachineOK, Loaded, InProgram
  <2>2. m.code[a + 1] \in Instruction
    BY <2>1
  <2> QED BY <1>2, <2>2 DEF Fetch, Instruction
<1> QED BY <1>1, <1>2

(* No instruction writes the program's code. *)
LEMMA DoitKeepsCode ==
  ASSUME MachineOK, NEW i, i.op \in Ops \ {"mret", "data"}
  PROVE  /\ DOMAIN Doit(i, m) = DOMAIN m
         /\ Doit(i, m).code = m.code
BY DEF MachineOK, Doit, Ops

LEMMA TrapRetKeepsCode ==
  ASSUME MachineOK
  PROVE  /\ DOMAIN TrapRet(m) = DOMAIN m
         /\ TrapRet(m).code = m.code
BY DEF MachineOK, TrapRet

LEMMA PollKeepsCode ==
  ASSUME MachineOK, NEW mm, DOMAIN mm = DOMAIN m, mm.code = m.code, NEW acts, Poll(mm, acts)
  PROVE  DOMAIN m' = DOMAIN m /\ m'.code = m.code
<1>1. m' = StepOver(mm) \/ \E t : m' = StepOver(Enter(t, mm))
  BY DEF Poll, PollWhen
<1>2. DOMAIN StepOver(mm) = DOMAIN m /\ StepOver(mm).code = m.code
  BY DEF StepOver, MachineOK
<1>3. ASSUME NEW t
      PROVE  DOMAIN Enter(t, mm) = DOMAIN m /\ Enter(t, mm).code = m.code
  BY DEF Enter, MachineOK
<1>4. ASSUME NEW t
      PROVE  /\ DOMAIN StepOver(Enter(t, mm)) = DOMAIN m
             /\ StepOver(Enter(t, mm)).code = m.code
  BY <1>3 DEF StepOver, MachineOK
<1> QED BY <1>1, <1>2, <1>4

-----------------------------------------------------------------------------
(* The list of watchpoints. *)

LEMMA ListShape ==
  ASSUME NEW list, IsWatchList(list)
  PROVE  /\ list \in Seq(Range(list)) /\ Len(list) \in Nat
         /\ DOMAIN list = 1 .. Len(list)
         /\ \A k \in 1 .. Len(list) : list[k].id \in Nat /\ list[k].target \in Targets
<1>1. list \in Seq(Range(list))
  BY DEF IsWatchList
<1>2. Len(list) \in Nat /\ DOMAIN list = 1 .. Len(list)
  BY <1>1, LenProperties
<1> QED BY <1>1, <1>2 DEF IsWatchList

(* What Min returns. *)
LEMMA MinIsLeast ==
  ASSUME NEW S, S \subseteq Nat, S # {}
  PROVE  Min(S) \in S /\ \A y \in S : Min(S) <= y
BY SmallestExists DEF Min

(* The number a new watchpoint gets: those below it are taken, it is not, and
   it has its place in the order. *)
LEMMA FreeIdIsFree ==
  ASSUME NEW list, IsWatchList(list), InOrder(list)
  PROVE  /\ FreeId(list) \in 0 .. Len(list)
         /\ \A k \in 1 .. Len(list) : IF k <= FreeId(list) THEN list[k].id = k - 1
                                                          ELSE list[k].id > FreeId(list)
<1> DEFINE n == Len(list)
           S == {k \in 0 .. n : k = n \/ list[k + 1].id # k}
           f == FreeId(list)
<1>1. n \in Nat /\ DOMAIN list = 1 .. n /\ \A k \in 1 .. n : list[k].id \in Nat
  BY ListShape
<1>2. S \subseteq Nat /\ S # {}
  BY <1>1
<1>3. f \in S /\ \A k \in S : f <= k
  <2>1. f = Min(S)
    BY DEF FreeId
  <2> HIDE DEF S, f
  <2> QED BY <1>2, <2>1, MinIsLeast
<1> HIDE DEF f
<1>4. f \in 0 .. n /\ (f = n \/ list[f + 1].id # f)
  BY <1>3
<1>5. \A k \in 0 .. f - 1 : list[k + 1].id = k
  <2> SUFFICES ASSUME NEW k \in 0 .. f - 1, list[k + 1].id # k PROVE FALSE
    OBVIOUS
  <2>1. k \in 0 .. n /\ k < f
    <3>1. n \in Nat /\ f \in 0 .. n
      BY <1>1, <1>4
    <3> HIDE DEF n
    <3> QED BY <3>1
  <2>2. k \in S
    BY <2>1
  <2> QED BY <1>3, <1>4, <2>1, <2>2
<1> HIDE DEF n
<1>6. ASSUME NEW k \in 1 .. n, k <= f PROVE list[k].id = k - 1
  <2>1. k - 1 \in 0 .. f - 1 /\ (k - 1) + 1 = k
    BY <1>4, <1>6
  <2> QED BY <1>5, <2>1
<1>7. f < n => list[f + 1].id > f
  <2> SUFFICES ASSUME f < n PROVE list[f + 1].id > f
    OBVIOUS
  <2>1. f + 1 \in 1 .. n /\ list[f + 1].id \in Nat /\ list[f + 1].id # f
    BY <1>1, <1>4
  <2>2. CASE f = 0
    BY <2>1, <2>2
  <2>3. CASE f # 0
    <3>1. f \in 1 .. n /\ f < f + 1
      BY <1>4, <2>3
    <3>2. list[f].id = f - 1
      BY <1>4, <1>6, <3>1
    <3>3. list[f].id < list[f + 1].id
      BY <1>1, <2>1, <3>1 DEF InOrder
    <3> QED BY <1>4, <2>1, <3>2, <3>3
  <2> QED BY <2>2, <2>3
<1>8. ASSUME NEW k \in 1 .. n, ~(k <= f) PROVE list[k].id > f
  <2>1. f < n /\ f + 1 \in 1 .. n /\ f + 1 <= k
    BY <1>1, <1>4, <1>8
  <2>2. k = f + 1 \/ list[f + 1].id < list[k].id
    BY <1>1, <2>1 DEF InOrder
  <2> QED BY <1>1, <1>4, <1>7, <2>1, <2>2
<1> QED BY <1>4, <1>6, <1>8 DEF f, n

(* add_watchpoint: the watchpoint is in the list, with those that were there, and
   the list is in order again. *)
LEMMA AddedToList ==
  ASSUME NEW list, IsWatchList(list), InOrder(list), NEW target \in Targets
  PROVE  /\ Range(Added(target, list)) = Range(list) \cup {WatchPoint(target, list)}
         /\ IsWatchList(Added(target, list))
         /\ InOrder(Added(target, list))
<1> DEFINE n == Len(list)
           f == FreeId(list)
           wp == WatchPoint(target, list)
           all == Append(list, wp)
           R == Range(list) \cup {wp}
           Right(s) == /\ Range(s) = Range(all)
                       /\ \A j, k \in DOMAIN all : j < k => s[j].id < s[k].id
           new == Added(target, list)
<1>1. /\ list \in Seq(Range(list)) /\ n \in Nat /\ DOMAIN list = 1 .. n
      /\ \A k \in 1 .. n : list[k].id \in Nat
  BY ListShape
<1>2. /\ f \in 0 .. n
      /\ \A k \in 1 .. n : IF k <= f THEN list[k].id = k - 1 ELSE list[k].id > f
  BY FreeIdIsFree
<1>3. wp = [id |-> f, target |-> target, old_val |-> wp.old_val]
  BY DEF WatchPoint
<1> HIDE DEF f, wp
<1>4. wp.id = f /\ wp.target = target /\ wp.id \in Nat
  BY <1>1, <1>2, <1>3
<1>5. /\ all \in Seq(R) /\ DOMAIN all = 1 .. n + 1
      /\ \A k \in 1 .. n + 1 : all[k] = IF k = n + 1 THEN wp ELSE list[k]
  <2>1. list \in Seq(R)
    BY <1>1, SeqMonotonic
  <2> QED BY <1>1, <2>1, AppendProperties, LenProperties
<1>6. Range(all) = R
  <2>1. Range(list) = {list[k] : k \in 1 .. n}
    BY <1>1 DEF Range
  <2>2. Range(all) = {all[k] : k \in 1 .. n + 1}
    BY <1>5 DEF Range
  <2> QED BY <1>1, <1>5, <2>1, <2>2
<1> HIDE DEF all
<1>7. \E s \in [DOMAIN all -> Range(all)] : Right(s)
  <2> DEFINE w == [k \in 1 .. n + 1 |-> IF k <= f THEN list[k]
                                      ELSE IF k = f + 1 THEN wp ELSE list[k - 1]]
  <2>1. \A k \in 1 .. n + 1 : w[k] \in R
    BY <1>1, <1>2 DEF Range
  <2>2. w \in [DOMAIN all -> Range(all)]
    BY <1>5, <1>6, <2>1
  <2>3. \A x \in R : \E k \in 1 .. n + 1 : w[k] = x
    <3>1. w[f + 1] = wp /\ f + 1 \in 1 .. n + 1
      BY <1>1, <1>2
    <3>2. ASSUME NEW k \in 1 .. n PROVE \E j \in 1 .. n + 1 : w[j] = list[k]
      <4>1. CASE k <= f
        BY <1>1, <1>2, <4>1
      <4>2. CASE k > f
        <5>1. w[k + 1] = list[k] /\ k + 1 \in 1 .. n + 1
          BY <1>1, <1>2, <4>2
        <5> QED BY <5>1
      <4> QED BY <1>2, <4>1, <4>2
    <3> QED BY <1>1, <3>1, <3>2 DEF Range
  <2>4. Range(w) = R
    <3>1. Range(w) = {w[k] : k \in 1 .. n + 1}
      BY DEF Range
    <3> HIDE DEF w
    <3> QED BY <2>1, <2>3, <3>1
  <2>5. ASSUME NEW j \in 1 .. n + 1, NEW k \in 1 .. n + 1, j < k PROVE w[j].id < w[k].id
    <3>1. CASE k <= f
      BY <1>1, <1>2, <2>5, <3>1 DEF InOrder
    <3>2. CASE k = f + 1
      BY <1>1, <1>2, <1>4, <2>5, <3>2
    <3>3. CASE k > f + 1 /\ j = f + 1
      <4>1. w[k] = list[k - 1] /\ k - 1 \in 1 .. n /\ ~(k - 1 <= f) /\ w[j] = wp
        BY <1>1, <1>2, <3>3
      <4> QED BY <1>2, <1>4, <4>1
    <3>4. CASE k > f + 1 /\ j <= f
      <4>1. w[k] = list[k - 1] /\ k - 1 \in 1 .. n /\ w[j] = list[j] /\ j \in 1 .. n /\ j < k - 1
        BY <1>1, <1>2, <3>4
      <4> QED BY <1>1, <4>1 DEF InOrder
    <3>5. CASE k > f + 1 /\ j > f + 1
      <4>1. /\ w[k] = list[k - 1] /\ k - 1 \in 1 .. n
            /\ w[j] = list[j - 1] /\ j - 1 \in 1 .. n /\ j - 1 < k - 1
        BY <1>1, <1>2, <2>5, <3>5
      <4> QED BY <1>1, <4>1 DEF InOrder
    <3> QED BY <1>2, <2>5, <3>1, <3>2, <3>3, <3>4, <3>5
  <2> HIDE DEF w
  <2> QED BY <1>5, <1>6, <2>2, <2>4, <2>5
<1>8. new \in [DOMAIN all -> Range(all)] /\ Right(new)
  <2>1. new = CHOOSE s \in [DOMAIN all -> Range(all)] : Right(s)
    BY DEF Added, Sorted, all, wp
  <2> HIDE DEF new, Right
  <2> QED BY <1>7, <2>1
<1> HIDE DEF new
<1>9. new \in [1 .. n + 1 -> R] /\ Range(new) = R
  BY <1>5, <1>6, <1>8
<1>10. InOrder(new)
  BY <1>5, <1>8, <1>9 DEF InOrder
<1>11. IsWatchList(new)
  <2>1. new \in Seq(R)
    BY <1>1, <1>9
  <2>2. \A x \in R : /\ x = [id |-> x.id, target |-> x.target, old_val |-> x.old_val]
                   /\ x.id \in Nat /\ x.target \in Targets
    BY <1>3, <1>4 DEF IsWatchList, Range
  <2> QED BY <1>9, <2>1, <2>2 DEF IsWatchList
<1> QED BY <1>9, <1>10, <1>11 DEF new, wp


(* del_watchpoint: the other watchpoints keep their numbers and their order. *)
LEMMA RemovedFromList ==
  ASSUME NEW list, IsWatchList(list), InOrder(list), NEW i \in DOMAIN list
  PROVE  LET new == RemoveAt(list, i) IN
         /\ Len(new) = Len(list) - 1 /\ DOMAIN new = 1 .. Len(list) - 1
         /\ \A k \in 1 .. Len(list) - 1 : new[k] = IF k < i THEN list[k] ELSE list[k + 1]
         /\ IsWatchList(new)
         /\ InOrder(new)
<1> DEFINE n == Len(list)
           S == Range(list)
           s1 == SubSeq(list, 1, i - 1)
           s2 == SubSeq(list, i + 1, n)
           new == RemoveAt(list, i)
<1>1. /\ list \in Seq(S) /\ n \in Nat /\ DOMAIN list = 1 .. n /\ i \in 1 .. n
      /\ \A k \in 1 .. n : list[k] \in S
  BY ListShape DEF Range
<1> HIDE DEF n, S
<1>2. /\ s1 \in Seq(S) /\ Len(s1) = i - 1
      /\ \A k \in 1 .. i - 1 : s1[k] = list[k]
  <2>1. /\ s1 \in Seq(S) /\ Len(s1) = IF 1 <= i - 1 THEN (i - 1) - 1 + 1 ELSE 0
        /\ \A k \in 1 .. (i - 1) - 1 + 1 : s1[k] = list[1 + k - 1]
    BY <1>1, SubSeqProperties
  <2> HIDE DEF s1
  <2> QED BY <1>1, <2>1
<1>3. /\ s2 \in Seq(S) /\ Len(s2) = n - i
      /\ \A k \in 1 .. n - i : s2[k] = list[k + i]
  <2>1. /\ s2 \in Seq(S) /\ Len(s2) = IF i + 1 <= n THEN n - (i + 1) + 1 ELSE 0
        /\ \A k \in 1 .. n - (i + 1) + 1 : s2[k] = list[(i + 1) + k - 1]
    BY <1>1, SubSeqProperties
  <2> HIDE DEF s2
  <2>2. n - (i + 1) + 1 = n - i /\ \A k \in 1 .. n - i : (i + 1) + k - 1 = k + i
    BY <1>1
  <2>3. Len(s2) = n - i
    BY <1>1, <2>1
  <2> QED BY <2>1, <2>2, <2>3
<1>4. new = s1 \o s2
  BY DEF RemoveAt, n
<1> HIDE DEF new, s1, s2
<1>5. /\ new \in Seq(S) /\ Len(new) = n - 1
      /\ \A k \in 1 .. n - 1 : new[k] = IF k <= i - 1 THEN s1[k] ELSE s2[k - (i - 1)]
  <2>1. /\ s1 \o s2 \in Seq(S) /\ Len(s1 \o s2) = Len(s1) + Len(s2)
        /\ \A k \in 1 .. Len(s1) + Len(s2) :
             (s1 \o s2)[k] = IF k <= Len(s1) THEN s1[k] ELSE s2[k - Len(s1)]
    BY <1>2, <1>3, ConcatProperties
  <2>2. Len(s1) + Len(s2) = n - 1
    BY <1>1, <1>2, <1>3
  <2> QED BY <1>2, <1>4, <2>1, <2>2
<1>6. \A k \in 1 .. n - 1 : new[k] = IF k < i THEN list[k] ELSE list[k + 1]
  <2> SUFFICES ASSUME NEW k \in 1 .. n - 1
               PROVE  new[k] = IF k < i THEN list[k] ELSE list[k + 1]
    OBVIOUS
  <2>1. CASE k < i
    BY <1>1, <1>2, <1>5, <2>1
  <2>2. CASE ~(k < i)
    <3>1. k - (i - 1) \in 1 .. n - i /\ (k - (i - 1)) + i = k + 1 /\ ~(k <= i - 1)
      BY <1>1, <2>2
    <3>2. s2[k - (i - 1)] = list[k + 1]
      BY <1>3, <3>1
    <3> QED BY <1>5, <2>2, <3>1, <3>2
  <2> QED BY <2>1, <2>2
<1>7. DOMAIN new = 1 .. n - 1 /\ new \in Seq(Range(new))
  BY <1>5, LenProperties, SeqOfRange
<1>8. ASSUME NEW k \in 1 .. n - 1
      PROVE  /\ k \in 1 .. n /\ k + 1 \in 1 .. n
             /\ \E j \in 1 .. n : new[k] = list[j]
  BY <1>1, <1>6
<1>9. IsWatchList(new)
  BY <1>1, <1>7, <1>8 DEF IsWatchList
<1>10. InOrder(new)
  <2> SUFFICES ASSUME NEW j \in 1 .. n - 1, NEW k \in 1 .. n - 1, j < k
               PROVE  new[j].id < new[k].id
    BY <1>7 DEF InOrder
  <2>1. /\ j \in 1 .. n /\ j + 1 \in 1 .. n /\ k \in 1 .. n /\ k + 1 \in 1 .. n
        /\ j < k + 1 /\ j + 1 < k + 1
    BY <1>1
  <2>2. \A a, b \in 1 .. n : a < b => list[a].id < list[b].id
    BY <1>1 DEF InOrder
  <2>3. CASE k < i
    BY <1>1, <1>6, <2>1, <2>2, <2>3
  <2>4. CASE ~(k < i) /\ j < i
    BY <1>1, <1>6, <2>1, <2>2, <2>4
  <2>5. CASE ~(j < i)
    <3>1. ~(k < i)
      BY <1>1, <2>5
    <3> QED BY <1>6, <2>1, <2>2, <2>5, <3>1
  <2> QED BY <2>3, <2>4, <2>5
<1> QED BY <1>5, <1>6, <1>7, <1>9, <1>10 DEF new, n

(* update_watchpoint: every watchpoint keeps its number and what it watches, and
   has the machine's value. *)
LEMMA UpdatedList ==
  ASSUME NEW list, IsWatchList(list), InOrder(list), NEW mm
  PROVE  LET new == Updated(list, mm) IN
         /\ DOMAIN new = DOMAIN list
         /\ \A k \in DOMAIN list : /\ new[k].id = list[k].id
                                  /\ new[k].target = list[k].target
                                  /\ new[k].old_val = Value(new[k], mm)
         /\ IsWatchList(new)
         /\ InOrder(new)
<1> DEFINE n == Len(list)
           new == Updated(list, mm)
           V(k) == Value(list[k], mm)
<1>1. n \in Nat /\ DOMAIN list = 1 .. n
  BY ListShape
<1>2. ASSUME NEW k \in 1 .. n
      PROVE  /\ new[k] = [id |-> list[k].id, target |-> list[k].target, old_val |-> V(k)]
             /\ new[k].target = list[k].target
  <2>1. new[k] = [list[k] EXCEPT !.old_val = V(k)]
    BY <1>1 DEF Updated, UpdatedBy
  <2>2. list[k] = [id |-> list[k].id, target |-> list[k].target, old_val |-> list[k].old_val]
    BY <1>1 DEF IsWatchList
  <2> HIDE DEF new, V
  <2> QED BY <2>1, <2>2
<1>3. DOMAIN new = 1 .. n
  BY <1>1 DEF Updated, UpdatedBy
<1> HIDE DEF new
<1>4. ASSUME NEW k \in 1 .. n PROVE Value(new[k], mm) = V(k)
  BY <1>2 DEF Value
<1>5. new \in Seq(Range(new))
  <2>1. new = [k \in 1 .. n |-> new[k]]
    BY <1>3 DEF new, Updated, UpdatedBy, n
  <2>2. new \in [1 .. n -> Range(new)]
    BY <1>3, <2>1 DEF Range
  <2> QED BY <1>1, <2>2
<1> HIDE DEF V
<1>6. IsWatchList(new)
  BY <1>1, <1>2, <1>3, <1>5 DEF IsWatchList
<1>7. InOrder(new)
  BY <1>1, <1>2, <1>3 DEF InOrder
<1> QED BY <1>1, <1>2, <1>3, <1>4, <1>6, <1>7 DEF new


(* A watchpoint that is added starts with the value the machine has. *)
LEMMA NewIsCurrent ==
  ASSUME NEW target, NEW list
  PROVE  WatchPoint(target, list).old_val = Value(WatchPoint(target, list), m)
<1> DEFINE f == FreeId(list)
           wp == [id |-> f, target |-> target, old_val |-> MAGIC]
           v == Value(wp, m)
<1>1. WatchPoint(target, list) = [wp EXCEPT !.old_val = v]
  BY DEF WatchPoint
<1>2. [wp EXCEPT !.old_val = v] = [id |-> f, target |-> target, old_val |-> v]
  <2> HIDE DEF v, f
  <2> QED OBVIOUS
<1>3. \A x : Value([id |-> f, target |-> target, old_val |-> x], m) = v
  BY DEF Value
<1> HIDE DEF v, f
<1> QED BY <1>1, <1>2, <1>3

-----------------------------------------------------------------------------
(* The inductive invariant. *)

LEMMA InitSdbInv == SdbInit => SdbInv
<1> SUFFICES ASSUME SdbInit PROVE SdbInv
  OBVIOUS
<1>1. PICK p \in Programs : m = Reset(p)
  BY DEF SdbInit, Init
<1>2. MachineOK
  BY <1>1 DEF MachineOK, Reset
<1>3. todo \in Nat \cup {Forever}
  BY DEF SdbInit
<1>4. watch_list = << >> /\ DOMAIN watch_list = {}
  BY DEF SdbInit
<1>5. IsWatchList(watch_list) /\ InOrder(watch_list) /\ WatchpointsCurrent
  <2>1. << >> \in Seq(Range(<< >>))
    BY EmptySeq
  <2> QED BY <1>4, <2>1 DEF IsWatchList, InOrder, WatchpointsCurrent
<1>6. EntersLoadedOnly
  BY DEF SdbInit, preParseInst, EntersLoadedOnly, Loaded, InProgram, Trampoline, InTrampoline
<1> QED BY <1>2, <1>3, <1>5, <1>6 DEF SdbInv

(* What the commands keep that change neither the machine nor the list. *)
LEMMA IdleStep ==
  ASSUME SdbInv, UNCHANGED <<m, watch_list>>,
         todo' \in Nat \cup {Forever}, \A a \in parsed' : Loaded(a)
  PROVE  SdbInv'
BY DEF SdbInv, MachineOK, IsWatchList, InOrder, WatchpointsCurrent, EntersLoadedOnly, Loaded

LEMMA AddStep ==
  ASSUME SdbInv, NEW target \in Targets, cmd_w(target)
  PROVE  SdbInv'
<1> DEFINE new == Added(target, watch_list)
           wp == WatchPoint(target, watch_list)
<1>1. watch_list' = new /\ UNCHANGED <<m, parsed, todo>>
  BY DEF cmd_w, vars
<1>2. IsWatchList(new) /\ InOrder(new) /\ Range(new) = Range(watch_list) \cup {wp}
  BY AddedToList DEF SdbInv
<1>3. wp.old_val = Value(wp, m)
  BY NewIsCurrent
<1> HIDE DEF new, wp
<1>4. \A x \in Range(new) : x.old_val = Value(x, m)
  BY <1>2, <1>3 DEF SdbInv, WatchpointsCurrent, Range
<1>5. WatchpointsCurrent'
  BY <1>1, <1>4 DEF WatchpointsCurrent, Range
<1>6. IsWatchList(watch_list)' /\ InOrder(watch_list)'
  BY <1>1, <1>2 DEF IsWatchList, InOrder
<1> QED BY <1>1, <1>5, <1>6 DEF SdbInv, MachineOK, EntersLoadedOnly, Loaded

LEMMA DeleteStep ==
  ASSUME SdbInv, NEW id, cmd_d(id)
  PROVE  SdbInv'
<1>1. PICK i \in DOMAIN watch_list :
        watch_list[i].id = id /\ watch_list' = RemoveAt(watch_list, i)
  BY DEF cmd_d
<1>2. UNCHANGED <<m, parsed, todo>>
  BY DEF cmd_d, vars
<1> DEFINE new == RemoveAt(watch_list, i)
           n == Len(watch_list)
<1>3. /\ DOMAIN new = 1 .. n - 1
      /\ \A k \in 1 .. n - 1 : new[k] = IF k < i THEN watch_list[k] ELSE watch_list[k + 1]
      /\ IsWatchList(new) /\ InOrder(new)
  BY RemovedFromList DEF SdbInv
<1>4. DOMAIN watch_list = 1 .. n /\ n \in Nat /\ i \in 1 .. n
  BY ListShape DEF SdbInv
<1> HIDE DEF new, n
<1>5. WatchpointsCurrent'
  <2> SUFFICES ASSUME NEW k \in 1 .. n - 1 PROVE new[k].old_val = Value(new[k], m)
    BY <1>1, <1>2, <1>3 DEF WatchpointsCurrent, new
  <2>1. \E j \in DOMAIN watch_list : new[k] = watch_list[j]
    BY <1>3, <1>4
  <2> QED BY <2>1 DEF SdbInv, WatchpointsCurrent
<1>6. IsWatchList(watch_list)' /\ InOrder(watch_list)'
  BY <1>1, <1>3 DEF IsWatchList, InOrder, new
<1> QED BY <1>2, <1>5, <1>6 DEF SdbInv, MachineOK, EntersLoadedOnly, Loaded

(* An instruction is executed that is loaded, and so the code stays. *)
LEMMA StepOnKeepsCode ==
  ASSUME SdbInv, StepOn
  PROVE  DOMAIN m' = DOMAIN m /\ m'.code = m.code
<1>1. m.pc \in parsed /\ ~Refused /\ (Execute \/ Return)
  BY DEF StepOn, Stuck
<1>2. MachineOK /\ Loaded(m.pc)
  BY <1>1 DEF SdbInv, EntersLoadedOnly
<1>3. m.pc \in Int
  <2>1. Len(m.code) \in Nat
    BY <1>2, TrapAssumption, LenProperties DEF MachineOK
  <2>2. Len(trampoline_code) \in Nat /\ TRAMPOLINE \in Nat
    BY TrampolineType DEF TRAMPOLINE
  <2>3. CASE InProgram(m.code, m.pc)
    BY <2>1, <2>3 DEF InProgram
  <2>4. CASE InTrampoline(m.pc)
    BY <2>2, <2>4 DEF InTrampoline
  <2> QED BY <1>2, <2>3, <2>4 DEF Loaded
<1>4. Fetch(m).op \in Ops /\ Fetch(m).op # "data"
  BY <1>1, <1>2, <1>3, FetchType DEF Refused
<1>5. CASE Execute
  <2>1. Fetch(m).op # "mret" /\ \E acts : Poll(Doit(Fetch(m), m), acts)
    BY <1>5 DEF Execute
  <2> QED BY <1>2, <1>4, <2>1, DoitKeepsCode, PollKeepsCode
<1>6. CASE Return
  <2>1. \E acts : Poll(TrapRet(m), acts)
    BY <1>6 DEF Return, ReturnBy
  <2> QED BY <1>2, <2>1, TrapRetKeepsCode, PollKeepsCode
<1> QED BY <1>1, <1>5, <1>6

LEMMA StepOnStep ==
  ASSUME SdbInv, StepOn
  PROVE  SdbInv'
<1> DEFINE new == Updated(watch_list, m')
<1>1. /\ watch_list' = new /\ parsed' = parsed /\ todo' = Count /\ todo # 0
  BY DEF StepOn, Executing
<1>2. DOMAIN m' = DOMAIN m /\ m'.code = m.code
  BY StepOnKeepsCode
<1>3. /\ \A k \in DOMAIN new : new[k].old_val = Value(new[k], m')
      /\ IsWatchList(new) /\ InOrder(new)
  BY UpdatedList DEF SdbInv
<1>4. todo' \in Nat \cup {Forever}
  BY <1>1 DEF SdbInv, Count
<1> HIDE DEF new
<1>5. MachineOK' /\ EntersLoadedOnly'
  BY <1>1, <1>2 DEF SdbInv, MachineOK, EntersLoadedOnly, Loaded
<1>6. WatchpointsCurrent' /\ IsWatchList(watch_list)' /\ InOrder(watch_list)'
  BY <1>1, <1>3 DEF WatchpointsCurrent, IsWatchList, InOrder
<1> QED BY <1>4, <1>5, <1>6 DEF SdbInv

LEMMA NextSdbInv ==
  ASSUME SdbInv, [SdbNext]_sdbVars
  PROVE  SdbInv'
<1> USE SdbAssumption
<1>1. ASSUME NEW target \in Targets, cmd_w(target) PROVE SdbInv'
  BY <1>1, AddStep
<1>2. ASSUME NEW id, cmd_d(id) PROVE SdbInv'
  BY <1>2, DeleteStep
<1>3. CASE StepOn
  BY <1>3, StepOnStep
<1>4. CASE cmd_continue \/ (\E n \in Counts : cmd_si(n))
  BY <1>4, IdleStep DEF cmd_continue, cmd_si, vars, SdbInv, EntersLoadedOnly
<1>5. CASE (\E t \in Traps : cmd_trap(t)) \/ cmd_quit
  BY <1>5, IdleStep DEF cmd_trap, Raise, cmd_quit, SdbInv, EntersLoadedOnly
<1>6. CASE cmd_ls
  <2>1. \A a \in Listed : Loaded(a)
    <3>1. Window \subseteq Int
      BY DEF Window
    <3> QED BY <3>1 DEF Listed
  <2> QED BY <1>6, <2>1, IdleStep DEF cmd_ls, SdbInv, EntersLoadedOnly
<1>7. CASE Fail \/ Finish
  BY <1>7, IdleStep DEF Fail, Finish, vars, SdbInv, EntersLoadedOnly
<1>8. CASE Over \/ UNCHANGED sdbVars
  BY <1>8, IdleStep DEF Over, sdbVars, vars, SdbInv, EntersLoadedOnly
<1> QED BY <1>1, <1>2, <1>3, <1>4, <1>5, <1>6, <1>7, <1>8 DEF SdbNext, Round

-----------------------------------------------------------------------------
(* The invariant holds for ever: the list stays a list of watchpoints in the
   order of their numbers, which add_watchpoint's search relies on, ... *)
THEOREM SdbInvariance == SdbSpec => []SdbInv
<1>1. SdbInv /\ [SdbNext]_sdbVars => SdbInv'
  BY NextSdbInv
<1> QED BY InitSdbInv, <1>1, PTL DEF SdbSpec

(* ... the old value of every watchpoint is the value its register or word has,
   whatever instruction or trap came last, ... *)
THEOREM WatchpointsStayCurrent == SdbSpec => []WatchpointsCurrent
<1>1. SdbInv => WatchpointsCurrent
  BY DEF SdbInv
<1> QED BY SdbInvariance, <1>1, PTL

(* ... and getParsedInst has only addresses of loaded words, whatever ls was asked
   for where. *)
THEOREM OnlyLoadedIsEntered == SdbSpec => []EntersLoadedOnly
<1>1. SdbInv => EntersLoadedOnly
  BY DEF SdbInv
<1> QED BY SdbInvariance, <1>1, PTL


-----------------------------------------------------------------------------
(* Only a round of execution changes the machine or the services. *)
LEMMA OnlyStepOnExecutes ==
  ASSUME [SdbNext]_sdbVars, m' # m \/ active' # active
  PROVE  StepOn
BY DEF SdbNext, sdbVars, vars, cmd_continue, cmd_si, cmd_w, cmd_d, cmd_trap, Raise,
       cmd_quit, cmd_ls, Round, Fail, Finish, Over

(* A command stops at the first instruction that changes something watched, for
   every list of watchpoints: what each takes for the old value is the value
   before the instruction. *)
THEOREM StopsExactlyAtChange == SdbSpec => StopsAtFirstChange
<1> DEFINE changed == \E k \in DOMAIN watch_list :
                        Value(watch_list[k], m) # Value(watch_list[k], m')
           A == m' # m => (todo' = 0 <=> changed \/ todo = 1)
<1>1. ASSUME SdbInv, [SdbNext]_sdbVars PROVE A
  <2> SUFFICES ASSUME m' # m PROVE todo' = 0 <=> changed \/ todo = 1
    OBVIOUS
  <2>1. todo' = Count /\ todo # 0
    BY <1>1, OnlyStepOnExecutes DEF StepOn, Executing
  <2>2. AnyChanged(watch_list, m') <=> changed
    BY <1>1 DEF SdbInv, WatchpointsCurrent, AnyChanged, HasChanged
  <2> HIDE DEF changed
  <2>3. todo \in Nat \cup {Forever} /\ Forever \notin Nat
    BY <1>1, SdbAssumption DEF SdbInv
  <2> QED BY <2>1, <2>2, <2>3 DEF Count
<1>2. SdbInv /\ [SdbNext]_sdbVars => [A]_sdbVars
  BY <1>1
<1> QED BY SdbInvariance, <1>2, PTL DEF SdbSpec, StopsAtFirstChange

(* An instruction that failed is not passed, and no trap is taken at it. *)
THEOREM StuckForGood == SdbSpec => StuckStays
<1> DEFINE A == Stuck /\ parsed' = parsed => m' = m /\ active' = active
<1>1. ASSUME [SdbNext]_sdbVars PROVE A
  BY <1>1, OnlyStepOnExecutes DEF StepOn
<1>2. [SdbNext]_sdbVars => [A]_sdbVars
  BY <1>1
<1> QED BY <1>2, PTL DEF SdbSpec, StuckStays

-----------------------------------------------------------------------------
(* The list as a book: the refinement of WatchBook. *)

BookOf(list) ==
  [id \in {list[k].id : k \in DOMAIN list} |->
     list[CHOOSE k \in DOMAIN list : list[k].id = id].target]

LEMMA BookOfList ==
  ASSUME NEW list, IsWatchList(list), InOrder(list)
  PROVE  /\ DOMAIN BookOf(list) = {list[k].id : k \in DOMAIN list}
         /\ \A k \in DOMAIN list : BookOf(list)[list[k].id] = list[k].target
<1>1. DOMAIN list = 1 .. Len(list) /\ \A k \in DOMAIN list : list[k].id \in Nat
  BY ListShape
<1>2. \A j, k \in DOMAIN list : list[j].id = list[k].id => j = k
  <2> SUFFICES ASSUME NEW j \in DOMAIN list, NEW k \in DOMAIN list,
                      list[j].id = list[k].id, j # k
               PROVE  FALSE
    OBVIOUS
  <2>1. j < k \/ k < j
    BY <1>1
  <2> QED BY <1>1, <2>1 DEF InOrder
<1>3. ASSUME NEW k \in DOMAIN list PROVE BookOf(list)[list[k].id] = list[k].target
  <2> DEFINE c == CHOOSE j \in DOMAIN list : list[j].id = list[k].id
  <2>1. c \in DOMAIN list /\ list[c].id = list[k].id
    OBVIOUS
  <2>2. c = k
    BY <1>2, <2>1
  <2>3. BookOf(list)[list[k].id] = list[c].target
    BY DEF BookOf
  <2> QED BY <2>2, <2>3
<1> QED BY <1>3 DEF BookOf

LEMMA SeenIsBook == SeenBook = BookOf(watch_list) /\ SeenBook' = BookOf(watch_list')
BY DEF SeenBook, Ids, BookOf

LEMMA InitBook == SdbInit => Book!Init
<1> SUFFICES ASSUME SdbInit PROVE SeenBook = << >>
  BY DEF Book!Init
<1>1. watch_list = << >>
  BY DEF SdbInit
<1>2. Ids = {}
  BY <1>1 DEF Ids
<1>3. SeenBook = [id \in {} |-> id]
  BY <1>2 DEF SeenBook
<1> QED BY <1>3

LEMMA AddBook ==
  ASSUME SdbInv, NEW target \in Targets, cmd_w(target)
  PROVE  Book!Add(target)
<1> DEFINE list == watch_list
           new  == Added(target, list)
           f    == FreeId(list)
           wp   == WatchPoint(target, list)
           n    == Len(list)
           b    == BookOf(list)
           c    == BookOf(new)
<1>1. watch_list' = new
  BY DEF cmd_w
<1>2. /\ Range(new) = Range(list) \cup {wp}
      /\ IsWatchList(new) /\ InOrder(new)
      /\ IsWatchList(list) /\ InOrder(list)
  BY AddedToList DEF SdbInv
<1>3. /\ f \in 0 .. n
      /\ \A k \in 1 .. n : IF k <= f THEN list[k].id = k - 1 ELSE list[k].id > f
  BY <1>2, FreeIdIsFree
<1>4. wp.id = f /\ wp.target = target
  <2> HIDE DEF f
  <2> QED BY DEF WatchPoint, f
<1>5. /\ DOMAIN b = {list[k].id : k \in DOMAIN list}
      /\ \A k \in DOMAIN list : b[list[k].id] = list[k].target
  BY <1>2, BookOfList
<1>6. /\ DOMAIN c = {new[k].id : k \in DOMAIN new}
      /\ \A k \in DOMAIN new : c[new[k].id] = new[k].target
  BY <1>2, BookOfList
<1>7. DOMAIN list = 1 .. n /\ n \in Nat /\ \A k \in 1 .. n : list[k].id \in Nat
  BY <1>2, ListShape
<1>20. b = BookOf(list) /\ c = BookOf(new)
  OBVIOUS
<1>21. c = [id \in DOMAIN c |-> c[id]]
  BY DEF BookOf
<1> HIDE DEF new, f, wp, n, b, c
<1>8. f \notin DOMAIN b /\ 0 .. f - 1 \subseteq DOMAIN b
  <2>1. \A k \in 1 .. n : list[k].id # f
    BY <1>3, <1>7
  <2>2. ASSUME NEW j \in 0 .. f - 1 PROVE j \in DOMAIN b
    <3>1. j + 1 \in 1 .. n /\ j + 1 <= f /\ (j + 1) - 1 = j
      BY <1>3, <1>7
    <3>2. list[j + 1].id = j
      BY <1>3, <3>1
    <3> QED BY <1>5, <1>7, <3>1, <3>2
  <2> QED BY <1>5, <1>7, <2>1, <2>2
<1>9. \A x \in Range(new) : x.id \in DOMAIN c /\ c[x.id] = x.target
  BY <1>6 DEF Range
<1>10. \A x \in Range(list) : x.id \in DOMAIN b /\ b[x.id] = x.target
  BY <1>5 DEF Range
<1>11. DOMAIN c = DOMAIN b \cup {f}
  <2>1. DOMAIN c = {x.id : x \in Range(new)}
    BY <1>6 DEF Range
  <2>2. DOMAIN b = {x.id : x \in Range(list)}
    BY <1>5 DEF Range
  <2> QED BY <1>2, <1>4, <2>1, <2>2
<1>12. ASSUME NEW id \in DOMAIN b \cup {f}
       PROVE  c[id] = IF id = f THEN target ELSE b[id]
  <2>1. CASE id = f
    BY <1>2, <1>4, <1>9, <2>1
  <2>2. CASE id # f
    <3>1. PICK k \in DOMAIN list : id = list[k].id
      BY <1>5, <2>2
    <3>2. list[k] \in Range(list) /\ list[k] \in Range(new)
      BY <1>2, <3>1 DEF Range
    <3> QED BY <1>9, <1>10, <2>2, <3>1, <3>2
  <2> QED BY <2>1, <2>2
<1>13. c = [k \in DOMAIN b \cup {f} |-> IF k = f THEN target ELSE b[k]]
  BY <1>11, <1>12, <1>21
<1>14. f \in 0 .. Cardinality(DOMAIN b)
  <2> DEFINE h == [k \in 1 .. n |-> list[k].id]
  <2>1. h \in Surjection(1 .. n, DOMAIN b)
    BY <1>5, <1>7 DEF Surjection
  <2>2. IsFiniteSet(DOMAIN b)
    BY <1>7, <2>1, FS_Interval, FS_Surjection
  <2>3. Cardinality(0 .. f - 1) <= Cardinality(DOMAIN b) /\ Cardinality(DOMAIN b) \in Nat
    BY <1>8, <2>2, FS_Subset, FS_CardinalityType
  <2>4. Cardinality(0 .. f - 1) = f
    BY <1>3, <1>7, FS_Interval
  <2> QED BY <1>3, <1>7, <2>3, <2>4
<1>15. SeenBook = b /\ SeenBook' = c
  BY <1>1, <1>20, SeenIsBook
<1>16. Book!Cardinality(DOMAIN b) = Cardinality(DOMAIN b)
  BY DEF Book!Cardinality, Cardinality
<1> QED BY <1>8, <1>13, <1>14, <1>15, <1>16 DEF Book!Add


LEMMA DeleteBook ==
  ASSUME SdbInv, NEW id, cmd_d(id)
  PROVE  id \in DOMAIN SeenBook /\ Book!Delete(id)
<1> DEFINE list == watch_list
           n    == Len(list)
           b    == BookOf(list)
<1>1. PICK i \in DOMAIN list : list[i].id = id /\ watch_list' = RemoveAt(list, i)
  BY DEF cmd_d
<1> DEFINE new == RemoveAt(list, i)
           c   == BookOf(new)
<1>2. IsWatchList(list) /\ InOrder(list)
  BY DEF SdbInv
<1>3. /\ DOMAIN new = 1 .. n - 1
      /\ \A k \in 1 .. n - 1 : new[k] = IF k < i THEN list[k] ELSE list[k + 1]
      /\ IsWatchList(new) /\ InOrder(new)
  BY <1>2, RemovedFromList
<1>4. /\ DOMAIN b = {list[k].id : k \in DOMAIN list}
      /\ \A k \in DOMAIN list : b[list[k].id] = list[k].target
  BY <1>2, BookOfList
<1>5. /\ DOMAIN c = {new[k].id : k \in DOMAIN new}
      /\ \A k \in DOMAIN new : c[new[k].id] = new[k].target
  BY <1>3, BookOfList
<1>6. /\ DOMAIN list = 1 .. n /\ n \in Nat /\ i \in 1 .. n
      /\ \A k \in 1 .. n : list[k].id \in Nat
      /\ \A j, k \in 1 .. n : j < k => list[j].id < list[k].id
  BY <1>1, <1>2, ListShape DEF InOrder
<1>7. c = [k \in DOMAIN c |-> c[k]] /\ b = BookOf(list) /\ c = BookOf(new)
  BY DEF BookOf
<1>8. new = RemoveAt(list, i)
  OBVIOUS
<1> HIDE DEF new, n, b, c
<1>9. ASSUME NEW k \in 1 .. n - 1
      PROVE  \E j \in 1 .. n : j # i /\ new[k] = list[j]
  <2>1. CASE k < i
    BY <1>3, <1>6, <2>1
  <2>2. CASE ~(k < i)
    <3>1. k + 1 \in 1 .. n /\ k + 1 # i
      BY <1>6, <2>2
    <3> QED BY <1>3, <2>2, <3>1
  <2> QED BY <2>1, <2>2
<1>10. ASSUME NEW j \in 1 .. n, j # i
       PROVE  \E k \in 1 .. n - 1 : new[k] = list[j]
  <2>1. CASE j < i
    <3>1. j \in 1 .. n - 1
      BY <1>6, <2>1
    <3> QED BY <1>3, <2>1, <3>1
  <2>2. CASE ~(j < i)
    <3>1. j - 1 \in 1 .. n - 1 /\ ~(j - 1 < i) /\ (j - 1) + 1 = j
      BY <1>6, <1>10, <2>2
    <3> QED BY <1>3, <3>1
  <2> QED BY <2>1, <2>2
<1>11. \A j \in 1 .. n : list[j].id = id <=> j = i
  <2> SUFFICES ASSUME NEW j \in 1 .. n, list[j].id = id, j # i PROVE FALSE
    BY <1>1
  <2>1. j < i \/ i < j
    BY <1>6
  <2> QED BY <1>1, <1>6, <2>1
<1>12. DOMAIN c = DOMAIN b \ {id}
  <2>1. \A x : x \in DOMAIN c <=> \E k \in 1 .. n - 1 : x = new[k].id
    BY <1>3, <1>5
  <2>2. \A x : x \in DOMAIN b \ {id} <=> \E j \in 1 .. n : j # i /\ x = list[j].id
    BY <1>4, <1>6, <1>11
  <2>3. \A x : (\E k \in 1 .. n - 1 : x = new[k].id) <=> (\E j \in 1 .. n : j # i /\ x = list[j].id)
    BY <1>9, <1>10
  <2> QED BY <2>1, <2>2, <2>3
<1>13. ASSUME NEW x \in DOMAIN b \ {id} PROVE c[x] = b[x]
  <2>1. PICK k \in 1 .. n - 1 : x = new[k].id
    BY <1>3, <1>5, <1>12
  <2>2. PICK j \in 1 .. n : new[k] = list[j]
    BY <1>9
  <2>3. c[x] = new[k].target
    BY <1>3, <1>5, <2>1
  <2>4. b[x] = list[j].target
    BY <1>4, <1>6, <2>1, <2>2
  <2> QED BY <2>2, <2>3, <2>4
<1>14. c = [k \in DOMAIN b \ {id} |-> b[k]]
  BY <1>7, <1>12, <1>13
<1>15. SeenBook = b /\ SeenBook' = c
  BY <1>1, <1>7, <1>8, SeenIsBook
<1>16. id \in DOMAIN b
  BY <1>1, <1>4
<1> QED BY <1>14, <1>15, <1>16 DEF Book!Delete

LEMMA StepOnBook ==
  ASSUME SdbInv, StepOn
  PROVE  SeenBook' = SeenBook
<1> DEFINE new == Updated(watch_list, m')
           list == watch_list
           b == BookOf(list)
           c == BookOf(new)
<1>1. watch_list' = new
  BY DEF StepOn
<1>2. IsWatchList(list) /\ InOrder(list)
  BY DEF SdbInv
<1>3. /\ DOMAIN new = DOMAIN list
      /\ \A k \in DOMAIN list : new[k].id = list[k].id /\ new[k].target = list[k].target
      /\ IsWatchList(new) /\ InOrder(new)
  BY <1>2, UpdatedList
<1>4. c = [k \in DOMAIN c |-> c[k]] /\ b = [k \in DOMAIN b |-> b[k]]
  BY DEF BookOf
<1>5. b = BookOf(list) /\ c = BookOf(new)
  OBVIOUS
<1>6. /\ DOMAIN b = {list[k].id : k \in DOMAIN list}
      /\ \A k \in DOMAIN list : b[list[k].id] = list[k].target
  BY <1>2, BookOfList
<1>7. /\ DOMAIN c = {new[k].id : k \in DOMAIN new}
      /\ \A k \in DOMAIN new : c[new[k].id] = new[k].target
  BY <1>3, BookOfList
<1> HIDE DEF new, b, c
<1>8. DOMAIN c = DOMAIN b
  BY <1>3, <1>6, <1>7
<1>9. ASSUME NEW x \in DOMAIN b PROVE c[x] = b[x]
  <2>1. PICK k \in DOMAIN list : x = list[k].id
    BY <1>6
  <2> QED BY <1>3, <1>6, <1>7, <2>1
<1>10. c = b
  BY <1>4, <1>8, <1>9
<1> QED BY <1>1, <1>5, <1>10, SeenIsBook

LEMMA NextBook ==
  ASSUME SdbInv, [SdbNext]_sdbVars
  PROVE  [Book!Next]_SeenBook
<1>1. ASSUME NEW target \in Targets, cmd_w(target) PROVE Book!Next
  BY <1>1, AddBook DEF Book!Next
<1>2. ASSUME NEW id, cmd_d(id) PROVE Book!Next
  BY <1>2, DeleteBook DEF Book!Next
<1>3. CASE StepOn
  BY <1>3, StepOnBook
<1>4. CASE UNCHANGED watch_list
  BY <1>4 DEF SeenBook, Ids
<1>5. \/ \E target \in Targets : cmd_w(target)
      \/ \E id : cmd_d(id)
      \/ StepOn
      \/ UNCHANGED watch_list
  BY DEF SdbNext, sdbVars, cmd_continue, cmd_si, cmd_trap, cmd_quit, cmd_ls, Round, Fail,
         Finish, Over
<1> QED BY <1>1, <1>2, <1>3, <1>4, <1>5

(* However watchpoints are added, deleted and updated, the list is a book of what
   is watched, each under a number of its own, the least that was free. *)
THEOREM WatchListIsABook == SdbSpec => ImplementsWatchBook
<1>1. SdbInit => Book!Init
  BY InitBook
<1>2. SdbInv /\ [SdbNext]_sdbVars => [Book!Next]_SeenBook
  BY NextBook
<1> QED BY SdbInvariance, <1>1, <1>2, PTL DEF SdbSpec, ImplementsWatchBook, Book!Spec

-----------------------------------------------------------------------------
(* Traps under the debugger: what TrapProof shows of execute_one_step and cmd_trap
   goes for every sequence of commands.  A command that executes makes steps of
   Trap, and all that the others touch of the machine and its traps is that quit
   ends the emulator, whatever runs. *)
LEMMA CommandsAreTraps ==
  ASSUME [SdbNext]_sdbVars
  PROVE  [Next]_vars \/ UNCHANGED <<m, queue, console, active, raised>>
<1>1. CASE StepOn
  BY <1>1 DEF StepOn, Next, Step
<1>2. ASSUME NEW t \in Traps, cmd_trap(t) PROVE Next
  BY <1>2 DEF cmd_trap, Next
<1>3. CASE \/ cmd_continue \/ (\E n \in Counts : cmd_si(n))
           \/ (\E target \in Targets : cmd_w(target))
           \/ (\E id \in 0 .. MaxWatch : cmd_d(id))
           \/ cmd_quit \/ cmd_ls \/ Fail \/ Finish \/ Over \/ UNCHANGED sdbVars
  BY <1>3 DEF cmd_continue, cmd_si, cmd_w, cmd_d, cmd_quit, cmd_ls, Fail, Finish, Over,
              sdbVars, vars
<1> QED BY <1>1, <1>2, <1>3 DEF SdbNext, Round

(* What a program that keeps to its own has under the debugger. *)
OwnInv(V) == TrapInv /\ ViewInv /\ Numbers(m) /\ User \in V

LEMMA OwnInvInit ==
  ASSUME NEW V, KeepsToItsOwn(V), SdbInit
  PROVE  OwnInv(V)
<1>1. TrapInv /\ ViewInv /\ Numbers(m)
  BY TrapInvInit, ViewInvInit, NumbersInit DEF SdbInit
<1>2. PICK p \in Programs : m = Reset(p)
  BY DEF SdbInit, Init
<1>3. active = <<>> /\ m.code = p
  BY <1>2 DEF SdbInit, Init, Reset
<1>4. User = ProgramView(p, Reset(p).pc, Reset(p).x, Reset(p).mem)
  BY <1>1, <1>2, <1>3, UserIs, OwnView DEF ViewInv
<1> QED BY <1>1, <1>4 DEF KeepsToItsOwn, OwnInv

LEMMA OwnInvStep ==
  ASSUME NEW V, KeepsToItsOwn(V), OwnInv(V), [SdbNext]_sdbVars
  PROVE  OwnInv(V)'
<1>1. TrapInv /\ ViewInv /\ Numbers(m) /\ User \in V
  BY DEF OwnInv
<1>2. WellBehaved /\ KeepsToItsStack
  BY <1>1, OwnIsKept
<1>3. CASE [Next]_vars
  <2>1. TrapInv' /\ ViewInv' /\ Numbers(m')
    BY <1>1, <1>2, <1>3, TrapInvStep, ViewInvStep, NumbersStep
  <2>2. User' \in V
    BY <1>1, <1>2, <1>3, <2>1, OwnIsGoneOnIn
  <2> QED BY <2>1, <2>2 DEF OwnInv
<1>4. CASE UNCHANGED <<m, queue, console, active, raised>>
  <2>1. TrapInv'
    BY <1>1, <1>4 DEF TrapInv
  <2>2. ViewInv' /\ Numbers(m')
    BY <1>1, <1>4 DEF ViewInv
  <2>3. User' = User
    BY <1>1, <1>4, <2>1, <2>2, UserIs, UserWillBe
  <2> QED BY <1>1, <2>1, <2>2, <2>3 DEF OwnInv
<1> QED BY <1>3, <1>4, CommandsAreTraps

(* What the steps of a command show of traps. *)
Unseen == UNCHANGED <<User, queue, active, console, Raises>>

LEMMA OwnIsUndisturbed ==
  ASSUME NEW V, KeepsToItsOwn(V), OwnInv(V), OwnInv(V)', [SdbNext]_sdbVars
  PROVE  /\ m.pc >= 0 /\ m'.pc < 0 => IsEmpty(queue') /\ active' = <<>>
         /\ Promised!Next \/ Unseen
<1>1. TrapInv /\ ViewInv /\ Numbers(m) /\ User \in V /\ TrapInv' /\ ViewInv'
  BY DEF OwnInv
<1>2. WellBehaved /\ KeepsToItsStack
  BY <1>1, OwnIsKept
<1>3. CASE [Next]_vars
  <2>1. m.pc >= 0 /\ m'.pc < 0 => IsEmpty(queue') /\ active' = <<>>
    BY <1>1, <1>2, <1>3, EndsServedStep
  <2>2. Promised!Next \/ UNCHANGED Promised!vars
    BY <1>1, <1>2, <1>3, PromisedStep
  <2>3. UNCHANGED Promised!vars => Unseen
    BY DEF Promised!vars, Unseen, User
  <2> QED BY <2>1, <2>2, <2>3
<1>4. CASE UNCHANGED <<m, queue, console, active, raised>>
  <2>1. User' = User /\ Raises' = Raises
    BY <1>1, <1>4, UserIs, UserWillBe DEF Raises
  <2>2. m.pc \in Int /\ m' = m
    BY <1>1, <1>4 DEF Numbers
  <2> QED BY <1>4, <2>1, <2>2 DEF Unseen
<1> QED BY <1>3, <1>4, CommandsAreTraps

LEMMA CountInvGoesOn ==
  ASSUME TrapInv, TrapInv', WellBehaved, PrintsNoTrap, CountInv, [SdbNext]_sdbVars
  PROVE  CountInv'
<1>1. CASE [Next]_vars
  BY <1>1, CountInvStep
<1>2. CASE UNCHANGED <<m, queue, console, active, raised>>
  BY <1>2 DEF CountInv
<1> QED BY <1>1, <1>2, CommandsAreTraps

(* Whatever commands execute a disciplined program, c or one step at a time, with
   watchpoints that stop it anywhere, also in a handler: services nest by urgency
   on frames that hold what trap_ret needs, and the program does not end before
   they have. *)
THEOREM DebuggedTrapsNest ==
  ASSUME \A p \in Programs : \E inUse : Disciplined(p, inUse)
  PROVE  SdbSpec => []TrapInv /\ []NestedByUrgency /\ EndsServed
<1> DEFINE Inv == OwnInv(FramedViews)
           A   == m.pc >= 0 /\ m'.pc < 0 => IsEmpty(queue') /\ active' = <<>>
<1>1. KeepsToItsOwn(FramedViews)
  BY DisciplineKeepsToItsOwn
<1>2. SdbInit => Inv
  BY <1>1, OwnInvInit
<1>3. Inv /\ [SdbNext]_sdbVars => Inv'
  BY <1>1, OwnInvStep
<1>4. Inv => TrapInv /\ NestedByUrgency
  BY NestedByInv DEF OwnInv
<1>5. Inv /\ Inv' /\ [SdbNext]_sdbVars => [A]_vars
  BY <1>1, OwnIsUndisturbed
<1> HIDE DEF Inv
<1> QED BY <1>2, <1>3, <1>4, <1>5, PTL DEF SdbSpec, EndsServed

(* The program goes on as if there were neither traps nor commands, but that quit
   may end it anywhere: each step is one that TrapService promises, or shows
   nothing. *)
THEOREM DebuggedUnnoticed ==
  ASSUME \A p \in Programs : \E inUse : Disciplined(p, inUse)
  PROVE  SdbSpec => Promised!Init /\ [][Promised!Next \/ Unseen]_(Promised!vars)
<1> DEFINE Inv == OwnInv(FramedViews)
           A   == Promised!Next \/ Unseen
<1>1. KeepsToItsOwn(FramedViews)
  BY DisciplineKeepsToItsOwn
<1>2. SdbInit => Inv
  BY <1>1, OwnInvInit
<1>3. Inv /\ [SdbNext]_sdbVars => Inv'
  BY <1>1, OwnInvStep
<1>4. SdbInit => Promised!Init
  BY PromisedInit DEF SdbInit
<1>5. Inv /\ Inv' /\ [SdbNext]_sdbVars => [A]_(Promised!vars)
  BY <1>1, OwnIsUndisturbed
<1> HIDE DEF Inv
<1> QED BY <1>2, <1>3, <1>4, <1>5, PTL DEF SdbSpec

(* And every trap is served once, if the program makes no system call. *)
THEOREM DebuggedTrapsAreServed ==
  ASSUME \A p \in Programs :
           /\ \E inUse : Disciplined(p, inUse)
           /\ \A k \in Lines(p) : p[k + 1].op # "ecall"
  PROVE  SdbSpec => []ServedExactlyOnce
<1> DEFINE Inv == OwnInv(FramedViews) /\ CountInv
<1>1. KeepsToItsOwn(FramedViews) /\ PrintsNoTrapIn(FramedViews)
  BY DisciplineKeepsToItsOwn, DisciplinePrintsNoTrap
<1>2. SdbInit => Inv
  BY <1>1, OwnInvInit, CountInvInit DEF SdbInit
<1>3. Inv /\ [SdbNext]_sdbVars => Inv'
  <2> SUFFICES ASSUME Inv, [SdbNext]_sdbVars PROVE Inv'
    OBVIOUS
  <2>1. OwnInv(FramedViews)'
    BY <1>1, OwnInvStep
  <2>2. TrapInv /\ TrapInv'
    BY <2>1 DEF OwnInv
  <2>3. WellBehaved /\ PrintsNoTrap
    BY <1>1, OwnIsKept DEF OwnInv
  <2> QED BY <2>1, <2>2, <2>3, CountInvGoesOn
<1>4. Inv => ServedExactlyOnce
  BY CountIsServed DEF OwnInv
<1> HIDE DEF Inv
<1> QED BY <1>2, <1>3, <1>4, PTL DEF SdbSpec

==============================================================================
