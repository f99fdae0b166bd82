---------------------------- MODULE CacheModProof ----------------------------
(***************************************************************************)
(* The inductive invariant of CacheMod, for every number of lines, groups, *)
(* ways and words, what follows from it, what the counters of the levels   *)
(* have to do with each other, and that CacheMod implements FirstTouch.    *)
(***************************************************************************)
EXTENDS CacheMod, CacheGeometryProof

(* The fields of an activation record. *)
LEMMA FrameFields ==
  ASSUME TypeOK, NEW lv \in 1 .. Mem, call[lv] # Idle
  PROVE  /\ call[lv] \in Frame
         /\ call[lv].phase \in Phases
         /\ call[lv].op \in {"read", "write"}
         /\ call[lv].line \in Lines
         /\ call[lv].off \in Offsets
         /\ call[lv].val \in Words
         /\ call[lv].slot \in Slots
         /\ call[lv].i \in 0 .. LINE_SIZE
BY DEF TypeOK, Frame

LEMMA LevelsType == Levels \subseteq 1 .. Mem /\ \A lv \in Levels : lv + 1 \in 1 .. Mem
BY DEF Levels, Mem

LEMMA ZeroSlot == <<0, 0>> \in Slots /\ 0 \in Offsets
BY GeometryAssumption DEF Slots, Ways, Offsets

LEMMA InvokeType ==
  ASSUME NEW op \in {"read", "write"}, NEW l \in Lines, NEW o \in Offsets, NEW v \in Words
  PROVE  Invoke(op, l, o, v) \in Frame /\ Invoke(op, l, o, v) # Idle
BY ZeroSlot, GeometryAssumption, CacheModAssumption DEF Invoke, Frame, Phases

LEMMA ReturnType ==
  ASSUME NEW c \in Frame, NEW v \in Words
  PROVE  /\ Return(c, v) \in Frame /\ Return(c, v) # Idle
         /\ Return(c, v).phase = "ret" /\ Return(c, v).val = v
         /\ Return(c, v).line = c.line /\ Return(c, v).off = c.off
         /\ Return(c, v).op = c.op /\ Return(c, v).i = c.i
BY CacheModAssumption DEF Return, Frame, Phases

(* A level that is not in load_line has not called the next one. *)
LEMMA NotCalling ==
  ASSUME StackOK, NEW lv \in Levels, ~In(lv, "load")
  PROVE  call[lv + 1] = Idle
BY DEF StackOK

(* Only L1 is asked to store. *)
LEMMA StoresAreL1s ==
  ASSUME StackOK, NEW lv \in 1 .. Mem, call[lv] # Idle, call[lv].op = "write",
         TypeOK
  PROVE  lv = 1
<1> SUFFICES ASSUME lv # 1 PROVE FALSE
  OBVIOUS
<1>1. lv - 1 \in Levels /\ lv = (lv - 1) + 1
  BY DEF Levels, Mem
<1> QED BY <1>1 DEF StackOK

-----------------------------------------------------------------------------
LEMMA InitIInv == Init => IInv
<1> SUFFICES ASSUME Init PROVE IInv
  OBVIOUS
<1> USE GeometryAssumption, CacheModAssumption
<1>1. TypeOK
  BY DEF Init, TypeOK, Line, Levels, Mem
<1>2. \A lv \in 1 .. Mem : call[lv] = Idle
  BY DEF Init
<1>3. \A lv \in 1 .. Mem, p \in Phases : ~In(lv, p)
  BY <1>2 DEF In
<1>4. StoresNeverReachMemory
  BY DEF Init, StoresNeverReachMemory
<1>5. NeverDirty
  BY <1>3 DEF Init, NeverDirty, Phases
<1>6. StackOK
  BY <1>2, <1>3, LevelsType DEF StackOK, Phases
<1>7. MapsOK
  BY DEF Init, MapsOK
<1>8. Inclusion
  BY DEF Init, Inclusion, Levels
<1>9. LoadedIsImage /\ SourceIsImage /\ ReturnIsImage
  BY <1>3, LevelsType DEF LoadedIsImage, SourceIsImage, ReturnIsImage, Phases, Levels, Mem
<1> QED BY <1>1, <1>4, <1>5, <1>6, <1>7, <1>8, <1>9 DEF IInv

-----------------------------------------------------------------------------
LEMMA AccessStep ==
  ASSUME IInv, NEW op \in {"read", "write"}, NEW l \in Lines, NEW o \in Offsets,
         NEW v \in Words, Access(op, l, o, v)
  PROVE  IInv'
<1> DEFINE f == Invoke(op, l, o, v)
<1> USE DEF IInv
<1>1. /\ call[1] = Idle
      /\ call' = [call EXCEPT ![1] = f]
      /\ UNCHANGED <<mem, data, valid, dirty, line2memAddr, inCache, addr2line,
                     lfu_cnt, cnt, hit>>
  BY DEF Access, tables
<1>2. f \in Frame /\ f # Idle /\ f.phase = "enter" /\ f.i = 0
  BY InvokeType DEF Invoke
<1>3. call'[1] = f /\ \A k \in 2 .. Mem : call'[k] = call[k]
  BY <1>1 DEF TypeOK, Mem
<1>4. /\ \A p : In(1, p)' <=> p = "enter"
      /\ \A k \in 2 .. Mem : \A p : In(k, p)' <=> In(k, p)
  BY <1>2, <1>3 DEF In
<1>5. ~In(1, "load") /\ call[2] = Idle
  BY <1>1, NotCalling DEF In, Levels
<1>6. TypeOK'
  BY <1>1, <1>2 DEF TypeOK, Mem
<1>7. StoresNeverReachMemory' /\ MapsOK'
  BY <1>1 DEF StoresNeverReachMemory, MapsOK
<1>8. NeverDirty'
  BY <1>1, <1>4 DEF NeverDirty, Mem
<1>9. StackOK'
  BY <1>2, <1>3, <1>4, <1>5 DEF StackOK, Levels, Mem
<1>10. Inclusion'
  BY <1>1, <1>3, <1>4, <1>5 DEF Inclusion, Mem
<1>11. LoadedIsImage'
  BY <1>1, <1>3, <1>4 DEF LoadedIsImage, Levels, Mem
<1>12. SourceIsImage'
  BY <1>1, <1>3, <1>4 DEF SourceIsImage, Mem
<1>13. ReturnIsImage'
  BY <1>1, <1>3, <1>4 DEF ReturnIsImage
<1> QED BY <1>6, <1>7, <1>8, <1>9, <1>10, <1>11, <1>12, <1>13

LEMMA DeliverStep ==
  ASSUME IInv, Deliver
  PROVE  IInv'
<1> USE DEF IInv
<1>1. /\ In(1, "ret")
      /\ call' = [call EXCEPT ![1] = Idle]
      /\ UNCHANGED <<mem, data, valid, dirty, line2memAddr, inCache, addr2line,
                     lfu_cnt, cnt, hit>>
  BY DEF Deliver, tables
<1>2. call'[1] = Idle /\ \A k \in 2 .. Mem : call'[k] = call[k]
  BY <1>1 DEF TypeOK, Mem
<1>3. /\ \A p : ~In(1, p)'
      /\ \A k \in 2 .. Mem : \A p : In(k, p)' <=> In(k, p)
  BY <1>2 DEF In
<1>4. ~In(1, "load") /\ call[2] = Idle
  BY <1>1, NotCalling DEF In, Levels
<1>5. TypeOK'
  BY <1>1 DEF TypeOK, Mem
<1>6. StoresNeverReachMemory' /\ MapsOK'
  BY <1>1 DEF StoresNeverReachMemory, MapsOK
<1>7. NeverDirty'
  BY <1>1, <1>3 DEF NeverDirty, Mem
<1>8. StackOK'
  BY <1>2, <1>3, <1>4 DEF StackOK, Levels, Mem
<1>9. Inclusion'
  BY <1>1, <1>2, <1>3, <1>4 DEF Inclusion, Mem
<1>10. LoadedIsImage'
  BY <1>1, <1>2, <1>3 DEF LoadedIsImage, Levels, Mem
<1>11. SourceIsImage'
  BY <1>1, <1>2, <1>3 DEF SourceIsImage, Mem
<1>12. ReturnIsImage'
  BY <1>1, <1>2, <1>3 DEF ReturnIsImage
<1> QED BY <1>5, <1>6, <1>7, <1>8, <1>9, <1>10, <1>11, <1>12

LEMMA MissStep ==
  ASSUME IInv, NEW lv \in Levels, Miss(lv)
  PROVE  IInv'
<1> USE DEF IInv
<1> DEFINE c == call[lv]
           target == TargetLine(valid[lv], lfu_cnt[lv], c.line)
           f == [c EXCEPT !.phase = "load", !.slot = target]
<1>1. lv \in 1 .. Mem /\ c \in Frame /\ c # Idle /\ c.phase = "enter" /\ c.i = 0
  BY LevelsType, FrameFields DEF Miss, In, StackOK
<1>2. target \in {Group(c.line)} \X Ways /\ target \in Slots
  <2>1. lfu_cnt[lv] \in [Slots -> Nat] /\ c.line \in Lines
    BY <1>1, FrameFields DEF TypeOK
  <2> QED BY <2>1, TargetInGroup
<1>3. /\ ~inCache[lv][c.line]
      /\ call' = [call EXCEPT ![lv] = f]
      /\ cnt' = [cnt EXCEPT ![lv] = @ + 1]
      /\ UNCHANGED <<mem, data, valid, dirty, line2memAddr, inCache, addr2line,
                     lfu_cnt, hit>>
  BY <1>2 DEF Miss, tables, NeverDirty
<1>4. /\ f \in Frame /\ f # Idle /\ f.phase = "load" /\ f.slot = target /\ f.i = 0
      /\ f.op = c.op /\ f.line = c.line /\ f.off = c.off
  BY <1>1, <1>2, CacheModAssumption DEF Frame, Phases
<1>5. call'[lv] = f /\ \A k \in 1 .. Mem : k # lv => call'[k] = call[k]
  BY <1>1, <1>3 DEF TypeOK
<1>6. /\ \A p : In(lv, p)' <=> p = "load"
      /\ \A k \in 1 .. Mem : \A p : k # lv => (In(k, p)' <=> In(k, p))
  BY <1>4, <1>5 DEF In
<1>7. ~In(lv, "load") /\ call[lv + 1] = Idle
  BY <1>1, NotCalling DEF In
<1>8. TypeOK'
  <2>1. cnt' \in [Levels -> Nat]
    BY <1>3 DEF TypeOK
  <2>2. call' \in [1 .. Mem -> Frame \cup {Idle}]
    BY <1>1, <1>3, <1>4 DEF TypeOK
  <2> QED BY <1>3, <2>1, <2>2 DEF TypeOK
<1>9. StoresNeverReachMemory' /\ MapsOK'
  BY <1>3 DEF StoresNeverReachMemory, MapsOK
<1>10. NeverDirty'
  BY <1>3, <1>6 DEF NeverDirty
<1>11. StackOK'
  <2>1. \A k \in 1 .. Mem : In(k, "enter")' => call'[k].i = 0
    BY <1>5, <1>6 DEF StackOK
  <2>2. ASSUME NEW k \in Levels, call'[k + 1] # Idle
        PROVE  /\ In(k, "load")'
               /\ call'[k].i < LINE_SIZE
               /\ call'[k + 1].op = "read"
               /\ call'[k + 1].line = call'[k].line
               /\ call'[k + 1].off = call'[k].i
    <3>1. k + 1 \in 1 .. Mem /\ k \in 1 .. Mem /\ k # k + 1
      BY LevelsType DEF Levels
    <3>2. CASE k = lv
      BY <1>5, <1>7, <2>2, <3>1, <3>2
    <3>3. CASE k + 1 = lv
      <4>1. /\ In(k, "load") /\ call[k].i < LINE_SIZE
            /\ c.op = "read" /\ c.line = call[k].line /\ c.off = call[k].i
        BY <1>1, <3>3 DEF StackOK
      <4>2. call'[k] = call[k] /\ In(k, "load")' /\ call'[k + 1] = f
        BY <1>5, <1>6, <3>1, <3>3, <4>1
      <4> QED BY <1>4, <4>1, <4>2
    <3>4. CASE k # lv /\ k + 1 # lv
      BY <1>5, <1>6, <2>2, <3>1, <3>4 DEF StackOK
    <3> QED BY <3>2, <3>3, <3>4
  <2> QED BY <2>1, <2>2 DEF StackOK
<1>12. Inclusion'
  BY <1>3, <1>5, <1>6, <1>7 DEF Inclusion, Levels, Mem
<1>13. LoadedIsImage'
  <2> SUFFICES ASSUME NEW k \in Levels, In(k, "load")'
               PROVE  /\ ~inCache'[k][call'[k].line]
                      /\ call'[k].slot \in {Group(call'[k].line)} \X Ways
                      /\ \A o \in Offsets : o < call'[k].i =>
                           data'[k][call'[k].slot][o] = Image[call'[k].line][o]
    BY DEF LoadedIsImage
  <2>1. CASE k = lv
    <3>1. \A o \in Offsets : ~(o < 0)
      BY GeometryAssumption DEF Offsets
    <3> QED BY <1>2, <1>3, <1>4, <1>5, <2>1, <3>1
  <2>2. CASE k # lv
    BY <1>3, <1>5, <1>6, <2>2, LevelsType DEF LoadedIsImage
  <2> QED BY <2>1, <2>2
<1>14. SourceIsImage'
  <2>1. lv \in {1, 2} => ~inCache[lv + 1][c.line]
    BY <1>1, <1>3, <1>7, FrameFields DEF Inclusion
  <2> QED BY <1>3, <1>4, <1>5, <1>6, <2>1 DEF SourceIsImage, Levels, Mem
<1>15. ReturnIsImage'
  BY <1>3, <1>5, <1>6 DEF ReturnIsImage, Levels, Mem
<1> QED BY <1>8, <1>9, <1>10, <1>11, <1>12, <1>13, <1>14, <1>15

LEMMA CallNextStep ==
  ASSUME IInv, NEW lv \in Levels, CallNext(lv)
  PROVE  IInv'
<1> USE DEF IInv
<1> DEFINE c == call[lv]
           f == Invoke("read", c.line, c.i, AnyWord)
<1>1. /\ lv \in 1 .. Mem /\ lv + 1 \in 1 .. Mem /\ c \in Frame
      /\ In(lv, "load") /\ c.i < LINE_SIZE /\ call[lv + 1] = Idle
  BY LevelsType, FrameFields DEF CallNext, CallNextUpTo, In, NeverDirty
<1>2. /\ call' = [call EXCEPT ![lv + 1] = f]
      /\ UNCHANGED <<mem, data, valid, dirty, line2memAddr, inCache, addr2line,
                     lfu_cnt, cnt, hit>>
  BY <1>1 DEF CallNext, CallNextUpTo, WordCall, In, tables
<1>3. /\ f \in Frame /\ f # Idle /\ f.phase = "enter" /\ f.i = 0
      /\ f.op = "read" /\ f.line = c.line /\ f.off = c.i
  <2>1. c.line \in Lines /\ c.i \in Offsets /\ AnyWord \in Words
    BY <1>1, GeometryAssumption DEF Frame, Offsets, AnyWord
  <2> QED BY <2>1, InvokeType DEF Invoke
<1>4. call'[lv + 1] = f /\ \A k \in 1 .. Mem : k # lv + 1 => call'[k] = call[k]
  BY <1>1, <1>2 DEF TypeOK
<1>5. /\ \A p : In(lv + 1, p)' <=> p = "enter"
      /\ \A p : ~In(lv + 1, p)
      /\ \A k \in 1 .. Mem : \A p : k # lv + 1 => (In(k, p)' <=> In(k, p))
  BY <1>1, <1>3, <1>4 DEF In
<1>6. lv + 1 \in Levels => call[lv + 2] = Idle
  <2>1. lv + 1 \in Levels => call[(lv + 1) + 1] = Idle
    BY <1>5, NotCalling
  <2> QED BY <2>1 DEF Levels
<1>7. TypeOK'
  BY <1>1, <1>2, <1>3 DEF TypeOK
<1>8. StoresNeverReachMemory' /\ MapsOK'
  BY <1>2 DEF StoresNeverReachMemory, MapsOK
<1>9. NeverDirty'
  BY <1>1, <1>2, <1>5 DEF NeverDirty
<1>10. StackOK'
  BY <1>1, <1>3, <1>4, <1>5, <1>6 DEF StackOK, Levels, Mem
<1>11. Inclusion'
  BY <1>2, <1>4, <1>5 DEF Inclusion, Levels, Mem
<1>12. LoadedIsImage'
  BY <1>2, <1>4, <1>5 DEF LoadedIsImage, Levels, Mem
<1>13. SourceIsImage'
  BY <1>2, <1>4, <1>5 DEF SourceIsImage, Levels, Mem
<1>14. ReturnIsImage'
  BY <1>2, <1>4, <1>5 DEF ReturnIsImage, Levels, Mem
<1> QED BY <1>7, <1>8, <1>9, <1>10, <1>11, <1>12, <1>13, <1>14

(* A call that returns leaves the call stack in order. *)
LEMMA ReturnKeepsStack ==
  ASSUME TypeOK, StackOK, NEW lv \in 1 .. Mem, NEW v \in Words,
         call[lv] # Idle, lv \in Levels => call[lv + 1] = Idle,
         call' = [call EXCEPT ![lv] = Return(call[lv], v)]
  PROVE  /\ StackOK'
         /\ call' \in [1 .. Mem -> Frame \cup {Idle}]
         /\ call'[lv] = Return(call[lv], v)
         /\ \A k \in 1 .. Mem : k # lv => call'[k] = call[k]
         /\ \A p : In(lv, p)' <=> p = "ret"
         /\ \A k \in 1 .. Mem : \A p : k # lv => (In(k, p)' <=> In(k, p))
<1> DEFINE c == call[lv]
           f == Return(c, v)
<1>1. /\ f \in Frame /\ f # Idle /\ f.phase = "ret"
      /\ f.op = c.op /\ f.line = c.line /\ f.off = c.off
  BY FrameFields, ReturnType
<1>2. call' \in [1 .. Mem -> Frame \cup {Idle}]
  BY <1>1 DEF TypeOK
<1>3. call'[lv] = f /\ \A k \in 1 .. Mem : k # lv => call'[k] = call[k]
  BY DEF TypeOK
<1>4. /\ \A p : In(lv, p)' <=> p = "ret"
      /\ \A k \in 1 .. Mem : \A p : k # lv => (In(k, p)' <=> In(k, p))
  BY <1>1, <1>3 DEF In
<1>5. \A k \in 1 .. Mem : In(k, "enter")' => call'[k].i = 0
  BY <1>3, <1>4 DEF StackOK
<1>6. ASSUME NEW k \in Levels, call'[k + 1] # Idle
      PROVE  /\ In(k, "load")'
             /\ call'[k].i < LINE_SIZE
             /\ call'[k + 1].op = "read"
             /\ call'[k + 1].line = call'[k].line
             /\ call'[k + 1].off = call'[k].i
  <2>1. k + 1 \in 1 .. Mem /\ k \in 1 .. Mem /\ k # k + 1
    BY LevelsType DEF Levels
  <2>2. CASE k = lv
    BY <1>3, <1>6, <2>1, <2>2
  <2>3. CASE k + 1 = lv
    <3>1. /\ In(k, "load") /\ call[k].i < LINE_SIZE
          /\ c.op = "read" /\ c.line = call[k].line /\ c.off = call[k].i
      BY <2>3 DEF StackOK
    <3>2. call'[k] = call[k] /\ In(k, "load")' /\ call'[k + 1] = f
      BY <1>3, <1>4, <2>1, <2>3, <3>1
    <3> QED BY <1>1, <3>1, <3>2
  <2>4. CASE k # lv /\ k + 1 # lv
    BY <1>3, <1>4, <1>6, <2>1, <2>4 DEF StackOK
  <2> QED BY <2>2, <2>3, <2>4
<1>7. StackOK'
  BY <1>5, <1>6 DEF StackOK
<1> QED BY <1>2, <1>3, <1>4, <1>7

(* What the three invariants about loads ask of a level is kept by a step that
   changes neither the level's call nor what its conjuncts read. *)
LEMMA LoadedKept ==
  ASSUME LoadedIsImage, NEW k \in Levels, In(k, "load"),
         call'[k] = call[k], data'[k] = data[k], inCache'[k] = inCache[k]
  PROVE  LET c == call'[k] IN
         /\ ~inCache'[k][c.line]
         /\ c.slot \in {Group(c.line)} \X Ways
         /\ \A o \in Offsets : o < c.i => data'[k][c.slot][o] = Image[c.line][o]
BY DEF LoadedIsImage

LEMMA SourceKept ==
  ASSUME SourceIsImage, NEW k \in {1, 2}, In(k, "load"),
         call'[k] = call[k], data'[k + 1] = data[k + 1],
         inCache'[k + 1] = inCache[k + 1], addr2line'[k + 1] = addr2line[k + 1]
  PROVE  LET l == call'[k].line IN
         IF inCache'[k + 1][l]
         THEN data'[k + 1][addr2line'[k + 1][l]] = Image[l]
         ELSE call'[k].i = 0
BY DEF SourceIsImage

LEMMA ReturnKept ==
  ASSUME ReturnIsImage, NEW k \in 2 .. Mem, In(k, "ret"), call'[k] = call[k],
         k # Mem => inCache'[k] = inCache[k]
  PROVE  /\ call'[k].val = Image[call'[k].line][call'[k].off]
         /\ k # Mem => inCache'[k][call'[k].line]
BY DEF ReturnIsImage

LEMMA MemStep ==
  ASSUME IInv, MemAccess
  PROVE  IInv'
<1> USE DEF IInv
<1> DEFINE c == call[Mem]
           v == mem[c.line][c.off]
<1>1. Mem \in 1 .. Mem /\ Mem \notin Levels /\ c # Idle /\ In(Mem, "enter")
  BY DEF MemAccess, In, Mem, Levels
<1>2. c \in Frame /\ c.line \in Lines /\ c.off \in Offsets
  BY <1>1, FrameFields
<1>3. c.op # "write"
  BY <1>1, StoresAreL1s DEF Mem
<1>4. /\ call' = [call EXCEPT ![Mem] = Return(c, v)]
      /\ UNCHANGED <<mem, data, valid, dirty, line2memAddr, inCache, addr2line,
                     lfu_cnt, cnt, hit>>
  BY <1>3 DEF MemAccess, tables
<1>5. v = Image[c.line][c.off] /\ v \in Words
  BY <1>2, GeometryAssumption DEF StoresNeverReachMemory, Line
<1>6. /\ StackOK'
      /\ call' \in [1 .. Mem -> Frame \cup {Idle}]
      /\ call'[Mem] = Return(c, v)
      /\ \A k \in 1 .. Mem : k # Mem => call'[k] = call[k]
      /\ \A p : In(Mem, p)' <=> p = "ret"
      /\ \A k \in 1 .. Mem : \A p : k # Mem => (In(k, p)' <=> In(k, p))
  BY <1>1, <1>4, <1>5, ReturnKeepsStack
<1>7. TypeOK'
  BY <1>4, <1>6 DEF TypeOK
<1>8. StoresNeverReachMemory' /\ MapsOK'
  BY <1>4 DEF StoresNeverReachMemory, MapsOK
<1>9. NeverDirty'
  BY <1>4, <1>6 DEF NeverDirty
<1>10. Inclusion'
  BY <1>4, <1>6 DEF Inclusion, Mem
<1>11. LoadedIsImage'
  <2>1. \A k \in Levels : /\ In(k, "load")' => In(k, "load")
                          /\ call'[k] = call[k]
    BY <1>6, LevelsType DEF Levels, Mem
  <2> QED BY <1>4, <2>1, LoadedKept DEF LoadedIsImage
<1>12. SourceIsImage'
  <2>1. \A k \in {1, 2} : /\ In(k, "load")' => In(k, "load")
                          /\ call'[k] = call[k]
    BY <1>6 DEF Mem
  <2> QED BY <1>4, <2>1, SourceKept DEF SourceIsImage
<1>13. ReturnIsImage'
  <2> SUFFICES ASSUME NEW k \in 2 .. Mem, In(k, "ret")'
               PROVE  /\ call'[k].val = Image[call'[k].line][call'[k].off]
                      /\ k # Mem => inCache'[k][call'[k].line]
    BY DEF ReturnIsImage
  <2>1. CASE k = Mem
    <3>1. /\ Return(c, v).val = v
          /\ Return(c, v).line = c.line /\ Return(c, v).off = c.off
      BY <1>2, <1>5, ReturnType
    <3> QED BY <1>5, <1>6, <2>1, <3>1
  <2>2. CASE k # Mem
    <3>1. call'[k] = call[k] /\ In(k, "ret") /\ inCache' = inCache
      BY <1>4, <1>6, <2>2 DEF Mem
    <3> QED BY <3>1, ReturnKept
  <2> QED BY <2>1, <2>2
<1> QED BY <1>6, <1>7, <1>8, <1>9, <1>10, <1>11, <1>12, <1>13

LEMMA HitStep ==
  ASSUME IInv, NEW lv \in Levels, Hit(lv)
  PROVE  IInv'
<1> USE DEF IInv
<1> DEFINE c == call[lv]
           s == addr2line[lv][c.line]
           v == IF c.op = "write" THEN c.val ELSE data[lv][s][c.off]
<1>1. lv \in 1 .. Mem /\ c # Idle /\ In(lv, "enter") /\ inCache[lv][c.line]
  BY LevelsType DEF Hit, HitCounting, In
<1>2. /\ c \in Frame /\ c.line \in Lines /\ c.off \in Offsets /\ c.val \in Words
      /\ c.op \in {"read", "write"}
  BY <1>1, FrameFields
<1>3. s \in Slots
  BY <1>1, <1>2, GroupType DEF MapsOK, Slots
<1>4. /\ call' = [call EXCEPT ![lv] = Return(c, v)]
      /\ data' = IF c.op = "write" THEN [data EXCEPT ![lv][s][c.off] = c.val] ELSE data
      /\ cnt' = [cnt EXCEPT ![lv] = cnt[lv] + 1]
      /\ hit' = [hit EXCEPT ![lv] = @ + 1]
      /\ lfu_cnt' = [lfu_cnt EXCEPT ![lv][s] = lfu_cnt[lv][s] + 1]
      /\ UNCHANGED <<mem, valid, dirty, line2memAddr, inCache, addr2line>>
  BY DEF Hit, HitCounting, Uses, Serve, tables
<1>5. v \in Words
  BY <1>2, <1>3 DEF TypeOK, Line
<1>6. ~In(lv, "load") /\ call[lv + 1] = Idle
  BY <1>1, NotCalling DEF In
<1>7. /\ StackOK'
      /\ call' \in [1 .. Mem -> Frame \cup {Idle}]
      /\ call'[lv] = Return(c, v)
      /\ \A k \in 1 .. Mem : k # lv => call'[k] = call[k]
      /\ \A p : In(lv, p)' <=> p = "ret"
      /\ \A k \in 1 .. Mem : \A p : k # lv => (In(k, p)' <=> In(k, p))
  BY <1>1, <1>4, <1>5, <1>6, ReturnKeepsStack
<1>8. c.op = "write" => lv = 1
  BY <1>1, StoresAreL1s
<1>9. \A k \in Levels : k # lv => data'[k] = data[k]
  <2>1. CASE c.op = "write"
    BY <1>4, <2>1 DEF TypeOK
  <2>2. CASE c.op # "write"
    BY <1>4, <2>2
  <2> QED BY <2>1, <2>2
<1>10. TypeOK'
  <2>1. data' \in [Levels -> [Slots -> Line]]
    BY <1>2, <1>3, <1>4 DEF TypeOK, Line
  <2>2. cnt' \in [Levels -> Nat] /\ hit' \in [Levels -> Nat]
    BY <1>4 DEF TypeOK
  <2>3. lfu_cnt' \in [Levels -> [Slots -> Nat]]
    BY <1>3, <1>4 DEF TypeOK
  <2> QED BY <1>4, <1>7, <2>1, <2>2, <2>3 DEF TypeOK
<1>11. StoresNeverReachMemory' /\ MapsOK'
  BY <1>4 DEF StoresNeverReachMemory, MapsOK
<1>12. NeverDirty'
  BY <1>4, <1>7 DEF NeverDirty
<1>13. Inclusion'
  <2> SUFFICES ASSUME NEW k \in {1, 2}, NEW l \in Lines
               PROVE  /\ inCache'[k][l] => inCache'[k + 1][l]
                      /\ inCache'[k + 1][l] => \/ inCache'[k][l]
                                               \/ In(k, "load")' /\ call'[k].line = l
    BY DEF Inclusion
  <2>1. In(k, "load") => In(k, "load")' /\ call'[k] = call[k]
    BY <1>6, <1>7 DEF Mem
  <2> QED BY <1>4, <2>1 DEF Inclusion
<1>14. LoadedIsImage'
  <2>1. ASSUME NEW k \in Levels, In(k, "load")'
        PROVE  k # lv /\ In(k, "load") /\ call'[k] = call[k]
    BY <1>7, <2>1, LevelsType
  <2> QED BY <1>4, <1>9, <2>1, LoadedKept DEF LoadedIsImage
<1>15. SourceIsImage'
  <2>1. ASSUME NEW k \in {1, 2}, In(k, "load")'
        PROVE  /\ k \in Levels /\ k + 1 \in Levels /\ k # lv
               /\ In(k, "load") /\ call'[k] = call[k]
    BY <1>7, <2>1 DEF Levels, Mem
  <2>2. ASSUME NEW k \in {1, 2}, In(k, "load")'
        PROVE  data'[k + 1] = data[k + 1]
    <3>1. CASE k + 1 = lv
      BY <1>4, <1>8, <3>1
    <3>2. CASE k + 1 # lv
      BY <1>9, <2>1, <2>2, <3>2
    <3> QED BY <3>1, <3>2
  <2> QED BY <1>4, <2>1, <2>2, SourceKept DEF SourceIsImage
<1>16. ReturnIsImage'
  <2> SUFFICES ASSUME NEW k \in 2 .. Mem, In(k, "ret")'
               PROVE  /\ call'[k].val = Image[call'[k].line][call'[k].off]
                      /\ k # Mem => inCache'[k][call'[k].line]
    BY DEF ReturnIsImage
  <2>1. CASE k = lv
    <3>1. lv - 1 \in {1, 2} /\ lv - 1 \in Levels /\ (lv - 1) + 1 = lv /\ c.op # "write"
      BY <1>8, <2>1 DEF Levels, Mem
    <3>2. In(lv - 1, "load") /\ call[lv - 1].line = c.line
      BY <1>1, <3>1 DEF StackOK
    <3>3. data[lv][s] = Image[c.line]
      BY <1>1, <3>1, <3>2 DEF SourceIsImage
    <3>4. /\ Return(c, v).val = v
          /\ Return(c, v).line = c.line /\ Return(c, v).off = c.off
      BY <1>2, <1>5, ReturnType
    <3>5. v = Image[c.line][c.off]
      BY <3>1, <3>3
    <3> QED BY <1>1, <1>4, <1>7, <2>1, <3>4, <3>5
  <2>2. CASE k # lv
    <3>1. k \in 1 .. Mem
      BY DEF Mem
    <3>2. call'[k] = call[k] /\ In(k, "ret")
      BY <1>7, <2>2, <3>1
    <3> QED BY <1>4, <3>2, ReturnKept
  <2> QED BY <2>1, <2>2
<1> QED BY <1>7, <1>10, <1>11, <1>12, <1>13, <1>14, <1>15, <1>16

LEMMA ResumeStep ==
  ASSUME IInv, NEW lv \in Levels, Resume(lv)
  PROVE  IInv'
<1> USE DEF IInv
<1> DEFINE c == call[lv]
           d == call[lv + 1]
           f == [c EXCEPT !.i = c.i + 1]
<1>1. /\ lv \in 1 .. Mem /\ lv + 1 \in 1 .. Mem /\ lv + 1 \in 2 .. Mem /\ lv # lv + 1
      /\ c # Idle /\ d # Idle /\ In(lv + 1, "ret") /\ ~In(lv + 1, "load")
  BY DEF Resume, In, Levels, Mem
<1>2. /\ c \in Frame /\ c.line \in Lines /\ c.slot \in Slots /\ c.i \in 0 .. LINE_SIZE
      /\ d.val \in Words
  BY <1>1, FrameFields
<1>3. /\ In(lv, "load") /\ c.phase = "load" /\ c.i < LINE_SIZE
      /\ d.line = c.line /\ d.off = c.i
  BY <1>1 DEF StackOK, In
<1>4. d.val = Image[c.line][c.i] /\ (lv + 1 # Mem => inCache[lv + 1][c.line])
  BY <1>1, <1>3 DEF ReturnIsImage
<1>5. c.i \in Offsets /\ c.i + 1 \in 0 .. LINE_SIZE
  BY <1>2, <1>3, GeometryAssumption DEF Offsets
<1>6. /\ data' = [data EXCEPT ![lv][c.slot][c.i] = d.val]
      /\ call' = [call EXCEPT ![lv] = f, ![lv + 1] = Idle]
      /\ UNCHANGED <<mem, valid, dirty, line2memAddr, inCache, addr2line,
                     lfu_cnt, cnt, hit>>
  BY <1>3 DEF Resume, NextWord, tables
<1>7. /\ f \in Frame /\ f # Idle /\ f.phase = "load" /\ f.i = c.i + 1 /\ f.op = c.op
      /\ f.line = c.line /\ f.off = c.off /\ f.slot = c.slot
  <2>1. f \in Frame /\ f.phase = "load" /\ f.i = c.i + 1 /\ f.op = c.op
        /\ f.line = c.line /\ f.off = c.off /\ f.slot = c.slot
    BY <1>2, <1>3, <1>5 DEF Frame
  <2> QED BY <2>1, CacheModAssumption
<1>8. /\ call'[lv] = f /\ call'[lv + 1] = Idle
      /\ \A k \in 1 .. Mem : k # lv /\ k # lv + 1 => call'[k] = call[k]
  BY <1>1, <1>6 DEF TypeOK
<1>9. /\ \A p : In(lv, p)' <=> p = "load"
      /\ \A p : ~In(lv + 1, p)'
      /\ \A k \in 1 .. Mem : \A p : k # lv /\ k # lv + 1 => (In(k, p)' <=> In(k, p))
  BY <1>7, <1>8 DEF In
<1>10. lv + 1 \in Levels => call[(lv + 1) + 1] = Idle
  BY <1>1, NotCalling
<1>11. \A k \in Levels : k # lv => data'[k] = data[k]
  BY <1>6 DEF TypeOK
<1>12. TypeOK'
  <2>1. data' \in [Levels -> [Slots -> Line]]
    BY <1>2, <1>5, <1>6 DEF TypeOK, Line
  <2>2. call' \in [1 .. Mem -> Frame \cup {Idle}]
    BY <1>1, <1>6, <1>7 DEF TypeOK
  <2> QED BY <1>6, <2>1, <2>2 DEF TypeOK
<1>13. StoresNeverReachMemory' /\ MapsOK'
  BY <1>6 DEF StoresNeverReachMemory, MapsOK
<1>14. NeverDirty'
  BY <1>1, <1>6, <1>9 DEF NeverDirty
<1>15. StackOK'
  <2>1. \A k \in 1 .. Mem : In(k, "enter")' => call'[k].i = 0
    BY <1>8, <1>9 DEF StackOK
  <2>2. ASSUME NEW k \in Levels, call'[k + 1] # Idle
        PROVE  /\ In(k, "load")'
               /\ call'[k].i < LINE_SIZE
               /\ call'[k + 1].op = "read"
               /\ call'[k + 1].line = call'[k].line
               /\ call'[k + 1].off = call'[k].i
    <3>1. k + 1 \in 1 .. Mem /\ k \in 1 .. Mem /\ k # k + 1
      BY LevelsType DEF Levels
    <3>2. k # lv
      BY <1>8, <2>2
    <3>3. CASE k = lv + 1
      <4>1. k + 1 # lv /\ k + 1 # lv + 1
        BY <3>3 DEF Levels
      <4> QED BY <1>8, <1>10, <2>2, <3>1, <3>3, <4>1
    <3>4. CASE k + 1 = lv
      <4>1. k # lv + 1
        BY <3>4 DEF Levels
      <4>2. /\ In(k, "load") /\ call[k].i < LINE_SIZE
            /\ c.op = "read" /\ c.line = call[k].line /\ c.off = call[k].i
        BY <1>1, <3>4 DEF StackOK
      <4>3. call'[k] = call[k] /\ In(k, "load")' /\ call'[k + 1] = f
        BY <1>8, <1>9, <3>1, <3>2, <3>4, <4>1, <4>2
      <4> QED BY <1>7, <4>2, <4>3
    <3>5. CASE k # lv + 1 /\ k + 1 # lv
      <4>1. k + 1 # lv + 1
        BY <3>2 DEF Levels
      <4>2. call'[k] = call[k] /\ call'[k + 1] = call[k + 1]
        BY <1>8, <3>1, <3>2, <3>5, <4>1
      <4> QED BY <1>9, <2>2, <3>1, <3>2, <3>5, <4>2 DEF StackOK
    <3> QED BY <3>3, <3>4, <3>5
  <2> QED BY <2>1, <2>2 DEF StackOK
<1>16. Inclusion'
  <2> SUFFICES ASSUME NEW k \in {1, 2}, NEW l \in Lines
               PROVE  /\ inCache'[k][l] => inCache'[k + 1][l]
                      /\ inCache'[k + 1][l] => \/ inCache'[k][l]
                                               \/ In(k, "load")' /\ call'[k].line = l
    BY DEF Inclusion
  <2>1. In(k, "load") => In(k, "load")' /\ call'[k].line = call[k].line
    <3>1. CASE k = lv
      BY <1>7, <1>8, <1>9, <3>1
    <3>2. CASE k # lv
      BY <1>1, <1>8, <1>9, <3>2 DEF Mem
    <3> QED BY <3>1, <3>2
  <2> QED BY <1>6, <2>1 DEF Inclusion
<1>17. \A k \in 1 .. Mem : \A p : In(k, p)' /\ k # lv => In(k, p) /\ call'[k] = call[k]
  BY <1>8, <1>9
<1>18. LoadedIsImage'
  <2> SUFFICES ASSUME NEW k \in Levels, In(k, "load")'
               PROVE  LET b == call'[k] IN
                      /\ ~inCache'[k][b.line]
                      /\ b.slot \in {Group(b.line)} \X Ways
                      /\ \A o \in Offsets : o < b.i =>
                           data'[k][b.slot][o] = Image[b.line][o]
    BY DEF LoadedIsImage
  <2>1. CASE k = lv
    <3>1. /\ ~inCache[lv][c.line]
          /\ c.slot \in {Group(c.line)} \X Ways
          /\ \A o \in Offsets : o < c.i => data[lv][c.slot][o] = Image[c.line][o]
      BY <1>3 DEF LoadedIsImage
    <3>2. ASSUME NEW o \in Offsets, o < c.i + 1
          PROVE  data'[lv][c.slot][o] = Image[c.line][o]
      <4>1. data'[lv][c.slot] = [data[lv][c.slot] EXCEPT ![c.i] = d.val]
        BY <1>2, <1>6 DEF TypeOK
      <4>2. DOMAIN data[lv][c.slot] = Offsets
        BY <1>2 DEF TypeOK, Line
      <4>3. CASE o = c.i
        BY <1>4, <1>5, <4>1, <4>2, <4>3
      <4>4. CASE o # c.i
        <5>1. o < c.i
          BY <1>5, <3>2, <4>4 DEF Offsets
        <5> QED BY <3>1, <4>1, <4>2, <4>4, <5>1
      <4> QED BY <4>3, <4>4
    <3>3. /\ call'[k].line = c.line /\ call'[k].slot = c.slot
          /\ call'[k].i = c.i + 1 /\ inCache' = inCache
      BY <1>6, <1>7, <1>8, <2>1
    <3> QED BY <2>1, <3>1, <3>2, <3>3
  <2>2. CASE k # lv
    <3>1. In(k, "load") /\ call'[k] = call[k] /\ data'[k] = data[k]
      BY <1>11, <1>17, <2>2, LevelsType
    <3> QED BY <1>6, <3>1, LoadedKept
  <2> QED BY <2>1, <2>2
<1>19. SourceIsImage'
  <2> SUFFICES ASSUME NEW k \in {1, 2}, In(k, "load")'
               PROVE  LET l == call'[k].line IN
                      IF inCache'[k + 1][l]
                      THEN data'[k + 1][addr2line'[k + 1][l]] = Image[l]
                      ELSE call'[k].i = 0
    BY DEF SourceIsImage
  <2>1. k \in Levels /\ k + 1 \in Levels /\ k \in 1 .. Mem /\ k # k + 1
    BY DEF Levels, Mem
  <2>2. CASE k = lv
    <3>1. inCache[lv + 1][c.line] /\ data'[lv + 1] = data[lv + 1]
      BY <1>1, <1>4, <1>11, <2>1, <2>2 DEF Levels, Mem
    <3>2. data[lv + 1][addr2line[lv + 1][c.line]] = Image[c.line]
      BY <1>3, <2>2, <3>1 DEF SourceIsImage
    <3>3. call'[k].line = c.line /\ inCache' = inCache /\ addr2line' = addr2line
      BY <1>6, <1>7, <1>8, <2>2
    <3> QED BY <2>2, <3>1, <3>2, <3>3
  <2>3. CASE k + 1 = lv
    <3>1. In(k, "load") /\ call'[k] = call[k] /\ c.line = call[k].line
      BY <1>1, <1>17, <2>1, <2>3 DEF StackOK
    <3>2. ~inCache[lv][call[k].line] /\ call[k].i = 0
      BY <1>3, <2>3, <3>1 DEF LoadedIsImage, SourceIsImage
    <3> QED BY <1>6, <2>3, <3>1, <3>2
  <2>4. CASE k # lv /\ k + 1 # lv
    <3>1. In(k, "load") /\ call'[k] = call[k] /\ data'[k + 1] = data[k + 1]
      BY <1>11, <1>17, <2>1, <2>4
    <3> QED BY <1>6, <3>1, SourceKept
  <2> QED BY <2>2, <2>3, <2>4
<1>20. ReturnIsImage'
  <2>1. ASSUME NEW k \in 2 .. Mem, In(k, "ret")'
        PROVE  In(k, "ret") /\ call'[k] = call[k]
    <3>1. k \in 1 .. Mem /\ k # lv
      BY <1>9, <2>1 DEF Mem
    <3> QED BY <1>17, <2>1, <3>1
  <2> QED BY <1>6, <2>1, ReturnKept DEF ReturnIsImage
<1> QED BY <1>12, <1>13, <1>14, <1>15, <1>16, <1>18, <1>19, <1>20

LEMMA InstallStep ==
  ASSUME IInv, NEW lv \in Levels, Install(lv)
  PROVE  IInv'
<1> USE DEF IInv
<1> DEFINE c == call[lv]
           s == c.slot
           v == IF c.op = "write" THEN c.val ELSE data[lv][s][c.off]
<1>1. /\ lv \in 1 .. Mem /\ c # Idle /\ In(lv, "load") /\ c.i = LINE_SIZE
      /\ call[lv + 1] = Idle
  <2>1. lv \in 1 .. Mem /\ c # Idle /\ In(lv, "load") /\ c.i = LINE_SIZE
    BY LevelsType DEF Install, InstallWith, In
  <2> QED BY <2>1, GeometryAssumption DEF StackOK
<1>2. /\ c \in Frame /\ c.line \in Lines /\ c.off \in Offsets /\ c.val \in Words
      /\ c.op \in {"read", "write"} /\ s \in Slots
  BY <1>1, FrameFields
<1>3. /\ s \in {Group(c.line)} \X Ways
      /\ \A o \in Offsets : data[lv][s][o] = Image[c.line][o]
  <2>1. \A o \in Offsets : o < c.i
    BY <1>1, GeometryAssumption DEF Offsets
  <2> QED BY <1>1, <2>1 DEF LoadedIsImage
<1>4. data[lv][s] = Image[c.line]
  <2>1. data[lv][s] \in [Offsets -> Words]
    BY <1>2 DEF TypeOK, Line
  <2>2. Image[c.line] \in [Offsets -> Words]
    BY <1>2, GeometryAssumption DEF Line
  <2> QED BY <1>3, <2>1, <2>2
<1>5. /\ call' = [call EXCEPT ![lv] = Return(c, v)]
      /\ data' = IF c.op = "write" THEN [data EXCEPT ![lv][s][c.off] = c.val] ELSE data
      /\ valid' = [valid EXCEPT ![lv][s] = TRUE]
      /\ dirty' = [dirty EXCEPT ![lv][s] = FALSE]
      /\ line2memAddr' = [line2memAddr EXCEPT ![lv][s] = c.line]
      /\ addr2line' = [addr2line EXCEPT ![lv][c.line] = s]
      /\ inCache' = [inCache EXCEPT ![lv] = [inCache[lv] EXCEPT ![c.line] = TRUE]]
      /\ lfu_cnt' = [lfu_cnt EXCEPT ![lv][s] = 1]
      /\ UNCHANGED <<mem, cnt, hit>>
  BY DEF Install, InstallWith, Known, Serve
<1>6. v \in Words
  BY <1>2 DEF TypeOK, Line
<1>7. /\ StackOK'
      /\ call' \in [1 .. Mem -> Frame \cup {Idle}]
      /\ call'[lv] = Return(c, v)
      /\ \A k \in 1 .. Mem : k # lv => call'[k] = call[k]
      /\ \A p : In(lv, p)' <=> p = "ret"
      /\ \A k \in 1 .. Mem : \A p : k # lv => (In(k, p)' <=> In(k, p))
  BY <1>1, <1>5, <1>6, ReturnKeepsStack
<1>8. c.op = "write" => lv = 1
  BY <1>1, StoresAreL1s
<1>9. \A k \in Levels : /\ k # lv => data'[k] = data[k]
                        /\ k # 1 => data'[k] = data[k]
  <2>1. CASE c.op = "write"
    BY <1>5, <1>8, <2>1 DEF TypeOK
  <2>2. CASE c.op # "write"
    BY <1>5, <2>2
  <2> QED BY <2>1, <2>2
<1>10. /\ \A k \in Levels : k # lv => /\ inCache'[k] = inCache[k]
                                     /\ addr2line'[k] = addr2line[k]
       /\ \A l \in Lines : l # c.line => /\ inCache'[lv][l] = inCache[lv][l]
                                         /\ addr2line'[lv][l] = addr2line[lv][l]
       /\ inCache'[lv][c.line] = TRUE /\ addr2line'[lv][c.line] = s
  <2>1. inCache' \in [Levels -> [Lines -> BOOLEAN]]
    BY <1>2, <1>5 DEF TypeOK
  <2>2. /\ \A k \in Levels : k # lv => inCache'[k] = inCache[k]
        /\ \A l \in Lines : l # c.line => inCache'[lv][l] = inCache[lv][l]
        /\ inCache'[lv][c.line] = TRUE
    BY <1>2, <1>5 DEF TypeOK
  <2>3. /\ \A k \in Levels : k # lv => addr2line'[k] = addr2line[k]
        /\ \A l \in Lines : l # c.line => addr2line'[lv][l] = addr2line[lv][l]
        /\ addr2line'[lv][c.line] = s
    BY <1>2, <1>5 DEF TypeOK
  <2> QED BY <2>2, <2>3
<1>11. TypeOK'
  <2>1. data' \in [Levels -> [Slots -> Line]]
    BY <1>2, <1>5 DEF TypeOK, Line
  <2>2. /\ valid' \in [Levels -> [Slots -> BOOLEAN]]
        /\ dirty' \in [Levels -> [Slots -> BOOLEAN]]
    BY <1>2, <1>5 DEF TypeOK
  <2>3. /\ line2memAddr' \in [Levels -> [Slots -> Lines \cup {None}]]
        /\ addr2line' \in [Levels -> [Lines -> Slots \cup {None}]]
    BY <1>2, <1>5 DEF TypeOK
  <2>4. lfu_cnt' \in [Levels -> [Slots -> Nat]]
    BY <1>2, <1>5 DEF TypeOK
  <2>5. inCache' \in [Levels -> [Lines -> BOOLEAN]]
    BY <1>2, <1>5 DEF TypeOK
  <2> QED BY <1>5, <1>7, <2>1, <2>2, <2>3, <2>4, <2>5 DEF TypeOK
<1>12. StoresNeverReachMemory'
  BY <1>5 DEF StoresNeverReachMemory
<1>13. NeverDirty'
  <2>1. \A k \in Levels, t \in Slots : ~dirty'[k][t]
    BY <1>2, <1>5 DEF TypeOK, NeverDirty
  <2>2. \A k \in 1 .. Mem : ~In(k, "wb")'
    BY <1>7 DEF NeverDirty
  <2> QED BY <2>1, <2>2 DEF NeverDirty
<1>14. MapsOK'
  <2> SUFFICES ASSUME NEW k \in Levels, NEW l \in Lines
               PROVE  IF inCache'[k][l] THEN addr2line'[k][l] \in {Group(l)} \X Ways
                                        ELSE addr2line'[k][l] = None
    BY DEF MapsOK
  <2>1. CASE k = lv /\ l = c.line
    BY <1>3, <1>10, <2>1
  <2>2. CASE ~(k = lv /\ l = c.line)
    <3>1. inCache'[k][l] = inCache[k][l] /\ addr2line'[k][l] = addr2line[k][l]
      BY <1>10, <2>2
    <3> QED BY <3>1 DEF MapsOK
  <2> QED BY <2>1, <2>2
<1>15. Inclusion'
  <2> SUFFICES ASSUME NEW k \in {1, 2}, NEW l \in Lines
               PROVE  /\ inCache'[k][l] => inCache'[k + 1][l]
                      /\ inCache'[k + 1][l] => \/ inCache'[k][l]
                                               \/ In(k, "load")' /\ call'[k].line = l
    BY DEF Inclusion
  <2>1. k \in Levels /\ k + 1 \in Levels /\ k \in 1 .. Mem /\ k # k + 1
    BY DEF Levels, Mem
  <2>2. /\ inCache[k][l] => inCache[k + 1][l]
        /\ inCache[k + 1][l] => inCache[k][l] \/ (In(k, "load") /\ call[k].line = l)
    BY DEF Inclusion
  <2>3. CASE k = lv
    <3>1. LINE_SIZE # 0
      BY GeometryAssumption
    <3>2. inCache[lv + 1][c.line]
      BY <1>1, <2>3, <3>1 DEF SourceIsImage
    <3>3. inCache'[k + 1] = inCache[k + 1]
      BY <1>10, <2>1, <2>3
    <3>4. CASE l = c.line
      BY <1>10, <2>3, <3>2, <3>3, <3>4
    <3>5. CASE l # c.line
      BY <1>10, <2>2, <2>3, <3>3, <3>5
    <3> QED BY <3>4, <3>5
  <2>4. CASE k + 1 = lv
    <3>1. In(k, "load") /\ call[k].line = c.line
      BY <1>1, <2>1, <2>4 DEF StackOK
    <3>2. k # lv /\ In(k, "load")' /\ call'[k].line = c.line /\ inCache'[k] = inCache[k]
      BY <1>7, <1>10, <2>1, <2>4, <3>1
    <3>3. CASE l = c.line
      BY <1>10, <2>4, <3>2, <3>3
    <3>4. CASE l # c.line
      BY <1>10, <2>2, <2>4, <3>1, <3>2, <3>4
    <3> QED BY <3>3, <3>4
  <2>5. CASE k # lv /\ k + 1 # lv
    <3>1. /\ inCache'[k] = inCache[k] /\ inCache'[k + 1] = inCache[k + 1]
          /\ In(k, "load") => In(k, "load")' /\ call'[k] = call[k]
      BY <1>7, <1>10, <2>1, <2>5
    <3> QED BY <2>2, <3>1
  <2> QED BY <2>3, <2>4, <2>5
<1>16. \A k \in 1 .. Mem : In(k, "load")' => k # lv /\ In(k, "load") /\ call'[k] = call[k]
  BY <1>7
<1>17. LoadedIsImage'
  <2>1. ASSUME NEW k \in Levels, In(k, "load")'
        PROVE  /\ In(k, "load") /\ call'[k] = call[k]
               /\ data'[k] = data[k] /\ inCache'[k] = inCache[k]
    BY <1>9, <1>10, <1>16, <2>1, LevelsType
  <2> QED BY <2>1, LoadedKept DEF LoadedIsImage
<1>18. SourceIsImage'
  <2> SUFFICES ASSUME NEW k \in {1, 2}, In(k, "load")'
               PROVE  LET l == call'[k].line IN
                      IF inCache'[k + 1][l]
                      THEN data'[k + 1][addr2line'[k + 1][l]] = Image[l]
                      ELSE call'[k].i = 0
    BY DEF SourceIsImage
  <2>1. /\ k \in Levels /\ k + 1 \in Levels /\ k \in 1 .. Mem /\ k + 1 # 1
        /\ k # lv /\ In(k, "load") /\ call'[k] = call[k]
    BY <1>16 DEF Levels, Mem
  <2>2. data'[k + 1] = data[k + 1]
    BY <1>9, <2>1
  <2>3. CASE k + 1 = lv
    <3>1. call[k].line = c.line
      BY <1>1, <2>1, <2>3 DEF StackOK
    <3> QED BY <1>4, <1>10, <2>1, <2>2, <2>3, <3>1
  <2>4. CASE k + 1 # lv
    <3>1. inCache'[k + 1] = inCache[k + 1] /\ addr2line'[k + 1] = addr2line[k + 1]
      BY <1>10, <2>1, <2>4
    <3> QED BY <2>1, <2>2, <3>1, SourceKept
  <2> QED BY <2>3, <2>4
<1>19. ReturnIsImage'
  <2> SUFFICES ASSUME NEW k \in 2 .. Mem, In(k, "ret")'
               PROVE  /\ call'[k].val = Image[call'[k].line][call'[k].off]
                      /\ k # Mem => inCache'[k][call'[k].line]
    BY DEF ReturnIsImage
  <2>1. CASE k = lv
    <3>1. v = Image[c.line][c.off]
      BY <1>2, <1>4, <1>8, <2>1 DEF Mem
    <3>2. /\ Return(c, v).val = v
          /\ Return(c, v).line = c.line /\ Return(c, v).off = c.off
      BY <1>2, <1>6, ReturnType
    <3> QED BY <1>7, <1>10, <2>1, <3>1, <3>2
  <2>2. CASE k # lv
    <3>1. k \in 1 .. Mem /\ (k # Mem => k \in Levels)
      BY DEF Mem, Levels
    <3>2. call'[k] = call[k] /\ In(k, "ret") /\ (k # Mem => inCache'[k] = inCache[k])
      BY <1>7, <1>10, <2>2, <3>1
    <3> QED BY <3>2, ReturnKept
  <2> QED BY <2>1, <2>2
<1> QED BY <1>7, <1>11, <1>12, <1>13, <1>14, <1>15, <1>17, <1>18, <1>19

LEMMA StutterStep ==
  ASSUME IInv, UNCHANGED vars
  PROVE  IInv'
BY DEF IInv, vars, tables, TypeOK, StoresNeverReachMemory, NeverDirty, StackOK, MapsOK,
       Inclusion, LoadedIsImage, SourceIsImage, ReturnIsImage, In

LEMMA NextIInv ==
  ASSUME IInv, [Next]_vars
  PROVE  IInv'
<1>1. ASSUME NEW l \in Lines, NEW o \in Offsets, Read(l, o) PROVE IInv'
  <2>1. AnyWord \in Words
    BY GeometryAssumption DEF AnyWord
  <2> QED BY <1>1, <2>1, AccessStep DEF Read
<1>2. ASSUME NEW l \in Lines, NEW o \in Offsets, NEW v \in Stores, Write(l, o, v) PROVE IInv'
  BY <1>2, CacheModAssumption, AccessStep DEF Write
<1>3. ASSUME NEW lv \in Levels,
             Hit(lv) \/ Miss(lv) \/ CallNext(lv) \/ Resume(lv) \/ Install(lv)
      PROVE  IInv'
  BY <1>3, HitStep, MissStep, CallNextStep, ResumeStep, InstallStep
<1>4. CASE MemAccess
  BY <1>4, MemStep
<1>5. CASE Deliver
  BY <1>5, DeliverStep
<1>6. CASE Halt \/ UNCHANGED vars
  BY <1>6, StutterStep DEF Halt
<1> QED BY <1>1, <1>2, <1>3, <1>4, <1>5, <1>6 DEF Next, Step

-----------------------------------------------------------------------------
(* The inductive invariant holds for ever: what load_line has copied is what
   memory holds, and every level below L1 returns memory's words, because
   nothing is ever dirty and the levels above know no line a level does not. *)
THEOREM Invariance == Spec => []IInv
<1>1. IInv /\ [Next]_vars => IInv'
  BY NextIInv
<1> QED BY InitIInv, <1>1, PTL DEF Spec

(* Whatever the program stores and whatever is evicted, Memory::mem keeps the
   image it was loaded with. *)
THEOREM MemoryIsNeverWritten == Spec => []StoresNeverReachMemory
<1>1. IInv => StoresNeverReachMemory
  BY DEF IInv
<1> QED BY Invariance, <1>1, PTL

(* When no access is under way, the inCache maps of the three levels agree. *)
THEOREM SameLines == Spec => []LevelsKnowTheSameLines
<1>1. IInv => LevelsKnowTheSameLines
  <2> SUFFICES ASSUME IInv, call[1] = Idle
               PROVE  inCache[1] = inCache[2] /\ inCache[2] = inCache[3]
    BY DEF LevelsKnowTheSameLines
  <2> USE DEF IInv
  <2>1. ~In(1, "load") /\ call[2] = Idle /\ ~In(2, "load")
    <3>1. ~In(1, "load")
      BY DEF In
    <3>2. call[1 + 1] = Idle
      BY <3>1, NotCalling DEF Levels
    <3> QED BY <3>1, <3>2 DEF In
  <2>2. \A lv \in {1, 2}, l \in Lines : inCache[lv][l] <=> inCache[lv + 1][l]
    BY <2>1 DEF Inclusion
  <2>3. \A lv \in Levels : inCache[lv] \in [Lines -> BOOLEAN]
    BY DEF TypeOK
  <2>4. ASSUME NEW lv \in {1, 2} PROVE inCache[lv] = inCache[lv + 1]
    <3>1. lv \in Levels /\ lv + 1 \in Levels
      BY DEF Levels
    <3>2. \A l \in Lines : inCache[lv][l] = inCache[lv + 1][l]
      BY <2>2, <2>3, <3>1
    <3> QED BY <2>3, <3>1, <3>2
  <2> QED BY <2>4
<1> QED BY Invariance, <1>1, PTL

(* No step takes a line a level knows from it or moves it to another slot:
   Install only enters lines the level does not know. *)
THEOREM KnownLinesStayPut == Spec => LinesStayPut
<1> DEFINE Stays == \A lv \in Levels, l \in Lines :
                      inCache[lv][l] => /\ inCache'[lv][l]
                                        /\ addr2line'[lv][l] = addr2line[lv][l]
<1>1. ASSUME IInv, [Next]_vars PROVE Stays
  <2>1. CASE UNCHANGED <<inCache, addr2line>>
    BY <2>1
  <2>2. ASSUME NEW k \in Levels, Install(k) PROVE Stays
    <3> DEFINE line == call[k].line
    <3> SUFFICES ASSUME NEW lv \in Levels, NEW l \in Lines, inCache[lv][l]
                 PROVE  inCache'[lv][l] /\ addr2line'[lv][l] = addr2line[lv][l]
      OBVIOUS
    <3>1. /\ addr2line' = [addr2line EXCEPT ![k][line] = call[k].slot]
          /\ inCache' = [inCache EXCEPT ![k] = [inCache[k] EXCEPT ![line] = TRUE]]
          /\ In(k, "load")
      BY <2>2 DEF Install, InstallWith, Known
    <3>2. ~inCache[k][line] /\ lv = k => l # line
      OBVIOUS
    <3>3. ~inCache[k][line]
      BY <1>1, <3>1 DEF IInv, LoadedIsImage
    <3>4. TypeOK
      BY <1>1 DEF IInv
    <3>5. CASE lv = k
      BY <3>1, <3>2, <3>3, <3>4, <3>5 DEF TypeOK
    <3>6. CASE lv # k
      BY <3>1, <3>4, <3>6 DEF TypeOK
    <3> QED BY <3>5, <3>6
  <2>3. (\E k \in Levels : Install(k)) \/ UNCHANGED <<inCache, addr2line>>
    BY <1>1 DEF Next, Step, Read, Write, Access, Hit, HitCounting, Miss, CallNext,
                CallNextUpTo, Resume, MemAccess, Deliver, Halt, vars, tables
  <2> QED BY <2>1, <2>2, <2>3
<1>2. IInv /\ [Next]_vars => [Stays]_vars
  BY <1>1
<1> QED BY Invariance, <1>2, PTL DEF Spec, LinesStayPut

-----------------------------------------------------------------------------
(* The counters: how often a level below L1 is asked, and how often it misses, is
   settled by the misses of the level above. *)

LEMMA OneLoadMore ==
  ASSUME NEW m \in Int
  PROVE  LINE_SIZE * (m - 1) + LINE_SIZE = LINE_SIZE * m
BY GeometryAssumption

LEMMA CountsType ==
  ASSUME TypeOK, NEW lv \in Levels
  PROVE  cnt[lv] \in Nat /\ hit[lv] \in Nat /\ Misses(lv) \in Int
BY DEF TypeOK, Misses

(* A level has answered the word the level above waits for, or is about to. *)
Answering(lv) == call[lv] # Idle /\ call[lv].phase # "enter"

(* What the counters of two levels have to do with each other is kept by a step
   that counts nothing and leaves the load of the upper level where it is. *)
LEMMA CountsKept ==
  ASSUME CountsOK, NEW lv \in {1, 2},
         cnt'[lv] = cnt[lv], hit'[lv] = hit[lv],
         cnt'[lv + 1] = cnt[lv + 1], hit'[lv + 1] = hit[lv + 1],
         inCache'[lv + 1] = inCache[lv + 1],
         In(lv, "load")' <=> In(lv, "load"),
         In(lv, "load") => call'[lv].line = call[lv].line /\ call'[lv].i = call[lv].i,
         In(lv + 1, "load")' <=> In(lv + 1, "load"),
         Answering(lv + 1)' <=> Answering(lv + 1)
  PROVE  /\ cnt'[lv + 1] = WordsServed(lv)'
         /\ Misses(lv + 1)' = Misses(lv)' - One(NotMissedYet(lv))'
BY DEF CountsOK, WordsServed, Misses, NotMissedYet, One, Answering

LEMMA InitCounts == Init => CountsOK
BY GeometryAssumption
   DEF Init, CountsOK, WordsServed, Misses, NotMissedYet, One, In, Levels, Mem

LEMMA AccessCounts ==
  ASSUME IInv, CountsOK, NEW op \in {"read", "write"}, NEW l \in Lines, NEW o \in Offsets,
         NEW v \in Words, Access(op, l, o, v)
  PROVE  CountsOK'
<1>1. call[1] = Idle /\ UNCHANGED <<cnt, hit, inCache>>
  BY DEF Access, tables
<1>2. call'[1].phase = "enter" /\ call'[2] = call[2] /\ call'[3] = call[3]
  BY DEF Access, IInv, TypeOK, Mem, Invoke
<1> QED BY <1>1, <1>2, CountsKept DEF CountsOK, In, Answering

LEMMA DeliverCounts ==
  ASSUME IInv, CountsOK, Deliver
  PROVE  CountsOK'
<1>1. In(1, "ret") /\ UNCHANGED <<cnt, hit, inCache>>
  BY DEF Deliver, tables
<1>2. call'[1] = Idle /\ call'[2] = call[2] /\ call'[3] = call[3]
  BY DEF Deliver, IInv, TypeOK, Mem
<1> QED BY <1>1, <1>2, CountsKept DEF CountsOK, In, Answering

(* Hit: the word counts as served the moment the level answers it. *)
LEMMA HitCounts ==
  ASSUME IInv, CountsOK, NEW k \in Levels, Hit(k)
  PROVE  CountsOK'
<1> DEFINE c == call[k]
           v == IF c.op = "write" THEN c.val ELSE data[k][addr2line[k][c.line]][c.off]
<1>1. /\ In(k, "enter") /\ inCache[k][c.line]
      /\ cnt' = [cnt EXCEPT ![k] = cnt[k] + 1] /\ hit' = [hit EXCEPT ![k] = @ + 1]
      /\ call' = [call EXCEPT ![k] = Return(c, v)]
      /\ UNCHANGED inCache
  BY DEF Hit, HitCounting, tables, Serve
<1>2. /\ call'[k].phase = "ret" /\ call'[k] # Idle
      /\ \A j \in 1 .. Mem : j # k => call'[j] = call[j]
  <2>1. c \in Frame /\ c.line \in Lines /\ c.off \in Offsets /\ c.val \in Words
    BY <1>1, FrameFields, LevelsType DEF IInv, In
  <2>2. addr2line[k][c.line] \in Slots
    BY <1>1, <2>1, GroupType DEF IInv, MapsOK, Slots
  <2>3. v \in Words
    BY <2>1, <2>2 DEF IInv, TypeOK, Line
  <2>4. Return(c, v).phase = "ret" /\ Return(c, v) # Idle
    BY <2>1, <2>3, ReturnType
  <2>5. call'[k] = Return(c, v)
    BY <1>1, LevelsType DEF IInv, TypeOK
  <2> QED BY <1>1, <2>4, <2>5 DEF IInv, TypeOK
<1> HIDE DEF v
<1>3. /\ Misses(k)' = Misses(k)
      /\ cnt'[k] = cnt[k] + 1
      /\ \A j \in Levels : j # k => cnt'[j] = cnt[j] /\ hit'[j] = hit[j]
  BY <1>1 DEF IInv, TypeOK, Misses
<1>4. SUFFICES ASSUME NEW lv \in {1, 2}
               PROVE  /\ cnt'[lv + 1] = WordsServed(lv)'
                      /\ Misses(lv + 1)' = Misses(lv)' - One(NotMissedYet(lv))'
  BY DEF CountsOK
<1>5. lv \in Levels /\ lv + 1 \in Levels /\ Levels \subseteq 1 .. Mem
  BY DEF Levels, Mem
<1>6. CASE lv = k
  BY <1>1, <1>2, <1>3, <1>5, <1>6
     DEF CountsOK, WordsServed, NotMissedYet, Misses, One, In
<1>7. CASE lv + 1 = k
  <2>1. In(lv, "load") /\ c.line = call[lv].line
    BY <1>1, <1>7, <1>5 DEF IInv, StackOK, In
  <2>2. ~In(k, "load") /\ ~In(k, "load")' /\ c # Idle /\ c.phase = "enter"
    BY <1>1, <1>2 DEF In
  <2>3. /\ call'[lv] = call[lv] /\ In(lv, "load")' /\ Misses(lv)' = Misses(lv)
        /\ call'[k] # Idle /\ call'[k].phase = "ret"
    BY <1>2, <1>3, <1>5, <1>7, <2>1 DEF In, Misses
  <2>4. WordsServed(lv) = LINE_SIZE * (Misses(lv) - 1) + call[lv].i + 0
    BY <1>7, <2>1, <2>2 DEF WordsServed, One
  <2>5. WordsServed(lv)' = LINE_SIZE * (Misses(lv) - 1) + call[lv].i + 1
    BY <1>7, <2>3 DEF WordsServed, One
  <2>6. LINE_SIZE * (Misses(lv) - 1) \in Int /\ call[lv].i \in Int
    BY <1>5, <2>1, CountsType, FrameFields, GeometryAssumption DEF IInv, In
  <2>7. cnt[k] = WordsServed(lv) /\ Misses(k) = Misses(lv) - One(NotMissedYet(lv))
    BY <1>7 DEF CountsOK
  <2>8. cnt'[k] = WordsServed(lv)'
    BY <1>3, <2>4, <2>5, <2>6, <2>7
  <2>9. ~NotMissedYet(lv) /\ ~NotMissedYet(lv)'
    BY <1>1, <1>7, <2>1, <2>3 DEF NotMissedYet
  <2> QED BY <1>3, <1>7, <2>3, <2>7, <2>8, <2>9 DEF One
<1>8. CASE lv # k /\ lv + 1 # k
  BY <1>1, <1>2, <1>3, <1>5, <1>8, CountsKept DEF In, Answering
<1> QED BY <1>6, <1>7, <1>8

(* Miss: the level's first look-up of the line it then loads. *)
LEMMA MissCounts ==
  ASSUME IInv, CountsOK, NEW k \in Levels, Miss(k)
  PROVE  CountsOK'
<1> DEFINE c == call[k]
<1>1. /\ In(k, "enter") /\ ~inCache[k][c.line]
      /\ cnt' = [cnt EXCEPT ![k] = @ + 1]
      /\ UNCHANGED <<hit, inCache>>
  BY DEF Miss, tables
<1>2. c \in Frame /\ c.i = 0 /\ c.line \in Lines /\ ~In(k, "load") /\ call[k + 1] = Idle
  BY <1>1, FrameFields, LevelsType, NotCalling DEF IInv, In, StackOK
<1>3. /\ In(k, "load")' /\ call'[k].line = c.line /\ call'[k].i = 0
      /\ \A j \in 1 .. Mem : j # k => call'[j] = call[j]
  <2> DEFINE t == TargetLine(valid[k], lfu_cnt[k], c.line)
             f == [c EXCEPT !.phase = "load", !.slot = t]
  <2>1. t \in Slots
    <3>1. lfu_cnt[k] \in [Slots -> Nat]
      BY DEF IInv, TypeOK
    <3> QED BY <1>2, <3>1, TargetInGroup
  <2>2. call' = [call EXCEPT ![k] = f]
    BY <2>1 DEF Miss, IInv, NeverDirty
  <2> HIDE DEF t
  <2>3. f \in Frame /\ f # Idle /\ f.phase = "load" /\ f.line = c.line /\ f.i = 0
    BY <1>2, <2>1, CacheModAssumption DEF Frame, Phases
  <2>4. call'[k] = f
    BY <2>2, LevelsType DEF IInv, TypeOK
  <2> QED BY <2>2, <2>3, <2>4 DEF IInv, TypeOK, In
<1>4. /\ Misses(k)' = Misses(k) + 1
      /\ cnt'[k] = cnt[k] + 1
      /\ \A j \in Levels : j # k => cnt'[j] = cnt[j] /\ hit'[j] = hit[j]
  BY <1>1 DEF IInv, TypeOK, Misses
<1>5. SUFFICES ASSUME NEW lv \in {1, 2}
               PROVE  /\ cnt'[lv + 1] = WordsServed(lv)'
                      /\ Misses(lv + 1)' = Misses(lv)' - One(NotMissedYet(lv))'
  BY DEF CountsOK
<1>6. lv \in Levels /\ lv + 1 \in Levels /\ Levels \subseteq 1 .. Mem
  BY DEF Levels, Mem
<1>7. CASE lv = k
  <2>1. ~inCache[lv + 1][c.line]
    BY <1>1, <1>2, <1>7 DEF IInv, Inclusion
  <2>2. call'[lv + 1] = Idle /\ ~In(lv + 1, "load")'
    BY <1>2, <1>3, <1>6, <1>7 DEF In
  <2>3. WordsServed(lv)' = WordsServed(lv)
    BY <1>2, <1>3, <1>4, <1>7, <2>2, CountsType, <1>6 DEF WordsServed, One, IInv
  <2>4. NotMissedYet(lv)' /\ ~NotMissedYet(lv)
    BY <1>1, <1>2, <1>3, <1>7, <2>1, <2>2 DEF NotMissedYet
  <2>5. /\ cnt'[lv + 1] = cnt[lv + 1] /\ Misses(lv + 1)' = Misses(lv + 1)
        /\ Misses(lv) \in Int
    BY <1>4, <1>6, <1>7, CountsType DEF Misses, IInv
  <2> QED BY <1>4, <1>7, <2>3, <2>4, <2>5 DEF CountsOK, One
<1>8. CASE lv + 1 = k
  <2>1. In(lv, "load") /\ c.line = call[lv].line /\ c # Idle /\ c.phase = "enter"
    BY <1>1, <1>8, <1>6 DEF IInv, StackOK, In
  <2>2. /\ call'[lv] = call[lv] /\ In(lv, "load")' /\ Misses(lv)' = Misses(lv)
        /\ call'[k] # Idle /\ call'[k].phase = "load"
    BY <1>3, <1>4, <1>6, <1>8, <2>1 DEF In, Misses
  <2>3. WordsServed(lv) = LINE_SIZE * (Misses(lv) - 1) + call[lv].i + 0
    BY <1>8, <2>1 DEF WordsServed, One
  <2>4. WordsServed(lv)' = LINE_SIZE * (Misses(lv) - 1) + call[lv].i + 1
    BY <1>8, <2>2 DEF WordsServed, One
  <2>5. /\ LINE_SIZE * (Misses(lv) - 1) \in Int /\ call[lv].i \in Int
        /\ Misses(lv) \in Int /\ Misses(k) \in Int
    BY <1>6, <2>1, CountsType, FrameFields, GeometryAssumption DEF IInv, In
  <2>6. cnt[k] = WordsServed(lv) /\ Misses(k) = Misses(lv) - One(NotMissedYet(lv))
    BY <1>8 DEF CountsOK
  <2>7. cnt'[k] = WordsServed(lv)'
    BY <1>4, <2>3, <2>4, <2>5, <2>6
  <2>8. NotMissedYet(lv) /\ ~NotMissedYet(lv)'
    BY <1>1, <1>2, <1>3, <1>8, <2>1 DEF NotMissedYet
  <2> QED BY <1>4, <1>8, <2>2, <2>5, <2>6, <2>7, <2>8 DEF One
<1>9. CASE lv # k /\ lv + 1 # k
  BY <1>1, <1>3, <1>4, <1>6, <1>9, CountsKept DEF In, Answering
<1> QED BY <1>7, <1>8, <1>9

LEMMA CallNextCounts ==
  ASSUME IInv, CountsOK, NEW k \in Levels, CallNext(k)
  PROVE  CountsOK'
<1>1. /\ k + 1 \in 1 .. Mem /\ call[k + 1] = Idle
      /\ UNCHANGED <<cnt, hit, inCache>>
  BY DEF CallNext, CallNextUpTo, tables, Levels, Mem
<1>2. /\ call'[k + 1].phase = "enter"
      /\ \A j \in 1 .. Mem : j # k + 1 => call'[j] = call[j]
  BY <1>1 DEF CallNext, CallNextUpTo, WordCall, Invoke, IInv, TypeOK
<1>3. SUFFICES ASSUME NEW lv \in {1, 2}
               PROVE  /\ cnt'[lv + 1] = WordsServed(lv)'
                      /\ Misses(lv + 1)' = Misses(lv)' - One(NotMissedYet(lv))'
  BY DEF CountsOK
<1>4. lv \in 1 .. Mem /\ lv + 1 \in 1 .. Mem
  BY DEF Mem
<1> QED BY <1>1, <1>2, <1>4, CountsKept DEF In, Answering

(* Resume: the word counts as one the level has, no longer as one it waits for. *)
LEMMA ResumeCounts ==
  ASSUME IInv, CountsOK, NEW k \in Levels, Resume(k)
  PROVE  CountsOK'
<1> DEFINE c == call[k]
<1>1. /\ k \in 1 .. Mem /\ k + 1 \in 1 .. Mem /\ c # Idle /\ In(k + 1, "ret")
      /\ call' = [call EXCEPT ![k] = NextWord(c), ![k + 1] = Idle]
      /\ UNCHANGED <<cnt, hit, inCache>>
  BY DEF Resume, tables, Levels, Mem
<1>2. c \in Frame /\ In(k, "load") /\ c.phase = "load" /\ c.i \in Nat
  BY <1>1, FrameFields, GeometryAssumption DEF IInv, StackOK, In
<1>3. /\ call'[k] = NextWord(c) /\ call'[k + 1] = Idle
      /\ \A j \in 1 .. Mem : j # k /\ j # k + 1 => call'[j] = call[j]
  BY <1>1 DEF IInv, TypeOK
<1>4. /\ In(k, "load")' /\ call'[k].line = c.line /\ call'[k].i = c.i + 1
  <2>1. NextWord(c) = [c EXCEPT !.i = @ + 1]
    BY <1>2 DEF NextWord
  <2>2. /\ NextWord(c).phase = "load" /\ NextWord(c).line = c.line
        /\ NextWord(c).i = c.i + 1
    BY <1>2, <2>1 DEF Frame
  <2>3. call'[k] # Idle
    <3>1. c.i < LINE_SIZE
      BY <1>1 DEF IInv, StackOK, In
    <3>2. c.i + 1 \in 0 .. LINE_SIZE
      BY <1>2, <3>1, GeometryAssumption
    <3>3. NextWord(c) \in Frame
      BY <1>2, <2>1, <3>2 DEF Frame
    <3> QED BY <1>3, <3>3, CacheModAssumption
  <2> QED BY <1>3, <2>2, <2>3 DEF In
<1>5. SUFFICES ASSUME NEW lv \in {1, 2}
               PROVE  /\ cnt'[lv + 1] = WordsServed(lv)'
                      /\ Misses(lv + 1)' = Misses(lv)' - One(NotMissedYet(lv))'
  BY DEF CountsOK
<1>6. lv \in 1 .. Mem /\ lv + 1 \in 1 .. Mem
  BY DEF Mem
<1>7. CASE lv = k
  <2>1. /\ In(lv, "load") /\ call[lv + 1] # Idle /\ call[lv + 1].phase # "enter"
        /\ call'[lv + 1] = Idle
        /\ Misses(lv)' = Misses(lv) /\ Misses(lv + 1)' = Misses(lv + 1)
    BY <1>1, <1>2, <1>3, <1>7 DEF In, Misses
  <2>2. WordsServed(lv) = LINE_SIZE * (Misses(lv) - 1) + call[lv].i + 1
    BY <1>7, <2>1 DEF WordsServed, One
  <2>3. WordsServed(lv)' = LINE_SIZE * (Misses(lv) - 1) + call'[lv].i + 0
    BY <1>4, <1>7, <2>1 DEF WordsServed, One
  <2>4. LINE_SIZE * (Misses(lv) - 1) \in Int
    BY CountsType, GeometryAssumption DEF IInv, Levels
  <2>5. WordsServed(lv)' = WordsServed(lv)
    BY <1>2, <1>4, <1>7, <2>2, <2>3, <2>4
  <2>6. NotMissedYet(lv)' <=> NotMissedYet(lv)
    BY <1>1, <1>2, <1>3, <1>4, <1>7 DEF NotMissedYet, In
  <2> QED BY <1>1, <2>1, <2>5, <2>6 DEF CountsOK, One
<1>8. CASE lv # k
  <2>1. lv + 1 # k => call'[lv + 1] = call[lv + 1]
    <3>1. lv + 1 # k + 1
      BY <1>1, <1>8
    <3> QED BY <1>3, <1>6, <3>1
  <2>2. lv + 1 = k => /\ Answering(lv + 1) /\ Answering(lv + 1)'
                     /\ In(lv + 1, "load") /\ In(lv + 1, "load")'
    BY <1>2, <1>4 DEF Answering, In
  <2>3. lv # k + 1 => call'[lv] = call[lv]
    BY <1>3, <1>6, <1>8
  <2>4. lv = k + 1 => ~In(lv, "load") /\ ~In(lv, "load")'
    BY <1>1, <1>3 DEF In
  <2> QED BY <1>1, <2>1, <2>2, <2>3, <2>4, CountsKept DEF In, Answering
<1> QED BY <1>7, <1>8

(* Install: the load is over, and its LINE_SIZE words have been served. *)
LEMMA InstallCounts ==
  ASSUME IInv, CountsOK, NEW k \in Levels, Install(k)
  PROVE  CountsOK'
<1> DEFINE c == call[k]
           v == IF c.op = "write" THEN c.val ELSE data[k][c.slot][c.off]
<1>1. /\ k \in 1 .. Mem /\ In(k, "load") /\ c # Idle /\ c.phase = "load"
      /\ c.i = LINE_SIZE /\ call[k + 1] = Idle
      /\ call' = [call EXCEPT ![k] = Return(c, v)]
      /\ inCache' = [inCache EXCEPT ![k] = [inCache[k] EXCEPT ![c.line] = TRUE]]
      /\ UNCHANGED <<cnt, hit>>
  <2>1. In(k, "load") /\ c.i = LINE_SIZE /\ k \in 1 .. Mem
    BY LevelsType DEF Install, InstallWith
  <2>2. call[k + 1] = Idle
    BY <2>1, GeometryAssumption DEF IInv, StackOK
  <2> QED BY <2>1, <2>2 DEF Install, InstallWith, Known, Serve, In
<1>2. c \in Frame /\ c.line \in Lines
  BY <1>1, FrameFields DEF IInv
<1>3. /\ call'[k].phase = "ret" /\ call'[k] # Idle
      /\ \A j \in 1 .. Mem : j # k => call'[j] = call[j]
  <2>1. v \in Words
    <3>1. c.val \in Words /\ c.slot \in Slots /\ c.off \in Offsets
      BY <1>1, FrameFields DEF IInv
    <3>2. data[k] \in [Slots -> Line] /\ Line = [Offsets -> Words]
      BY DEF IInv, TypeOK, Line
    <3>3. data[k][c.slot][c.off] \in Words
      BY <3>1, <3>2
    <3> QED BY <3>1, <3>3
  <2>2. Return(c, v).phase = "ret" /\ Return(c, v) # Idle
    BY <1>2, <2>1, ReturnType
  <2> HIDE DEF v
  <2> QED BY <1>1, <2>2 DEF IInv, TypeOK
<1> HIDE DEF v
<1>4. /\ \A j \in Levels : j # k => inCache'[j] = inCache[j]
      /\ inCache'[k][c.line]
  BY <1>1, <1>2 DEF IInv, TypeOK
<1>5. SUFFICES ASSUME NEW lv \in {1, 2}
               PROVE  /\ cnt'[lv + 1] = WordsServed(lv)'
                      /\ Misses(lv + 1)' = Misses(lv)' - One(NotMissedYet(lv))'
  BY DEF CountsOK
<1>6. lv \in Levels /\ lv + 1 \in Levels /\ Levels \subseteq 1 .. Mem
  BY DEF Levels, Mem
<1>7. CASE lv = k
  <2>1. inCache[lv + 1][c.line]
    BY <1>1, <1>7, GeometryAssumption DEF IInv, SourceIsImage
  <2>2. call[lv + 1] = Idle /\ call'[lv + 1] = Idle /\ ~In(lv, "load")'
    BY <1>1, <1>3, <1>6, <1>7 DEF In
  <2>3. Misses(lv)' = Misses(lv) /\ Misses(lv) \in Int
    BY <1>1, <1>6, CountsType DEF Misses, IInv
  <2>4. WordsServed(lv) = LINE_SIZE * (Misses(lv) - 1) + LINE_SIZE + 0
    BY <1>1, <1>7, <2>2 DEF WordsServed, One
  <2>5. WordsServed(lv)' = LINE_SIZE * (Misses(lv) - 0) + 0 + 0
    BY <2>2, <2>3 DEF WordsServed, One
  <2>6. LINE_SIZE * (Misses(lv) - 1) \in Int /\ LINE_SIZE * Misses(lv) \in Int /\ LINE_SIZE \in Int
    BY <2>3, GeometryAssumption
  <2>7. WordsServed(lv)' = WordsServed(lv)
    <3>1. Misses(lv) - 0 = Misses(lv)
      BY <2>3
    <3> QED BY <2>3, <2>4, <2>5, <2>6, <3>1, OneLoadMore
  <2>8. ~NotMissedYet(lv) /\ ~NotMissedYet(lv)'
    BY <1>7, <2>1, <2>2 DEF NotMissedYet
  <2> QED BY <1>1, <2>3, <2>7, <2>8 DEF CountsOK, One, Misses
<1>8. CASE lv + 1 = k
  <2>1. /\ In(lv, "load") /\ call[lv].line = c.line /\ call'[lv] = call[lv]
        /\ call'[lv + 1] # Idle /\ call'[lv + 1].phase = "ret"
        /\ In(lv + 1, "load") /\ In(lv, "load")'
    BY <1>1, <1>3, <1>6, <1>8 DEF IInv, StackOK, In
  <2>2. WordsServed(lv)' = WordsServed(lv)
    BY <1>1, <1>8, <2>1 DEF WordsServed, One, Misses
  <2>3. ~NotMissedYet(lv) /\ ~NotMissedYet(lv)'
    BY <1>4, <1>8, <2>1 DEF NotMissedYet
  <2> QED BY <1>1, <2>2, <2>3 DEF CountsOK, One, Misses
<1>9. CASE lv # k /\ lv + 1 # k
  BY <1>1, <1>3, <1>4, <1>6, <1>9, CountsKept DEF In, Answering
<1> QED BY <1>7, <1>8, <1>9

LEMMA MemCounts ==
  ASSUME IInv, CountsOK, MemAccess
  PROVE  CountsOK'
<1>1. /\ call'[1] = call[1] /\ call'[2] = call[2] /\ call'[3] = call[3]
      /\ UNCHANGED <<cnt, hit, inCache>>
  BY DEF MemAccess, tables, IInv, TypeOK, Mem
<1> QED BY <1>1, CountsKept DEF CountsOK, In, Answering

LEMMA NextCounts ==
  ASSUME IInv, CountsOK, [Next]_vars
  PROVE  CountsOK'
<1>1. ASSUME NEW l \in Lines, NEW o \in Offsets, Read(l, o) PROVE CountsOK'
  <2>1. AnyWord \in Words
    BY GeometryAssumption DEF AnyWord
  <2> QED BY <1>1, <2>1, AccessCounts DEF Read
<1>2. ASSUME NEW l \in Lines, NEW o \in Offsets, NEW v \in Stores, Write(l, o, v)
      PROVE  CountsOK'
  BY <1>2, CacheModAssumption, AccessCounts DEF Write
<1>3. ASSUME NEW k \in Levels,
             Hit(k) \/ Miss(k) \/ CallNext(k) \/ Resume(k) \/ Install(k)
      PROVE  CountsOK'
  BY <1>3, HitCounts, MissCounts, CallNextCounts, ResumeCounts, InstallCounts
<1>4. CASE MemAccess
  BY <1>4, MemCounts
<1>5. CASE Deliver
  BY <1>5, DeliverCounts
<1>6. CASE Halt \/ UNCHANGED vars
  BY <1>6, CountsKept DEF Halt, vars, tables, CountsOK, In, Answering
<1> QED BY <1>1, <1>2, <1>3, <1>4, <1>5, <1>6 DEF Next, Step

-----------------------------------------------------------------------------
(* When no access is under way, each line L1 missed has cost L2 and L3 one miss
   and LINE_SIZE - 1 hits each: the hit rates the debugger prints for them say
   nothing about the program. *)
THEOREM LowerHitRates == Spec => []LowerHitRatesAreFixed
<1>1. CountsOK /\ IInv => LowerHitRatesAreFixed
  <2> SUFFICES ASSUME IInv, CountsOK, call[1] = Idle
               PROVE  \A lv \in {2, 3} :
                        /\ cnt[lv] = LINE_SIZE * (cnt[1] - hit[1])
                        /\ hit[lv] = (LINE_SIZE - 1) * (cnt[1] - hit[1])
    BY DEF LowerHitRatesAreFixed
  <2>1. ~In(1, "load") /\ call[2] = Idle /\ ~In(2, "load") /\ call[3] = Idle
    <3>1. ~In(1, "load")
      BY DEF In
    <3>2. call[1 + 1] = Idle
      BY <3>1, NotCalling DEF IInv, Levels
    <3>3. ~In(2, "load")
      BY <3>2 DEF In
    <3>4. call[2 + 1] = Idle
      BY <3>3, NotCalling DEF IInv, Levels
    <3> QED BY <3>1, <3>2, <3>3, <3>4
  <2>2. \A lv \in Levels : cnt[lv] \in Nat /\ hit[lv] \in Nat
    BY CountsType DEF IInv
  <2>3. ASSUME NEW lv \in {1, 2}
        PROVE  /\ cnt[lv + 1] = LINE_SIZE * (cnt[lv] - hit[lv])
               /\ cnt[lv + 1] - hit[lv + 1] = cnt[lv] - hit[lv]
    <3>1. WordsServed(lv) = LINE_SIZE * (Misses(lv) - 0) + 0 + 0
      BY <2>1 DEF WordsServed, One
    <3>2. Misses(lv) \in Int /\ Misses(lv) - 0 = Misses(lv) /\ LINE_SIZE * Misses(lv) \in Int
      BY CountsType, GeometryAssumption DEF IInv, Levels
    <3>3. ~NotMissedYet(lv)
      BY <2>1 DEF NotMissedYet
    <3> QED BY <3>1, <3>2, <3>3 DEF CountsOK, Misses, One
  <2> DEFINE m == cnt[1] - hit[1]
  <2>4. m \in Int
    BY <2>2 DEF Levels
  <2>5. /\ cnt[2] = LINE_SIZE * m /\ cnt[2] - hit[2] = m
        /\ cnt[3] = LINE_SIZE * m /\ cnt[3] - hit[3] = m
    BY <2>3
  <2> HIDE DEF m
  <2>6. (LINE_SIZE - 1) * m = LINE_SIZE * m - m /\ LINE_SIZE * m \in Int
    BY <2>4, GeometryAssumption
  <2>7. hit[2] = LINE_SIZE * m - m /\ hit[3] = LINE_SIZE * m - m
    BY <2>2, <2>4, <2>5, <2>6 DEF Levels
  <2> QED BY <2>5, <2>6, <2>7 DEF m
<1>2. Init => CountsOK
  BY InitCounts
<1>3. IInv /\ CountsOK /\ [Next]_vars => CountsOK'
  BY NextCounts
<1> QED BY Invariance, <1>1, <1>2, <1>3, PTL DEF Spec

-----------------------------------------------------------------------------
(* The refinement: CacheMod implements FirstTouch, so L2 and L3 never influence a
   word that the program reads, nor the slot it is read from. *)

(* FirstTouch chooses slots by the same rule. *)
LEMMA SameTarget ==
  ASSUME NEW v, NEW f, NEW l
  PROVE  Seen!TargetLine(v, f, l) = TargetLine(v, f, l)
BY DEF Seen!TargetLine, TargetLine, Seen!FirstWay, FirstWay, Seen!FreeWays, FreeWays,
       Seen!LeastUsedWays, LeastUsedWays, Seen!Group, Group, Seen!Ways, Ways, Seen!Min, Min

(* What the program sees of L1. *)
LEMMA L1Fields ==
  ASSUME IInv
  PROVE  /\ 1 \in Levels /\ 1 \in 1 .. Mem
         /\ valid[1] \in [Slots -> BOOLEAN]
         /\ lfu_cnt[1] \in [Slots -> Nat]
         /\ data[1] \in [Slots -> Line]
         /\ addr2line[1] \in [Lines -> Slots \cup {None}]
         /\ cnt[1] \in Nat
BY DEF IInv, TypeOK, Levels, Mem

LEMMA L1FieldsNext ==
  ASSUME IInv, [Next]_vars
  PROVE  /\ valid'[1] \in [Slots -> BOOLEAN]
         /\ lfu_cnt'[1] \in [Slots -> Nat]
         /\ data'[1] \in [Slots -> Line]
<1>1. IInv'
  BY NextIInv
<1> QED BY <1>1 DEF IInv, TypeOK, Levels

(* A line is placed exactly when L1 knows it or is loading it. *)
LEMMA SeenPlaced ==
  ASSUME IInv, NEW l \in Lines
  PROVE  Seen!Placed(l) <=> inCache[1][l] \/ (In(1, "load") /\ call[1].line = l)
<1>1. SeenSlotOf[l] = SlotOf(l)
  BY DEF SeenSlotOf
<1>2. CASE In(1, "load") /\ call[1].line = l
  <2>1. call[1].slot \in Slots
    BY <1>2, L1Fields, FrameFields DEF IInv, In
  <2> QED BY <1>1, <1>2, <2>1, CacheModAssumption DEF Seen!Placed, SlotOf
<1>3. CASE ~(In(1, "load") /\ call[1].line = l)
  <2>1. SlotOf(l) = addr2line[1][l]
    BY <1>3 DEF SlotOf
  <2>2. inCache[1][l] => addr2line[1][l] \in Slots
    BY L1Fields, GroupType DEF IInv, MapsOK, Slots
  <2>3. ~inCache[1][l] => addr2line[1][l] = None
    BY L1Fields DEF IInv, MapsOK
  <2> QED BY <1>1, <1>3, <2>1, <2>2, <2>3, CacheModAssumption DEF Seen!Placed
<1> QED BY <1>2, <1>3

(* A step that leaves of L1 what the program sees is a stutter: it may move the
   loop of load_line on and copy a word into the slot that is being loaded. *)
LEMMA Unseen ==
  ASSUME IInv,
         cnt'[1] = cnt[1], valid'[1] = valid[1], lfu_cnt'[1] = lfu_cnt[1],
         addr2line'[1] = addr2line[1],
         \/ call'[1] = call[1] /\ data'[1] = data[1]
         \/ /\ In(1, "load") /\ In(1, "load")'
            /\ call'[1].op = call[1].op /\ call'[1].line = call[1].line
            /\ call'[1].off = call[1].off /\ call'[1].val = call[1].val
            /\ call'[1].slot = call[1].slot
            /\ \A s \in Slots : s # call[1].slot => data'[1][s] = data[1][s]
  PROVE  UNCHANGED Seen!vars
<1>1. CASE call'[1] = call[1] /\ data'[1] = data[1]
  BY <1>1 DEF Seen!vars, SeenSlotOf, SeenTaken, SeenUsed, SeenBlock, SeenReq, SeenAccesses,
              SlotOf, Loading, In
<1>2. CASE /\ In(1, "load") /\ In(1, "load")'
           /\ call'[1].op = call[1].op /\ call'[1].line = call[1].line
           /\ call'[1].off = call[1].off /\ call'[1].val = call[1].val
           /\ call'[1].slot = call[1].slot
           /\ \A s \in Slots : s # call[1].slot => data'[1][s] = data[1][s]
  <2>1. \A s \in Slots : Loading(s)' <=> Loading(s)
    BY <1>2 DEF Loading
  <2>2. \A l \in Lines : SlotOf(l)' = SlotOf(l)
    BY <1>2 DEF SlotOf
  <2>3. SeenSlotOf' = SeenSlotOf /\ SeenTaken' = SeenTaken /\ SeenUsed' = SeenUsed
    BY <2>1, <2>2 DEF SeenSlotOf, SeenTaken, SeenUsed
  <2>4. \A s \in Slots : ~Loading(s) => data'[1][s] = data[1][s]
    BY <1>2 DEF Loading
  <2>5. SeenBlock' = SeenBlock
    BY <1>2, <2>1, <2>4 DEF SeenBlock
  <2>6. SeenReq' = SeenReq /\ SeenAccesses' = SeenAccesses
    BY <1>2 DEF SeenReq, SeenAccesses, In
  <2> QED BY <2>3, <2>5, <2>6 DEF Seen!vars
<1> QED BY <1>1, <1>2

(* L1's call is an access of the program. *)
LEMMA SeenIsRequest ==
  ASSUME TypeOK, call[1] # Idle
  PROVE  SeenReq # Idle /\ SeenReq.line = call[1].line /\ SeenReq.off = call[1].off
         /\ SeenReq.op = call[1].op /\ SeenReq.val = call[1].val
         /\ SeenReq.done = (call[1].phase = "ret")
<1> DEFINE r == [op |-> call[1].op, line |-> call[1].line, off |-> call[1].off,
                val |-> call[1].val, done |-> call[1].phase = "ret"]
<1>1. /\ call[1].op \in {"read", "write"} /\ call[1].line \in Lines
      /\ call[1].off \in Offsets /\ call[1].val \in Words
  BY FrameFields DEF Mem
<1>2. r \in Seen!Request
  BY <1>1 DEF Seen!Request, Seen!Offsets, Offsets
<1>3. r # Idle
  BY <1>2, SeenAssumption
<1>4. SeenReq = r
  BY DEF SeenReq
<1> QED BY <1>3, <1>4

LEMMA InitSeen == Init => Seen!Init
<1> SUFFICES ASSUME Init PROVE Seen!Init
  OBVIOUS
<1>1. call[1] = Idle /\ ~In(1, "load") /\ ~In(1, "enter") /\ 1 \in Levels
  BY DEF Init, In, Mem, Levels
<1>2. \A s \in Slots : ~Loading(s)
  BY <1>1 DEF Loading
<1>3. \A l \in Lines : SlotOf(l) = None
  BY <1>1 DEF SlotOf, Init
<1>4. /\ SeenSlotOf = [l \in Lines |-> None]
      /\ SeenTaken = [s \in Slots |-> FALSE]
      /\ SeenUsed = [s \in Slots |-> 0]
      /\ SeenBlock = [s \in Slots |-> [o \in Offsets |-> MAGIC]]
  BY <1>1, <1>2, <1>3 DEF SeenSlotOf, SeenTaken, SeenUsed, SeenBlock, Init
<1>5. SeenReq = Idle /\ SeenAccesses = 0
  BY <1>1 DEF SeenReq, SeenAccesses, Init
<1> QED BY <1>4, <1>5 DEF Seen!Init, Seen!Slots, Slots, Seen!Ways, Ways, Seen!Offsets, Offsets

-----------------------------------------------------------------------------
(* The program's load or store begins. *)
LEMMA AccessSeen ==
  ASSUME IInv, NEW op \in {"read", "write"}, NEW l \in Lines, NEW o \in Offsets,
         NEW v \in Words, Access(op, l, o, v)
  PROVE  Seen!Issue(op, l, o, v)
<1> DEFINE f == Invoke(op, l, o, v)
<1>1. /\ call[1] = Idle /\ cnt[1] < MaxAccesses
      /\ call'[1] = f
      /\ UNCHANGED <<data, valid, lfu_cnt, addr2line, cnt>>
  BY L1Fields DEF Access, tables, IInv, TypeOK
<1>2. f # Idle /\ f.phase = "enter" /\ f.op = op /\ f.line = l /\ f.off = o /\ f.val = v
  BY InvokeType DEF Invoke
<1>3. /\ ~In(1, "load") /\ ~In(1, "load")' /\ ~In(1, "enter") /\ In(1, "enter")'
  BY <1>1, <1>2 DEF In
<1>4. UNCHANGED <<SeenSlotOf, SeenTaken, SeenUsed, SeenBlock>>
  BY <1>1, <1>3 DEF SeenSlotOf, SeenTaken, SeenUsed, SeenBlock, SlotOf, Loading
<1>5. /\ SeenReq = Idle
      /\ SeenReq' = [op |-> op, line |-> l, off |-> o, val |-> v, done |-> FALSE]
  BY <1>1, <1>2 DEF SeenReq
<1>6. SeenAccesses < MaxAccesses /\ SeenAccesses' = SeenAccesses + 1
  BY <1>1, <1>3, L1Fields DEF SeenAccesses
<1> QED BY <1>4, <1>5, <1>6 DEF Seen!Issue

(* It returns. *)
LEMMA DeliverSeen ==
  ASSUME IInv, Deliver
  PROVE  Seen!Finish
<1>1. /\ In(1, "ret") /\ call'[1] = Idle
      /\ UNCHANGED <<data, valid, lfu_cnt, addr2line, cnt>>
  BY L1Fields DEF Deliver, tables, IInv, TypeOK
<1>2. /\ ~In(1, "load") /\ ~In(1, "load")' /\ ~In(1, "enter") /\ ~In(1, "enter")'
  BY <1>1 DEF In
<1>3. UNCHANGED <<SeenSlotOf, SeenTaken, SeenUsed, SeenBlock, SeenAccesses>>
  BY <1>1, <1>2 DEF SeenSlotOf, SeenTaken, SeenUsed, SeenBlock, SeenAccesses, SlotOf, Loading
<1>4. SeenReq # Idle /\ SeenReq.done /\ SeenReq' = Idle
  <2>1. call[1] # Idle /\ call[1].phase = "ret"
    BY <1>1 DEF In
  <2>2. SeenReq # Idle
    BY <2>1, SeenIsRequest, L1Fields DEF IInv
  <2> QED BY <1>1, <2>1, <2>2 DEF SeenReq
<1> QED BY <1>3, <1>4 DEF Seen!Finish

(* L1 misses: the line has a slot from here on. *)
LEMMA MissSeen ==
  ASSUME IInv, Miss(1)
  PROVE  Seen!Place
<1> DEFINE c == call[1]
           t == TargetLine(valid[1], lfu_cnt[1], c.line)
<1>1. In(1, "enter") /\ ~inCache[1][c.line] /\ c # Idle /\ c.phase = "enter"
  BY DEF Miss, In
<1>2. c \in Frame /\ c.line \in Lines
  BY <1>1, L1Fields, FrameFields DEF IInv
<1>3. t \in Slots
  BY <1>2, L1Fields, TargetInGroup
<1>4. /\ call'[1] = [c EXCEPT !.phase = "load", !.slot = t]
      /\ cnt'[1] = cnt[1] + 1
      /\ UNCHANGED <<data, valid, lfu_cnt, addr2line>>
  BY <1>3, L1Fields DEF Miss, tables, IInv, NeverDirty, TypeOK
<1>5. /\ call'[1].phase = "load" /\ call'[1].slot = t /\ call'[1].line = c.line
      /\ call'[1].op = c.op /\ call'[1].off = c.off /\ call'[1].val = c.val
      /\ call'[1] # Idle
  <2> HIDE DEF t
  <2>1. call'[1] \in Frame
    BY <1>2, <1>3, <1>4 DEF Frame, Phases
  <2> QED BY <1>2, <1>4, <2>1, CacheModAssumption DEF Frame
<1>6. ~In(1, "load") /\ In(1, "load")' /\ ~In(1, "enter")'
  BY <1>1, <1>5 DEF In
<1>7. /\ \A s \in Slots : ~Loading(s) /\ (Loading(s)' <=> s = t)
      /\ \A l \in Lines : SlotOf(l) = addr2line[1][l]
      /\ \A l \in Lines : SlotOf(l)' = IF l = c.line THEN t ELSE addr2line[1][l]
  BY <1>4, <1>5, <1>6 DEF Loading, SlotOf
<1>8. SeenTaken = valid[1] /\ SeenUsed = lfu_cnt[1]
  BY <1>7, L1Fields DEF SeenTaken, SeenUsed
<1>9. /\ SeenReq = [op |-> c.op, line |-> c.line, off |-> c.off, val |-> c.val, done |-> FALSE]
      /\ SeenReq' = SeenReq
      /\ SeenAccesses' = SeenAccesses
  <2> HIDE DEF t
  <2>1. SeenReq = [op |-> c.op, line |-> c.line, off |-> c.off, val |-> c.val, done |-> FALSE]
    BY <1>1 DEF SeenReq
  <2>2. SeenReq' = SeenReq
    BY <1>5, <2>1 DEF SeenReq
  <2>3. SeenAccesses' = SeenAccesses
    BY <1>1, <1>4, <1>6, L1Fields DEF SeenAccesses
  <2> QED BY <2>1, <2>2, <2>3
<1>10. SeenReq # Idle /\ ~SeenReq.done /\ SeenReq.line = c.line
  BY <1>1, <1>9, SeenIsRequest, L1Fields DEF IInv
<1>11. Seen!TargetLine(SeenTaken, SeenUsed, SeenReq.line) = t
  BY <1>8, <1>10, SameTarget
<1>12. ~Seen!Placed(c.line)
  BY <1>1, <1>2, <1>6, SeenPlaced
<1> HIDE DEF t
<1>13. SeenSlotOf' = [SeenSlotOf EXCEPT ![c.line] = t]
  BY <1>7 DEF SeenSlotOf
<1>14. SeenTaken' = [SeenTaken EXCEPT ![t] = TRUE]
  BY <1>4, <1>7 DEF SeenTaken
<1>15. SeenUsed' = [SeenUsed EXCEPT ![t] = 0]
  BY <1>4, <1>7 DEF SeenUsed
<1>16. SeenBlock' = [SeenBlock EXCEPT ![t] = Image[c.line]]
  BY <1>4, <1>5, <1>7 DEF SeenBlock
<1> QED BY <1>9, <1>10, <1>11, <1>12, <1>13, <1>14, <1>15, <1>16
        DEF Seen!Place, Seen!PlaceWith, Seen!Pending

(* L1's call returns: what that means for the program's access. *)
LEMMA ReturnSeen ==
  ASSUME TypeOK, In(1, "enter") \/ In(1, "load"), NEW v \in Words,
         call'[1] = Return(call[1], v)
  PROVE  /\ SeenReq # Idle /\ ~SeenReq.done
         /\ call[1].op = "read" => SeenReq' = [SeenReq EXCEPT !.done = TRUE, !.val = v]
         /\ call[1].op = "write" /\ v = call[1].val => SeenReq' = [SeenReq EXCEPT !.done = TRUE]
         /\ ~In(1, "load")' /\ ~In(1, "enter")'
<1> DEFINE c == call[1]
           d == call'[1]
<1>1. c # Idle /\ c.phase # "ret" /\ c \in Frame
  BY FrameFields DEF In, Mem
<1>2. /\ d # Idle /\ d.phase = "ret" /\ d.val = v
      /\ d.line = c.line /\ d.off = c.off /\ d.op = c.op
  BY <1>1, ReturnType
<1>3. SeenReq # Idle /\ ~SeenReq.done
  BY <1>1, SeenIsRequest
<1>4. SeenReq = [op |-> c.op, line |-> c.line, off |-> c.off, val |-> c.val, done |-> FALSE]
  BY <1>1 DEF SeenReq
<1>5. SeenReq' = [op |-> c.op, line |-> c.line, off |-> c.off, val |-> v, done |-> TRUE]
  BY <1>2 DEF SeenReq
<1>6. ~In(1, "load")' /\ ~In(1, "enter")'
  BY <1>2 DEF In
<1> HIDE DEF c, d
<1>7. \A e : /\ [SeenReq EXCEPT !.done = e] =
                    [op |-> c.op, line |-> c.line, off |-> c.off, val |-> c.val, done |-> e]
             /\ [SeenReq EXCEPT !.done = e, !.val = v] =
                    [op |-> c.op, line |-> c.line, off |-> c.off, val |-> v, done |-> e]
  <2> DEFINE no == FALSE
  <2>1. SeenReq = [op |-> c.op, line |-> c.line, off |-> c.off, val |-> c.val, done |-> no]
    BY <1>4
  <2> HIDE DEF no
  <2> TAKE e
  <2> DEFINE p == [op |-> c.op, line |-> c.line, off |-> c.off, val |-> c.val, done |-> e]
             q == [op |-> c.op, line |-> c.line, off |-> c.off, val |-> v, done |-> e]
  <2>2. /\ DOMAIN SeenReq = {"op", "line", "off", "val", "done"}
        /\ DOMAIN p = {"op", "line", "off", "val", "done"}
        /\ DOMAIN q = {"op", "line", "off", "val", "done"}
    BY <2>1
  <2>3. [SeenReq EXCEPT !.done = e] = p
    BY <2>1, <2>2
  <2>4. [p EXCEPT !.val = v] = q
    BY <2>2
  <2> QED BY <2>3, <2>4, Zenon
<1>8. /\ [SeenReq EXCEPT !.done = TRUE] =
            [op |-> c.op, line |-> c.line, off |-> c.off, val |-> c.val, done |-> TRUE]
      /\ [SeenReq EXCEPT !.done = TRUE, !.val = v] = SeenReq'
  BY <1>5, <1>7, Zenon
<1>9. v = c.val => SeenReq' = [SeenReq EXCEPT !.done = TRUE]
  BY <1>5, <1>8, Zenon
<1> QED BY <1>3, <1>6, <1>8, <1>9, Zenon DEF c

(* L1 hits: the access is served from the line's slot. *)
LEMMA HitSeen ==
  ASSUME IInv, Hit(1)
  PROVE  Seen!Perform
<1> DEFINE c == call[1]
           s == addr2line[1][c.line]
           v == IF c.op = "write" THEN c.val ELSE data[1][s][c.off]
<1>1. In(1, "enter") /\ inCache[1][c.line] /\ c # Idle
  BY DEF Hit, HitCounting, In
<1>2. /\ c.line \in Lines /\ c.off \in Offsets /\ c.val \in Words
      /\ c.op \in {"read", "write"}
  BY <1>1, L1Fields, FrameFields DEF IInv
<1>3. s \in Slots
  BY <1>1, <1>2, L1Fields, GroupType DEF IInv, MapsOK, Slots
<1>4. /\ call'[1] = Return(c, v)
      /\ lfu_cnt'[1] = [lfu_cnt[1] EXCEPT ![s] = @ + 1]
      /\ data'[1] = IF c.op = "write" THEN [data[1] EXCEPT ![s][c.off] = c.val] ELSE data[1]
      /\ UNCHANGED <<valid, addr2line>>
  BY L1Fields DEF Hit, HitCounting, Uses, Serve, tables, IInv, TypeOK
<1>20. cnt'[1] = cnt[1] + 1
  BY L1Fields DEF Hit, HitCounting, IInv, TypeOK
<1>5. v \in Words
  BY <1>2, <1>3, L1Fields DEF Line
<1>6. /\ SeenReq # Idle /\ ~SeenReq.done
      /\ c.op = "read" => SeenReq' = [SeenReq EXCEPT !.done = TRUE, !.val = v]
      /\ c.op = "write" => SeenReq' = [SeenReq EXCEPT !.done = TRUE]
      /\ ~In(1, "load")' /\ ~In(1, "enter")'
  BY <1>1, <1>4, <1>5, ReturnSeen DEF IInv
<1>7. /\ SeenReq.line = c.line /\ SeenReq.off = c.off
      /\ SeenReq.op = c.op /\ SeenReq.val = c.val
  BY <1>1, SeenIsRequest DEF IInv
<1>8. ~In(1, "load")
  BY <1>1 DEF In
<1>9. \A t \in Slots : ~Loading(t) /\ ~Loading(t)'
  BY <1>6, <1>8 DEF Loading
<1>10. SeenUsed = lfu_cnt[1] /\ SeenBlock = data[1]
  BY <1>9, L1Fields DEF SeenUsed, SeenBlock
<1>11. SeenUsed' = lfu_cnt'[1] /\ SeenBlock' = data'[1]
  <2>1. [Next]_vars
    BY L1Fields DEF Next, Step
  <2> QED BY <1>9, <2>1, L1FieldsNext DEF SeenUsed, SeenBlock
<1>12. UNCHANGED <<SeenSlotOf, SeenTaken, SeenAccesses>>
  <2>1. SeenSlotOf' = SeenSlotOf
    BY <1>4, <1>6, <1>8 DEF SeenSlotOf, SlotOf
  <2>2. SeenTaken' = SeenTaken
    BY <1>4, <1>9 DEF SeenTaken
  <2>3. SeenAccesses' = SeenAccesses
    BY <1>1, <1>6, <1>20, L1Fields DEF SeenAccesses
  <2> QED BY <2>1, <2>2, <2>3
<1>13. SeenSlotOf[c.line] = s
  BY <1>2, <1>8 DEF SeenSlotOf, SlotOf
<1>14. Seen!Placed(c.line)
  BY <1>1, <1>2, SeenPlaced
<1> HIDE DEF c, s
<1>15. SeenUsed' = [SeenUsed EXCEPT ![s] = @ + 1]
  BY <1>4, <1>10, <1>11
<1>16. CASE c.op = "read"
  <2>1. SeenReq' = [SeenReq EXCEPT !.done = TRUE, !.val = SeenBlock[s][SeenReq.off]]
    BY <1>6, <1>7, <1>10, <1>16
  <2>2. SeenBlock' = SeenBlock
    BY <1>4, <1>10, <1>11, <1>16
  <2> QED BY <1>6, <1>7, <1>12, <1>13, <1>14, <1>15, <1>16, <2>1, <2>2
          DEF Seen!Perform, Seen!PerformAt, Seen!Pending
<1>17. CASE c.op = "write"
  <2>1. SeenBlock' = [SeenBlock EXCEPT ![s][SeenReq.off] = SeenReq.val]
    BY <1>4, <1>7, <1>10, <1>11, <1>17
  <2> QED BY <1>6, <1>7, <1>12, <1>13, <1>14, <1>15, <1>17, <2>1
          DEF Seen!Perform, Seen!PerformAt, Seen!Pending
<1> QED BY <1>2, <1>16, <1>17 DEF c

(* The line is loaded and entered: the access is served from the slot it was given,
   which holds memory's words. *)
LEMMA InstallSeen ==
  ASSUME IInv, Install(1)
  PROVE  Seen!Perform
<1> DEFINE c == call[1]
           s == c.slot
           v == IF c.op = "write" THEN c.val ELSE data[1][s][c.off]
<1>1. In(1, "load") /\ c.i = LINE_SIZE /\ c # Idle
  BY DEF Install, InstallWith, In
<1>2. /\ c.line \in Lines /\ c.off \in Offsets /\ c.val \in Words
      /\ c.op \in {"read", "write"} /\ s \in Slots
  BY <1>1, L1Fields, FrameFields DEF IInv
<1>3. data[1][s] = Image[c.line]
  <2>1. \A o \in Offsets : data[1][s][o] = Image[c.line][o]
    BY <1>1, L1Fields, GeometryAssumption DEF IInv, LoadedIsImage, Offsets
  <2>2. data[1][s] \in [Offsets -> Words] /\ Image[c.line] \in [Offsets -> Words]
    BY <1>2, L1Fields, GeometryAssumption DEF Line
  <2> QED BY <2>1, <2>2
<1>4. /\ call'[1] = Return(c, v)
      /\ lfu_cnt'[1] = [lfu_cnt[1] EXCEPT ![s] = 1]
      /\ valid'[1] = [valid[1] EXCEPT ![s] = TRUE]
      /\ addr2line'[1] = [addr2line[1] EXCEPT ![c.line] = s]
      /\ data'[1] = IF c.op = "write" THEN [data[1] EXCEPT ![s][c.off] = c.val] ELSE data[1]
      /\ UNCHANGED cnt
  BY L1Fields DEF Install, InstallWith, Serve, IInv, TypeOK
<1>5. v \in Words
  BY <1>2, L1Fields DEF Line
<1>6. /\ SeenReq # Idle /\ ~SeenReq.done
      /\ c.op = "read" => SeenReq' = [SeenReq EXCEPT !.done = TRUE, !.val = v]
      /\ c.op = "write" => SeenReq' = [SeenReq EXCEPT !.done = TRUE]
      /\ ~In(1, "load")' /\ ~In(1, "enter")'
  BY <1>1, <1>4, <1>5, ReturnSeen DEF IInv
<1>7. /\ SeenReq.line = c.line /\ SeenReq.off = c.off
      /\ SeenReq.op = c.op /\ SeenReq.val = c.val
  BY <1>1, SeenIsRequest DEF IInv
<1>8. \A t \in Slots : (Loading(t) <=> t = s) /\ ~Loading(t)'
  BY <1>1, <1>6 DEF Loading
<1>9. /\ \A l \in Lines : SlotOf(l) = IF l = c.line THEN s ELSE addr2line[1][l]
      /\ \A l \in Lines : SlotOf(l)' = addr2line'[1][l]
  BY <1>1, <1>6 DEF SlotOf
<1>10. SeenAccesses' = SeenAccesses
  BY <1>1, <1>4, <1>6 DEF SeenAccesses, In
<1>11. Seen!Placed(c.line)
  BY <1>1, <1>2, SeenPlaced
<1>12. SeenBlock = [data[1] EXCEPT ![s] = Image[c.line]]
  BY <1>2, <1>8, L1Fields DEF SeenBlock
<1>13. SeenBlock = data[1]
  BY <1>2, <1>3, <1>12, L1Fields
<1>14. SeenBlock' = data'[1]
  <2>1. [Next]_vars
    BY L1Fields DEF Next, Step
  <2> QED BY <1>8, <2>1, L1FieldsNext DEF SeenBlock
<1> HIDE DEF c, s
<1>15. SeenSlotOf' = SeenSlotOf /\ SeenSlotOf[c.line] = s
  BY <1>2, <1>4, <1>9, L1Fields DEF SeenSlotOf
<1>16. SeenTaken' = SeenTaken
  BY <1>2, <1>4, <1>8, L1Fields DEF SeenTaken
<1>17. SeenUsed' = [SeenUsed EXCEPT ![s] = @ + 1]
  <2>1. SeenUsed = [lfu_cnt[1] EXCEPT ![s] = 0]
    BY <1>2, <1>8, L1Fields DEF SeenUsed
  <2>2. SeenUsed' = [lfu_cnt[1] EXCEPT ![s] = 1]
    BY <1>2, <1>4, <1>8, L1Fields DEF SeenUsed
  <2> QED BY <1>2, <2>1, <2>2, L1Fields
<1>18. CASE c.op = "read"
  <2>1. SeenReq' = [SeenReq EXCEPT !.done = TRUE, !.val = SeenBlock[s][SeenReq.off]]
    BY <1>6, <1>7, <1>13, <1>18
  <2>2. SeenBlock' = SeenBlock
    BY <1>4, <1>13, <1>14, <1>18
  <2> QED BY <1>6, <1>7, <1>10, <1>11, <1>15, <1>16, <1>17, <1>18, <2>1, <2>2
          DEF Seen!Perform, Seen!PerformAt, Seen!Pending
<1>19. CASE c.op = "write"
  <2>1. SeenBlock' = [SeenBlock EXCEPT ![s][SeenReq.off] = SeenReq.val]
    BY <1>4, <1>7, <1>13, <1>14, <1>19
  <2> QED BY <1>6, <1>7, <1>10, <1>11, <1>15, <1>16, <1>17, <1>19, <2>1
          DEF Seen!Perform, Seen!PerformAt, Seen!Pending
<1> QED BY <1>2, <1>18, <1>19 DEF c

-----------------------------------------------------------------------------
(* The loop of L1's load_line is not seen ... *)
LEMMA LoadUnseen ==
  ASSUME IInv, CallNext(1) \/ Resume(1)
  PROVE  UNCHANGED Seen!vars
<1>1. CASE CallNext(1)
  <2>1. /\ call'[1] = call[1]
        /\ UNCHANGED <<data, valid, lfu_cnt, addr2line, cnt>>
    BY <1>1, L1Fields DEF CallNext, CallNextUpTo, tables, IInv, TypeOK
  <2> QED BY <2>1, Unseen
<1>2. CASE Resume(1)
  <2> DEFINE c == call[1]
  <2>1. c # Idle /\ call[2] # Idle
    BY <1>2 DEF Resume, In
  <2>2. In(1, "load") /\ c.phase = "load"
    BY <2>1, L1Fields DEF IInv, StackOK, In
  <2>3. /\ call'[1] = [c EXCEPT !.i = @ + 1]
        /\ data'[1] = [data[1] EXCEPT ![c.slot][c.i] = call[2].val]
        /\ UNCHANGED <<valid, lfu_cnt, addr2line, cnt>>
    <3>1. /\ UNCHANGED <<valid, lfu_cnt, addr2line, cnt>>
          /\ data' = [data EXCEPT ![1][c.slot][c.i] = call[2].val]
          /\ call' = [call EXCEPT ![1] = [c EXCEPT !.i = @ + 1], ![2] = Idle]
      BY <1>2, <2>2 DEF Resume, NextWord, tables
    <3>2. call'[1] = [c EXCEPT !.i = @ + 1]
      <4> DEFINE d == [c EXCEPT !.i = @ + 1]
      <4>1. call' = [call EXCEPT ![1] = d, ![2] = Idle]
        BY <3>1
      <4> HIDE DEF c, d
      <4>2. call'[1] = d
        BY <4>1, L1Fields DEF IInv, TypeOK
      <4> QED BY <4>2 DEF d
    <3>3. data'[1] = [data[1] EXCEPT ![c.slot][c.i] = call[2].val]
      BY <3>1, L1Fields DEF IInv, TypeOK
    <3> QED BY <3>1, <3>2, <3>3
  <2>4. c \in Frame
    BY <2>1, L1Fields, FrameFields DEF IInv
  <2>5. /\ call'[1].op = c.op /\ call'[1].line = c.line /\ call'[1].off = c.off
        /\ call'[1].val = c.val /\ call'[1].slot = c.slot /\ call'[1].phase = "load"
    BY <2>2, <2>3, <2>4 DEF Frame
  <2>6. call'[1] # Idle
    <3>1. call' \in [1 .. Mem -> Frame \cup {Idle}]
      BY <1>2, NextIInv DEF IInv, TypeOK, Next, Step, Levels
    <3>2. call'[1].phase = "load"
      BY <2>5
    <3>3. c.i + 1 \in 0 .. LINE_SIZE
      BY <2>1, L1Fields, GeometryAssumption, FrameFields DEF IInv, StackOK
    <3>4. call'[1] \in Frame
      BY <2>3, <2>4, <3>3 DEF Frame
    <3> QED BY <3>4, CacheModAssumption
  <2>7. In(1, "load")'
    BY <2>5, <2>6 DEF In
  <2> QED BY <2>2, <2>3, <2>5, <2>7, L1Fields, Unseen
<1> QED BY <1>1, <1>2

(* ... and nothing that L2, L3 and Memory do is. *)
LEMMA BelowUnseen ==
  ASSUME IInv,
         \/ MemAccess
         \/ \E lv \in {2, 3} : Hit(lv) \/ Miss(lv) \/ CallNext(lv) \/ Resume(lv) \/ Install(lv)
  PROVE  UNCHANGED Seen!vars
<1>1. CASE MemAccess
  <2>1. /\ call'[1] = call[1]
        /\ UNCHANGED <<data, valid, lfu_cnt, addr2line, cnt>>
    BY <1>1, L1Fields DEF MemAccess, tables, IInv, TypeOK, Mem
  <2> QED BY <2>1, Unseen
<1>2. ASSUME NEW lv \in {2, 3},
             Hit(lv) \/ Miss(lv) \/ CallNext(lv) \/ Resume(lv) \/ Install(lv)
      PROVE  UNCHANGED Seen!vars
  <2>1. call'[1] = call[1]
    <3>1. \/ call' = [call EXCEPT ![lv] = call'[lv]]
          \/ call' = [call EXCEPT ![lv + 1] = call'[lv + 1]]
          \/ call' = [call EXCEPT ![lv] = call'[lv], ![lv + 1] = Idle]
      <4>1. call \in [1 .. Mem -> Frame \cup {Idle}] /\ lv \in 1 .. Mem /\ lv + 1 \in 1 .. Mem
        BY DEF IInv, TypeOK, Mem
      <4> QED BY ZenonT(60), <1>2, <4>1 DEF Hit, HitCounting, Miss, CallNext, CallNextUpTo, Resume, Install,
                                InstallWith, Serve
    <3> QED BY <3>1, L1Fields DEF IInv, TypeOK, Mem
  <2>2. lv \in Levels /\ 1 \in Levels /\ 1 # lv
    BY DEF Levels
  <2>3. data'[1] = data[1]
    <3>1. CASE Hit(lv) \/ Install(lv)
      <4>1. PICK s : Serve(lv, s)
        BY <3>1 DEF Hit, HitCounting, Install, InstallWith
      <4>2. CASE call[lv].op = "write"
        BY <2>2, <4>1, <4>2 DEF Serve, IInv, TypeOK
      <4>3. CASE call[lv].op # "write"
        BY <4>1, <4>3 DEF Serve
      <4> QED BY <4>2, <4>3
    <3>2. CASE Miss(lv) \/ CallNext(lv)
      BY <3>2 DEF Miss, CallNext, CallNextUpTo
    <3>3. CASE Resume(lv)
      <4>1. CASE call[lv].phase = "load"
        BY <2>2, <3>3, <4>1 DEF Resume, IInv, TypeOK
      <4>2. CASE call[lv].phase # "load"
        BY <3>3, <4>2 DEF Resume
      <4> QED BY <4>1, <4>2
    <3> QED BY <1>2, <3>1, <3>2, <3>3
  <2>4. cnt'[1] = cnt[1]
    <3>1. cnt' = cnt \/ \E n : cnt' = [cnt EXCEPT ![lv] = n]
      BY <1>2 DEF Hit, HitCounting, Miss, CallNext, CallNextUpTo, Resume, Install, InstallWith
    <3> QED BY <2>2, <3>1 DEF IInv, TypeOK
  <2>5. lfu_cnt'[1] = lfu_cnt[1]
    <3>1. CASE \E s, n : lfu_cnt' = [lfu_cnt EXCEPT ![lv][s] = n]
      BY <2>2, <3>1 DEF IInv, TypeOK
    <3>2. CASE Hit(lv)
      <4>1. lfu_cnt' = [lfu_cnt EXCEPT ![lv][addr2line[lv][call[lv].line]] = Uses(lv) + 1]
        BY <3>2 DEF Hit, HitCounting
      <4> QED BY <3>1, <4>1
    <3>3. CASE Install(lv)
      <4>1. lfu_cnt' = [lfu_cnt EXCEPT ![lv][call[lv].slot] = 1]
        BY <3>3 DEF Install, InstallWith
      <4> QED BY <3>1, <4>1
    <3>4. CASE Miss(lv) \/ CallNext(lv) \/ Resume(lv)
      BY <3>4 DEF Miss, CallNext, CallNextUpTo, Resume
    <3> QED BY <1>2, <3>2, <3>3, <3>4
  <2>6. valid'[1] = valid[1] /\ addr2line'[1] = addr2line[1]
    <3>1. CASE UNCHANGED tables
      BY <3>1 DEF tables
    <3>2. CASE Install(lv)
      <4>1. /\ \E s : valid' = [valid EXCEPT ![lv][s] = TRUE]
            /\ \E l, s : addr2line' = [addr2line EXCEPT ![lv][l] = s]
        BY <3>2 DEF Install, InstallWith
      <4> QED BY <2>2, <4>1 DEF IInv, TypeOK
    <3> QED BY <1>2, <3>1, <3>2 DEF Hit, HitCounting, Miss, CallNext, CallNextUpTo, Resume
  <2> QED BY <2>1, <2>3, <2>4, <2>5, <2>6, Unseen
<1> QED BY <1>1, <1>2

(* Each step of the hierarchy is one of the table of slots, or a stutter. *)
LEMMA NextSeen ==
  ASSUME IInv, [Next]_vars
  PROVE  [Seen!Next]_(Seen!vars)
<1>1. ASSUME NEW l \in Lines, NEW o \in Offsets, Read(l, o)
      PROVE  Seen!Next
  <2>1. Seen!Issue("read", l, o, MAGIC)
    BY <1>1, AccessSeen, GeometryAssumption DEF Read, AnyWord
  <2> QED BY <2>1 DEF Seen!Next, Seen!Offsets, Offsets
<1>2. ASSUME NEW l \in Lines, NEW o \in Offsets, NEW v \in Stores, Write(l, o, v)
      PROVE  Seen!Next
  <2>1. Seen!Issue("write", l, o, v)
    BY <1>2, AccessSeen, CacheModAssumption DEF Write
  <2> QED BY <2>1 DEF Seen!Next, Seen!Offsets, Offsets
<1>3. CASE Hit(1) \/ Miss(1) \/ Install(1) \/ Deliver
  BY <1>3, HitSeen, MissSeen, InstallSeen, DeliverSeen DEF Seen!Next
<1>4. CASE CallNext(1) \/ Resume(1)
  BY <1>4, LoadUnseen
<1>5. CASE \/ MemAccess
           \/ \E lv \in {2, 3} : Hit(lv) \/ Miss(lv) \/ CallNext(lv) \/ Resume(lv) \/ Install(lv)
  BY <1>5, BelowUnseen
<1>6. CASE Halt \/ UNCHANGED vars
  BY <1>6, L1Fields, Unseen DEF Halt, vars, tables
<1>7. Levels = {1, 2, 3}
  BY DEF Levels
<1> QED BY <1>1, <1>2, <1>3, <1>4, <1>5, <1>6, <1>7 DEF Next, Step

(* The three levels and Memory are one table of slots over a memory that never
   changes: whatever L2 and L3 hold, have evicted or count, the program gets the
   words, and the slots, that FirstTouch gives it. *)
THEOREM CacheModIsFirstTouch == Spec => ImplementsFirstTouch
<1>1. IInv /\ [Next]_vars => [Seen!Next]_(Seen!vars)
  BY NextSeen
<1> QED BY Invariance, InitSeen, <1>1, PTL DEF Spec, ImplementsFirstTouch, Seen!Spec

==============================================================================
