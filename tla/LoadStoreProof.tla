--------------------------- MODULE LoadStoreProof ---------------------------
(***************************************************************************)
(* What a program may rely on when it loads a word through CacheMod::read,  *)
(* for every number of lines, groups, ways and words and every sequence of  *)
(* loads and stores.                                                       *)
(***************************************************************************)
EXTENDS LoadStore, CacheGeometryProof, FiniteSetTheorems

LEMMA RequestFields ==
  ASSUME TypeOK, req # Idle
  PROVE  /\ req \in Request
         /\ req.op \in {"read", "write"}
         /\ req.line \in Lines
         /\ req.off \in Offsets
         /\ req.val \in Words
         /\ req.done \in BOOLEAN
BY DEF TypeOK, Request

LEMMA RequestType ==
  ASSUME NEW op \in {"read", "write"}, NEW l \in Lines, NEW o \in Offsets, NEW v \in Words,
         NEW d \in BOOLEAN
  PROVE  LET r == [op |-> op, line |-> l, off |-> o, val |-> v, done |-> d]
         IN r \in Request /\ r # Idle
BY FirstTouchAssumption DEF Request

(* A line that was placed has one of its group's slots. *)
LEMMA SlotType ==
  ASSUME TypeOK, SlotsOK, NEW l \in Lines, Placed(l)
  PROVE  slotOf[l] \in Slots /\ slotOf[l] \in {Group(l)} \X Ways
BY GroupType DEF TypeOK, SlotsOK, Placed, Slots

LEMMA InitLSInv == LSInit => LSInv
<1> SUFFICES ASSUME LSInit PROVE LSInv
  OBVIOUS
<1> USE GeometryAssumption, FirstTouchAssumption
<1>1. TypeOK
  BY DEF LSInit, Init, TypeOK, Line, Request
<1>2. \A l \in Lines : ~Placed(l)
  BY DEF LSInit, Init, Placed
<1>3. SlotsOK
  BY <1>2 DEF LSInit, Init, SlotsOK, Placed
<1>4. OwnSlotHoldsStored
  BY <1>2 DEF LSInit, OwnSlotHoldsStored
<1>5. SharedIsFull
  BY <1>2 DEF SharedIsFull, Shared
<1>6. FinitelyPlaced
  <2>1. {l \in Lines : Placed(l)} = {}
    BY <1>2
  <2> QED BY <2>1, FS_EmptySet DEF FinitelyPlaced
<1>7. DoneIsPlaced /\ RightUntilShared
  BY DEF LSInit, Init, DoneIsPlaced, RightUntilShared, LoadDone
<1> QED BY <1>1, <1>3, <1>4, <1>5, <1>6, <1>7 DEF LSInv

-----------------------------------------------------------------------------
LEMMA IssueStep ==
  ASSUME LSInv, NEW op \in {"read", "write"}, NEW l \in Lines, NEW o \in Offsets,
         NEW v \in Words, LSIssue(op, l, o, v)
  PROVE  LSInv'
<1> USE DEF LSInv
<1>1. /\ UNCHANGED <<slotOf, taken, used, block, stored>>
      /\ req' \in Request /\ req' # Idle /\ ~req'.done
      /\ accesses' \in 0 .. MaxAccesses
  <2>1. /\ req' = [op |-> op, line |-> l, off |-> o, val |-> v, done |-> FALSE]
        /\ accesses < MaxAccesses /\ accesses' = accesses + 1
        /\ UNCHANGED <<slotOf, taken, used, block, stored>>
    BY DEF LSIssue, Issue
  <2>2. req' \in Request /\ req' # Idle
    BY <2>1, RequestType
  <2>3. accesses' \in 0 .. MaxAccesses
    BY <2>1, FirstTouchAssumption DEF TypeOK
  <2> QED BY <2>1, <2>2, <2>3
<1>2. TypeOK'
  BY <1>1 DEF TypeOK
<1>3. SlotsOK' /\ OwnSlotHoldsStored' /\ SharedIsFull' /\ FinitelyPlaced'
  BY <1>1 DEF SlotsOK, OwnSlotHoldsStored, SharedIsFull, FinitelyPlaced, FreeWays, Placed,
              Shared
<1>4. DoneIsPlaced' /\ RightUntilShared'
  BY <1>1 DEF DoneIsPlaced, RightUntilShared, LoadDone
<1> QED BY <1>2, <1>3, <1>4

(* What a miss does to the tables. *)
LEMMA PlaceFacts ==
  ASSUME TypeOK, SlotsOK, Place
  PROVE  LET r == req.line
             s == TargetLine(taken, used, r) IN
         /\ r \in Lines /\ ~Placed(r) /\ ~req.done /\ req # Idle
         /\ s \in {Group(r)} \X Ways /\ s \in Slots /\ s # None
         /\ slotOf' = [slotOf EXCEPT ![r] = s]
         /\ taken' = [taken EXCEPT ![s] = TRUE]
         /\ used' = [used EXCEPT ![s] = 0]
         /\ block' = [block EXCEPT ![s] = Image[r]]
         /\ UNCHANGED <<req, accesses>>
         /\ slotOf'[r] = s
         /\ \A l \in Lines : l # r => slotOf'[l] = slotOf[l]
<1>1. /\ req # Idle /\ req.line \in Lines /\ ~req.done
  BY RequestFields DEF Place, PlaceWith, Pending
<1>2. taken \in [Slots -> BOOLEAN] /\ used \in [Slots -> Nat] /\ slotOf \in [Lines -> Slots \cup {None}]
  BY DEF TypeOK
<1>3. /\ TargetLine(taken, used, req.line) \in {Group(req.line)} \X Ways
      /\ TargetLine(taken, used, req.line) \in Slots
  BY <1>1, <1>2, TargetInGroup
<1> QED BY <1>1, <1>2, <1>3, FirstTouchAssumption DEF Place, PlaceWith

LEMMA PlaceStep ==
  ASSUME LSInv, LSPlace
  PROVE  LSInv'
<1> USE DEF LSInv
<1> DEFINE r == req.line
           s == TargetLine(taken, used, r)
<1>1. Place /\ UNCHANGED stored
  BY DEF LSPlace
<1>2. /\ r \in Lines /\ ~Placed(r) /\ ~req.done /\ req # Idle
      /\ s \in {Group(r)} \X Ways /\ s \in Slots /\ s # None
      /\ slotOf' = [slotOf EXCEPT ![r] = s]
      /\ taken' = [taken EXCEPT ![s] = TRUE]
      /\ used' = [used EXCEPT ![s] = 0]
      /\ block' = [block EXCEPT ![s] = Image[r]]
      /\ UNCHANGED <<req, accesses>>
      /\ slotOf'[r] = s
      /\ \A l \in Lines : l # r => slotOf'[l] = slotOf[l]
  BY <1>1, PlaceFacts
<1> HIDE DEF r, s
<1>3. TypeOK'
  BY <1>1, <1>2, GeometryAssumption DEF TypeOK
<1>4. /\ \A l \in Lines : Placed(l)' <=> Placed(l) \/ l = r
  BY <1>2 DEF Placed
<1>5. SlotsOK'
  <2>1. \A l \in Lines : Placed(l)' => slotOf'[l] \in {Group(l)} \X Ways
    BY <1>2, <1>4 DEF SlotsOK
  <2>2. ASSUME NEW t \in Slots
        PROVE  taken'[t] <=> \E l \in Lines : slotOf'[l] = t
    <3>1. CASE t = s
      BY <1>2, <3>1 DEF TypeOK
    <3>2. CASE t # s
      <4>1. taken'[t] <=> taken[t]
        BY <1>2, <3>2 DEF TypeOK
      <4>2. \A l \in Lines : slotOf'[l] = t <=> slotOf[l] = t
        BY <1>2, <3>2, FirstTouchAssumption DEF Placed
      <4> QED BY <4>1, <4>2 DEF SlotsOK
    <3> QED BY <3>1, <3>2
  <2> QED BY <2>1, <2>2 DEF SlotsOK
<1>6. OwnSlotHoldsStored'
  <2>1. ASSUME NEW l \in Lines, Placed(l)', ~Shared(l)'
        PROVE  block'[slotOf'[l]] = stored'[l]
    <3>1. \A k \in Lines \ {l} : slotOf'[k] # slotOf'[l]
      BY <2>1 DEF Shared
    <3>2. CASE l = r
      BY <1>1, <1>2, <3>2 DEF OwnSlotHoldsStored, TypeOK
    <3>3. CASE l # r
      <4>1. Placed(l) /\ slotOf'[l] = slotOf[l] /\ slotOf[l] # s
        BY <1>2, <1>4, <2>1, <3>1, <3>3
      <4>2. ~Shared(l)
        <5>1. \A k \in Lines \ {l} : k # r => slotOf[k] # slotOf[l]
          BY <1>2, <3>1, <4>1
        <5>2. slotOf[r] # slotOf[l]
          BY <1>2, <4>1 DEF Placed
        <5> QED BY <5>1, <5>2 DEF Shared
      <4>3. block'[slotOf[l]] = block[slotOf[l]]
        BY <1>2, <4>1, SlotType DEF TypeOK
      <4> QED BY <1>1, <4>1, <4>2, <4>3 DEF OwnSlotHoldsStored
    <3> QED BY <3>2, <3>3
  <2>2. \A l \in Lines : ~Placed(l)' => stored'[l] = Image[l]
    BY <1>1, <1>4 DEF OwnSlotHoldsStored
  <2> QED BY <2>1, <2>2 DEF OwnSlotHoldsStored
<1>7. \A t \in Slots : taken[t] => taken'[t]
  BY <1>2 DEF TypeOK
<1>8. SharedIsFull'
  <2> SUFFICES ASSUME NEW l \in Lines, Shared(l)', NEW w \in Ways
               PROVE  taken'[<<Group(l), w>>]
    BY DEF SharedIsFull, FreeWays
  <2>1. <<Group(l), w>> \in Slots
    BY GroupType DEF Slots
  <2>2. ASSUME FreeWays(taken, Group(l)) = {} PROVE taken'[<<Group(l), w>>]
    BY <1>7, <2>1, <2>2 DEF FreeWays
  <2>3. CASE Shared(l)
    BY <2>2, <2>3 DEF SharedIsFull
  <2>4. CASE ~Shared(l)
    <3>1. PICK k \in Lines \ {l} : slotOf'[k] = slotOf'[l]
      BY DEF Shared
    <3>2. slotOf'[l] = s /\ ((l = r /\ slotOf[k] = s) \/ (k = r /\ slotOf[l] = s))
      BY <1>2, <1>4, <2>4, <3>1 DEF Shared, Placed
    <3>3. taken[s]
      BY <1>2, <3>2 DEF SlotsOK
    <3>4. FreeWays(taken, Group(r)) = {}
      BY <1>2, <3>3, TargetIsFree DEF r, s
    <3>5. Group(l) = Group(r)
      BY <1>2, <1>4, <1>5, <3>2 DEF SlotsOK, Placed
    <3> QED BY <2>2, <3>4, <3>5
  <2> QED BY <2>3, <2>4
<1>9. FinitelyPlaced'
  <2>1. {l \in Lines : Placed(l)'} = {l \in Lines : Placed(l)} \cup {r}
    BY <1>2, <1>4
  <2> QED BY <2>1, FS_AddElement DEF FinitelyPlaced
<1>10. DoneIsPlaced' /\ RightUntilShared'
  BY <1>2 DEF DoneIsPlaced, RightUntilShared, LoadDone
<1> QED BY <1>3, <1>5, <1>6, <1>8, <1>9, <1>10

LEMMA PerformStep ==
  ASSUME LSInv, LSPerform
  PROVE  LSInv'
<1> USE DEF LSInv
<1> DEFINE r == req.line
           s == slotOf[r]
<1>1. /\ req # Idle /\ ~req.done /\ req \in Request
      /\ req.op \in {"read", "write"} /\ r \in Lines /\ req.off \in Offsets
      /\ req.val \in Words /\ Placed(r)
  BY RequestFields DEF LSPerform, Perform, PerformAt, Pending
<1>2. s \in Slots
  BY <1>1, SlotType
<1>3. /\ used' = [used EXCEPT ![s] = @ + 1]
      /\ UNCHANGED <<slotOf, taken, accesses>>
  BY DEF LSPerform, Perform, PerformAt
<1>4. /\ SlotsOK' /\ SharedIsFull' /\ FinitelyPlaced'
      /\ \A l \in Lines : Placed(l)' <=> Placed(l)
      /\ \A l \in Lines : Shared(l)' <=> Shared(l)
  BY <1>3 DEF SlotsOK, SharedIsFull, FinitelyPlaced, FreeWays, Placed, Shared
<1>5. CASE req.op = "read"
  <2>1. /\ req' = [req EXCEPT !.done = TRUE, !.val = block[s][req.off]]
        /\ UNCHANGED <<block, stored>>
    BY <1>5 DEF LSPerform, Perform, PerformAt
  <2>2. block[s][req.off] \in Words
    BY <1>1, <1>2 DEF TypeOK, Line
  <2>3. /\ req' \in Request /\ req' # Idle /\ req'.op = "read" /\ req'.done
        /\ req'.line = r /\ req'.off = req.off /\ req'.val = block[s][req.off]
    BY <1>1, <1>5, <2>1, <2>2, FirstTouchAssumption DEF Request
  <2>4. TypeOK'
    BY <1>2, <1>3, <2>1, <2>3 DEF TypeOK
  <2>5. OwnSlotHoldsStored'
    BY <1>3, <1>4, <2>1 DEF OwnSlotHoldsStored
  <2>6. DoneIsPlaced'
    BY <1>1, <1>4, <2>3 DEF DoneIsPlaced
  <2>7. RightUntilShared'
    BY <1>1, <1>4, <2>1, <2>3 DEF RightUntilShared, OwnSlotHoldsStored
  <2> QED BY <1>4, <2>4, <2>5, <2>6, <2>7
<1>6. CASE req.op = "write"
  <2>1. /\ req' = [req EXCEPT !.done = TRUE]
        /\ block' = [block EXCEPT ![s][req.off] = req.val]
        /\ stored' = [stored EXCEPT ![r][req.off] = req.val]
    BY <1>6 DEF LSPerform, Perform, PerformAt
  <2>2. /\ req' \in Request /\ req' # Idle /\ req'.op = "write" /\ req'.done
        /\ req'.line = r
    BY <1>1, <1>6, <2>1, FirstTouchAssumption DEF Request
  <2>3. TypeOK'
    <3>1. block' \in [Slots -> Line] /\ stored' \in [Lines -> Line]
      BY <1>1, <1>2, <2>1 DEF TypeOK, Line
    <3>2. used' \in [Slots -> Nat]
      BY <1>2, <1>3 DEF TypeOK
    <3> QED BY <1>3, <2>2, <3>1, <3>2 DEF TypeOK
  <2>4. OwnSlotHoldsStored'
    <3>1. ASSUME NEW l \in Lines, Placed(l), ~Shared(l)
          PROVE  block'[slotOf[l]] = stored'[l]
      <4>1. block[slotOf[l]] = stored[l] /\ slotOf[l] \in Slots
        BY <3>1, SlotType DEF OwnSlotHoldsStored
      <4>2. CASE l = r
        BY <1>1, <1>2, <2>1, <4>1, <4>2 DEF TypeOK, Line
      <4>3. CASE l # r
        <5>1. slotOf[l] # s
          BY <1>1, <3>1, <4>3 DEF Shared
        <5> QED BY <1>1, <1>2, <2>1, <4>1, <4>3, <5>1 DEF TypeOK
      <4> QED BY <4>2, <4>3
    <3>2. ASSUME NEW l \in Lines, ~Placed(l)
          PROVE  stored'[l] = Image[l]
      <4>1. l # r
        BY <1>1, <3>2
      <4> QED BY <1>1, <2>1, <3>2, <4>1 DEF OwnSlotHoldsStored, TypeOK
    <3> QED BY <1>3, <1>4, <3>1, <3>2 DEF OwnSlotHoldsStored
  <2>5. DoneIsPlaced' /\ RightUntilShared'
    BY <1>1, <1>4, <2>2 DEF DoneIsPlaced, RightUntilShared, LoadDone
  <2> QED BY <1>4, <2>3, <2>4, <2>5
<1> QED BY <1>1, <1>5, <1>6

LEMMA FinishStep ==
  ASSUME LSInv, LSFinish
  PROVE  LSInv'
<1>1. req' = Idle /\ UNCHANGED <<slotOf, taken, used, block, accesses, stored>>
  BY DEF LSFinish, Finish
<1> QED BY <1>1 DEF LSInv, TypeOK, SlotsOK, OwnSlotHoldsStored, SharedIsFull,
                    FinitelyPlaced, DoneIsPlaced, RightUntilShared, LoadDone, FreeWays,
                    Placed, Shared

LEMMA LSStutterStep ==
  ASSUME LSInv, UNCHANGED lsVars
  PROVE  LSInv'
BY DEF lsVars, vars, LSInv, TypeOK, SlotsOK, OwnSlotHoldsStored, SharedIsFull,
       FinitelyPlaced, DoneIsPlaced, RightUntilShared, LoadDone, FreeWays, Placed, Shared

(* Which steps there are. *)
LEMMA LSStepCases ==
  ASSUME [LSNext]_lsVars
  PROVE  \/ \E op \in {"read", "write"}, l \in Lines, o \in Offsets, v \in Words :
              LSIssue(op, l, o, v)
         \/ LSPlace
         \/ LSPerform
         \/ LSFinish
         \/ UNCHANGED lsVars
<1>1. MAGIC \in Words /\ Stores \subseteq Words
  BY GeometryAssumption, FirstTouchAssumption
<1>2. LSHalt => UNCHANGED lsVars
  BY DEF LSHalt, Halt, lsVars
<1> QED BY <1>1, <1>2 DEF LSNext

LEMMA NextLSInv ==
  ASSUME LSInv, [LSNext]_lsVars
  PROVE  LSInv'
BY LSStepCases, IssueStep, PlaceStep, PerformStep, FinishStep, LSStutterStep

(* The tables inCache and addr2line, the slots' words and what the program stored
   agree in every reachable state, but for the lines that share a slot. *)
THEOREM LSInvariance == LSSpec => []LSInv
<1>1. LSInv /\ [LSNext]_lsVars => LSInv'
  BY NextLSInv
<1> QED BY InitLSInv, <1>1, PTL DEF LSSpec

(* However many lines are loaded, evicted and stored to in between, a load of a
   line that has its slot for itself returns the word stored last at its address. *)
THEOREM LoadsAreRightUntilShared == LSSpec => []RightUntilShared
<1>1. LSInv => RightUntilShared
  BY DEF LSInv
<1> QED BY LSInvariance, <1>1, PTL

-----------------------------------------------------------------------------
(* A line that has a slot keeps it: of all steps only a miss changes the maps, and
   that of another line. *)
LEMMA PlacedStays ==
  ASSUME LSInv, [LSNext]_lsVars, NEW l \in Lines, Placed(l)
  PROVE  slotOf'[l] = slotOf[l]
<1>1. CASE LSPlace
  BY <1>1, PlaceFacts DEF LSPlace, LSInv
<1>2. CASE UNCHANGED slotOf
  BY <1>2
<1>3. LSPlace \/ UNCHANGED slotOf
  BY LSStepCases DEF LSIssue, Issue, LSPerform, Perform, PerformAt, LSFinish, Finish,
                     lsVars, vars
<1> QED BY <1>1, <1>2, <1>3

(* Two lines that were given the same slot are two names of the same words for
   ever: nothing takes either one's entries in inCache and addr2line back. *)
THEOREM SharingIsForEver == LSSpec => SharedForEver
<1> DEFINE Stays == \A l \in Lines : Shared(l) => Shared(l)'
<1>1. ASSUME LSInv, [LSNext]_lsVars PROVE Stays
  <2> SUFFICES ASSUME NEW l \in Lines, Shared(l) PROVE Shared(l)'
    OBVIOUS
  <2>1. PICK k \in Lines \ {l} : slotOf[k] = slotOf[l]
    BY DEF Shared
  <2>2. Placed(l) /\ Placed(k)
    BY <2>1 DEF Shared, Placed
  <2>3. slotOf'[l] = slotOf[l] /\ slotOf'[k] = slotOf[k]
    BY <1>1, <2>2, PlacedStays
  <2> QED BY <2>1, <2>2, <2>3 DEF Shared, Placed
<1>2. LSInv /\ [LSNext]_lsVars => [Stays]_lsVars
  BY <1>1
<1> QED BY LSInvariance, <1>2, PTL DEF LSSpec, SharedForEver

(* A group in which two lines share a slot has been asked for more lines than it
   has ways: each way has been given to some line, one of them to two. *)
LEMMA FullGroup ==
  ASSUME LSInv, NEW l \in Lines, Shared(l)
  PROVE  Cardinality(PlacedIn(Group(l))) > GROUP_SIZE
<1> USE DEF LSInv
<1> DEFINE g == Group(l)
           P == PlacedIn(g)
           way == [x \in P \ {l} |-> slotOf[x][2]]
<1>1. PICK k \in Lines \ {l} : slotOf[k] = slotOf[l]
  BY DEF Shared
<1>2. Placed(l) /\ Placed(k) /\ l \in P
  BY <1>1 DEF Shared, Placed, PlacedIn
<1>3. k \in P \ {l}
  <2>1. slotOf[k] \in {Group(k)} \X Ways /\ slotOf[l] \in {Group(l)} \X Ways
    BY <1>2, SlotType
  <2> QED BY <1>1, <1>2, <2>1 DEF PlacedIn
<1>4. IsFiniteSet(P) /\ Cardinality(P) \in Nat
  BY FS_Subset, FS_CardinalityType DEF FinitelyPlaced, PlacedIn
<1>5. IsFiniteSet(P \ {l}) /\ Cardinality(P \ {l}) = Cardinality(P) - 1
  BY <1>2, <1>4, FS_RemoveElement
<1>6. way \in [P \ {l} -> Ways]
  BY SlotType DEF PlacedIn
<1>7. ASSUME NEW w \in Ways PROVE \E x \in P \ {l} : way[x] = w
  <2>1. <<g, w>> \in Slots
    BY GroupType DEF Slots
  <2>2. taken[<<g, w>>]
    BY DEF SharedIsFull, FreeWays
  <2>3. PICK x \in Lines : slotOf[x] = <<g, w>>
    BY <2>1, <2>2 DEF SlotsOK
  <2>4. x \in P
    <3>1. Placed(x)
      BY <2>1, <2>3, FirstTouchAssumption DEF Placed
    <3>2. Group(x) = g
      BY <2>3, <3>1, SlotType
    <3> QED BY <3>1, <3>2 DEF PlacedIn
  <2>5. CASE x = l
    BY <1>1, <1>3, <2>3, <2>5
  <2>6. CASE x # l
    BY <2>3, <2>4, <2>6
  <2> QED BY <2>5, <2>6
<1>8. way \in Surjection(P \ {l}, Ways)
  BY <1>6, <1>7 DEF Surjection
<1>9. Cardinality(Ways) <= Cardinality(P \ {l})
  BY <1>5, <1>8, FS_Surjection
<1>10. Cardinality(Ways) = GROUP_SIZE
  BY GeometryAssumption, FS_Interval DEF Ways
<1> QED BY <1>4, <1>5, <1>9, <1>10, GeometryAssumption

(* Below the size of its groups the cache is never wrong: no two lines share a
   slot before their group has been asked for more lines than it has ways. *)
THEOREM SharingNeedsFullGroup == LSSpec => []SharedOnlyWhenFull
<1>1. LSInv => SharedOnlyWhenFull
  BY FullGroup DEF SharedOnlyWhenFull
<1> QED BY LSInvariance, <1>1, PTL

-----------------------------------------------------------------------------
(* Each step maps to one of WordStore, or changes nothing a program can see. *)
LEMMA WordStoreStep ==
  ASSUME LSInv, [LSNext]_lsVars, \A l \in Lines : ~Shared(l)'
  PROVE  [Transparent!Next]_<<stored, req>>
<1>1. CASE \E l \in Lines, o \in Offsets :
             LSIssue("read", l, o, MAGIC) \/ \E v \in Stores : LSIssue("write", l, o, v)
  BY <1>1 DEF LSIssue, Issue, Transparent!Next, Transparent!Begin
<1>2. CASE LSPlace
  BY <1>2, PlaceFacts DEF LSPlace, LSInv
<1>3. CASE LSPerform
  <2>1. /\ req # Idle /\ ~req.done /\ Placed(req.line) /\ req.line \in Lines
        /\ slotOf' = slotOf /\ req.op \in {"read", "write"}
    BY <1>3, RequestFields DEF LSPerform, Perform, PerformAt, Pending, LSInv
  <2>2. CASE req.op = "read"
    <3>1. /\ req' = [req EXCEPT !.done = TRUE,
                               !.val = block[slotOf[req.line]][req.off]]
          /\ UNCHANGED stored
      BY <1>3, <2>2 DEF LSPerform, Perform, PerformAt
    <3>2. ~Shared(req.line)
      BY <2>1 DEF Shared, Placed
    <3>3. block[slotOf[req.line]] = stored[req.line]
      BY <2>1, <3>2 DEF LSInv, OwnSlotHoldsStored
    <3> QED BY <2>1, <2>2, <3>1, <3>3 DEF Transparent!Next, Transparent!DoLoad
  <2>3. CASE req.op = "write"
    <3>1. /\ req' = [req EXCEPT !.done = TRUE]
          /\ stored' = [stored EXCEPT ![req.line][req.off] = req.val]
      BY <1>3, <2>3 DEF LSPerform, Perform, PerformAt
    <3> QED BY <2>1, <2>3, <3>1 DEF Transparent!Next, Transparent!DoStore
  <2> QED BY <2>1, <2>2, <2>3
<1>4. CASE LSFinish
  BY <1>4 DEF LSFinish, Finish, Transparent!Next, Transparent!Finish
<1>5. CASE LSHalt \/ UNCHANGED lsVars
  BY <1>5 DEF LSHalt, Halt, lsVars, vars
<1> QED BY <1>1, <1>2, <1>3, <1>4, <1>5 DEF LSNext

(* As long as no two lines share a slot, the cache implements a store of words:
   misses, hits and counts are steps that the program does not see. *)
THEOREM CacheIsAWordStore == LSSpec => ImplementsWordStore
<1> DEFINE Step == (\A l \in Lines : ~Shared(l)') => [Transparent!Next]_<<stored, req>>
<1>1. LSInit => Transparent!Init
  BY DEF LSInit, Init, Transparent!Init
<1>2. LSInv /\ [LSNext]_lsVars => [Step]_lsVars
  BY WordStoreStep
<1> QED BY LSInvariance, <1>1, <1>2, PTL DEF LSSpec, ImplementsWordStore

=============================================================================
