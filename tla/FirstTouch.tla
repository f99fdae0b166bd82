----------------------------- MODULE FirstTouch -----------------------------
(***************************************************************************)
(* What the three levels of CacheMod amount to for the program: one table  *)
(* of slots over a memory that never changes.                              *)
(*                                                                         *)
(* The first access to a line gives it a slot, fills the slot from the     *)
(* initial memory image, and the line has that slot for ever: inCache and  *)
(* addr2line are never taken back when the slot is given to another line,  *)
(* and no slot is ever written back because none is ever marked dirty.     *)
(* When a group is full the slot of another line is handed over, and from  *)
(* then on the two lines are two names of the same words.                  *)
(*                                                                         *)
(* L2 and L3 do not appear.  That CacheMod implements this specification,  *)
(* so that neither level ever influences a word the program reads, is      *)
(* checked in MCCacheMod.                                                  *)
(***************************************************************************)
EXTENDS CacheGeometry

CONSTANTS Stores, Idle, None, MaxAccesses

VARIABLES
  slotOf,   \* slotOf[l]: the slot line l got when it was first touched, or None
  taken,    \* taken[s]: some line has got slot s
  used,     \* used[s]: accesses to s since it was last given to a line
  block,    \* block[s]: the words of slot s
  req,      \* the program's access under way, or Idle
  accesses  \* how many accesses were begun

vars == <<slotOf, taken, used, block, req, accesses>>

Request == [op : {"read", "write"}, line : Lines, off : Offsets, val : Words,
            done : BOOLEAN]

ASSUME FirstTouchAssumption ==
  /\ Stores \subseteq Words
  /\ Idle \notin Request
  /\ None \notin Slots
  /\ MaxAccesses \in Nat

Placed(l) == slotOf[l] # None

Init ==
  /\ slotOf = [l \in Lines |-> None]
  /\ taken = [s \in Slots |-> FALSE]
  /\ used = [s \in Slots |-> 0]
  /\ block = [s \in Slots |-> [o \in Offsets |-> MAGIC]]
  /\ req = Idle
  /\ accesses = 0

Issue(op, l, o, v) ==
  /\ req = Idle
  /\ accesses < MaxAccesses
  /\ req' = [op |-> op, line |-> l, off |-> o, val |-> v, done |-> FALSE]
  /\ accesses' = accesses + 1
  /\ UNCHANGED <<slotOf, taken, used, block>>

Pending == req # Idle /\ ~req.done

(* The access misses: its line gets a slot, whoever had it before. *)
PlaceWith(slots, words) ==
  /\ Pending
  /\ ~Placed(req.line)
  /\ LET s == TargetLine(taken, used, req.line) IN
     /\ slotOf' = [slots EXCEPT ![req.line] = s]
     /\ taken' = [taken EXCEPT ![s] = TRUE]
     /\ used' = [used EXCEPT ![s] = 0]
     /\ block' = [block EXCEPT ![s] = words]
  /\ UNCHANGED <<req, accesses>>

(* Mutants: the slot keeps the words of the line before; of the two copies of
   the miss path, only the one of a load forgets the line before. *)
PlaceUnfilled ==
  PlaceWith(slotOf, block[TargetLine(taken, used, req.line)])
PlaceForgetOnLoad ==
  PlaceWith([l \in Lines |->
               IF req.op = "read" /\ slotOf[l] = TargetLine(taken, used, req.line)
               THEN None ELSE slotOf[l]],
            Image[req.line])

Place == PlaceWith(slotOf, Image[req.line])

(* The access is served from its line's slot; off is where a store goes. *)
PerformAt(off) ==
  /\ Pending
  /\ Placed(req.line)
  /\ LET s == slotOf[req.line] IN
     /\ used' = [used EXCEPT ![s] = @ + 1]
     /\ \/ /\ req.op = "read"
           /\ req' = [req EXCEPT !.done = TRUE, !.val = block[s][req.off]]
           /\ UNCHANGED block
        \/ /\ req.op = "write"
           /\ req' = [req EXCEPT !.done = TRUE]
           /\ block' = [block EXCEPT ![s][off] = req.val]
  /\ UNCHANGED <<slotOf, taken, accesses>>

(* Mutant: a store goes to the first word of the line. *)
PerformFirstWord == PerformAt(0)

Perform == PerformAt(req.off)

Finish ==
  /\ req # Idle
  /\ req.done
  /\ req' = Idle
  /\ UNCHANGED <<slotOf, taken, used, block, accesses>>

Halt ==
  /\ req = Idle
  /\ accesses = MaxAccesses
  /\ UNCHANGED vars

Next ==
  \/ \E l \in Lines, o \in Offsets :
       Issue("read", l, o, MAGIC) \/ \E v \in Stores : Issue("write", l, o, v)
  \/ Place
  \/ Perform
  \/ Finish
  \/ Halt

Spec == Init /\ [][Next]_vars

==============================================================================
