------------------------------ MODULE LoadStore ------------------------------
(***************************************************************************)
(* FirstTouch with a history variable: what the program stored last at     *)
(* each address.  It states what a program may rely on when it loads a     *)
(* word through CacheMod::read, and when it may not.                       *)
(***************************************************************************)
EXTENDS FirstTouch, FiniteSets

VARIABLE stored   \* stored[l][o]: the word stored last there, or the image's

lsVars == <<vars, stored>>

LSInit == Init /\ stored = Image

LSIssue(op, l, o, v) == Issue(op, l, o, v) /\ UNCHANGED stored
LSPlace   == Place /\ UNCHANGED stored
LSFinish  == Finish /\ UNCHANGED stored
LSHalt    == Halt /\ UNCHANGED stored
LSPerform ==
  /\ Perform
  /\ stored' = IF req.op = "write"
               THEN [stored EXCEPT ![req.line][req.off] = req.val]
               ELSE stored

LSNext ==
  \/ \E l \in Lines, o \in Offsets :
       LSIssue("read", l, o, MAGIC) \/ \E v \in Stores : LSIssue("write", l, o, v)
  \/ LSPlace
  \/ LSPerform
  \/ LSFinish
  \/ LSHalt

LSSpec == LSInit /\ [][LSNext]_lsVars

-----------------------------------------------------------------------------
TypeOK ==
  /\ slotOf \in [Lines -> Slots \cup {None}]
  /\ taken \in [Slots -> BOOLEAN]
  /\ used \in [Slots -> Nat]
  /\ block \in [Slots -> Line]
  /\ req \in Request \cup {Idle}
  /\ accesses \in 0 .. MaxAccesses
  /\ stored \in [Lines -> Line]

LoadDone == req # Idle /\ req.done /\ req.op = "read"

(* A load returns the word stored last at its address: what a program needs
   to run.  The code breaks it once a group is asked to hold more lines than
   it has ways (Cache.hpp:148-151 and 209-212 never reset inCache). *)
LoadsReturnLastStore ==
  LoadDone => req.val = stored[req.line][req.off]

(* Two lines that were given the same slot. *)
Shared(l) == Placed(l) /\ \E k \in Lines \ {l} : slotOf[k] = slotOf[l]

(* A load is right for as long as its line has its slot for itself: what other
   lines of other slots did, in whatever order, does not matter. *)
RightUntilShared ==
  LoadDone /\ ~Shared(req.line) => req.val = stored[req.line][req.off]

(* The parts of the inductive invariant: slots belong to their lines' group, a
   slot is taken exactly when a line has it, a line that has its slot for itself
   finds there what was stored, and what was never touched was never stored to. *)
SlotsOK ==
  /\ \A l \in Lines : Placed(l) => slotOf[l] \in {Group(l)} \X Ways
  /\ \A s \in Slots : taken[s] <=> \E l \in Lines : slotOf[l] = s

OwnSlotHoldsStored ==
  \A l \in Lines :
    /\ Placed(l) /\ ~Shared(l) => block[slotOf[l]] = stored[l]
    /\ ~Placed(l) => stored[l] = Image[l]

(* A slot is given to a second line only when its group has no free way. *)
SharedIsFull ==
  \A l \in Lines : Shared(l) => FreeWays(taken, Group(l)) = {}

FinitelyPlaced == IsFiniteSet({l \in Lines : Placed(l)})

DoneIsPlaced == req # Idle /\ req.done => Placed(req.line)

(* The maps inCache and addr2line, the slots' words and what the program stored
   agree, but for the lines that share a slot. *)
LSInv ==
  /\ TypeOK
  /\ SlotsOK
  /\ OwnSlotHoldsStored
  /\ SharedIsFull
  /\ FinitelyPlaced
  /\ DoneIsPlaced
  /\ RightUntilShared

PlacedIn(g) == {l \in Lines : Placed(l) /\ Group(l) = g}

(* No two lines share a slot before their group has been asked to hold more
   lines than it has ways: below that the LFU counts choose nothing. *)
SharedOnlyWhenFull ==
  \A l \in Lines :
    Shared(l) => Cardinality(PlacedIn(Group(l))) > GROUP_SIZE

(* Sharing is for ever and goes on spreading: a line that lost its slot to
   another never gets one of its own again, whatever the program does. *)
SharedForEver ==
  [][\A l \in Lines : Shared(l) => Shared(l)']_lsVars

-----------------------------------------------------------------------------
(* The memory a program expects. *)
Transparent ==
  INSTANCE WordStore WITH store <- stored, Blank <- MAGIC

(* Until two lines share a slot CacheMod::read and ::write are a memory: a load
   returns the word stored last and a store changes one word, whatever missed,
   hit and was counted in between. *)
ImplementsWordStore ==
  /\ Transparent!Init
  /\ [][(\A l \in Lines : ~Shared(l)') => [Transparent!Next]_<<stored, req>>]_lsVars

==============================================================================
