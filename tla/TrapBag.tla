------------------------------- MODULE TrapBag -------------------------------
(***************************************************************************)
(* The queue of traps as module Trap has it: a bag, out of which the most  *)
(* urgent trap is taken.                                                   *)
(***************************************************************************)
EXTENDS Core

VARIABLE queue   \* queue[t]: how many traps t wait

Init == queue = [t \in Traps |-> 0]

Arrive(t) == queue' = [queue EXCEPT ![t] = @ + 1]

Take ==
  /\ ~IsEmpty(queue)
  /\ queue' = [queue EXCEPT ![Top(queue)] = @ - 1]

Spec == Init /\ [][Take \/ \E t \in Traps : Arrive(t)]_queue

==============================================================================
