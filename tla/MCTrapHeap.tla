----------------------------- MODULE MCTrapHeap -----------------------------
EXTENDS TrapHeap

(* The queue needs no program. *)
MCPrograms == {}

==============================================================================
