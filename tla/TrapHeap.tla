------------------------------ MODULE TrapHeap ------------------------------
(***************************************************************************)
(* trap_queue of src/src/Trap.hpp: a std::priority_queue ordered by        *)
(* TrapCmp.  TrapCmp(t, t) is TRUE, and so is TrapCmp(a, b) whenever a does *)
(* not interrupt b: it is not the strict weak ordering that the standard   *)
(* library asks for, and what the queue does is whatever the library's     *)
(* heap makes of it.  The heap is modelled as libstdc++ has it (bits/      *)
(* stl_heap.h), with a step for each round of its two loops, and its       *)
(* vector as a function v on 0 .. n - 1.                                   *)
(***************************************************************************)
EXTENDS Core, FiniteSets

CONSTANT MaxLength   \* bound: how many traps wait at once

VARIABLES
  v, n,     \* v[0 .. n-1]: the vector under the queue
  loop,     \* "down" in __adjust_heap's loop, "up" in __push_heap's; else "none"
  hole,     \* the place these have to fill, holeIndex
  value     \* what is to be put there in the end

vars == <<v, n, loop, hole, value>>

ASSUME TrapHeapAssumption == MaxLength \in Nat

(* Mutant: the negation is left out. *)
TrapCmpPlain(a, b) == trap_priority[a][b] = 1

TrapCmp(a, b) == ~(trap_priority[a][b] = 1)

-----------------------------------------------------------------------------
AtRest == loop = "none" /\ hole = 0 /\ value = 0

Init == v = <<>> /\ n = 0 /\ AtRest

(* trap_comming: push_back, and __push_heap begins at the last place. *)
Push(t) ==
  /\ AtRest
  /\ n < MaxLength
  /\ v' = [k \in 0 .. n |-> IF k < n THEN v[k] ELSE t]
  /\ n' = n + 1
  /\ loop' = "up" /\ hole' = n /\ value' = t

(* trap_queue.pop(), in trap(): the last takes the place of the first, and
   __adjust_heap begins at the top; of a vector of one nothing is left. *)
Pop ==
  /\ AtRest
  /\ n > 0
  /\ v' = [k \in 0 .. n - 2 |-> v[k]]
  /\ n' = n - 1
  /\ IF n = 1 THEN UNCHANGED <<loop, hole, value>>
              ELSE loop' = "down" /\ hole' = 0 /\ value' = v[n - 1]

Parent(k) == (k - 1) \div 2

(* Mutant: the right child is moved up wherever there is one. *)
ChildRight ==
  LET right == 2 * hole + 2 IN IF right < n THEN right ELSE right - 1

(* The child of the hole that moves up, if there is one below n. *)
Child ==
  LET right == 2 * hole + 2 IN
  IF right < n /\ ~TrapCmp(v[right], v[right - 1]) THEN right ELSE right - 1

(* A round of __adjust_heap's loop: it takes the hole down to a leaf, whatever
   value is ... *)
MoveDown ==
  /\ loop = "down"
  /\ Child < n
  /\ v' = [v EXCEPT ![hole] = v[Child]]
  /\ hole' = Child
  /\ UNCHANGED <<n, loop, value>>

(* ... from where __push_heap takes it up again. *)
TurnUp ==
  /\ loop = "down"
  /\ Child >= n
  /\ loop' = "up"
  /\ UNCHANGED <<v, n, hole, value>>

MovesUp == hole > 0 /\ TrapCmp(v[Parent(hole)], value)

(* A round of __push_heap's loop. *)
MoveUp ==
  /\ loop = "up"
  /\ MovesUp
  /\ v' = [v EXCEPT ![hole] = v[Parent(hole)]]
  /\ hole' = Parent(hole)
  /\ UNCHANGED <<n, loop, value>>

Fill ==
  /\ loop = "up"
  /\ ~MovesUp
  /\ v' = [v EXCEPT ![hole] = value]
  /\ loop' = "none" /\ hole' = 0 /\ value' = 0
  /\ UNCHANGED n

Next == Pop \/ MoveDown \/ TurnUp \/ MoveUp \/ Fill \/ \E t \in Traps : Push(t)

Spec == Init /\ [][Next]_vars

-----------------------------------------------------------------------------
(* The inductive invariant: on every way down from the top the traps are less and
   less urgent, but for the hole. *)
HeapType ==
  /\ n \in Nat /\ v \in [0 .. n - 1 -> Traps]
  /\ \/ AtRest
     \/ loop \in {"down", "up"} /\ hole \in 0 .. n - 1 /\ value \in Traps

HeapInv ==
  /\ HeapType
  /\ \A k \in 1 .. n - 1 :
       loop = "none" \/ hole \notin {k, Parent(k)} => v[Parent(k)] <= v[k]
  /\ loop # "none" =>
       \A k \in 1 .. n - 1 :
         Parent(k) = hole =>
           /\ hole > 0 => v[Parent(hole)] <= v[k]
           /\ loop = "up" => value <= v[k]

(* How often a trap is in the first N places of f. *)
CountIn(f, N, t) == Cardinality({k \in 0 .. N - 1 : f[k] = t})

(* The vector, and within a loop the vector with the hole filled. *)
Filled == IF loop = "none" THEN v ELSE [v EXCEPT ![hole] = value]

Contents == [t \in Traps |-> CountIn(Filled, n, t)]

Bag == INSTANCE TrapBag WITH queue <- Contents

(* The queue is the bag module Trap takes it for: for all its comparator, every
   pop takes out one trap and the most urgent one, and a push loses nothing. *)
ImplementsTrapBag == Bag!Spec

(* trap() looks at top() before it pops: that is the most urgent trap, too. *)
TopIsMostUrgent == AtRest /\ n > 0 => v[0] = Top(Contents)

==============================================================================
