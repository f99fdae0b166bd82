------------------------------ MODULE WatchBook ------------------------------
(***************************************************************************)
(* What the user of w and d expects: a book of watchpoints, each under a   *)
(* number of its own, the least one free when it was added, until it is    *)
(* deleted by that number.  Lists, orders and searches do not exist.       *)
(***************************************************************************)
EXTENDS Integers, FiniteSets

CONSTANT Targets   \* what can be watched

VARIABLE book      \* book[id]: what watchpoint id watches

Init == book = << >>

Add(target) ==
  \E id \in 0 .. Cardinality(DOMAIN book) :
    /\ id \notin DOMAIN book
    /\ 0 .. id - 1 \subseteq DOMAIN book
    /\ book' = [k \in DOMAIN book \cup {id} |-> IF k = id THEN target ELSE book[k]]

Delete(id) == book' = [k \in DOMAIN book \ {id} |-> book[k]]

Next ==
  \/ \E target \in Targets : Add(target)
  \/ \E id \in DOMAIN book : Delete(id)

Spec == Init /\ [][Next]_book

==============================================================================
