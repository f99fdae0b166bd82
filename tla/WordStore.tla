------------------------------ MODULE WordStore ------------------------------
(***************************************************************************)
(* What a program expects of lw and sw: a store of words.  A load returns  *)
(* the word stored last at its address, or the word of the initial image   *)
(* when nothing was stored there.  Slots, levels and misses do not exist.  *)
(***************************************************************************)
CONSTANTS
  Lines, Offsets, Words,
  Image,        \* the words before the program runs: [Lines -> [Offsets -> Words]]
  Stores,
  Blank,        \* the word in a load's request before it is performed
  Idle          \* req between two accesses

VARIABLES
  store,        \* store[l][o]: the word at offset o of line l
  req           \* the access under way, or Idle

vars == <<store, req>>

Init ==
  /\ store = Image
  /\ req = Idle

Begin(op, l, o, v) ==
  /\ req = Idle
  /\ req' = [op |-> op, line |-> l, off |-> o, val |-> v, done |-> FALSE]
  /\ UNCHANGED store

DoLoad ==
  /\ req # Idle /\ ~req.done /\ req.op = "read"
  /\ req' = [req EXCEPT !.done = TRUE, !.val = store[req.line][req.off]]
  /\ UNCHANGED store

DoStore ==
  /\ req # Idle /\ ~req.done /\ req.op = "write"
  /\ req' = [req EXCEPT !.done = TRUE]
  /\ store' = [store EXCEPT ![req.line][req.off] = req.val]

Finish ==
  /\ req # Idle /\ req.done
  /\ req' = Idle
  /\ UNCHANGED store

Next ==
  \/ \E l \in Lines, o \in Offsets :
       \/ Begin("read", l, o, Blank)
       \/ \E v \in Stores : Begin("write", l, o, v)
  \/ DoLoad
  \/ DoStore
  \/ Finish

Spec == Init /\ [][Next]_vars

==============================================================================
