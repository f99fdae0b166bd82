---------------------------- MODULE TrapHeapProof ----------------------------
(***************************************************************************)
(* The queue of traps pops the most urgent, and loses none, though its     *)
(* comparator is no strict order: for a queue of any length.               *)
(***************************************************************************)
EXTENDS TrapHeap, TLAPS, FiniteSetTheorems, WellFoundedInduction

LEMMA ParentIs ==
  ASSUME NEW k \in Int, k >= 1
  PROVE  /\ Parent(k) \in Int /\ 0 <= Parent(k) /\ Parent(k) < k
         /\ \A h \in Int : Parent(k) = h <=> k = 2 * h + 1 \/ k = 2 * h + 2
BY DEF Parent

(* TrapCmp holds when the second is at least as urgent as the first. *)
LEMMA TrapCmpMeans ==
  ASSUME NEW a \in Traps, NEW b \in Traps
  PROVE  TrapCmp(a, b) <=> b <= a
BY DEF TrapCmp, trap_priority, Traps, Causes

(* The child that moves up is the more urgent one. *)
LEMMA ChildIs ==
  ASSUME HeapType, loop # "none"
  PROVE  /\ Child \in {2 * hole + 1, 2 * hole + 2}
         /\ Child >= n => \A k \in 1 .. n - 1 : Parent(k) # hole
         /\ Child < n =>
              /\ Child \in 1 .. n - 1 /\ Parent(Child) = hole
              /\ \A k \in 1 .. n - 1 : Parent(k) = hole => v[Child] <= v[k]
<1> DEFINE r == 2 * hole + 2
<1>1. hole \in 0 .. n - 1 /\ n \in Nat /\ v \in [0 .. n - 1 -> Traps] /\ hole \in Int
      /\ r \in Int /\ r - 1 = 2 * hole + 1
  BY DEF HeapType, AtRest
<1>2. \A k \in 1 .. n - 1 : k \in Int /\ k >= 1 /\ (Parent(k) = hole <=> k = r - 1 \/ k = r)
  BY <1>1, ParentIs
<1>3. Traps \subseteq Int
  BY DEF Traps
<1> HIDE DEF r
<1>4. CASE r < n
  <2>1. r \in 1 .. n - 1 /\ r - 1 \in 1 .. n - 1
    BY <1>1, <1>4
  <2>0. r \in 0 .. n - 1 /\ r - 1 \in 0 .. n - 1
    BY <1>1, <2>1
  <2>2. v[r] \in Traps /\ v[r - 1] \in Traps /\ v[r] \in Int /\ v[r - 1] \in Int
    BY <1>1, <1>3, <2>0
  <2>3. Parent(r) = hole /\ Parent(r - 1) = hole
    BY <1>2, <2>1
  <2>4. \/ Child = r /\ v[r] <= v[r - 1]
        \/ Child = r - 1 /\ v[r - 1] <= v[r]
    <3>1. CASE TrapCmp(v[r], v[r - 1])
      <4>1. Child = r - 1
        BY <3>1 DEF Child, r
      <4> QED BY <2>2, <3>1, <4>1, TrapCmpMeans
    <3>2. CASE ~TrapCmp(v[r], v[r - 1])
      <4>1. Child = r
        BY <1>4, <3>2 DEF Child, r
      <4>2. ~(v[r - 1] <= v[r])
        BY <2>2, <3>2, TrapCmpMeans
      <4> QED BY <2>2, <4>1, <4>2
    <3> QED BY <3>1, <3>2
  <2>5. Child \in 1 .. n - 1 /\ Parent(Child) = hole /\ v[Child] \in Int
    BY <2>1, <2>2, <2>3, <2>4
  <2>6. v[Child] <= v[r] /\ v[Child] <= v[r - 1]
    BY <2>2, <2>4
  <2>7. \A k \in 1 .. n - 1 : Parent(k) = hole => v[Child] <= v[k]
    BY <1>2, <2>6
  <2>8. Child \in {2 * hole + 1, 2 * hole + 2}
    BY <1>1, <2>4 DEF r
  <2>9. ~(Child >= n)
    BY <1>1, <2>5
  <2> QED BY <2>5, <2>7, <2>8, <2>9
<1>5. CASE ~(r < n)
  <2>1. Child = r - 1
    BY <1>5 DEF Child, r
  <2>2. \A k \in 1 .. n - 1 : k # r
    BY <1>1, <1>5
  <2>3. Child >= n => \A k \in 1 .. n - 1 : k # r - 1
    BY <1>1, <2>1
  <2>4. \A k \in 1 .. n - 1 : Parent(k) = hole => k = r - 1
    BY <1>2, <2>2
  <2>5. Child < n => Child \in 1 .. n - 1
    BY <1>1, <2>1
  <2>6. Child < n => Parent(Child) = hole /\ v[Child] \in Int
    <3>1. SUFFICES ASSUME Child < n
                   PROVE  Parent(Child) = hole /\ v[Child] \in Int
      OBVIOUS
    <3>2. Child \in 0 .. n - 1 /\ Child \in 1 .. n - 1
      BY <1>1, <2>5, <3>1
    <3>3. v[Child] \in Traps
      BY <1>1, <3>2
    <3>4. Parent(Child) = hole
      BY <1>2, <2>1, <3>2
    <3> QED BY <1>3, <3>3, <3>4
  <2>7. Child < n => \A k \in 1 .. n - 1 : Parent(k) = hole => v[Child] <= v[k]
    BY <2>1, <2>4, <2>6
  <2>8. Child \in {2 * hole + 1, 2 * hole + 2}
    BY <1>1, <2>1
  <2> QED BY <2>3, <2>4, <2>5, <2>6, <2>7, <2>8
<1> QED BY <1>4, <1>5

LEMMA HeapInvInit ==
  ASSUME Init
  PROVE  HeapInv
<1>1. n = 0 /\ v = <<>> /\ loop = "none" /\ AtRest
  BY DEF Init, AtRest
<1>2. 0 .. n - 1 = {} /\ 1 .. n - 1 = {}
  BY <1>1
<1>3. v \in [0 .. n - 1 -> Traps]
  BY <1>1, <1>2
<1> QED BY <1>1, <1>2, <1>3 DEF HeapInv, HeapType

-----------------------------------------------------------------------------
(* Each step keeps it. *)

(* A step of a loop moves what is at h into the hole; the vector keeps its type. *)
LEMMA MoveType ==
  ASSUME HeapType, NEW c \in 0 .. n - 1, loop # "none",
         v' = [v EXCEPT ![hole] = v[c]], UNCHANGED <<n, value>>,
         loop' \in {"down", "up"}, hole' = c
  PROVE  HeapType'
<1>1. v[c] \in Traps /\ v \in [0 .. n - 1 -> Traps]
  BY DEF HeapType
<1>2. v' \in [0 .. n - 1 -> Traps]
  BY <1>1
<1> QED BY <1>2 DEF HeapType, AtRest

LEMMA PushStep ==
  ASSUME HeapInv, NEW t \in Traps, Push(t)
  PROVE  HeapInv'
<1>1. n \in Nat /\ n' = n + 1 /\ loop = "none" /\ loop' = "up" /\ hole' = n /\ value' = t
      /\ v \in [0 .. n - 1 -> Traps] /\ v' = [k \in 0 .. n |-> IF k < n THEN v[k] ELSE t]
  BY DEF HeapInv, HeapType, Push, AtRest
<1>2. v' \in [0 .. n -> Traps]
  <2>1. ASSUME NEW k \in 0 .. n, k < n
        PROVE  v[k] \in Traps
    <3>1. k \in 0 .. n - 1
      BY <1>1, <2>1
    <3> QED BY <1>1, <3>1
  <2> QED BY <1>1, <2>1
<1>3. n' - 1 = n /\ n \in 0 .. n
  BY <1>1
<1>4. HeapType'
  BY <1>1, <1>2, <1>3 DEF HeapType
<1>5. ASSUME NEW k \in 1 .. n' - 1, hole' \notin {k, Parent(k)}
      PROVE  v'[Parent(k)] <= v'[k]
  <2>1. k \in 1 .. n - 1 /\ k \in Int /\ k >= 1 /\ k \in 0 .. n /\ k < n
    BY <1>1, <1>3, <1>5
  <2>2. Parent(k) \in 0 .. n /\ Parent(k) < n
    BY <1>1, <2>1, ParentIs
  <2>3. v'[k] = v[k] /\ v'[Parent(k)] = v[Parent(k)]
    BY <1>1, <2>1, <2>2
  <2>4. v[Parent(k)] <= v[k]
    BY <1>1, <2>1 DEF HeapInv
  <2> QED BY <2>3, <2>4
<1>6. ASSUME NEW k \in 1 .. n' - 1
      PROVE  Parent(k) # hole'
  BY <1>1, <1>3, ParentIs
<1>7. \A k \in 1 .. n' - 1 : Parent(k)' = Parent(k)
  BY DEF Parent
<1> QED BY <1>1, <1>4, <1>5, <1>6, <1>7 DEF HeapInv

LEMMA PopStep ==
  ASSUME HeapInv, Pop
  PROVE  HeapInv'
<1>1. n \in Nat /\ n > 0 /\ n' = n - 1 /\ n' \in Nat /\ loop = "none" /\ AtRest
      /\ v \in [0 .. n - 1 -> Traps] /\ v' = [k \in 0 .. n - 2 |-> v[k]] /\ n' - 1 = n - 2
  BY DEF HeapInv, HeapType, Pop, AtRest
<1>2. \A k \in 0 .. n - 2 : k \in 0 .. n - 1
  BY <1>1
<1>3. v' \in [0 .. n - 2 -> Traps]
  BY <1>1, <1>2
<1>4. n # 1 => hole' = 0 /\ value' = v[n - 1] /\ loop' = "down"
  BY DEF Pop
<1>5. HeapType'
  <2>1. CASE n = 1
    <3>1. AtRest'
      BY <1>1, <2>1 DEF Pop, AtRest
    <3> QED BY <1>1, <1>3, <3>1 DEF HeapType
  <2>2. CASE n # 1
    <3>1. n - 1 \in 0 .. n - 1 /\ 0 \in 0 .. n - 2
      BY <1>1, <2>2
    <3>2. v[n - 1] \in Traps
      BY <1>1, <3>1
    <3> QED BY <1>1, <1>3, <1>4, <2>2, <3>1, <3>2 DEF HeapType
  <2> QED BY <2>1, <2>2
<1>6. ASSUME NEW k \in 1 .. n' - 1
      PROVE  v'[Parent(k)] <= v'[k]
  <2>1. k \in 1 .. n - 1 /\ k \in Int /\ k >= 1 /\ k \in 0 .. n - 2
    BY <1>1, <1>6
  <2>2. Parent(k) \in 0 .. n - 2
    BY <1>1, <2>1, ParentIs
  <2>3. v'[k] = v[k] /\ v'[Parent(k)] = v[Parent(k)]
    BY <1>1, <2>1, <2>2
  <2>4. v[Parent(k)] <= v[k]
    BY <1>1, <2>1 DEF HeapInv
  <2> QED BY <2>3, <2>4
<1>7. loop' # "none" => hole' = 0 /\ loop' = "down"
  <2>1. CASE n = 1
    BY <1>1, <2>1 DEF Pop
  <2>2. CASE n # 1
    BY <1>4, <2>2
  <2> QED BY <2>1, <2>2
<1>8. loop' # "none" => ~(hole' > 0) /\ loop' # "up"
  BY <1>7
<1>9. \A k \in 1 .. n' - 1 : Parent(k)' = Parent(k)
  BY DEF Parent
<1> QED BY <1>5, <1>6, <1>8, <1>9 DEF HeapInv

LEMMA MoveDownStep ==
  ASSUME HeapInv, MoveDown
  PROVE  HeapInv'
<1>1. /\ n \in Nat /\ v \in [0 .. n - 1 -> Traps] /\ hole \in 0 .. n - 1
      /\ loop = "down" /\ loop' = loop /\ n' = n /\ value' = value
      /\ v' = [v EXCEPT ![hole] = v[Child]] /\ hole' = Child
  BY DEF HeapInv, HeapType, MoveDown, AtRest
<1>2. /\ Child \in 1 .. n - 1 /\ Parent(Child) = hole
      /\ \A k \in 1 .. n - 1 : Parent(k) = hole => v[Child] <= v[k]
  BY <1>1, ChildIs DEF HeapInv, MoveDown
<1> DEFINE c == Child
<1>3. /\ c \in 1 .. n - 1 /\ Parent(c) = hole
      /\ \A k \in 1 .. n - 1 : Parent(k) = hole => v[c] <= v[k]
      /\ v' = [v EXCEPT ![hole] = v[c]] /\ hole' = c
  BY <1>1, <1>2
<1> HIDE DEF c
<1>4. c \in 0 .. n - 1 /\ c \in Int /\ c >= 1 /\ c # hole
  BY <1>1, <1>3, ParentIs
<1>5. HeapType'
  BY <1>1, <1>3, <1>4, MoveType DEF HeapInv
<1>6. \A k \in 0 .. n - 1 : v'[k] = IF k = hole THEN v[c] ELSE v[k]
  BY <1>1, <1>3
<1>7. \A k \in 1 .. n - 1 : k \in 0 .. n - 1 /\ Parent(k) \in 0 .. n - 1 /\ Parent(k) # k
  BY <1>1, ParentIs
<1>8. ASSUME NEW k \in 1 .. n - 1, c \notin {k, Parent(k)}
      PROVE  v'[Parent(k)] <= v'[k]
  <2>1. CASE k = hole
    <3>1. hole > 0 /\ v[Parent(hole)] <= v[c]
      BY <1>1, <1>3, <2>1 DEF HeapInv
    <3> QED BY <1>6, <1>7, <2>1, <3>1
  <2>2. CASE k # hole /\ Parent(k) = hole
    BY <1>3, <1>6, <1>7, <2>2
  <2>3. CASE k # hole /\ Parent(k) # hole
    <3>1. v[Parent(k)] <= v[k]
      BY <1>1, <2>3 DEF HeapInv
    <3> QED BY <1>6, <1>7, <2>3, <3>1
  <2> QED BY <2>1, <2>2, <2>3
<1>9. ASSUME NEW k \in 1 .. n - 1, Parent(k) = c
      PROVE  v'[Parent(c)] <= v'[k]
  <2>1. k # hole
    <3>1. Parent(k) < k /\ Parent(c) < c /\ k \in Int /\ c \in Int /\ Parent(c) \in Int
      BY <1>1, <1>4, ParentIs
    <3> QED BY <1>3, <1>9, <3>1
  <2>2. v[c] <= v[k]
    BY <1>1, <1>4, <1>9, <2>1 DEF HeapInv
  <2> QED BY <1>1, <1>3, <1>6, <1>7, <2>1, <2>2
<1>10. \A k \in 1 .. n - 1 : Parent(k)' = Parent(k)
  BY DEF Parent
<1>11. Parent(hole)' = Parent(c)
  BY <1>3 DEF Parent
<1> QED BY <1>1, <1>3, <1>5, <1>8, <1>9, <1>10, <1>11 DEF HeapInv

LEMMA TurnUpStep ==
  ASSUME HeapInv, TurnUp
  PROVE  HeapInv'
<1>1. /\ loop = "down" /\ loop' = "up" /\ Child >= n
      /\ v' = v /\ n' = n /\ hole' = hole /\ value' = value
  BY DEF TurnUp
<1>2. HeapType'
  BY <1>1 DEF HeapInv, HeapType, AtRest
<1>3. \A k \in 1 .. n - 1 : Parent(k) # hole
  BY <1>1, ChildIs DEF HeapInv
<1>4. \A k \in 1 .. n - 1 : Parent(k)' = Parent(k)
  BY DEF Parent
<1>5. \A k \in 1 .. n - 1 : hole \notin {k, Parent(k)} => v[Parent(k)] <= v[k]
  BY <1>1 DEF HeapInv
<1> QED BY <1>1, <1>2, <1>3, <1>4, <1>5 DEF HeapInv

LEMMA MoveUpStep ==
  ASSUME HeapInv, MoveUp
  PROVE  HeapInv'
<1> DEFINE p == Parent(hole)
<1>1. /\ n \in Nat /\ v \in [0 .. n - 1 -> Traps] /\ hole \in 0 .. n - 1
      /\ loop = "up" /\ loop' = loop /\ n' = n /\ value' = value /\ value \in Traps
      /\ v' = [v EXCEPT ![hole] = v[p]] /\ hole' = p /\ hole > 0 /\ TrapCmp(v[p], value)
  BY DEF HeapInv, HeapType, MoveUp, MovesUp, AtRest
<1>2. hole \in 1 .. n - 1 /\ p \in 0 .. n - 1 /\ p # hole /\ hole \in Int
  BY <1>1, ParentIs
<1>3. p > 0 => p \in 1 .. n - 1
  BY <1>1, <1>2
<1>4. v[p] \in Traps /\ value <= v[p]
  BY <1>1, <1>2, TrapCmpMeans
<1>5. p = Parent(hole)
  OBVIOUS
<1> HIDE DEF p
<1>6. HeapType'
  BY <1>1, <1>2, MoveType DEF HeapInv
<1>7. \A k \in 0 .. n - 1 : v'[k] = IF k = hole THEN v[p] ELSE v[k]
  BY <1>1
<1>8. \A k \in 1 .. n - 1 : k \in 0 .. n - 1 /\ Parent(k) \in 0 .. n - 1 /\ Parent(k) # k
  BY <1>1, ParentIs
<1>9. \A k \in 0 .. n - 1 : v[k] \in Int
  BY <1>1 DEF Traps
<1>10. ASSUME NEW k \in 1 .. n - 1, p \notin {k, Parent(k)}
       PROVE  v'[Parent(k)] <= v'[k]
  <2>1. k # hole
    BY <1>5, <1>10
  <2>2. CASE Parent(k) = hole
    <3>1. v[p] <= v[k]
      BY <1>1, <1>5, <2>2 DEF HeapInv
    <3> QED BY <1>7, <1>8, <2>1, <2>2, <3>1
  <2>3. CASE Parent(k) # hole
    <3>1. v[Parent(k)] <= v[k]
      BY <1>1, <2>1, <2>3 DEF HeapInv
    <3> QED BY <1>7, <1>8, <2>1, <2>3, <3>1
  <2> QED BY <2>2, <2>3
<1>11. ASSUME NEW k \in 1 .. n - 1, Parent(k) = p
       PROVE  /\ p > 0 => v'[Parent(p)] <= v'[k]
              /\ value <= v'[k]
  <2>1. v[p] <= v'[k]
    <3>1. CASE k = hole
      BY <1>1, <1>2, <1>7, <1>9, <3>1
    <3>2. CASE k # hole
      <4>1. v[p] <= v[k]
        BY <1>1, <1>2, <1>11, <3>2 DEF HeapInv
      <4> QED BY <1>7, <1>8, <3>2, <4>1
    <3> QED BY <3>1, <3>2
  <2>2. v'[k] \in Int /\ v[p] \in Int /\ value \in Int
    BY <1>1, <1>2, <1>7, <1>8, <1>9 DEF Traps
  <2>3. value <= v'[k]
    BY <1>4, <2>1, <2>2
  <2>4. ASSUME p > 0
        PROVE  v'[Parent(p)] <= v'[k]
    <3>1. p \in 1 .. n - 1 /\ p \in Int /\ p >= 1 /\ Parent(p) \in Int /\ Parent(p) < p /\ p < hole
      BY <1>1, <1>2, <1>3, <1>5, <2>4, ParentIs
    <3>2. hole \notin {p, Parent(p)}
      BY <1>2, <3>1
    <3>3. v[Parent(p)] <= v[p]
      BY <1>1, <3>1, <3>2 DEF HeapInv
    <3>4. v'[Parent(p)] = v[Parent(p)] /\ v[Parent(p)] \in Int
      BY <1>7, <1>8, <1>9, <3>1, <3>2
    <3> QED BY <2>1, <2>2, <3>3, <3>4
  <2> QED BY <2>3, <2>4
<1>12. \A k \in 1 .. n - 1 : Parent(k)' = Parent(k)
  BY DEF Parent
<1>13. Parent(hole)' = Parent(p)
  BY <1>1 DEF Parent
<1> QED BY <1>1, <1>6, <1>10, <1>11, <1>12, <1>13 DEF HeapInv

LEMMA FillStep ==
  ASSUME HeapInv, Fill
  PROVE  HeapInv'
<1>1. /\ n \in Nat /\ v \in [0 .. n - 1 -> Traps] /\ hole \in 0 .. n - 1
      /\ loop = "up" /\ n' = n /\ value \in Traps
      /\ v' = [v EXCEPT ![hole] = value] /\ loop' = "none" /\ AtRest' /\ ~MovesUp
  BY DEF HeapInv, HeapType, Fill, AtRest
<1>2. v' \in [0 .. n - 1 -> Traps]
  BY <1>1
<1>3. HeapType'
  BY <1>1, <1>2 DEF HeapType
<1>4. \A k \in 0 .. n - 1 : v'[k] = IF k = hole THEN value ELSE v[k]
  BY <1>1
<1>5. \A k \in 1 .. n - 1 : k \in 0 .. n - 1 /\ Parent(k) \in 0 .. n - 1 /\ Parent(k) # k
  BY <1>1, ParentIs
<1>6. ASSUME NEW k \in 1 .. n - 1
      PROVE  v'[Parent(k)] <= v'[k]
  <2>1. CASE k = hole
    <3>1. v[Parent(hole)] \in Traps
      BY <1>1, <1>5, <2>1
    <3>2. ~TrapCmp(v[Parent(hole)], value)
      BY <1>1, <2>1 DEF MovesUp
    <3>3. ~(value <= v[Parent(hole)])
      BY <1>1, <3>1, <3>2, TrapCmpMeans
    <3>4. v[Parent(hole)] <= value
      BY <1>1, <3>1, <3>3 DEF Traps
    <3> QED BY <1>4, <1>5, <2>1, <3>4
  <2>2. CASE Parent(k) = hole
    <3>1. value <= v[k]
      BY <1>1, <2>2 DEF HeapInv
    <3> QED BY <1>4, <1>5, <2>2, <3>1
  <2>3. CASE k # hole /\ Parent(k) # hole
    <3>1. v[Parent(k)] <= v[k]
      BY <1>1, <2>3 DEF HeapInv
    <3> QED BY <1>4, <1>5, <2>3, <3>1
  <2> QED BY <2>1, <2>2, <2>3
<1>7. \A k \in 1 .. n - 1 : Parent(k)' = Parent(k)
  BY DEF Parent
<1> QED BY <1>1, <1>3, <1>6, <1>7 DEF HeapInv

LEMMA HeapInvStep ==
  ASSUME HeapInv, [Next]_vars
  PROVE  HeapInv'
<1>1. CASE Pop
  BY <1>1, PopStep
<1>2. CASE MoveDown
  BY <1>2, MoveDownStep
<1>3. CASE TurnUp
  BY <1>3, TurnUpStep
<1>4. CASE MoveUp
  BY <1>4, MoveUpStep
<1>5. CASE Fill
  BY <1>5, FillStep
<1>6. ASSUME NEW t \in Traps, Push(t)
      PROVE  HeapInv'
  BY <1>6, PushStep
<1>7. CASE UNCHANGED vars
  BY <1>7 DEF vars, HeapInv, HeapType, AtRest, Parent
<1> QED BY <1>1, <1>2, <1>3, <1>4, <1>5, <1>6, <1>7 DEF Next

(* On every way down from the top the traps get less urgent, but for the hole of a
   loop that runs: HeapInv, for a queue of any length. *)
THEOREM IsAHeap == Spec => []HeapInv
<1>1. Init => HeapInv
  BY HeapInvInit
<1>2. HeapInv /\ [Next]_vars => HeapInv'
  BY HeapInvStep
<1> QED BY <1>1, <1>2, PTL DEF Spec

-----------------------------------------------------------------------------
(* Counting. *)

Places(f, N, t) == {k \in 0 .. N - 1 : f[k] = t}

LEMMA CountIs ==
  ASSUME NEW f, NEW N \in Nat, NEW t
  PROVE  /\ CountIn(f, N, t) \in Nat
         /\ IsFiniteSet(Places(f, N, t))
         /\ Cardinality(Places(f, N, t)) = CountIn(f, N, t)
         /\ CountIn(f, N, t) > 0 <=> \E k \in 0 .. N - 1 : f[k] = t
<1> DEFINE S == {k \in 0 .. N - 1 : f[k] = t}
<1>1. IsFiniteSet(0 .. N - 1)
  BY FS_Interval
<1>2. S \in SUBSET (0 .. N - 1)
  OBVIOUS
<1>3. IsFiniteSet(S)
  BY <1>1, <1>2, FS_Subset
<1>4. Cardinality(S) \in Nat /\ (Cardinality(S) = 0 <=> S = {})
  BY <1>3, FS_CardinalityType, FS_EmptySet
<1>5. S = {} <=> ~\E k \in 0 .. N - 1 : f[k] = t
  OBVIOUS
<1>6. CountIn(f, N, t) = Cardinality(S)
  BY DEF CountIn
<1>7. Places(f, N, t) = S
  BY DEF Places
<1> HIDE DEF S
<1>8. Cardinality(S) > 0 <=> Cardinality(S) # 0
  BY <1>4
<1> QED BY <1>3, <1>4, <1>5, <1>6, <1>7, <1>8

LEMMA CountSame ==
  ASSUME NEW f, NEW g, NEW N, NEW t, \A k \in 0 .. N - 1 : f[k] = g[k]
  PROVE  CountIn(f, N, t) = CountIn(g, N, t)
<1>1. {k \in 0 .. N - 1 : f[k] = t} = {k \in 0 .. N - 1 : g[k] = t}
  OBVIOUS
<1> QED BY <1>1 DEF CountIn

(* One more at the end. *)
LEMMA CountLast ==
  ASSUME NEW f, NEW N \in Nat, NEW t
  PROVE  CountIn(f, N + 1, t) = IF f[N] = t THEN CountIn(f, N, t) + 1 ELSE CountIn(f, N, t)
<1> DEFINE S == Places(f, N, t)
           T == Places(f, N + 1, t)
<1>1. \A k : k \in 0 .. (N + 1) - 1 <=> k \in 0 .. N - 1 \/ k = N
  OBVIOUS
<1>2. N \notin S
  BY DEF Places
<1>3. /\ IsFiniteSet(S) /\ CountIn(f, N, t) = Cardinality(S)
      /\ N + 1 \in Nat /\ CountIn(f, N + 1, t) = Cardinality(T)
  BY CountIs
<1>4. CASE f[N] = t
  <2>1. T = S \cup {N}
    BY <1>1, <1>4 DEF Places
  <2>2. Cardinality(S \cup {N}) = Cardinality(S) + 1
    BY <1>3, <1>2, FS_AddElement
  <2> QED BY <1>4, <2>1, <2>2, <1>3
<1>5. CASE f[N] # t
  <2>1. T = S
    BY <1>1, <1>5 DEF Places
  <2> QED BY <1>5, <2>1, <1>3
<1> QED BY <1>4, <1>5

(* Changing places loses nothing. *)
LEMMA CountSwapped ==
  ASSUME NEW f, NEW g, NEW N \in Nat, NEW t, NEW i \in 0 .. N - 1, NEW j \in 0 .. N - 1,
         f[i] = g[j], f[j] = g[i],
         \A k \in 0 .. N - 1 : k \notin {i, j} => f[k] = g[k]
  PROVE  CountIn(f, N, t) = CountIn(g, N, t)
<1> DEFINE F == Places(f, N, t)
           G == Places(g, N, t)
<1>1. IsFiniteSet(F) /\ Cardinality(F) \in Nat /\ IsFiniteSet(G)
  BY CountIs
<1>2. ASSUME NEW a \in 0 .. N - 1, NEW b \in 0 .. N - 1, {a, b} = {i, j},
             f[a] = t, f[b] # t, a # b, g[b] = t, g[a] # t
      PROVE  Cardinality(F) = Cardinality(G)
  <2>1. \A k \in 0 .. N - 1 : k \notin {a, b} => f[k] = g[k]
    BY <1>2
  <2>2. G = (F \ {a}) \cup {b} /\ a \in F /\ b \notin F \ {a}
    BY <1>2, <2>1 DEF Places
  <2>3. IsFiniteSet(F \ {a}) /\ Cardinality(F \ {a}) = Cardinality(F) - 1
    BY <1>1, <2>2, FS_RemoveElement
  <2>4. Cardinality((F \ {a}) \cup {b}) = Cardinality(F \ {a}) + 1
    BY <2>2, <2>3, FS_AddElement
  <2> HIDE DEF F, G
  <2> QED BY <1>1, <2>2, <2>3, <2>4
<1>3. CASE f[i] = t <=> f[j] = t
  <2>1. F = G
    BY <1>3 DEF Places
  <2> QED BY <2>1, CountIs
<1>4. CASE f[i] = t /\ f[j] # t
  <2>1. Cardinality(F) = Cardinality(G)
    BY <1>2, <1>4
  <2> QED BY <2>1, CountIs
<1>5. CASE f[i] # t /\ f[j] = t
  <2>1. Cardinality(F) = Cardinality(G)
    BY <1>2, <1>5
  <2> QED BY <2>1, CountIs
<1> QED BY <1>3, <1>4, <1>5

-----------------------------------------------------------------------------
(* The top. *)

(* A set of natural numbers that is not empty has a smallest member: the first
   place out of order. *)
LEMMA SmallestExists ==
  ASSUME NEW S, S \subseteq Nat, S # {}
  PROVE  \E k \in S : \A j \in S : k <= j
<1>1. PICK k \in S : \A j \in S : ~(<<j, k>> \in OpToRel(<, Nat))
  BY NatLessThanWellFounded, WFMin
<1>2. \A j \in S : ~(j < k)
  BY <1>1 DEF OpToRel
<1> QED BY <1>2

(* No place holds a smaller number than the first. *)
LEMMA FirstIsLeast ==
  ASSUME HeapInv, loop = "none", NEW k \in 0 .. n - 1
  PROVE  v[0] <= v[k]
<1>1. n \in Nat /\ v \in [0 .. n - 1 -> Traps]
  BY DEF HeapInv, HeapType
<1>2. \A j \in 0 .. n - 1 : v[j] \in Int
  BY <1>1 DEF Traps
<1> DEFINE S == {j \in 0 .. n - 1 : ~(v[0] <= v[j])}
<1>3. ASSUME S # {}
      PROVE  FALSE
  <2>1. S \subseteq Nat
    BY <1>1
  <2>2. PICK j \in S : \A y \in S : j <= y
    BY <1>3, <2>1, SmallestExists
  <2>3. j \in 0 .. n - 1 /\ ~(v[0] <= v[j]) /\ 0 \in 0 .. n - 1
    BY <1>1
  <2>4. j # 0
    BY <1>2, <2>3
  <2>5. j \in 1 .. n - 1 /\ j \in Int /\ j >= 1
    BY <1>1, <2>3, <2>4
  <2>6. Parent(j) \in 0 .. n - 1 /\ Parent(j) < j
    BY <1>1, <2>5, ParentIs
  <2>7. ~(j <= Parent(j))
    BY <2>5, <2>6
  <2>8. v[0] <= v[Parent(j)]
    BY <2>2, <2>6, <2>7
  <2>9. v[Parent(j)] <= v[j]
    BY <2>5 DEF HeapInv
  <2>10. v[0] \in Int /\ v[j] \in Int /\ v[Parent(j)] \in Int
    BY <1>2, <2>3, <2>6
  <2> QED BY <2>3, <2>8, <2>9, <2>10
<1> QED BY <1>3

LEMMA InterruptsMeans ==
  ASSUME NEW a \in Traps, NEW b \in Traps
  PROVE  Interrupts(a, b) <=> a < b
BY DEF Interrupts, trap_priority, Traps, Causes

(* Of a bag the top is the smallest number in it. *)
LEMMA TopIs ==
  ASSUME NEW queue, NEW t \in Traps, queue[t] > 0,
         \A u \in Traps : queue[u] > 0 => t <= u
  PROVE  Top(queue) = t
<1>1. \A u \in Traps : queue[u] > 0 => ~Interrupts(u, t)
  BY InterruptsMeans DEF Traps
<1>2. ASSUME NEW s \in Traps, queue[s] > 0,
             \A u \in Traps : queue[u] > 0 => ~Interrupts(u, s)
      PROVE  s = t
  <2>1. t <= s /\ ~(t < s)
    BY <1>2, InterruptsMeans
  <2> QED BY <2>1 DEF Traps
<1> QED BY <1>1, <1>2 DEF Top

LEMMA FirstIsTop ==
  ASSUME HeapInv, AtRest, n > 0
  PROVE  /\ v[0] \in Traps /\ Contents[v[0]] > 0
         /\ v[0] = Top(Contents)
<1>1. n \in Nat /\ v \in [0 .. n - 1 -> Traps] /\ loop = "none" /\ 0 \in 0 .. n - 1
  BY DEF HeapInv, HeapType, AtRest
<1>2. v[0] \in Traps
  BY <1>1
<1>3. \A t \in Traps : Contents[t] = CountIn(v, n, t)
  BY <1>1 DEF Contents, Filled
<1>4. ASSUME NEW t \in Traps
      PROVE  Contents[t] > 0 <=> \E k \in 0 .. n - 1 : v[k] = t
  <2>1. CountIn(v, n, t) > 0 <=> \E k \in 0 .. n - 1 : v[k] = t
    BY <1>1, CountIs
  <2> QED BY <1>3, <2>1
<1>5. Contents[v[0]] > 0
  BY <1>1, <1>2, <1>4
<1>6. \A u \in Traps : Contents[u] > 0 => v[0] <= u
  BY <1>1, <1>4, FirstIsLeast
<1> QED BY <1>2, <1>5, <1>6, TopIs

(* When no loop runs, the first place holds the most urgent of the waiting traps:
   what trap() sees when it looks at top() is what it pops. *)
THEOREM TopIsFirst == Spec => []TopIsMostUrgent
<1>1. HeapInv => TopIsMostUrgent
  BY FirstIsTop DEF TopIsMostUrgent
<1> QED BY <1>1, IsAHeap, PTL

-----------------------------------------------------------------------------
(* The bag. *)

LEMMA SameTop ==
  /\ Bag!Traps = Traps
  /\ \A q : Bag!Top(q) = Top(q) /\ (Bag!IsEmpty(q) <=> IsEmpty(q))
BY DEF Bag!Traps, Traps, Bag!Top, Top, Bag!IsEmpty, IsEmpty, Bag!Interrupts, Interrupts,
       Bag!trap_priority, trap_priority, Bag!Causes, Causes

(* A step in which every trap is counted as before. *)
LEMMA SameContents ==
  ASSUME n' = n, \A t \in Traps : CountIn(Filled', n, t) = CountIn(Filled, n, t)
  PROVE  Contents' = Contents
<1>1. Contents' = [t \in Traps |-> CountIn(Filled', n', t)]
  BY DEF Contents, CountIn
<1> QED BY <1>1 DEF Contents

(* A round of a loop changes the places of the hole and of what moves into it. *)
LEMMA MoveKeeps ==
  ASSUME HeapInv, loop # "none", loop' # "none", NEW c \in 0 .. n - 1,
         v' = [v EXCEPT ![hole] = v[c]], hole' = c, UNCHANGED <<n, value>>
  PROVE  Contents' = Contents
<1>1. n \in Nat /\ v \in [0 .. n - 1 -> Traps] /\ hole \in 0 .. n - 1
  BY DEF HeapInv, HeapType, AtRest
<1> DEFINE f == [v EXCEPT ![hole] = value]
           g == [[v EXCEPT ![hole] = v[c]] EXCEPT ![c] = value]
<1>2. Filled = f /\ Filled' = g
  BY DEF Filled
<1>3. f[hole] = value /\ g[c] = value
  BY <1>1
<1>4. f[c] = g[hole]
  BY <1>1
<1>5. \A k \in 0 .. n - 1 : k \notin {hole, c} => f[k] = g[k]
  BY <1>1
<1> HIDE DEF f, g
<1>6. ASSUME NEW t \in Traps
      PROVE  CountIn(f, n, t) = CountIn(g, n, t)
  BY <1>1, <1>3, <1>4, <1>5, CountSwapped
<1> QED BY <1>2, <1>6, SameContents

LEMMA PushArrives ==
  ASSUME HeapInv, NEW t \in Traps, Push(t)
  PROVE  Bag!Arrive(t)
<1>1. /\ n \in Nat /\ v \in [0 .. n - 1 -> Traps] /\ loop = "none"
      /\ n' = n + 1 /\ v' = [k \in 0 .. n |-> IF k < n THEN v[k] ELSE t]
      /\ loop' = "up" /\ hole' = n /\ value' = t
  BY DEF HeapInv, HeapType, Push, AtRest
<1>2. n \in 0 .. n /\ v'[n] = t
  BY <1>1
<1>3. Filled = v
  BY <1>1 DEF Filled
<1>4. \A k \in 0 .. n : Filled'[k] = v'[k]
  BY <1>1, <1>2 DEF Filled
<1>5. \A k \in 0 .. n - 1 : Filled'[k] = v[k] /\ k \in 0 .. n
  BY <1>1, <1>4
<1>6. Filled'[n] = t
  BY <1>2, <1>4
<1> DEFINE g == Filled'
<1>7. ASSUME NEW s \in Traps
      PROVE  CountIn(g, n + 1, s) = IF s = t THEN CountIn(v, n, s) + 1 ELSE CountIn(v, n, s)
  <2>1. CountIn(g, n, s) = CountIn(v, n, s)
    BY <1>5, CountSame
  <2>2. CountIn(g, n + 1, s) = IF g[n] = s THEN CountIn(g, n, s) + 1 ELSE CountIn(g, n, s)
    BY <1>1, CountLast
  <2> QED BY <1>6, <2>1, <2>2
<1>8. Contents' = [s \in Traps |-> CountIn(g, n + 1, s)]
  BY <1>1 DEF Contents, CountIn
<1>9. Contents = [s \in Traps |-> CountIn(v, n, s)]
  BY <1>3 DEF Contents
<1> HIDE DEF g
<1>10. Contents' = [Contents EXCEPT ![t] = @ + 1]
  BY <1>7, <1>8, <1>9
<1> QED BY <1>10 DEF Bag!Arrive

(* What is taken is what was first. *)
LEMMA PopTakes ==
  ASSUME HeapInv, Pop
  PROVE  Bag!Take
<1>1. /\ n \in Nat /\ n > 0 /\ v \in [0 .. n - 1 -> Traps] /\ loop = "none" /\ AtRest
      /\ n' = n - 1 /\ v' = [k \in 0 .. n - 2 |-> v[k]] /\ n - 1 \in Nat
      /\ 0 \in 0 .. n - 1 /\ n - 1 \in 0 .. n - 1
  BY DEF HeapInv, HeapType, Pop, AtRest
<1>2. Filled = v
  BY <1>1 DEF Filled
<1> DEFINE w == v[0]
           g == Filled'
           h == [v EXCEPT ![0] = v[n - 1], ![n - 1] = w]
<1>3. h[n - 1] = w /\ h[0] = v[n - 1]
  BY <1>1
<1>4. \A k \in 0 .. n - 1 : k \notin {0, n - 1} => h[k] = v[k]
  BY <1>1
<1>5. \A k \in 0 .. (n - 1) - 1 : g[k] = h[k]
  <2>1. CASE n = 1
    <3>1. 0 .. (n - 1) - 1 = {}
      BY <2>1
    <3> QED BY <3>1
  <2>2. CASE n # 1
    <3>1. loop' = "down" /\ hole' = 0 /\ value' = v[n - 1]
      BY <2>2 DEF Pop
    <3>2. g = [v' EXCEPT ![0] = v[n - 1]]
      BY <3>1 DEF Filled
    <3>3. ASSUME NEW k \in 0 .. (n - 1) - 1
          PROVE  g[k] = h[k]
      <4>1. k \in 0 .. n - 2 /\ k \in 0 .. n - 1 /\ k # n - 1
        BY <1>1
      <4>2. v'[k] = v[k]
        BY <1>1, <4>1
      <4>3. g[k] = IF k = 0 THEN v[n - 1] ELSE v'[k]
        BY <1>1, <3>2, <4>1
      <4> QED BY <1>3, <1>4, <4>1, <4>2, <4>3
    <3> QED BY <3>3
  <2> QED BY <2>1, <2>2
<1>6. Contents' = [s \in Traps |-> CountIn(g, n - 1, s)]
  BY <1>1 DEF Contents, CountIn
<1>7. Contents = [s \in Traps |-> CountIn(v, n, s)]
  BY <1>2 DEF Contents
<1>8. w \in Traps /\ Contents[w] > 0 /\ w = Top(Contents)
  BY <1>1, FirstIsTop
<1> HIDE DEF g, h, w
<1>9. ASSUME NEW s \in Traps
      PROVE  CountIn(g, n - 1, s) = IF s = w THEN CountIn(v, n, s) - 1 ELSE CountIn(v, n, s)
  <2>1. v[0] = h[n - 1] /\ v[n - 1] = h[0]
    BY <1>3 DEF w
  <2>2. CountIn(v, n, s) = CountIn(h, n, s)
    BY <1>1, <1>4, <2>1, CountSwapped
  <2>3. CountIn(g, n - 1, s) = CountIn(h, n - 1, s) /\ CountIn(h, n - 1, s) \in Nat
    BY <1>1, <1>5, CountSame, CountIs
  <2>4. CountIn(h, (n - 1) + 1, s)
          = IF h[n - 1] = s THEN CountIn(h, n - 1, s) + 1 ELSE CountIn(h, n - 1, s)
    BY <1>1, CountLast
  <2>5. (n - 1) + 1 = n
    BY <1>1
  <2>6. CountIn(h, n, s) = IF s = w THEN CountIn(h, n - 1, s) + 1 ELSE CountIn(h, n - 1, s)
    BY <1>3, <2>4, <2>5
  <2> QED BY <2>2, <2>3, <2>6
<1>10. Contents' = [Contents EXCEPT ![w] = @ - 1]
  BY <1>6, <1>7, <1>9
<1>11. ~IsEmpty(Contents)
  BY <1>8 DEF IsEmpty
<1> QED BY <1>8, <1>10, <1>11, SameTop DEF Bag!Take

LEMMA FillKeeps ==
  ASSUME HeapInv, Fill
  PROVE  Contents' = Contents
<1>1. loop # "none" /\ loop' = "none" /\ v' = [v EXCEPT ![hole] = value] /\ n' = n
  BY DEF Fill
<1>2. Filled' = Filled
  BY <1>1 DEF Filled
<1> QED BY <1>1, <1>2, SameContents

LEMMA TurnUpKeeps ==
  ASSUME TurnUp
  PROVE  Contents' = Contents
<1>1. loop # "none" /\ loop' # "none" /\ UNCHANGED <<v, n, hole, value>>
  BY DEF TurnUp
<1>2. Filled' = Filled
  BY <1>1 DEF Filled
<1> QED BY <1>1, <1>2, SameContents

LEMMA MoveDownKeeps ==
  ASSUME HeapInv, MoveDown
  PROVE  Contents' = Contents
<1>1. n \in Nat /\ Child \in 1 .. n - 1
  BY ChildIs DEF HeapInv, HeapType, MoveDown
<1>2. Child \in 0 .. n - 1
  BY <1>1
<1> QED BY <1>2, MoveKeeps DEF MoveDown

LEMMA MoveUpKeeps ==
  ASSUME HeapInv, MoveUp
  PROVE  Contents' = Contents
<1>1. n \in Nat /\ hole \in 0 .. n - 1 /\ hole > 0 /\ hole \in Int
  BY DEF HeapInv, HeapType, AtRest, MoveUp, MovesUp
<1>2. Parent(hole) \in 0 .. n - 1
  BY <1>1, ParentIs
<1> QED BY <1>2, MoveKeeps DEF MoveUp

(* trap_queue, under its comparator, is a bag out of which the most urgent trap is
   taken: the queue of module Trap, for traps as many as there may be. *)
THEOREM QueueIsABag == Spec => ImplementsTrapBag
<1>1. ASSUME Init
      PROVE  Bag!Init
  <2>1. n = 0 /\ loop = "none"
    BY <1>1 DEF Init, AtRest
  <2>2. Filled = v
    BY <2>1 DEF Filled
  <2>3. ASSUME NEW t \in Traps
        PROVE  CountIn(v, n, t) = 0
    <3>1. ~\E k \in 0 .. n - 1 : v[k] = t
      BY <2>1
    <3> QED BY <2>1, <3>1, CountIs
  <2>4. Contents = [t \in Traps |-> 0]
    BY <2>2, <2>3 DEF Contents
  <2> QED BY <2>4, SameTop DEF Bag!Init
<1>2. ASSUME HeapInv, [Next]_vars
      PROVE  [Bag!Take \/ \E t \in Bag!Traps : Bag!Arrive(t)]_Contents
  <2>1. CASE Pop
    BY <1>2, <2>1, PopTakes
  <2>2. CASE MoveDown
    BY <1>2, <2>2, MoveDownKeeps
  <2>3. CASE TurnUp
    BY <1>2, <2>3, TurnUpKeeps
  <2>4. CASE MoveUp
    BY <1>2, <2>4, MoveUpKeeps
  <2>5. CASE Fill
    BY <1>2, <2>5, FillKeeps
  <2>6. CASE \E t \in Traps : Push(t)
    BY <1>2, <2>6, PushArrives, SameTop
  <2>7. CASE UNCHANGED vars
    <3>1. Contents' = Contents
      BY <2>7 DEF vars, Contents, CountIn, Filled
    <3> QED BY <3>1
  <2> QED BY <1>2, <2>1, <2>2, <2>3, <2>4, <2>5, <2>6, <2>7 DEF Next
<1> QED BY <1>1, <1>2, IsAHeap, PTL DEF Spec, ImplementsTrapBag, Bag!Spec

=============================================================================
