------------------------- MODULE CacheGeometryProof -------------------------
(***************************************************************************)
(* Facts about the choice of a slot: there always is one, and it is one of *)
(* the missing line's group.                                               *)
(***************************************************************************)
EXTENDS CacheGeometry, TLAPS, WellFoundedInduction

(* A set of natural numbers that is not empty has a smallest member: the loop
   that looks for the first free way ends. *)
LEMMA SmallestExists ==
  ASSUME NEW S, S \subseteq Nat, S # {}
  PROVE  \E k \in S : \A j \in S : k <= j
<1>1. PICK k \in S : \A j \in S : ~(<<j, k>> \in OpToRel(<, Nat))
  BY NatLessThanWellFounded, WFMin
<1>2. \A j \in S : ~(j < k)
  BY <1>1 DEF OpToRel
<1> QED BY <1>2

(* What Min returns. *)
LEMMA MinIsLeast ==
  ASSUME NEW S, S \subseteq Nat, S # {}
  PROVE  Min(S) \in S /\ \A y \in S : Min(S) <= y
BY SmallestExists DEF Min

(* Whatever the counts are, some way of a group is used least. *)
LEMMA LeastUsedExists ==
  ASSUME NEW f \in [Slots -> Nat], NEW g \in 0 .. GROUPS - 1
  PROVE  LeastUsedWays(f, g) # {}
<1> DEFINE Counts == {f[<<g, w>>] : w \in Ways}
<1>1. Counts \subseteq Nat /\ Counts # {}
  <2>1. 0 \in Ways
    BY GeometryAssumption DEF Ways
  <2>2. \A w \in Ways : <<g, w>> \in Slots
    BY DEF Slots
  <2>3. \A w \in Ways : f[<<g, w>>] \in Nat
    BY <2>2
  <2> QED BY <2>1, <2>3
<1>2. PICK c \in Counts : \A d \in Counts : c <= d
  BY <1>1, SmallestExists
<1>3. PICK w \in Ways : c = f[<<g, w>>]
  BY <1>2
<1>4. w \in LeastUsedWays(f, g)
  BY <1>2, <1>3 DEF LeastUsedWays
<1> QED BY <1>4

LEMMA GroupType ==
  ASSUME NEW l \in Lines
  PROVE  Group(l) \in 0 .. GROUPS - 1
BY GeometryAssumption DEF Group

(* A missing line is loaded into a slot of its own group, free or not. *)
THEOREM TargetInGroup ==
  ASSUME NEW v, NEW f \in [Slots -> Nat], NEW l \in Lines
  PROVE  /\ TargetLine(v, f, l) \in {Group(l)} \X Ways
         /\ TargetLine(v, f, l) \in Slots
<1> DEFINE C == FreeWays(v, Group(l))
           L == LeastUsedWays(f, Group(l))
           S == IF C # {} THEN C ELSE L
<1>1. S \subseteq Ways /\ S # {}
  BY GroupType, LeastUsedExists DEF FreeWays, LeastUsedWays
<1>2. Min(S) \in Ways
  <2>1. S \subseteq Nat
    BY <1>1, GeometryAssumption DEF Ways
  <2> QED BY <1>1, <2>1, MinIsLeast
<1>3. TargetLine(v, f, l) = <<Group(l), Min(S)>>
  BY DEF TargetLine, FirstWay
<1> QED BY <1>2, <1>3, GroupType DEF Slots

(* ... and one that holds nothing, as long as the group has such a slot. *)
THEOREM TargetIsFree ==
  ASSUME NEW v, NEW f, NEW l \in Lines, FreeWays(v, Group(l)) # {}
  PROVE  ~v[TargetLine(v, f, l)]
<1>1. FreeWays(v, Group(l)) \subseteq Nat
  BY GeometryAssumption DEF FreeWays, Ways
<1>2. Min(FreeWays(v, Group(l))) \in FreeWays(v, Group(l))
  BY <1>1, MinIsLeast
<1> QED BY <1>2 DEF TargetLine, FirstWay, FreeWays

==============================================================================
