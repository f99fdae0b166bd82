---------------------------- MODULE CacheGeometry ----------------------------
(***************************************************************************)
(* The shape every level of src/src/Cache.hpp has, and the rule by which a  *)
(* level picks the slot a missing line is loaded into.                     *)
(*                                                                         *)
(* A memory address is split as                                            *)
(*     | line number | group_id | offset | byte |                          *)
(* and is written here as a pair: a line (addr >> 6) and an offset in it   *)
(* ((addr >> 2) & 0xf).  The index idx of a slot's first word in `data' is *)
(* written as the pair <<group, way>> it stands for:                       *)
(*     idx = (group * GROUP_SIZE + way) * LINE_SIZE.                       *)
(* The code has GROUPS = 4, GROUP_SIZE = 4 and LINE_SIZE = 16 at all three *)
(* levels: group_id keeps two bits of the address whatever the level's     *)
(* size is.                                                                *)
(***************************************************************************)
EXTENDS Integers, FiniteSetsExt

CONSTANTS
  Lines,       \* the lines a program touches, by line number
  GROUPS,      \* the number of groups of a level
  GROUP_SIZE,  \* the number of lines a group holds
  LINE_SIZE,   \* the number of words of a line
  Words,       \* the values of a word
  MAGIC,       \* the word `data' is filled with by the constructor
  Image        \* what memory holds before the program runs: [Lines -> Line]

Group(l) == l % GROUPS

Ways    == 0 .. GROUP_SIZE - 1
Offsets == 0 .. LINE_SIZE - 1
Slots   == (0 .. GROUPS - 1) \X Ways
Line    == [Offsets -> Words]

ASSUME GeometryAssumption ==
  /\ Lines \subseteq Nat
  /\ GROUPS \in Nat \ {0}
  /\ GROUP_SIZE \in Nat \ {0}
  /\ LINE_SIZE \in Nat \ {0}
  /\ MAGIC \in Words
  /\ Image \in [Lines -> Line]

-----------------------------------------------------------------------------
(* The ways of group g that hold nothing yet. *)
FreeWays(valid, g) == {w \in Ways : ~valid[<<g, w>>]}

(* The ways of group g whose use count no other way of g undercuts. *)
LeastUsedWays(lfu_cnt, g) ==
  {w \in Ways : \A x \in Ways : lfu_cnt[<<g, w>>] <= lfu_cnt[<<g, x>>]}

(* The first of the candidate ways, or of all those used least when there is no
   candidate. *)
FirstWay(candidates, lfu_cnt, g) ==
  Min(IF candidates # {} THEN candidates ELSE LeastUsedWays(lfu_cnt, g))

(* Mutant: the search takes the first slot that does hold something. *)
TargetValid(valid, lfu_cnt, l) ==
  <<Group(l), FirstWay(Ways \ FreeWays(valid, Group(l)), lfu_cnt, Group(l))>>

(* The slot a missing line is loaded into: the first free one of its group,
   else the first of the least frequently used ones. *)
TargetLine(valid, lfu_cnt, l) ==
  <<Group(l), FirstWay(FreeWays(valid, Group(l)), lfu_cnt, Group(l))>>

==============================================================================
