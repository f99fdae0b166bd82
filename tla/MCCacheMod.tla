----------------------------- MODULE MCCacheMod -----------------------------
(* Lines 0, 2 and 4 compete for the two slots of group 0; line 1 has group 1. *)
EXTENDS CacheMod

MCLines == {0, 1, 2, 4}
MCImage == [l \in MCLines |-> [o \in 0 .. 1 |-> 10 * l + o]]
MCWords == {10 * l + o : l \in MCLines, o \in 0 .. 1} \cup {98, 99}

==============================================================================
