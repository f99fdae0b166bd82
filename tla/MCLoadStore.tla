---------------------------- MODULE MCLoadStore ----------------------------
(* Lines 0, 2, 4 and 6 compete for two slots of group 0; line 1 has group 1. *)
EXTENDS LoadStore

MCLines == {0, 1, 2, 4, 6}
MCImage == [l \in MCLines |-> [o \in 0 .. 1 |-> 10 * l + o]]

MCWords == {10 * l + o : l \in 0 .. 6, o \in 0 .. 1} \cup {97, 98, 99}

==============================================================================
