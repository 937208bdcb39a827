--------------------------- MODULE MCRejectArray ---------------------------
(* An instance of RejectArray: two buffers, two results for station 1 and  *)
(* one for station 2.  By wheel code a passage misses the first result of  *)
(* station 1 and hits the second, so nodes are also unlinked from the      *)
(* middle of a list; by count the first two passages hit one each.  The    *)
(* hits are on the window's edges, one at either end.                      *)
EXTENDS RejectArray

MCConfig == [C1_KT1_delay |-> 2, C1_C2_delay |-> 1, KT1_KP1_delay |-> 1, KP1_KT2_delay |-> 1,
             sample_length |-> 2, video2_valid |-> FALSE]
MCResult == {[count |-> 1, wheel_code |-> 0, pos |-> 1],
             [count |-> 2, wheel_code |-> 4, pos |-> 1],
             [count |-> 2, wheel_code |-> 0, pos |-> 2]}
MCMaxPass == [s \in Station |-> IF s = 1 THEN 2 ELSE 1]
============================================================================
