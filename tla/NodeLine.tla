------------------------------ MODULE NodeLine -----------------------------
(***************************************************************************)
(* What tool/list.c promises the code that uses one of its lists: a line   *)
(* of nodes, without pointers, locks or threads.  RejectLine,              *)
(* RejectArray and PositionReport treat a list as such a line.             *)
(***************************************************************************)
EXTENDS Naturals, Sequences

CONSTANT Node
VARIABLES
  user,  \* "distance": a list of position.c; "search": one of array.c
  line   \* the nodes, oldest first

(* s without its k-th element.                                             *)
Without(s, k) == [i \in 1 .. Len(s) - 1 |-> IF i < k THEN s[i] ELSE s[i + 1]]

Init == user \in {"distance", "search"} /\ line = <<>>

(* A node that is not in the line joins its end.                           *)
Join == \E n \in Node : (\A i \in 1 .. Len(line) : line[i] # n) /\ line' = Append(line, n)

(* A distance task takes the oldest node, a search any one.                *)
Leave ==
  \E k \in 1 .. Len(line) :
    /\ user = "distance" => k = 1
    /\ line' = Without(line, k)

(* A reset removes all nodes at once.                                      *)
Clear == user = "search" /\ line' = <<>>

Next == (Join \/ Leave \/ Clear) /\ UNCHANGED user

Spec == Init /\ [][Next]_<<user, line>>
============================================================================
