---------------------------- MODULE MCLinkedList ---------------------------
(* An instance of LinkedList for TLC.                                      *)
EXTENDS LinkedList, TLC

Symmetry == Permutations(Node)
============================================================================
