---------------------------- MODULE MCLocalLink ----------------------------
(* An instance of LocalLink: a command without parameters (a reset) and    *)
(* one with two words of them (a sample result has three).                 *)
EXTENDS LocalLink

MCParams == [c \in Cmd |-> IF c = "reset" THEN 0 ELSE 2]
============================================================================
