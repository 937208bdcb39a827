----------------------------- MODULE MCKickIsr -----------------------------
(* An instance of KickIsr: two passages and one event of each other kind,  *)
(* any number of position test commands (0 stands for those out of 2 .. 5).*)
EXTENDS KickIsr

MCMaxRaised == [b \in Bit |-> IF b = 0 THEN 2 ELSE 1]
============================================================================
