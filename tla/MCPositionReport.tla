-------------------------- MODULE MCPositionReport --------------------------
(* An instance of PositionReport: a distance and a delay test.             *)
EXTENDS PositionReport
=============================================================================
