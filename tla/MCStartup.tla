----------------------------- MODULE MCStartup -----------------------------
(* An instance of Startup for TLC.                                         *)
EXTENDS Startup
============================================================================
