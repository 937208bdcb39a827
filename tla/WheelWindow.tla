----------------------------- MODULE WheelWindow ---------------------------
(***************************************************************************)
(* WheelMatch against SampleWindow.  Under some configuration, a camera    *)
(* stores the code `shot' with a result, and the encoder runs on through   *)
(* its whole 64-bit range: at which values `now' does a passage hit the    *)
(* result?                                                                 *)
(***************************************************************************)
EXTENDS WheelMatch

CONSTANTS
  Configurations,  \* the values of g_sys_config
  Shots            \* the codes a sample is shot at

VARIABLES conf, shot, now
matchVars == <<conf, shot, now>>

ASSUME InputAssumption == Configurations \subseteq Configuration /\ Shots \subseteq Long

MatchInit ==
  /\ conf \in Configurations
  /\ shot \in Shots
  /\ now = shot

(* The encoder counts on, modulo 2^64.                                     *)
CountOn ==
  /\ now' = (now + 1) % (WORD * WORD)
  /\ UNCHANGED <<conf, shot>>

MatchSpec == MatchInit /\ [][CountOn]_matchVars

----------------------------------------------------------------------------
(* A passage hits a result exactly in the sample's window: neither the     *)
(* unsigned differences (a negative delay, an encoder that wrapped around) *)
(* nor abs() of a 64-bit value miss or add anything (array.c:96-106,       *)
(* 135-150).                                                               *)
HitIsWindow ==
  \A s \in Station :
    hits(conf, 1, s, now, [wheel_code |-> shot]) <=> InWindow(conf, s, now, shot)
=============================================================================
