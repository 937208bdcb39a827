---------------------------- MODULE SampleWindow ----------------------------
(***************************************************************************)
(* When a sample that a camera has shot is due at a reject station, in     *)
(* encoder counts: what the fields of g_sys_config (app/sys_conf.h) mean   *)
(* to sample/array.c, without the arithmetic it is computed with.          *)
(***************************************************************************)
EXTENDS Integers

CONSTANT WORD  \* 2^32, the values of a __u32

ASSUME WidthAssumption == WORD \in Nat /\ WORD > 0 /\ WORD % 2 = 0

Word == 0 .. WORD - 1
Long == 0 .. WORD * WORD - 1
Station == {1, 2}

(* The part of g_sys_config that the decision depends on.                  *)
Configuration ==
  [C1_KT1_delay : Word,      \* encoder counts from camera 1 to station 1,
   C1_C2_delay : Word,       \* from camera 1 to camera 2,
   KT1_KP1_delay : Word,     \* from station 1's sensor to its kicker,
   KP1_KT2_delay : Word,     \* from that kicker to station 2's sensor
   sample_length : Word,
   video2_valid : BOOLEAN]   \* the second camera's channel is on

(* The distance the sample travels from the camera that shot it to station *)
(* s: the second camera is C1_C2_delay further down the line.              *)
travel(g, s) ==
  g.C1_KT1_delay - (IF g.video2_valid THEN g.C1_C2_delay ELSE 0)
  + (IF s = 1 THEN 0 ELSE g.KT1_KP1_delay + g.KP1_KT2_delay)

(* The passage at `code' is within half a sample length of the place where *)
(* the sample shot at `wheel_code' arrives, or multiples of 2^32 counts    *)
(* from there.                                                             *)
InWindow(g, s, code, wheel_code) ==
  \E x \in -(g.sample_length \div 2) .. g.sample_length \div 2 :
    (code - wheel_code - travel(g, s) - x) % WORD = 0
=============================================================================
