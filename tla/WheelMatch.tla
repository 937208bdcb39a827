----------------------------- MODULE WheelMatch -----------------------------
(***************************************************************************)
(* When does a passage at a reject station belong to a rejected sample?    *)
(* The comparisons of sample/array.c, with the widths of its C types:      *)
(* wheel codes are __u64, the configured delays __u32, and abs() takes and *)
(* returns an int.  `g' is g_sys_config.                                   *)
(***************************************************************************)
EXTENDS SampleWindow

(* Unsigned arithmetic and the conversion of an abs() argument to int.     *)
u32(x) == x % WORD
u64(x) == x % (WORD * WORD)
int(x) == IF u32(x) < WORD \div 2 THEN u32(x) ELSE u32(x) - WORD

(* abs(int), assigned to a __u64.  abs(INT_MIN) stays INT_MIN.             *)
abs(x) == IF x >= 0 \/ x = -(WORD \div 2) THEN x ELSE -x

(* What search_wheelcode_array subtracts from the code read at station s.  *)
camera_delay(g) == IF g.video2_valid THEN u32(g.C1_KT1_delay - g.C1_C2_delay) ELSE g.C1_KT1_delay
station_delay(g, s) == IF s = 1 THEN camera_delay(g)
                       ELSE camera_delay(g) + g.KT1_KP1_delay + g.KP1_KT2_delay

wheel_code_abs(g, s, code, wheel_code) ==
  u64(abs(int(u64(code - wheel_code - station_delay(g, s)))))

(* Mutant: the window is half open.                                        *)
M_hits(g, mode, s, key, r) ==
  IF mode = 0 /\ s = 1 THEN r.count = key
  ELSE wheel_code_abs(g, s, key, r.wheel_code) < g.sample_length \div 2

(* search_count_array and search_wheelcode_array: does passage `key' belong*)
(* to the result r?  Station 2 compares wheel codes whatever kick_mode is. *)
hits(g, mode, s, key, r) ==
  IF mode = 0 /\ s = 1 THEN r.count = key
  ELSE wheel_code_abs(g, s, key, r.wheel_code) <= g.sample_length \div 2
=============================================================================
