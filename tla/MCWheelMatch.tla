---------------------------- MODULE MCWheelMatch ----------------------------
(***************************************************************************)
(* A behaviour is one of two kinds: a matching (WheelWindow, over every    *)
(* configuration of a small word size), or the reading of one code         *)
(* (WheelCode, from every position of four small half-words).              *)
(***************************************************************************)
EXTENDS WheelWindow, WheelCode

MCConfigurations ==
  [C1_KT1_delay : Word, C1_C2_delay : {0, 1, WORD - 1},
   KT1_KP1_delay : {0, WORD - 1}, KP1_KT2_delay : {0, 1},
   sample_length : Word, video2_valid : BOOLEAN]

MCShots == {0, WORD - 1, WORD, WORD * WORD - 2}

NoReading == start = 0 /\ enc = 0 /\ order = <<>> /\ done = 4 /\ half = [i \in 1 .. 4 |-> 0]
NoMatching == conf = (CHOOSE c \in Configurations : TRUE) /\ shot = 0 /\ now = 0

Init == (MatchInit /\ NoReading) \/ (NoMatching /\ CodeInit)

Next ==
  \/ order = <<>> /\ CountOn /\ UNCHANGED codeVars
  \/ order # <<>> /\ CodeNext /\ UNCHANGED matchVars

Spec == Init /\ [][Next]_<<matchVars, codeVars>>
=============================================================================
