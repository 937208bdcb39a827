------------------------------ MODULE WheelCode ----------------------------
(***************************************************************************)
(* fpga_get_current_code (fpga/fpga.c): the 64-bit encoder value is read   *)
(* as four half-words from four registers, while the encoder turns.        *)
(* FPGA_READ32 (fpga/fpga.h) ORs two reads, and C leaves open which of two *)
(* operands comes first.                                                   *)
(***************************************************************************)
EXTENDS Integers, Sequences

CONSTANTS
  HALF,      \* 2^16, the values of an unsigned short
  MAX_TURN   \* BOUND: counts of the encoder during one call

(* Four reads of a mapped register take microseconds, and no encoder       *)
(* counts 2^16 in that time.                                               *)
ASSUME CodeAssumption ==
  /\ HALF \in Nat /\ HALF > 1
  /\ MAX_TURN \in Nat /\ MAX_TURN < HALF

VARIABLES
  start,  \* the encoder when the call began
  enc,    \* the encoder now
  order,  \* the register read first, second, third and fourth
  done,   \* how many have been read
  half    \* half[i]: what was read from FPGA_WHEELCOUNTERi_REG

codeVars == <<start, enc, order, done, half>>

(* What counts one in each half-word, and the values of the four together. *)
place == <<1, HALF, HALF * HALF, HALF * HALF * HALF>>
Count == 0 .. place[4] * HALF - 1

(* Half-word i of a value, the content of register i, and the value that   *)
(* the four halves are put together to.                                    *)
halfword(v, i) == (v \div place[i]) % HALF
register(i) == halfword(enc, i)
code == half[1] + half[2] * HALF + (half[3] + half[4] * HALF) * place[3]

(* Mutant: the high word is read before the low one.                       *)
M_Order == {<<3, 4, 1, 2>>, <<3, 4, 2, 1>>, <<4, 3, 1, 2>>, <<4, 3, 2, 1>>}
(* The low word is read by a statement before that of the high word.       *)
Order == {<<1, 2, 3, 4>>, <<2, 1, 3, 4>>, <<1, 2, 4, 3>>, <<2, 1, 4, 3>>}

CodeInit ==
  /\ start \in Count /\ enc = start
  /\ order \in Order
  /\ done = 0 /\ half = [i \in 1 .. 4 |-> 0]

(* The encoder counts on.  It does not come to its 64th bit.               *)
turn ==
  /\ done < 4
  /\ enc - start < MAX_TURN /\ enc + 1 \in Count
  /\ enc' = enc + 1
  /\ UNCHANGED <<start, order, done, half>>

(* One of the four reads.                                                  *)
read_half ==
  /\ done < 4
  /\ half' = [half EXCEPT ![order[done + 1]] = register(order[done + 1])]
  /\ done' = done + 1
  /\ UNCHANGED <<start, enc, order>>

CodeNext == turn \/ read_half

CodeSpec == CodeInit /\ [][CodeNext]_codeVars

----------------------------------------------------------------------------
(* What the four reads are worth, when the encoder counts less than a      *)
(* half-word meanwhile.  Without a carry out of the lowest half-word the   *)
(* code is one the encoder had during the call.  The low word, which alone *)
(* decides a match, is off by one half-word at most, forward or backward.  *)
(* And since the low word is read first, the code as a whole is less than  *)
(* a half-word behind, a carry into the highest half-word (once in 2^48    *)
(* counts) excepted (fpga.c:67-70, fpga.h:20).                             *)
CodeNearEncoder ==
  done = 4 =>
    /\ start \div HALF = enc \div HALF => code \in start .. enc
    /\ \E v \in start .. enc, d \in {-HALF, 0, HALF} : (code - v - d) % place[3] = 0
    /\ start \div place[4] = enc \div place[4] => code > start - HALF
=============================================================================
