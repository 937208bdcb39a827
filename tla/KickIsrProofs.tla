--------------------------- MODULE KickIsrProofs ---------------------------
(***************************************************************************)
(* Proofs about KickIsr, for both stations, any items the host sends and   *)
(* any number of events.                                                   *)
(*                                                                         *)
(* What makes the invariants inductive is what the two read-modify-write   *)
(* sequences have in their locals: neither holds bit 0, unless the command *)
(* read the register during the handler's pulse (Locals); a passage the    *)
(* handler has seen and not acknowledged is still in the status register   *)
(* (Seen); and while a test is in force the handler's local masks nothing  *)
(* of it (Kept).                                                           *)
(***************************************************************************)
EXTENDS KickIsr, TLAPS

Locals ==
  ~torn => /\ 0 \notin cmd_val
           /\ ipc \in {"set", "clear"} => 0 \notin isr_val
Seen == ~torn /\ 0 \in status /\ ipc \in {"load", "set"} => 0 \in state
Kept ==
  cpc = "idle" /\ pos_test_item = 2 * station + 1 /\ ~crossed /\ ipc \in {"set", "clear"} =>
    isr_val \cap {1, 2} = {}

IInv == TypeOK /\ NoLostWakeup /\ EachPassageOnce /\ MaskedByPulse /\ TestEnabled /\ Locals /\ Seen /\ Kept

----------------------------------------------------------------------------
(* The handler takes the bits in their order.                              *)
LEMMA CurrentBit ==
  ASSUME TypeOK, status # {}
  PROVE  current \in status /\ current \in Bit /\ (0 \in status <=> current = 0)
<1>1. \E b \in status : \A c \in status : b <= c
  <2>0. status \subseteq {0, 1, 2}
    BY DEF TypeOK, Bit
  <2>1. CASE 0 \in status
    BY <2>0, <2>1
  <2>2. CASE 0 \notin status /\ 1 \in status
    BY <2>0, <2>2
  <2>3. CASE 0 \notin status /\ 1 \notin status
    <3> PICK b \in status : TRUE
      OBVIOUS
    <3>1. b = 2 /\ \A c \in status : c = 2
      BY <2>0, <2>3
    <3> QED
      BY <3>1
  <2> QED
    BY <2>1, <2>2, <2>3
<1>2. current \in status /\ \A c \in status : current <= c
  BY <1>1 DEF current
<1> QED
  BY <1>2 DEF TypeOK, Bit

(* The invariant holds initially.                                          *)
LEMMA InitIInv == Init => IInv
<1> SUFFICES ASSUME Init PROVE IInv
  OBVIOUS
<1> USE DEF Init
<1>1. TypeOK
  <2>1. raised \in [Bit -> Nat] /\ \A b \in Bit : raised[b] <= MAX_RAISED[b]
    BY IsrAssumption
  <2>2. /\ state \in SUBSET Bit /\ clr \in SUBSET Bit /\ isr_val \in SUBSET Bit
        /\ status \in SUBSET Bit /\ cmd_val \in SUBSET Bit
    BY DEF Bit
  <2>3. /\ station \in {1, 2} /\ notified \in BOOLEAN /\ torn \in BOOLEAN /\ crossed \in BOOLEAN
        /\ ipc \in {"wait", "status", "load", "set", "clear", "post"}
        /\ ipc \in {"load", "set", "clear", "post"} <=> status # {}
        /\ posted \in Nat /\ tested \in Nat /\ pos_test_item \in Nat /\ cpc \in {"idle", "load", "store"}
    OBVIOUS
  <2> QED
    BY <2>1, <2>2, <2>3 DEF TypeOK
<1>2. EachPassageOnce
  <2>1. raised[0] = 0 /\ ~Waiting /\ ~InHand
    BY DEF Waiting, InHand, Bit
  <2> QED
    BY <2>1 DEF EachPassageOnce
<1>4. NoLostWakeup /\ MaskedByPulse /\ TestEnabled
  BY DEF NoLostWakeup, MaskedByPulse, TestEnabled
<1>3. Locals /\ Seen /\ Kept
  BY DEF Locals, Seen, Kept
<1> QED
  BY <1>1, <1>2, <1>3, <1>4 DEF IInv

(* An event.                                                               *)
LEMMA RaiseIInv == ASSUME IInv, NEW b \in Bit, raise(b) PROVE IInv'
<1> USE DEF IInv, raise, isrVars, cmdVars
<1>1. TypeOK'
  <2>1. raised' \in [Bit -> Nat] /\ \A c \in Bit : raised'[c] <= MAX_RAISED[c]
    <3>1. CASE b \in state
      BY <3>1 DEF TypeOK
    <3>2. CASE b \notin state
      <4>1. raised' = [raised EXCEPT ![b] = raised[b] + 1]
        BY <3>2
      <4>2. raised[b] \in Nat /\ MAX_RAISED[b] \in Nat
        BY IsrAssumption DEF TypeOK
      <4>3. raised[b] < MAX_RAISED[b]
        OBVIOUS
      <4>4. raised[b] + 1 \in Nat /\ raised[b] + 1 <= MAX_RAISED[b]
        BY <4>2, <4>3
      <4> QED
        BY <4>1, <4>4 DEF TypeOK
    <3> QED
      BY <3>1, <3>2
  <2>2. state' \in SUBSET Bit /\ notified' \in BOOLEAN
    BY DEF TypeOK
  <2> QED
    BY <2>1, <2>2 DEF TypeOK
<1>2. NoLostWakeup'
  BY DEF NoLostWakeup
<1>3. EachPassageOnce'
  <2>1. current' = current /\ InHand' = InHand
    BY DEF current, InHand
  <2>2. CASE b = 0 /\ 0 \notin state
    BY <2>1, <2>2 DEF EachPassageOnce, Waiting, TypeOK
  <2>3. CASE b # 0 \/ 0 \in state
    BY <2>1, <2>3 DEF EachPassageOnce, Waiting, TypeOK, Bit
  <2> QED
    BY <2>2, <2>3
<1>4. MaskedByPulse' /\ TestEnabled' /\ Locals' /\ Seen' /\ Kept'
  BY DEF MaskedByPulse, TestEnabled, Locals, Seen, Kept, current
<1> QED
  BY <1>1, <1>2, <1>3, <1>4

(* The handler wakes up, reads the status, reads the clear register.       *)
LEMMA ReadIInv == ASSUME IInv, wake \/ read_status \/ read_clr PROVE IInv'
<1> USE DEF IInv, wake, read_status, read_clr, fpgaVars, cmdVars
<1>1. TypeOK'
  BY DEF TypeOK
<1>2. NoLostWakeup'
  BY DEF NoLostWakeup
<1>3. EachPassageOnce'
  <2>1. ~InHand /\ ~InHand' /\ Waiting' = Waiting
    BY DEF InHand, Waiting
  <2> QED
    BY <2>1 DEF EachPassageOnce
<1>4. MaskedByPulse' /\ TestEnabled'
  BY DEF MaskedByPulse, TestEnabled
<1>5. Locals' /\ Seen' /\ Kept'
  BY DEF Locals, Seen, Kept, MaskedByPulse, TestEnabled
<1> QED
  BY <1>1, <1>2, <1>3, <1>4, <1>5

(* The two writes of the pulse.                                            *)
LEMMA PulseIInv == ASSUME IInv, set_bit \/ clear_bit PROVE IInv'
<1> USE DEF IInv, cmdVars, write_clr
<1>0. /\ status # {} /\ current \in Bit /\ (0 \in status <=> current = 0)
      /\ current' = current
      /\ UNCHANGED <<station, notified, raised, status, posted, tested, cmdVars>>
  BY CurrentBit DEF TypeOK, set_bit, clear_bit, current
<1>1. CASE set_bit
  <2>1. /\ ipc = "set" /\ ipc' = "clear" /\ isr_val' = isr_val
        /\ clr' = isr_val \cup {current} /\ state' = state \ (isr_val \cup {current})
    BY <1>1 DEF set_bit, acknowledged
  <2>2. TypeOK' /\ NoLostWakeup'
    BY <1>0, <2>1 DEF TypeOK, NoLostWakeup
  <2>3. EachPassageOnce'
    <3>1. CASE current = 0
      BY <1>0, <2>1, <3>1 DEF EachPassageOnce, Waiting, InHand, Seen, TypeOK
    <3>2. CASE current # 0
      BY <1>0, <2>1, <3>2 DEF EachPassageOnce, Waiting, InHand, Locals, TypeOK
    <3> QED
      BY <3>1, <3>2
  <2>4. MaskedByPulse' /\ TestEnabled'
    BY <1>0, <2>1 DEF MaskedByPulse, TestEnabled, Locals, Kept
  <2>5. Locals' /\ Seen' /\ Kept'
    BY <1>0, <2>1 DEF Locals, Seen, Kept
  <2> QED
    BY <2>2, <2>3, <2>4, <2>5
<1>2. CASE clear_bit
  <2>1. /\ ipc = "clear" /\ ipc' = "post" /\ isr_val' = {}
        /\ clr' = isr_val \ {current} /\ state' = state \ (isr_val \ {current})
    BY <1>2 DEF clear_bit, released
  <2>2. TypeOK' /\ NoLostWakeup'
    BY <1>0, <2>1 DEF TypeOK, NoLostWakeup
  <2>3. EachPassageOnce'
    BY <1>0, <2>1 DEF EachPassageOnce, Waiting, InHand, Locals
  <2>4. MaskedByPulse' /\ TestEnabled'
    BY <1>0, <2>1 DEF MaskedByPulse, TestEnabled, Locals, Kept
  <2>5. Locals' /\ Seen' /\ Kept'
    BY <1>0, <2>1 DEF Locals, Seen, Kept
  <2> QED
    BY <2>2, <2>3, <2>4, <2>5
<1> QED
  BY <1>1, <1>2

(* Forwarding what was acknowledged.                                       *)
LEMMA PostIInv == ASSUME IInv, post PROVE IInv'
<1> USE DEF IInv, fpgaVars, cmdVars
<1>0. /\ status # {} /\ current \in status /\ current \in Bit /\ (0 \in status <=> current = 0)
      /\ ipc = "post" /\ ipc' \in {"status", "load"} /\ 0 \notin status'
      /\ UNCHANGED <<station, state, clr, notified, raised, isr_val, pos_test_item, cpc, cmd_val, torn, crossed>>
  BY CurrentBit DEF TypeOK, post, next_pc
<1>1. TypeOK'
  BY <1>0 DEF TypeOK, post, next_pc
<1>2. EachPassageOnce'
  <2>1. CASE current = 0
    BY <1>0, <2>1 DEF post, EachPassageOnce, Waiting, InHand, TypeOK
  <2>2. CASE current # 0
    BY <1>0, <2>2 DEF post, EachPassageOnce, Waiting, InHand, TypeOK
  <2> QED
    BY <2>1, <2>2
<1>3. NoLostWakeup' /\ MaskedByPulse' /\ TestEnabled'
  BY <1>0 DEF NoLostWakeup, MaskedByPulse, TestEnabled
<1>4. Locals' /\ Seen' /\ Kept'
  BY <1>0 DEF Locals, Seen, Kept
<1> QED
  BY <1>1, <1>2, <1>3, <1>4

(* The command.                                                            *)
LEMMA CmdIInv ==
  ASSUME IInv, (\E item \in Item : recv_pos_test_cmd(item)) \/ cmd_load \/ cmd_store
  PROVE  IInv'
<1> USE DEF IInv, fpgaVars, isrVars
<1>0. current' = current
  BY DEF recv_pos_test_cmd, cmd_load, cmd_store, current
<1>1. ASSUME NEW item \in Item, recv_pos_test_cmd(item) PROVE IInv'
  <2>1. TypeOK'
    BY <1>1, IsrAssumption DEF recv_pos_test_cmd, TypeOK
  <2>2. NoLostWakeup' /\ EachPassageOnce' /\ MaskedByPulse' /\ Locals' /\ Seen'
    BY <1>0, <1>1 DEF recv_pos_test_cmd, NoLostWakeup, EachPassageOnce, MaskedByPulse, Locals, Seen, Waiting, InHand
  <2>3. cpc' = "idle" => pos_test_item' # 2 * station + 1
    BY <1>1 DEF recv_pos_test_cmd, TypeOK
  <2>4. TestEnabled' /\ Kept'
    BY <1>1, <2>3 DEF recv_pos_test_cmd, TestEnabled, Kept
  <2> QED
    BY <2>1, <2>2, <2>4
<1>2. CASE cmd_load
  BY <1>0, <1>2 DEF cmd_load, TypeOK, NoLostWakeup, EachPassageOnce, MaskedByPulse, TestEnabled, Locals, Seen, Kept,
                    Waiting, InHand
<1>3. CASE cmd_store
  <2>1. /\ UNCHANGED <<station, notified, raised, ipc, isr_val, status, posted, tested, pos_test_item, torn>>
        /\ clr' = switched /\ state' = state \ switched
        /\ crossed' = (ipc \in {"set", "clear"}) /\ cpc' = "idle" /\ cmd_val' = {}
        /\ switched \subseteq Bit /\ (~torn => 0 \notin switched)
        /\ pos_test_item = 2 * station + 1 => switched \cap {1, 2} = {}
    BY <1>3 DEF cmd_store, write_clr, switched, TypeOK, Locals, Bit
  <2>2. TypeOK' /\ NoLostWakeup'
    BY <2>1 DEF TypeOK, NoLostWakeup
  <2>3. EachPassageOnce' /\ MaskedByPulse'
    BY <1>0, <2>1 DEF EachPassageOnce, MaskedByPulse, Waiting, InHand
  <2>4. TestEnabled' /\ Locals' /\ Seen' /\ Kept'
    BY <2>1 DEF TestEnabled, Locals, Seen, Kept
  <2> QED
    BY <2>2, <2>3, <2>4
<1> QED
  BY <1>1, <1>2, <1>3

(* The strengthened invariant is inductive, so it always holds.            *)
THEOREM Invariance == Spec => []IInv
<1>1. IInv /\ [Next]_vars => IInv'
  <2> SUFFICES ASSUME IInv, [Next]_vars PROVE IInv'
    OBVIOUS
  <2>1. CASE Next
    BY <2>1, RaiseIInv, ReadIInv, PulseIInv, PostIInv, CmdIInv DEF Next, Isr
  <2>2. CASE UNCHANGED vars
    BY <2>2 DEF vars, fpgaVars, isrVars, cmdVars, IInv, TypeOK, NoLostWakeup, EachPassageOnce, MaskedByPulse,
                TestEnabled, Locals, Seen, Kept, Waiting, InHand, current
  <2> QED
    BY <2>1, <2>2
<1> QED
  BY <1>1, InitIInv, PTL DEF Spec

(* Registers and locals keep their types (isr.c:50-56).                    *)
THEOREM TypeCorrect == Spec => []TypeOK
<1>1. IInv => TypeOK
  BY DEF IInv
<1> QED
  BY <1>1, Invariance, PTL

(* No handler sleeps on a bit it was not told of, with one notification    *)
(* flag and a line that is the OR of three bits (isr.c:70-77, 144).        *)
THEOREM WakeupNotLost == Spec => []NoLostWakeup
<1>1. IInv => NoLostWakeup
  BY DEF IInv
<1> QED
  BY <1>1, Invariance, PTL

(* Every latched passage is forwarded exactly once, unless the command     *)
(* read the clear register during the handler's pulse (isr.c:80-92).       *)
THEOREM PassageForwardedOnce == Spec => []EachPassageOnce
<1>1. IInv => EachPassageOnce
  BY DEF IInv
<1> QED
  BY <1>1, Invariance, PTL

(* Only that can leave the passages masked, and a kicker test in force has *)
(* its interrupts unless its command crossed a pulse (isr.c:82-107,        *)
(* local_protocol.c:77-106).                                               *)
THEOREM RegisterAsWanted == Spec => []InterruptsOn
<1>1. IInv => InterruptsOn
  BY DEF IInv, InterruptsOn
<1> QED
  BY <1>1, Invariance, PTL

----------------------------------------------------------------------------
(* Getting done, without fairness: what the handler has before it can only *)
(* shrink, until another event interrupts.  A bit of the status register   *)
(* that the handler will meet in a later round weighs more than one it has *)
(* read, which is cleared when its turn comes.                             *)
Acked(b) == status # {} /\ ipc \in {"clear", "post"} /\ current = b
Later(b) == b \in state /\ (b \in status => Acked(b))
weight(b) == (IF Later(b) THEN 6 ELSE 0) + (IF b \in status THEN 5 ELSE 0)
phase == [wait |-> 0, status |-> 3, load |-> 3, set |-> 2, clear |-> 1, post |-> 0]
work == weight(0) + weight(1) + weight(2) + phase[ipc] + (IF notified THEN 4 ELSE 0)

(* The handler comes nearer to its next wait with every step, and nothing  *)
(* keeps it from there but another event: no test command, and no bit that *)
(* it meets again and again.                                               *)
NearerStep ==
  /\ Isr => work' < work
  /\ work' > work => \E b \in Bit : raise(b)

(* When nothing is before it the handler waits, and has forwarded every    *)
(* passage; else it waits for nothing.                                     *)
DoneIsDone ==
  /\ work \in Nat
  /\ work = 0 <=> ipc = "wait" /\ ~notified
  /\ work = 0 => state = {} /\ (~torn => raised[0] = posted)

(* The weights as numbers.                                                 *)
LEMMA WorkTerms ==
  ASSUME TypeOK
  PROVE  /\ \A b \in Bit : weight(b) \in 0 .. 11 /\ (b \in status => weight(b) >= 5)
         /\ phase[ipc] \in 0 .. 3
         /\ work \in Nat
<1>1. \A b \in Bit : weight(b) \in {0, 5, 6, 11} /\ (b \in status => weight(b) \in {5, 11})
  BY DEF weight
<1>2. phase[ipc] \in 0 .. 3
  BY DEF phase, TypeOK
<1>3. weight(0) \in 0 .. 11 /\ weight(1) \in 0 .. 11 /\ weight(2) \in 0 .. 11
  BY <1>1 DEF Bit
<1>4. work \in Nat
  BY <1>2, <1>3 DEF work
<1> QED
  BY <1>1, <1>2, <1>4

LEMMA WhenDone == ASSUME IInv PROVE DoneIsDone
<1> USE DEF IInv
<1>1. CASE ipc = "wait"
  <2>1. status = {} /\ phase[ipc] = 0
    BY <1>1 DEF TypeOK, phase
  <2>2. \A b \in Bit : weight(b) = (IF b \in state THEN 6 ELSE 0)
    BY <2>1 DEF weight, Later
  <2>3. CASE notified
    <3>1. work >= 4
      BY <2>1, <2>3, WorkTerms DEF work, Bit
    <3> QED
      BY <1>1, <2>3, <3>1, WorkTerms DEF DoneIsDone
  <2>4. CASE ~notified
    <3>1. state = {}
      BY <1>1, <2>4 DEF NoLostWakeup
    <3>2. work = 0
      BY <2>1, <2>2, <2>4, <3>1 DEF work, Bit
    <3>3. ~torn => raised[0] = posted
      BY <1>1, <3>1 DEF EachPassageOnce, Waiting, InHand, TypeOK
    <3> QED
      BY <1>1, <2>4, <3>1, <3>2, <3>3 DEF DoneIsDone
  <2> QED
    BY <2>3, <2>4
<1>2. CASE ipc \in {"status", "load", "set", "clear"}
  <2>1. phase[ipc] >= 1
    BY <1>2 DEF phase
  <2>2. work > 0
    BY <2>1, WorkTerms DEF work, Bit
  <2> QED
    BY <1>2, <2>2, WorkTerms DEF DoneIsDone
<1>3. CASE ipc = "post"
  <2>1. current \in Bit /\ current \in status
    BY <1>3, CurrentBit DEF TypeOK
  <2>2. weight(0) >= 5 \/ weight(1) >= 5 \/ weight(2) >= 5
    BY <2>1, WorkTerms DEF Bit
  <2>3. work > 0
    BY <2>2, WorkTerms DEF work, Bit
  <2> QED
    BY <1>3, <2>3, WorkTerms DEF DoneIsDone
<1> QED
  BY <1>1, <1>2, <1>3 DEF TypeOK

(* The sum, when no weight grows.                                          *)
LEMMA WorkSum ==
  ASSUME TypeOK, TypeOK', \A b \in Bit : weight(b)' <= weight(b), notified' = notified
  PROVE  work' + phase[ipc] <= work + phase[ipc]'
<1>1. /\ weight(0) \in Nat /\ weight(1) \in Nat /\ weight(2) \in Nat /\ phase[ipc] \in Nat
      /\ weight(0)' \in Nat /\ weight(1)' \in Nat /\ weight(2)' \in Nat /\ phase[ipc]' \in Nat
  BY DEF weight, phase, TypeOK
<1>2. weight(0)' <= weight(0) /\ weight(1)' <= weight(1) /\ weight(2)' <= weight(2)
  BY DEF Bit
<1> QED
  BY <1>1, <1>2 DEF work

(* The steps that end a wait or a round.                                   *)
LEMMA RoundShrinks ==
  ASSUME IInv, IInv', wake \/ read_status
  PROVE  work' < work
<1> USE DEF IInv
<1>1. CASE wake
  <2>1. /\ ipc = "wait" /\ ipc' = "status" /\ notified /\ notified' = FALSE
        /\ state' = state /\ status' = status /\ status = {}
    BY <1>1 DEF wake, TypeOK
  <2>2. \A b \in Bit : weight(b)' = weight(b)
    BY <2>1 DEF weight, Later
  <2> QED
    BY <2>1, <2>2, WorkTerms DEF work, phase, Bit
<1>2. CASE read_status
  <2>1. /\ ipc = "status" /\ ipc' \in {"wait", "load"} /\ notified' = notified
        /\ state' = state /\ status' = state /\ status = {}
        /\ ipc' = IF state = {} THEN "wait" ELSE "load"
    BY <1>2 DEF read_status, fpgaVars, TypeOK
  <2>2. \A b \in Bit : weight(b) = (IF b \in state THEN 6 ELSE 0)
    BY <2>1 DEF weight, Later
  <2>3. \A b \in Bit : weight(b)' = (IF b \in state THEN 5 ELSE 0)
    BY <2>1 DEF weight, Later, Acked
  <2>4. CASE state = {}
    BY <2>1, <2>2, <2>3, <2>4 DEF work, phase, Bit
  <2>5. CASE state # {}
    <3>1. 0 \in state \/ 1 \in state \/ 2 \in state
      BY <2>5 DEF TypeOK, Bit
    <3>2. phase[ipc]' = 3 /\ phase[ipc] = 3
      BY <2>1, <2>5 DEF phase
    <3> QED
      BY <2>1, <2>2, <2>3, <3>1, <3>2 DEF work, Bit
  <2> QED
    BY <2>4, <2>5
<1> QED
  BY <1>1, <1>2

(* The steps at one bit.                                                   *)
LEMMA BitShrinks ==
  ASSUME IInv, IInv', work' \in Nat, read_clr \/ set_bit \/ clear_bit
  PROVE  work' < work
<1> USE DEF IInv
<1>0. status # {} /\ status' = status /\ current' = current /\ current \in status /\ notified' = notified
  <2>1. status # {} /\ status' = status /\ notified' = notified
    BY DEF read_clr, set_bit, clear_bit, fpgaVars, TypeOK
  <2> QED
    BY <2>1, CurrentBit DEF current
<1>1. ASSUME \A b \in Bit : Later(b)' => Later(b), phase[ipc]' < phase[ipc] PROVE work' < work
  <2>1. \A b \in Bit : weight(b)' <= weight(b)
    BY <1>0, <1>1 DEF weight
  <2>2. phase[ipc] \in Nat /\ phase[ipc]' \in Nat
    BY DEF phase, TypeOK
  <2>3. work \in Nat
    BY WorkTerms
  <2> QED
    BY <1>0, <1>1, <2>1, <2>2, <2>3, WorkSum
<1>2. CASE read_clr
  <2>1. ipc = "load" /\ ipc' = "set" /\ state' = state
    BY <1>2 DEF read_clr, fpgaVars
  <2>2. \A b \in Bit : Later(b)' => Later(b)
    BY <1>0, <2>1 DEF Later, Acked
  <2> QED
    BY <1>1, <2>1, <2>2 DEF phase
<1>3. CASE set_bit
  <2>1. ipc = "set" /\ ipc' = "clear" /\ state' \subseteq state /\ current \notin state'
    BY <1>3 DEF set_bit, write_clr, acknowledged
  <2>2. \A b \in Bit : Later(b)' => Later(b)
    BY <1>0, <2>1 DEF Later, Acked
  <2> QED
    BY <1>1, <2>1, <2>2 DEF phase
<1>4. CASE clear_bit
  <2>1. ipc = "clear" /\ ipc' = "post" /\ state' \subseteq state
    BY <1>4 DEF clear_bit, write_clr
  <2>2. \A b \in Bit : Later(b)' => Later(b)
    BY <1>0, <2>1 DEF Later, Acked
  <2> QED
    BY <1>1, <2>1, <2>2 DEF phase
<1> QED
  BY <1>2, <1>3, <1>4

(* Posting ends a bit's turn.                                              *)
LEMMA PostShrinks ==
  ASSUME IInv, IInv', work' \in Nat, post
  PROVE  work' < work
<1> USE DEF IInv
<1>1. /\ ipc = "post" /\ current \in status /\ current \in Bit
      /\ state' = state /\ notified' = notified /\ status' = status \ {current}
      /\ ipc' = IF status = {current} THEN "status" ELSE "load"
  BY CurrentBit DEF post, next_pc, fpgaVars, TypeOK
<1> PICK c \in Bit : c = current
  BY <1>1
<1>2. \A b \in Bit : Later(b)' <=> Later(b)
  <2>1. \A b \in Bit : ~Acked(b)'
    BY <1>1 DEF Acked
  <2> QED
    BY <1>1, <2>1 DEF Later, Acked
<1>3. \A b \in Bit : b # c => weight(b)' = weight(b)
  BY <1>1, <1>2 DEF weight
<1>4. weight(c)' = weight(c) - 5 /\ weight(c) \in 0 .. 11
  <2>1. c \in status /\ c \notin status'
    BY <1>1
  <2> QED
    BY <1>2, <2>1 DEF weight
<1>5. phase[ipc] = 0 /\ phase[ipc]' = 3
  BY <1>1 DEF phase
<1>6. weight(0) \in 0 .. 11 /\ weight(1) \in 0 .. 11 /\ weight(2) \in 0 .. 11
  BY WorkTerms DEF Bit
<1>7. weight(0)' + weight(1)' + weight(2)' = weight(0) + weight(1) + weight(2) - 5
  BY <1>3, <1>4, <1>6 DEF Bit
<1> QED
  BY <1>1, <1>5, <1>6, <1>7 DEF work

(* A command clears status bits, it sets none.                             *)
LEMMA CommandShrinks ==
  ASSUME IInv, IInv', work' \in Nat,
         (\E item \in Item : recv_pos_test_cmd(item)) \/ cmd_load \/ cmd_store
  PROVE  work' <= work
<1> USE DEF IInv
<1>1. /\ UNCHANGED <<ipc, status, notified>> /\ state' \subseteq state
  BY DEF recv_pos_test_cmd, cmd_load, cmd_store, write_clr, fpgaVars, isrVars
<1>2. current' = current
  BY <1>1 DEF current
<1>3. \A b \in Bit : Later(b)' => Later(b)
  BY <1>1, <1>2 DEF Later, Acked
<1>4. \A b \in Bit : weight(b)' <= weight(b)
  BY <1>1, <1>3 DEF weight
<1>5. phase[ipc] \in Nat /\ phase[ipc]' = phase[ipc]
  BY <1>1 DEF phase, TypeOK
<1> QED
  BY <1>1, <1>4, <1>5, WorkSum, WorkTerms

(* The handler gets done with what has interrupted it: each of its steps   *)
(* brings it nearer to its next wait, no command keeps it busy, and when   *)
(* it waits, every latched passage has been forwarded, unless torn         *)
(* (isr.c:70-144).                                                         *)
THEOREM GetsDone == Spec => []DoneIsDone /\ [][NearerStep]_vars
<1>1. IInv => DoneIsDone
  BY WhenDone
<1>2. IInv' => DoneIsDone'
  BY <1>1, PTL
<1>3. IInv /\ IInv' /\ [Next]_vars => [NearerStep]_vars
  <2> SUFFICES ASSUME IInv, IInv', Next PROVE NearerStep
    OBVIOUS
  <2>1. work \in Nat /\ work' \in Nat
    BY <1>1, <1>2 DEF DoneIsDone
  <2>2. CASE Isr
    <3>1. work' < work
      BY <2>1, <2>2, RoundShrinks, BitShrinks, PostShrinks DEF Isr
    <3> QED
      BY <2>1, <3>1 DEF NearerStep
  <2>3. ASSUME NEW b \in Bit, raise(b), ~Isr PROVE NearerStep
    BY <2>3 DEF NearerStep
  <2>4. CASE ~Isr /\ ((\E item \in Item : recv_pos_test_cmd(item)) \/ cmd_load \/ cmd_store)
    BY <2>1, <2>4, CommandShrinks DEF NearerStep
  <2> QED
    BY <2>2, <2>3, <2>4 DEF Next
<1> QED
  BY <1>1, <1>3, Invariance, PTL DEF Spec
============================================================================
