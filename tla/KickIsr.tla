------------------------------ MODULE KickIsr ------------------------------
(***************************************************************************)
(* The interrupts of one reject station (fpga/isr.c) and the position test *)
(* command that masks some of them (communication/local_protocol.c).       *)
(*                                                                         *)
(* Each station has a status and a clear register in the FPGA.  An event   *)
(* sets its bit in the status register and interrupts.  A bit that is 1 in *)
(* the clear register clears the status bit and, while it stays 1, masks   *)
(* the event: the handler pulses it to acknowledge, the command holds it   *)
(* to switch an interrupt off.  Both do so by reading the register and     *)
(* writing it back, one access at a time, with no lock between them.       *)
(*                                                                         *)
(* The stations share nothing but pos_test_item, which only the command    *)
(* writes: a behaviour here is what station `station' sees, and what the   *)
(* command does to the other station's register are stuttering steps.      *)
(***************************************************************************)
EXTENDS Naturals, FiniteSets

CONSTANTS
  Item,       \* the position test items the host may send
  MAX_RAISED  \* BOUND: MAX_RAISED[b] latched events of each kind

Bit == {0, 1, 2}  \* a sample passes; the kicker is fired; the kicker's feedback

ASSUME IsrAssumption == Item \subseteq Nat /\ MAX_RAISED \in [Bit -> Nat]

VARIABLES
  station,         \* 1: kick1_isr_tsk, 2: kick2_isr_tsk
  state,           \* the bits of FPGA_ISRSTATE_REG
  clr,             \* the bits of FPGA_ISRCLR_REG
  notified,        \* SIGIO is pending, or kick_fd is readable
  ipc, isr_val,    \* the handler: where it is, its local isr_val,
  status,          \* and the bits of its local status not yet handled
  posted, tested,  \* messages sent to the trig task, and to the position tasks
  pos_test_item,   \* g_sys_config.pos_test_item
  cpc, cmd_val,    \* recv_pos_test_cmd: where it is, its local isr_val
  raised,          \* history: raised[b], the events the status register latched
  torn, crossed    \* history: see EachPassageOnce and TestEnabled

fpgaVars == <<state, clr, notified, raised>>
isrVars == <<ipc, isr_val, status, posted, tested>>
cmdVars == <<pos_test_item, cpc, cmd_val, torn, crossed>>
vars == <<station, fpgaVars, isrVars, cmdVars>>

(* Nothing in src/ initialises the clear register: an earlier run may have *)
(* masked the kicker's interrupts.                                         *)
Init ==
  /\ station \in {1, 2}
  /\ state = {} /\ clr \in SUBSET {1, 2} /\ notified = FALSE
  /\ ipc = "wait" /\ isr_val = {} /\ status = {}
  /\ posted = 0 /\ tested = 0
  /\ pos_test_item = 0 /\ cpc = "idle" /\ cmd_val = {}
  /\ raised = [b \in Bit |-> 0]
  /\ torn = FALSE /\ crossed = FALSE

----------------------------------------------------------------------------
(* The FPGA.  The interrupt line is the OR of the status bits; the driver  *)
(* may but need not notify again when another bit is already set.          *)
raise(b) ==
  /\ b \notin clr /\ raised[b] < MAX_RAISED[b]
  /\ state' = state \cup {b}
  /\ notified' \in {TRUE} \cup (IF state = {} THEN {} ELSE {notified})
  /\ raised' = [raised EXCEPT ![b] = IF b \in state THEN @ ELSE @ + 1]
  /\ UNCHANGED <<station, clr, isrVars, cmdVars>>

(* FPGA_WRITE16 to the clear register.                                     *)
write_clr(val) == clr' = val /\ state' = state \ val

----------------------------------------------------------------------------
(* kick1_isr_tsk, kick2_isr_tsk *)

(* sigwaitinfo, or read of kick_fd.                                        *)
wake ==
  /\ ipc = "wait" /\ notified
  /\ notified' = FALSE
  /\ ipc' = "status"
  /\ UNCHANGED <<station, state, clr, raised, isr_val, status, posted, tested, cmdVars>>

read_status ==
  /\ ipc = "status"
  /\ status' = state
  /\ ipc' = IF state = {} THEN "wait" ELSE "load"
  /\ UNCHANGED <<station, fpgaVars, isr_val, posted, tested, cmdVars>>

(* The bit being handled: the handler looks at them in this order.         *)
current == CHOOSE b \in status : \A c \in status : b <= c

read_clr ==
  /\ ipc = "load"
  /\ isr_val' = clr
  /\ ipc' = "set"
  /\ UNCHANGED <<station, fpgaVars, status, posted, tested, cmdVars>>

(* Mutant: the acknowledgement is not written.                             *)
M_acknowledged == isr_val
acknowledged == isr_val \cup {current}
(* Mutant: the bit is left set.                                            *)
M_released == isr_val \cup {current}
released == isr_val \ {current}

set_bit ==
  /\ ipc = "set"
  /\ write_clr(acknowledged)
  /\ ipc' = "clear"
  /\ UNCHANGED <<station, notified, raised, isr_val, status, posted, tested, cmdVars>>

clear_bit ==
  /\ ipc = "clear"
  /\ write_clr(released)
  /\ isr_val' = {}  \* dead from here on
  /\ ipc' = "post"
  /\ UNCHANGED <<station, notified, raised, status, posted, tested, cmdVars>>

(* Mutant: the handler does not look whether a bit is left.                *)
M2_next_pc == "load"
(* Mutant: the status is read once per wake-up.                            *)
M_next_pc == IF status = {current} THEN "wait" ELSE "load"
next_pc == IF status = {current} THEN "status" ELSE "load"

(* The test that wants to hear of a bit: 2 or 4 of the passages, 3 or 5 of *)
(* the kicker.                                                             *)
test_of(b) == IF b = 0 THEN 2 * station ELSE 2 * station + 1

post ==
  /\ ipc = "post"
  /\ posted' = IF current = 0 THEN posted + 1 ELSE posted
  /\ tested' = IF pos_test_item = test_of(current) THEN tested + 1 ELSE tested
  /\ status' = status \ {current}
  /\ ipc' = next_pc
  /\ UNCHANGED <<station, fpgaVars, isr_val, cmdVars>>

Isr == wake \/ read_status \/ read_clr \/ set_bit \/ clear_bit \/ post

----------------------------------------------------------------------------
(* recv_pos_test_cmd, in local_recv_tsk; an item out of 2 .. 5 is stored   *)
(* and touches no register.                                                *)
recv_pos_test_cmd(item) ==
  /\ cpc = "idle"
  /\ pos_test_item' = item
  /\ cpc' = IF item \in 2 .. 5 THEN "load" ELSE "idle"
  /\ UNCHANGED <<station, fpgaVars, isrVars, cmd_val, torn, crossed>>

cmd_load ==
  /\ cpc = "load"
  /\ cmd_val' = clr
  /\ torn' = (torn \/ 0 \in clr)
  /\ cpc' = "store"
  /\ UNCHANGED <<station, fpgaVars, isrVars, pos_test_item, crossed>>

switched == IF pos_test_item = 2 * station + 1 THEN cmd_val \ {1, 2} ELSE cmd_val \cup {1, 2}

cmd_store ==
  /\ cpc = "store"
  /\ write_clr(switched)
  /\ crossed' = (ipc \in {"set", "clear"})
  /\ cmd_val' = {}  \* dead from here on
  /\ cpc' = "idle"
  /\ UNCHANGED <<station, notified, raised, isrVars, pos_test_item, torn>>

Next ==
  \/ Isr \/ \E b \in Bit : raise(b)
  \/ \E item \in Item : recv_pos_test_cmd(item)
  \/ cmd_load \/ cmd_store

Spec == Init /\ [][Next]_vars

(* The handler runs when notified; nothing makes the host send a command.  *)
FairSpec == Spec /\ WF_vars(Isr)
----------------------------------------------------------------------------
(* Types of the registers and locals (isr.c:50-56).                        *)
TypeOK ==
  /\ station \in {1, 2}
  /\ state \in SUBSET Bit /\ clr \in SUBSET Bit /\ notified \in BOOLEAN
  /\ ipc \in {"wait", "status", "load", "set", "clear", "post"}
  /\ isr_val \in SUBSET Bit /\ status \in SUBSET Bit
  /\ ipc \in {"load", "set", "clear", "post"} <=> status # {}
  /\ posted \in Nat /\ tested \in Nat
  /\ pos_test_item \in Nat /\ cpc \in {"idle", "load", "store"} /\ cmd_val \in SUBSET Bit
  /\ raised \in [Bit -> Nat] /\ \A b \in Bit : raised[b] <= MAX_RAISED[b]
  /\ torn \in BOOLEAN /\ crossed \in BOOLEAN

(* The handler never sleeps on a bit it was not told of, although the      *)
(* notification is one flag and bits that come while one is set need not   *)
(* notify: it reads the status again before it waits (isr.c:70-77, 144).   *)
NoLostWakeup == ipc = "wait" /\ state # {} => notified

(* The bit of a latched passage is in the status register, or acknowledged *)
(* by the handler that has not posted it yet.                              *)
Waiting == 0 \in state
InHand == ipc \in {"clear", "post"} /\ current = 0

(* Each passage the status register latched is forwarded to the trig task  *)
(* exactly once.  The exception is a clear register that the test command  *)
(* read while the handler held bit 0 in it (torn): writing that value back *)
(* clears a passage nobody has seen (isr.c:80-92, local_protocol.c:79-80). *)
EachPassageOnce ==
  ~torn => raised[0] = posted + (IF Waiting THEN 1 ELSE 0) + (IF InHand THEN 1 ELSE 0)

(* Nothing but the handler's own pulse masks the passages, unless the      *)
(* command read the register during that pulse (isr.c:82-84,               *)
(* local_protocol.c:79-80).                                                *)
MaskedByPulse == ~torn /\ 0 \in clr => ipc = "clear" /\ current = 0

(* While a kicker test is in force its two interrupts are enabled, unless  *)
(* the command's write fell between the handler's read of the clear        *)
(* register and its last write of it (crossed), which undoes the command   *)
(* (isr.c:105-107, local_protocol.c:86-87, 101-102).                       *)
TestEnabled ==
  \A b \in {1, 2} :
    cpc = "idle" /\ pos_test_item = 2 * station + 1 /\ ~crossed /\ b \in clr => ipc = "clear" /\ current = b

(* Handler and command change the clear register by unlocked               *)
(* read-modify-write, and yet it ends as both want it, but for the two     *)
(* windows torn and crossed (isr.c:82-107, local_protocol.c:77-106).       *)
InterruptsOn == MaskedByPulse /\ TestEnabled

(* Every latched passage is eventually forwarded, whatever commands come.  *)
PassageForwarded ==
  \A n \in 1 .. MAX_RAISED[0] : raised[0] >= n ~> posted >= n \/ torn

(* The comment of the test command (local_protocol.c:78, 93): its own      *)
(* interrupt cannot be switched off.  With handler and command at rest the *)
(* passages are not masked.                                                *)
OwnInterruptOn == cpc = "idle" /\ ipc = "wait" => 0 \notin clr
============================================================================
