--------------------------- MODULE PositionReport ---------------------------
(***************************************************************************)
(* The position tests: sample/position.c, the part of                      *)
(* recv_sample_result and recv_pos_test_cmd that feeds them                *)
(* (communication/local_protocol.c) and the part of the interrupt threads  *)
(* that does (fpga/isr.c).                                                 *)
(*                                                                         *)
(* A test measures the distance from a reference to an event: from the     *)
(* camera to the passage of the sample at a station (items 2 and 4), or    *)
(* from the kick to its feedback (items 3 and 5).  References wait in a    *)
(* list; a distance task takes one of them for each event and reports.     *)
(* The four tests have code, lists and messages of their own; a behaviour  *)
(* is what one of them sees, its item.                                     *)
(*                                                                         *)
(* Three pointers to statics are handed from thread to thread: kp1_time to *)
(* the task that writes the list, kt1_wheel_code or kft1_time to the       *)
(* distance task, and its dis to local_send_tsk.                           *)
(*                                                                         *)
(* A step is what a mutex covers, or one access to shared memory without   *)
(* one.  References and events are numbered, and a number stands for the   *)
(* wheel code or the time it was latched at.  A time is two words, so that *)
(* it may be read half-written.                                            *)
(***************************************************************************)
EXTENDS Naturals, Sequences

CONSTANTS
  Items,      \* which tests, of 2 .. 5
  BUF_NUM,    \* buffers of the test's factory
  None,       \* no buffer, no number
  MAX_REF,    \* BOUND: references latched
  MAX_EVENT   \* BOUND: events latched

Buf == 1 .. BUF_NUM

ASSUME PositionAssumption ==
  /\ Items \subseteq 2 .. 5
  /\ BUF_NUM \in Nat /\ MAX_REF \in Nat /\ MAX_EVENT \in Nat
  /\ None \notin Nat

VARIABLES
  item,           \* the test this behaviour is about
  testing,        \* g_sys_config.pos_test_item = item
  ipc,            \* the interrupt thread: where it is
  refs, kp,       \* references latched so far, and the content of kp1_time
  events, kft,    \* events latched so far, and of kt1_wheel_code or kft1_time
  kp_mbx, kt_mbx, \* messages waiting in /pos_kp1, and in /pos_kt1 or /pos_kft1
  wpc, wbuf,      \* the thread that writes the list, and the buffer it holds
  written,        \* references it has written
  free, list,     \* the factory's list and the references that wait
  owned,          \* buffers whose node.owner has been set
  sample,         \* sample[b]: the reference in buffer b and its stamp
  dpc, dbuf,      \* the distance task, and the node it found at the head
  handled, dis,   \* events it has taken; dis: the event it was computed for, 0: none
  pairs,          \* history: what dis was computed from, each time
  local_mbx,      \* reports waiting for local_send_tsk
  sent,           \* history: what the host got of each, None: no connection
  died            \* "no", or why the process ended

isrVars == <<ipc, refs, kp, events, kft>>
writeVars == <<wpc, wbuf, written>>
storeVars == <<free, list, owned, sample>>
disVars == <<dpc, dbuf, handled, dis, pairs>>
reportVars == <<local_mbx, sent>>
vars == <<item, testing, isrVars, kp_mbx, kt_mbx, writeVars, storeVars, disVars, reportVars, died>>

distance == item \in {2, 4}

Init ==
  /\ item \in Items /\ testing = FALSE
  /\ ipc = "wait" /\ refs = 0 /\ kp = <<0, 0>> /\ events = 0 /\ kft = <<0, 0>>
  /\ kp_mbx = 0 /\ kt_mbx = 0
  /\ wpc = "idle" /\ wbuf = None /\ written = 0
  /\ free = [i \in 1 .. BUF_NUM |-> i] /\ list = <<>> /\ owned = {}
  /\ sample = [b \in Buf |-> [ref |-> 0, stamp |-> <<0, 0>>]]
  /\ dpc = "pend" /\ dbuf = None /\ handled = 0 /\ dis = 0 /\ pairs = <<>>
  /\ local_mbx = 0 /\ sent = <<>>
  /\ died = "no"

----------------------------------------------------------------------------
(* local_recv_tsk and the interrupt thread                                 *)

(* Another item may be chosen at any time; it clears no list.  In a        *)
(* distance test the thread that runs the command also writes the list.    *)
recv_pos_test_cmd(on) ==
  /\ died = "no" /\ (distance => wpc = "idle")
  /\ testing' = on
  /\ UNCHANGED <<item, isrVars, kp_mbx, kt_mbx, writeVars, storeVars, disVars, reportVars, died>>

(* The kick: gettimeofday(&kp1_time).                                      *)
kick ==
  /\ died = "no" /\ ipc = "wait" /\ testing /\ ~distance /\ refs < MAX_REF
  /\ refs' = refs + 1
  /\ kp' = [kp EXCEPT ![1] = refs + 1]
  /\ ipc' = "kick usec"
  /\ UNCHANGED <<item, testing, events, kft, kp_mbx, kt_mbx, writeVars, storeVars, disVars, reportVars, died>>

kick_usec ==
  /\ died = "no" /\ ipc = "kick usec"
  /\ kp' = [kp EXCEPT ![2] = refs]
  /\ ipc' = "kick post"
  /\ UNCHANGED <<item, testing, refs, events, kft, kp_mbx, kt_mbx, writeVars, storeVars, disVars, reportVars, died>>

post_kick ==
  /\ died = "no" /\ ipc = "kick post"
  /\ kp_mbx' = kp_mbx + 1 /\ ipc' = "wait"
  /\ UNCHANGED <<item, testing, refs, kp, events, kft, kt_mbx, writeVars, storeVars, disVars, reportVars, died>>

(* The event: a passage, kt1_wheel_code = kick1_wheel_code, of which one   *)
(* word matters; or a feedback, gettimeofday(&kft1_time).                  *)
event ==
  /\ died = "no" /\ ipc = "wait" /\ testing /\ events < MAX_EVENT
  /\ events' = events + 1
  /\ \/ distance /\ kft' = <<events + 1, events + 1>> /\ ipc' = "post"
     \/ ~distance /\ kft' = [kft EXCEPT ![1] = events + 1] /\ ipc' = "usec"
  /\ UNCHANGED <<item, testing, refs, kp, kp_mbx, kt_mbx, writeVars, storeVars, disVars, reportVars, died>>

event_usec ==
  /\ died = "no" /\ ipc = "usec"
  /\ kft' = [kft EXCEPT ![2] = events]
  /\ ipc' = "post"
  /\ UNCHANGED <<item, testing, refs, kp, events, kp_mbx, kt_mbx, writeVars, storeVars, disVars, reportVars, died>>

post_event ==
  /\ died = "no" /\ ipc = "post"
  /\ kt_mbx' = kt_mbx + 1 /\ ipc' = "wait"
  /\ UNCHANGED <<item, testing, refs, kp, events, kft, kp_mbx, writeVars, storeVars, disVars, reportVars, died>>

Isr == kick_usec \/ post_kick \/ event_usec \/ post_event

----------------------------------------------------------------------------
(* The writer of the list: recv_sample_result, or write_kp1_array_tsk      *)

(* buf_factory_produce: ERROR("buf factory crash !") when there is none.   *)
produce ==
  \/ free = <<>> /\ died' = "dry" /\ UNCHANGED <<free, wbuf, wpc>>
  \/ free # <<>> /\ free' = Tail(free) /\ wbuf' = Head(free) /\ wpc' = "fill" /\ UNCHANGED died

recv_sample_result ==
  /\ died = "no" /\ wpc = "idle" /\ distance /\ testing /\ refs < MAX_REF
  /\ refs' = refs + 1
  /\ produce
  /\ UNCHANGED <<item, testing, ipc, kp, events, kft, kp_mbx, kt_mbx, written, list, owned, sample, disVars, reportVars>>

write_kp_array ==
  /\ died = "no" /\ wpc = "idle" /\ kp_mbx > 0
  /\ kp_mbx' = kp_mbx - 1
  /\ produce
  /\ UNCHANGED <<item, testing, isrVars, kt_mbx, written, list, owned, sample, disVars, reportVars>>

(* The wheel code of the result itself, or what kp1_time holds now.        *)
fill ==
  /\ died = "no" /\ wpc = "fill"
  /\ written' = written + 1
  /\ sample' = [sample EXCEPT ![wbuf] =
       [ref |-> written + 1, stamp |-> IF distance THEN <<refs, refs>> ELSE kp]]
  /\ wpc' = "add"
  /\ UNCHANGED <<item, testing, isrVars, kp_mbx, kt_mbx, wbuf, free, list, owned, disVars, reportVars, died>>

(* list_add_tail, after taking the mutex.  The node is seen from now on.   *)
add ==
  /\ died = "no" /\ wpc = "add"
  /\ list' = Append(list, wbuf)
  /\ wpc' = "owner"
  /\ UNCHANGED <<item, testing, isrVars, kp_mbx, kt_mbx, wbuf, written, free, owned, sample, disVars, reportVars, died>>

(* node.owner = parray, before giving the mutex back.                      *)
set_owner ==
  /\ died = "no" /\ wpc = "owner"
  /\ owned' = owned \cup {wbuf}
  /\ wpc' = "idle" /\ wbuf' = None
  /\ UNCHANGED <<item, testing, isrVars, kp_mbx, kt_mbx, written, free, list, sample, disVars, reportVars, died>>

Write == write_kp_array \/ fill \/ add \/ set_owner

----------------------------------------------------------------------------
(* The distance task                                                       *)

(* Mutant: the message stays in the mailbox.                               *)
M_consumed == kt_mbx
consumed == kt_mbx - 1

pend ==
  /\ died = "no" /\ dpc = "pend" /\ kt_mbx > 0
  /\ kt_mbx' = consumed
  /\ handled' = handled + 1
  /\ dpc' = "look"
  /\ UNCHANGED <<item, testing, isrVars, kp_mbx, writeVars, storeVars, dbuf, dis, pairs, reportVars, died>>

(* Mutant: no report when no reference waits.                              *)
M_without_reference == "pend"
without_reference == "report"

(* list_empty and next, without the mutex.                                 *)
look ==
  /\ died = "no" /\ dpc = "look"
  /\ \/ list = <<>> /\ dpc' = without_reference /\ UNCHANGED dbuf
     \/ list # <<>> /\ dpc' = "owner" /\ dbuf' = Head(list)
  /\ UNCHANGED <<item, testing, isrVars, kp_mbx, kt_mbx, writeVars, storeVars, handled, dis, pairs, reportVars, died>>

(* plist->owner, without the mutex: wild when it is not set yet.           *)
follow_owner ==
  /\ died = "no" /\ dpc = "owner"
  /\ \/ dbuf \in owned /\ dpc' = "measure" /\ UNCHANGED died
     \/ dbuf \notin owned /\ died' = "wild" /\ UNCHANGED dpc
  /\ UNCHANGED <<item, testing, isrVars, kp_mbx, kt_mbx, writeVars, storeVars, dbuf, handled, dis, pairs, reportVars>>

(* dis, from what the event's static holds now.                            *)
measure ==
  /\ died = "no" /\ dpc = "measure"
  /\ dis' = handled
  /\ pairs' = Append(pairs, [event |-> handled, stamp |-> kft, from |-> sample[dbuf]])
  /\ dpc' = "del"
  /\ UNCHANGED <<item, testing, isrVars, kp_mbx, kt_mbx, writeVars, storeVars, dbuf, handled, reportVars, died>>

(* Mutant: list_del is forgotten.                                          *)
M_unlinked == list
unlinked ==
  LET i == CHOOSE i \in DOMAIN list : list[i] = dbuf
  IN  [j \in 1 .. Len(list) - 1 |-> IF j < i THEN list[j] ELSE list[j + 1]]

(* list_del under the mutex, which the writer may hold.                    *)
del ==
  /\ died = "no" /\ dpc = "del" /\ wpc # "owner"
  /\ list' = unlinked
  /\ dpc' = "recycle"
  /\ UNCHANGED <<item, testing, isrVars, kp_mbx, kt_mbx, writeVars, free, owned, sample,
                 dbuf, handled, dis, pairs, reportVars, died>>

(* Mutant: the buffer is not given back.                                   *)
M_recycled == free
recycled == Append(free, dbuf)

buf_factory_recycle ==
  /\ died = "no" /\ dpc = "recycle"
  /\ free' = recycled
  /\ dpc' = "report" /\ dbuf' = None
  /\ UNCHANGED <<item, testing, isrVars, kp_mbx, kt_mbx, writeVars, list, owned, sample,
                 handled, dis, pairs, reportVars, died>>

(* Mutant: a report that is not posted.                                    *)
M_reported == local_mbx
reported == local_mbx + 1

(* The report, with a pointer to dis, whether or not dis was computed.     *)
report ==
  /\ died = "no" /\ dpc = "report"
  /\ local_mbx' = reported
  /\ dpc' = "pend"
  /\ UNCHANGED <<item, testing, isrVars, kp_mbx, kt_mbx, writeVars, storeVars, dbuf, handled, dis, pairs, sent, died>>

Dis == pend \/ look \/ follow_owner \/ measure \/ del \/ buf_factory_recycle \/ report

(* local_send_tsk writes what dis holds now, if there is a connection.     *)
send(connected) ==
  /\ died = "no" /\ local_mbx > 0
  /\ local_mbx' = local_mbx - 1
  /\ sent' = Append(sent, IF connected THEN dis ELSE None)
  /\ UNCHANGED <<item, testing, isrVars, kp_mbx, kt_mbx, writeVars, storeVars, disVars, died>>

Send == \E connected \in BOOLEAN : send(connected)

Next ==
  \/ \E on \in BOOLEAN : recv_pos_test_cmd(on)
  \/ kick \/ event \/ recv_sample_result
  \/ Isr \/ Write \/ Dis \/ Send

Spec == Init /\ [][Next]_vars

(* Every thread runs when it can.  Nothing makes the host send, a sample   *)
(* pass or a kicker kick.                                                  *)
Fairness == WF_vars(Isr) /\ WF_vars(Write) /\ WF_vars(Dis) /\ WF_vars(Send)
FairSpec == Spec /\ Fairness
----------------------------------------------------------------------------
(* Types of the variables.                                                 *)
Stamp == Nat \X Nat
Reference == [ref : Nat, stamp : Stamp]

TypeOK ==
  /\ item \in Items /\ testing \in BOOLEAN
  /\ ipc \in {"wait", "kick usec", "kick post", "usec", "post"}
  /\ refs \in 0 .. MAX_REF /\ kp \in Stamp /\ events \in 0 .. MAX_EVENT /\ kft \in Stamp
  /\ kp_mbx \in 0 .. MAX_REF /\ kt_mbx \in 0 .. MAX_EVENT
  /\ wpc \in {"idle", "fill", "add", "owner"} /\ wbuf \in Buf \cup {None}
  /\ written \in 0 .. MAX_REF
  /\ free \in Seq(Buf) /\ list \in Seq(Buf) /\ owned \subseteq Buf
  /\ sample \in [Buf -> Reference]
  /\ dpc \in {"pend", "look", "owner", "measure", "del", "recycle", "report"}
  /\ dbuf \in Buf \cup {None}
  /\ handled \in 0 .. MAX_EVENT /\ dis \in 0 .. MAX_EVENT
  /\ pairs \in Seq([event : Nat, stamp : Stamp, from : Reference])
  /\ local_mbx \in 0 .. MAX_EVENT /\ sent \in Seq(Nat \cup {None})
  /\ died \in {"no", "dry", "wild"}

(* References are used up in their order, each for one event, although the *)
(* head of the list is looked at without the mutex; and what an event or a *)
(* reference is measured by is its own latched value or a later one, each  *)
(* word of it (position.c:77-92, 123-141, 263-275).                        *)
PairsInOrder ==
  \A k \in DOMAIN pairs :
    /\ pairs[k].from.ref = k
    /\ \A j \in 1 .. k - 1 : pairs[j].event < pairs[k].event
    /\ \A w \in {1, 2} : pairs[k].stamp[w] >= pairs[k].event /\ pairs[k].from.stamp[w] >= k

(* Every event is answered by one report, in order.  The report an event   *)
(* gets shows its own measurement or a later one, or else the last before  *)
(* it, and no measurement between that and the event's own: a report never *)
(* goes back (position.c:94-100, local_socket.c:100-106).                  *)
ReportsInOrder ==
  /\ handled = Len(sent) + local_mbx + IF dpc = "pend" THEN 0 ELSE 1
  /\ \A n \in DOMAIN sent : sent[n] # None =>
       /\ sent[n] = 0 \/ \E k \in DOMAIN pairs : pairs[k].event = sent[n]
       /\ \A k \in DOMAIN pairs : ~(sent[n] < pairs[k].event /\ pairs[k].event <= n)
       /\ \A m \in 1 .. n - 1 : sent[m] # None => sent[m] <= sent[n]

(* The process dies only when every buffer holds a reference that waits or *)
(* is being measured, or in the window in which a node is in the list and  *)
(* has no owner yet (buf_factory.c:81, position.c:84, 272-273).            *)
Deaths ==
  /\ died = "dry" =>
       /\ free = <<>>
       /\ \A b \in Buf : b = dbuf \/ \E i \in DOMAIN list : list[i] = b
  /\ died = "wild" => dbuf \notin owned /\ dbuf = Head(list)

(* Every event is answered, even if every list is empty.                   *)
EventReported ==
  \A n \in 1 .. MAX_EVENT : events >= n ~> Len(sent) >= n \/ died # "no"

(* The comments of the tasks, "the distance from camera 1 to reject sensor *)
(* 1" (position.c:61): a report is a distance measured for its event, or   *)
(* since.                                                                  *)
ReportMeasured ==
  \A n \in DOMAIN sent : sent[n] # None => sent[n] >= n
=============================================================================
