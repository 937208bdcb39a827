---------------------------- MODULE MessagePool ----------------------------
(***************************************************************************)
(* The process-wide message pool and the mailboxes that carry its          *)
(* messages: tool/msg_factory.c, tool/message.c and tool/mailbox.c.        *)
(*                                                                         *)
(* g_msg_factory owns MSG_NUM_MAX messages on one free list.  A thread     *)
(* takes one (msg_factory_produce), hangs pointers on it (msg_set_data)    *)
(* and sends the STRUCT through a POSIX message queue (mailbox_post); the  *)
(* queue's only reader gets a copy of the struct (mailbox_pend) whose      *)
(* `node' still leads to the pool's original, walks the payload with       *)
(* msg_get_data on the copy, and hands the original back                   *)
(* (msg_factory_recycle).  produce and recycle run under list_mutex, so    *)
(* each is one step; a message between produce and post is private to its  *)
(* thread, so the set_data calls are part of the posting step.             *)
(*                                                                         *)
(* ERROR() prints and calls exit(-1): the whole process stops.             *)
(***************************************************************************)
EXTENDS Naturals, Sequences, FiniteSets

CONSTANTS
  MSG_NUM_MAX,      \* msg_factory.h:16, the messages of msg_array
  Thread,           \* the threads that use messages
  Mailbox,          \* the POSIX queues, by id
  Reader,           \* [Mailbox -> Thread]: the one task that pends on a mailbox
  Writers,          \* [Mailbox -> SUBSET Thread]: the tasks that post to it
  Datum,            \* what a payload pointer may point to
  Frame,            \* [Mailbox -> set of payload lists posted to it]
  PAYLOAD_NUM_MAX,  \* message.h:13
  None              \* no message, no mailbox

Msg == 1 .. MSG_NUM_MAX  \* indices of g_msg_factory->msg_array

(* What mq_send copies and the reader consumes: payload_num and            *)
(* cur_payload_idx are the copy's own, the payload array is shared.        *)
Copy == [msg : Msg, payload_num : 0 .. PAYLOAD_NUM_MAX,
         cur_payload_idx : 0 .. PAYLOAD_NUM_MAX]

ASSUME PoolAssumption ==
  /\ MSG_NUM_MAX \in Nat
  /\ None \notin Msg /\ None \notin Copy /\ None \notin Mailbox
  /\ Reader \in [Mailbox -> Thread]
  /\ Writers \in [Mailbox -> SUBSET Thread]
  /\ PAYLOAD_NUM_MAX \in Nat
  /\ None \notin [frame : Seq(Datum), taken : Nat]  \* what MailLine shows of a reader
ASSUME FrameAssumption ==
  /\ DOMAIN Frame = Mailbox
  /\ \A q \in Mailbox : \A f \in Frame[q] :
       f \in Seq(Datum) /\ Len(f) \in 1 .. PAYLOAD_NUM_MAX

(* A task that reads one mailbox and answers in another: the four dis_     *)
(* tasks of sample/position.c.                                             *)
Relay == {t \in Thread : (\E q \in Mailbox : t = Reader[q]) /\ (\E q \in Mailbox : t \in Writers[q])}

VARIABLES
  list,     \* g_msg_factory->list: the free messages, oldest first
  payload,  \* payload[m]: the first payload_num pointers of m's array
  id,       \* id[m]: the mailbox m is addressed to
  queue,    \* queue[q]: the struct copies waiting in mailbox q
  built,    \* built[t]: the message t has produced and not yet posted
  got,      \* got[t]: t's local struct, received and not yet recycled
  due,      \* the relays that have recycled a message and not yet posted theirs
  exited    \* ERROR() or a NULL payload ended the process

vars == <<list, payload, id, queue, built, got, due, exited>>

Init ==
  /\ list = [i \in 1 .. MSG_NUM_MAX |-> i]
  /\ payload = [m \in Msg |-> <<>>]
  /\ id = [m \in Msg |-> None]
  /\ queue = [q \in Mailbox |-> <<>>]
  /\ built = [t \in Thread |-> None]
  /\ got = [t \in Thread |-> None]
  /\ due = {}
  /\ exited = FALSE

----------------------------------------------------------------------------
(* Mutant: a node that is not linked in.                                   *)
M_list_add_tail(l, m) == l
(* Mutant: a node that is not unlinked.                                    *)
M_list_del(l) == l
(* tool/list.c as the pool uses it: a queue of messages.                   *)
list_add_tail(l, m) == Append(l, m)
list_del(l) == Tail(l)  \* always of the head, g_msg_factory->list.next

(* msg_factory_produce(q): the head of the free list, or ERROR("msg        *)
(* factory crash !") when there is none.  payload_num is not reset here.   *)
msg_factory_produce(t, q) ==
  /\ ~exited
  /\ t \in Writers[q]
  /\ t \in Relay => t \in due
  /\ built[t] = None /\ got[t] = None
  /\ \/ /\ list = <<>>
        /\ exited' = TRUE
        /\ UNCHANGED <<list, id, built>>
     \/ /\ list # <<>>
        /\ list' = list_del(list)
        /\ id' = [id EXCEPT ![Head(list)] = q]
        /\ built' = [built EXCEPT ![t] = Head(list)]
        /\ UNCHANGED exited
  /\ UNCHANGED <<payload, queue, got, due>>

(* Mutant: the index is advanced before the slot is filled.                *)
M_msg_set_data(p, f) == p \o <<None>> \o f
(* Successive msg_set_data calls: past PAYLOAD_NUM_MAX each returns -1,    *)
(* which no caller looks at, and the pointer is dropped.                   *)
msg_set_data(p, f) ==
  IF Len(p) + Len(f) <= PAYLOAD_NUM_MAX THEN p \o f
  ELSE SubSeq(p \o f, 1, PAYLOAD_NUM_MAX)

(* The struct message that mq_send copies into the queue.                  *)
Struct(m, p) == [msg |-> m, payload_num |-> Len(p), cur_payload_idx |-> 0]

(* Mutant: a queue one message short of the pool.                          *)
M_mq_maxmsg == MSG_NUM_MAX - 1
mq_maxmsg == MSG_NUM_MAX  \* mailbox_create

(* mailbox_post: mq_send blocks while the queue holds mq_maxmsg structs.   *)
mailbox_post(t, f) ==
  LET m == built[t]
      p == msg_set_data(payload[m], f)
  IN  /\ ~exited
      /\ m # None
      /\ f \in Frame[id[m]]
      /\ Len(queue[id[m]]) < mq_maxmsg
      /\ payload' = [payload EXCEPT ![m] = p]
      /\ queue' = [queue EXCEPT ![id[m]] = Append(@, Struct(m, p))]
      /\ built' = [built EXCEPT ![t] = None]
      /\ due' = due \ {t}
      /\ UNCHANGED <<list, id, got, exited>>

(* mailbox_pend: every prio is 0, so mq_receive is first in, first out.    *)
mailbox_pend(t, q) ==
  /\ ~exited
  /\ t = Reader[q]
  /\ t \notin due
  /\ built[t] = None /\ got[t] = None
  /\ queue[q] # <<>>
  /\ got' = [got EXCEPT ![t] = Head(queue[q])]
  /\ queue' = [queue EXCEPT ![q] = Tail(@)]
  /\ UNCHANGED <<list, payload, id, built, due, exited>>

(* The readers call get_data once without looking at payload_num (the      *)
(* trig, dis and write tasks), or payload_num times (local_send_tsk).      *)
MayGet(c) == c.cur_payload_idx = 0 \/ c.cur_payload_idx < c.payload_num

(* msg_get_data on the local copy.  On an exhausted payload it returns     *)
(* NULL, which the readers dereference.                                    *)
msg_get_data(t) ==
  /\ ~exited
  /\ got[t] # None
  /\ MayGet(got[t])
  /\ IF got[t].cur_payload_idx = got[t].payload_num
     THEN exited' = TRUE /\ UNCHANGED got
     ELSE /\ got' = [got EXCEPT ![t].cur_payload_idx = @ + 1]
          /\ UNCHANGED exited
  /\ UNCHANGED <<list, payload, id, queue, built, due>>

(* Mutant: payload_num is not reset.                                       *)
M_msg_clear(m) ==
  /\ id' = [id EXCEPT ![m] = None]
  /\ UNCHANGED payload
(* msg_clear: what a message looks like on the free list.                  *)
msg_clear(m) ==
  /\ payload' = [payload EXCEPT ![m] = <<>>]
  /\ id' = [id EXCEPT ![m] = None]

(* msg_factory_recycle(&msg): clears and frees the original behind the     *)
(* copy's node.  No caller ever sets a release or finish callback.         *)
msg_factory_recycle(t) ==
  /\ ~exited
  /\ got[t] # None
  /\ msg_clear(got[t].msg)
  /\ list' = list_add_tail(list, got[t].msg)
  /\ got' = [got EXCEPT ![t] = None]
  /\ due' = due \cup ({t} \cap Relay)
  /\ UNCHANGED <<queue, built, exited>>

Next ==
  \E t \in Thread :
    \/ \E q \in Mailbox : msg_factory_produce(t, q)
    \/ \E q \in Mailbox : \E f \in Frame[q] : mailbox_post(t, f)
    \/ \E q \in Mailbox : mailbox_pend(t, q)
    \/ msg_get_data(t)
    \/ msg_factory_recycle(t)

(* The threads keep the default SCHED_OTHER policy (thread.c never sets    *)
(* PTHREAD_EXPLICIT_SCHED), so a runnable reader eventually runs.  Readers *)
(* never stop halfway: each loops from pend to recycle, a relay through    *)
(* its produce and post as well.                                           *)
Fairness ==
  \A t \in Thread :
    /\ \A q \in Mailbox : WF_vars(mailbox_pend(t, q))
    /\ WF_vars(msg_factory_recycle(t))
    /\ t \in Relay => /\ \A q \in Mailbox : WF_vars(msg_factory_produce(t, q))
                      /\ WF_vars(\E q \in Mailbox : \E f \in Frame[q] : mailbox_post(t, f))

Spec == Init /\ [][Next]_vars
FairSpec == Spec /\ Fairness
----------------------------------------------------------------------------
(* Types of the variables (tool/message.h, tool/msg_factory.h).            *)
TypeOK ==
  /\ list \in Seq(Msg)
  /\ payload \in [Msg -> Seq(Datum)]
  /\ id \in [Msg -> Mailbox \cup {None}]
  /\ queue \in [Mailbox -> Seq(Copy)]
  /\ built \in [Thread -> Msg \cup {None}]
  /\ got \in [Thread -> Copy \cup {None}]
  /\ due \in SUBSET Relay
  /\ exited \in BOOLEAN

InList(m) == \E i \in DOMAIN list : list[i] = m
InQueue(m, q) == \E i \in DOMAIN queue[q] : queue[q][i].msg = m
Building(m, t) == built[t] # None /\ built[t] = m
Reading(m, t) == got[t] # None /\ got[t].msg = m

(* No message is lost: it is on the free list, in a mailbox, or in the     *)
(* hands of a thread (msg_factory.c:83-136).                               *)
NoLoss ==
  \A m \in Msg : \/ InList(m)
                 \/ \E q \in Mailbox : InQueue(m, q)
                 \/ \E t \in Thread : Building(m, t) \/ Reading(m, t)

(* No message is in two places.  One recycled twice, or posted and still   *)
(* on the list, would be handed to two threads at once and its list node   *)
(* linked in twice (msg_factory.c:94-105, 133).                            *)
NoTwin ==
  /\ \A i, j \in DOMAIN list : list[i] = list[j] => i = j
  /\ \A q, r \in Mailbox : \A i \in DOMAIN queue[q], j \in DOMAIN queue[r] :
       queue[q][i].msg = queue[r][j].msg => q = r /\ i = j
  /\ \A m \in Msg : \A t, u \in Thread :
       /\ Building(m, t) /\ Building(m, u) => t = u
       /\ Reading(m, t) /\ Reading(m, u) => t = u
       /\ ~(Building(m, t) /\ Reading(m, u))
  /\ \A m \in Msg : \A t \in Thread : Building(m, t) \/ Reading(m, t) =>
       ~InList(m) /\ \A q \in Mailbox : ~InQueue(m, q)
  /\ \A m \in Msg : InList(m) => \A q \in Mailbox : ~InQueue(m, q)

(* Every message is in exactly one place, whatever overlaps: recycle works *)
(* on the original behind a copied struct, and nothing but the protocol of *)
(* the tasks keeps it from being linked in twice or never                  *)
(* (msg_factory.c:83-136).                                                 *)
InOnePlace == NoLoss /\ NoTwin

(* The copy a reader works on agrees with the pool's original: between the *)
(* post and the recycle nobody clears, refills or readdresses the message  *)
(* whose payload array the copy points into (mailbox.c:33-59).             *)
CopyAgrees ==
  /\ \A q \in Mailbox : \A i \in DOMAIN queue[q] :
       LET c == queue[q][i]
       IN  id[c.msg] = q /\ c.payload_num = Len(payload[c.msg]) /\ c.payload_num > 0
  /\ \A t \in Thread : got[t] # None =>
       /\ t = Reader[id[got[t].msg]]
       /\ got[t].payload_num = Len(payload[got[t].msg]) /\ got[t].payload_num > 0

(* A posted message carries exactly what its thread put on it: produce     *)
(* does not reset payload_num, so this rests on every message having been  *)
(* cleared before it came back to the list (message.c:11-26, 80-90).       *)
FrameIntact ==
  \A q \in Mailbox : \A i \in DOMAIN queue[q] : payload[queue[q][i].msg] \in Frame[q]

(* From post to recycle a message is what its sender made it, although the *)
(* queue holds a copy of the struct that shares the pool's payload array   *)
(* (mailbox.c:33-59, message.c:11-90).                                     *)
MessageIntact == CopyAgrees /\ FrameIntact

(* mq_maxmsg equals the size of the pool, so a task that holds a message   *)
(* never waits in mq_send, whatever the readers do (mailbox.c:21, 39).     *)
PostNeverBlocks ==
  \A t \in Thread : built[t] # None => Len(queue[id[built[t]]]) < mq_maxmsg

(* The process only dies because every message is in use, never because a  *)
(* reader found a payload exhausted (msg_factory.c:91, message.c:36).      *)
ExitsOnlyWhenDry == exited => list = <<>>

(* Nothing but an empty pool keeps a task from sending: it never waits for *)
(* a reader, and no reader ends the process (mailbox.c:21, 39,             *)
(* msg_factory.c:91, message.c:36).                                        *)
SendersServed == PostNeverBlocks /\ ExitsOnlyWhenDry

(* A mailbox as its users see it: the frames behind the struct copies.     *)
writing == [t \in Thread |-> IF built[t] = None THEN None ELSE id[built[t]]]
mail == [q \in Mailbox |-> [i \in DOMAIN queue[q] |-> payload[queue[q][i].msg]]]
reading ==
  [t \in Thread |-> IF got[t] = None THEN None
                    ELSE [frame |-> payload[got[t].msg], taken |-> got[t].cur_payload_idx]]

Line == INSTANCE MailLine WITH spare <- Len(list), SIZE <- MSG_NUM_MAX

(* Messages are values: although a queue holds copies of structs that      *)
(* share their payload arrays with the pool, and the pool hands the same   *)
(* arrays out again, what is built, waits or is read is never changed by   *)
(* another task (msg_factory.c:83-136, mailbox.c:33-59, message.c:11-90).  *)
ImplementsMailLine == Line!Spec

(* Unless the process exits, every message that was posted comes back to   *)
(* the free list (the loops pend - use - recycle of the reader tasks).     *)
Returns ==
  \A m \in Msg :
    (\E q \in Mailbox : InQueue(m, q)) ~> (exited \/ InList(m))
============================================================================
