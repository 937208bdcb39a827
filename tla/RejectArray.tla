---------------------------- MODULE RejectArray ----------------------------
(***************************************************************************)
(* The reject decision: sample/array.c with its buffers                    *)
(* (tool/buf_factory.c), the commands that feed and reset it               *)
(* (communication/local_protocol.c) and the interrupts that trigger it     *)
(* (fpga/isr.c).                                                           *)
(*                                                                         *)
(* Five threads share the state.  local_recv_tsk queues the camera host's  *)
(* results (write_array) and clears them (recv_reset_cmd).  At each of the *)
(* two stations an interrupt thread latches the wheel code of a passing    *)
(* sample in a static and sends a POINTER to it; the trig task counts the  *)
(* passage, reads the static through the pointer, searches the station's   *)
(* list, and writes the verdict to the station's FIFO.                     *)
(*                                                                         *)
(* A step is what a mutex covers, or one access to a shared variable that  *)
(* no mutex covers.  Where one mutex is taken under another, the inner one *)
(* covers a step of its own: a search takes the factory's to recycle, with *)
(* its list's in hand.  All threads run with the inherited default policy  *)
(* (thread.c sets SCHED_FIFO attributes but not PTHREAD_EXPLICIT_SCHED),   *)
(* so any runnable thread may take the next step.                          *)
(*                                                                         *)
(* Only the low word of a wheel code is kept: the code is read as two      *)
(* words, but wheel_code_abs passes the difference through abs(int), so    *)
(* the high word, torn or not, has no influence on it.                     *)
(***************************************************************************)
EXTENDS WheelMatch, Sequences

CONSTANTS
  g_sys_config,
  BUF_NUM,   \* buffers of g_c1_sample_buf
  Result,    \* the sample results the camera host may send, pos in {1, 2}
  Code,      \* wheel codes (low words) a passage may be latched at
  MAX_PASS,  \* BOUND: MAX_PASS[s] passages at station s
  None       \* no buffer

Buf == 1 .. BUF_NUM

ASSUME ArrayAssumption ==
  /\ g_sys_config \in Configuration
  /\ BUF_NUM \in Nat /\ MAX_PASS \in [Station -> Nat]
  /\ None \notin Buf
  /\ Code \subseteq 0 .. WORD - 1
  /\ Result # {}
  /\ \A r \in Result : r.count \in 0 .. WORD - 1 /\ r.wheel_code \in 0 .. WORD - 1 /\ r.pos \in Station

VARIABLES
  kick_mode,      \* g_sys_config.kick_mode: 0 inner wheel (counts), else outer
  free,           \* g_c1_sample_buf->list, oldest first
  sample_list,    \* [Station -> Seq(Buf)]: g_k1_sample_list, g_k2_sample_list
  sample,         \* sample[b]: parray->sample in buffer b's memory
  owned,          \* the buffers whose node.owner has been set
  rpc, rbuf,      \* local_recv_tsk: where it is, the buffer it is adding
  cur_count_kt1,  \* passages of station 1, __u32
  passed,         \* passed[s]: the codes latched so far; the last of them is
                  \* the content of kick1_wheel_code or kick2_wheel_code
  ipc,            \* ipc[s]: the interrupt thread, "wait" or "post"
  mbx,            \* mbx[s]: pointers waiting in /pos_c1 or /pos_c2
  tpc,            \* tpc[s]: the trig task
  tmp,            \* trig1's register in cur_count_kt1++
  read,           \* read[s]: the passage whose code trig_s read, 0: none yet
  hit,            \* hit[s]: the buffer that trig_s has unlinked and not yet
                  \* recycled, or None
  verdict,        \* verdict[s]: decided and not yet written, or -1
  fifo,           \* fifo[s]: what was written to COM1FIFO or COM2FIFO
  died,           \* "no", or why the process ended
  popped, torn    \* history: see CountTracks

recvVars == <<rpc, rbuf>>
countVars == <<cur_count_kt1, popped, torn>>
isrVars == <<passed, ipc>>
trigVars == <<tpc, tmp, read, hit, verdict, fifo>>
vars == <<kick_mode, free, sample_list, sample, owned, recvVars, countVars, isrVars, mbx, trigVars, died>>

Init ==
  /\ kick_mode \in {0, 1}
  /\ free = [i \in 1 .. BUF_NUM |-> i]
  /\ sample_list = [s \in Station |-> <<>>]
  /\ sample = [b \in Buf |-> CHOOSE r \in Result : TRUE]  \* malloc'ed, not read before written
  /\ owned = {}
  /\ rpc = "idle" /\ rbuf = None
  /\ cur_count_kt1 = 0 /\ popped = 0 /\ torn = FALSE
  /\ passed = [s \in Station |-> <<>>]
  /\ ipc = [s \in Station |-> "wait"]
  /\ mbx = [s \in Station |-> 0]
  /\ tpc = [s \in Station |-> "pend"]
  /\ tmp = 0
  /\ read = [s \in Station |-> 0]
  /\ hit = [s \in Station |-> None]
  /\ verdict = [s \in Station |-> -1]
  /\ fifo = [s \in Station |-> <<>>]
  /\ died = "no"

(* Between two steps a station's mutex is held by its trig task only, and  *)
(* only from the unlinking of a node to the recycling of its buffer.       *)
(* Mutant: it is released before the buffer is recycled.                   *)
M_locked(s) == FALSE
locked(s) == tpc[s] = "recycle"

----------------------------------------------------------------------------
(* local_recv_tsk *)

(* buf_factory_produce of a list that is not empty.                        *)
buf_factory_produce == free' = Tail(free) /\ rbuf' = Head(free)

(* write_array: take a buffer and fill it; ERROR("buf factory crash !")    *)
(* when there is none.  A result with pos = 0 is ignored altogether.       *)
write_array(r) ==
  /\ died = "no" /\ rpc = "idle"
  /\ \/ /\ free = <<>>
        /\ died' = "dry"
        /\ UNCHANGED <<free, sample, recvVars>>
     \/ /\ free # <<>>
        /\ buf_factory_produce
        /\ sample' = [sample EXCEPT ![Head(free)] = r]
        /\ rpc' = "link"
        /\ UNCHANGED died
  /\ UNCHANGED <<kick_mode, sample_list, owned, countVars, isrVars, mbx, trigVars>>

(* list_add_tail under the station's mutex.                                *)
link ==
  /\ died = "no" /\ rpc = "link"
  /\ ~locked(sample[rbuf].pos)
  /\ sample_list' = [sample_list EXCEPT ![sample[rbuf].pos] = Append(@, rbuf)]
  /\ rpc' = "owner"
  /\ UNCHANGED <<kick_mode, free, sample, owned, rbuf, countVars, isrVars, mbx, trigVars, died>>

(* Mutant: the owner of the new node is never set.                         *)
M_owners == owned
owners == owned \cup {rbuf}

(* parray->node.owner = parray, after the mutex was released.              *)
set_owner ==
  /\ died = "no" /\ rpc = "owner"
  /\ owned' = owners
  /\ rpc' = "idle" /\ rbuf' = None
  /\ UNCHANGED <<kick_mode, free, sample_list, sample, countVars, isrVars, mbx, trigVars, died>>

(* recv_reset_cmd: cur_count_kt1 = 0, with no mutex.                       *)
reset_count ==
  /\ died = "no" /\ rpc = "idle"
  /\ cur_count_kt1' = 0
  /\ popped' = IF tpc[1] = "load" THEN 1 ELSE 0
  /\ torn' = (tpc[1] = "store")
  /\ rpc' = "clear1"
  /\ UNCHANGED <<kick_mode, free, sample_list, sample, owned, rbuf, isrVars, mbx, trigVars, died>>

(* Mutant: the list head is reinitialised, its buffers are not recycled.   *)
M_recycle_all(s) == UNCHANGED free
(* The loop of clear_array over one list.                                  *)
recycle_all(s) == free' = free \o sample_list[s]

(* clear_array, one list under its mutex.  The factory's mutex is taken    *)
(* per buffer, but meanwhile only the other trig task can use the factory, *)
(* and it only adds to it; LinkedList takes the loop apart.                *)
clear_array(s) ==
  /\ died = "no" /\ rpc = (IF s = 1 THEN "clear1" ELSE "clear2")
  /\ ~locked(s)
  /\ recycle_all(s)
  /\ sample_list' = [sample_list EXCEPT ![s] = <<>>]
  /\ rpc' = IF s = 1 THEN "clear2" ELSE "reply"
  /\ UNCHANGED <<kick_mode, sample, owned, rbuf, countVars, isrVars, mbx, trigVars, died>>

(* The reset reply is handed to local_send_tsk.                            *)
reset_reply ==
  /\ died = "no" /\ rpc = "reply"
  /\ rpc' = "idle"
  /\ UNCHANGED <<kick_mode, free, sample_list, sample, owned, rbuf, countVars, isrVars, mbx, trigVars, died>>

----------------------------------------------------------------------------
(* kick1_isr_tsk and kick2_isr_tsk: a sample at the reject position.       *)

(* fpga_get_current_code into the station's static.                        *)
latch(s, c) ==
  /\ died = "no" /\ ipc[s] = "wait"
  /\ Len(passed[s]) < MAX_PASS[s]
  /\ passed' = [passed EXCEPT ![s] = Append(@, c)]
  /\ ipc' = [ipc EXCEPT ![s] = "post"]
  /\ UNCHANGED <<kick_mode, free, sample_list, sample, owned, recvVars, countVars, mbx, trigVars, died>>

(* Mutant: the interrupt thread returns to its wait without posting.       *)
M_posted(n) == n
(* Mutant: the message is posted twice.                                    *)
M2_posted(n) == n + 2
posted(n) == n + 1

(* mailbox_post of the pointer to it.                                      *)
post(s) ==
  /\ died = "no" /\ ipc[s] = "post"
  /\ mbx' = [mbx EXCEPT ![s] = posted(@)]
  /\ ipc' = [ipc EXCEPT ![s] = "wait"]
  /\ UNCHANGED <<kick_mode, free, sample_list, sample, owned, recvVars, countVars, passed, trigVars, died>>

----------------------------------------------------------------------------
(* trig1_search_tsk and trig2_search_tsk *)

(* mailbox_pend; only station 1 counts its passages.                       *)
pend(s) ==
  /\ died = "no" /\ tpc[s] = "pend"
  /\ mbx[s] > 0
  /\ mbx' = [mbx EXCEPT ![s] = @ - 1]
  /\ tpc' = [tpc EXCEPT ![s] = IF s = 1 THEN "load" ELSE "deref"]
  /\ popped' = IF s = 1 THEN popped + 1 ELSE popped
  /\ UNCHANGED <<kick_mode, free, sample_list, sample, owned, recvVars, cur_count_kt1, torn, isrVars,
                 tmp, read, hit, verdict, fifo, died>>

(* cur_count_kt1++, a load and a store with no mutex.                      *)
load_count ==
  /\ died = "no" /\ tpc[1] = "load"
  /\ tmp' = cur_count_kt1
  /\ tpc' = [tpc EXCEPT ![1] = "store"]
  /\ UNCHANGED <<kick_mode, free, sample_list, sample, owned, recvVars, countVars, isrVars, mbx,
                 read, hit, verdict, fifo, died>>

(* Mutant: a passage is not counted in the outer-wheel mode.               *)
M_counted == IF kick_mode = 0 THEN u32(tmp + 1) ELSE tmp
counted == u32(tmp + 1)

store_count ==
  /\ died = "no" /\ tpc[1] = "store"
  /\ cur_count_kt1' = counted
  /\ tpc' = [tpc EXCEPT ![1] = IF kick_mode = 0 THEN "search" ELSE "deref"]
  /\ UNCHANGED <<kick_mode, free, sample_list, sample, owned, recvVars, popped, torn, isrVars, mbx,
                 tmp, read, hit, verdict, fifo, died>>

(* Mutant: the message is posted before the code is latched.               *)
M_current(s) == Len(passed[s]) - 1
current(s) == Len(passed[s])

(* cur_wheel_code = *((__u64* )data): whatever the static holds by now.    *)
deref(s) ==
  /\ died = "no" /\ tpc[s] = "deref"
  /\ read' = [read EXCEPT ![s] = current(s)]
  /\ tpc' = [tpc EXCEPT ![s] = "search"]
  /\ UNCHANGED <<kick_mode, free, sample_list, sample, owned, recvVars, countVars, isrVars, mbx,
                 tmp, hit, verdict, fifo, died>>

(* What the list is searched for.  The argument of search_count_array is   *)
(* the value just stored, or a second read of the variable, as the         *)
(* compiler has it.                                                        *)
keys(s) == IF s = 1 /\ kick_mode = 0 THEN {counted, cur_count_kt1} ELSE {passed[s][read[s]]}

Hit(s, key, b) == hits(g_sys_config, kick_mode, s, key, sample[b])

(* Mutant: the list's head is unlinked, whichever node hit.                *)
M_list_del(l, i) == Tail(l)
(* list_del of the i-th node.                                              *)
list_del(l, i) == [j \in 1 .. Len(l) - 1 |-> IF j < i THEN l[j] ELSE l[j + 1]]

(* search_count_array and search_wheelcode_array, under the list's mutex:  *)
(* the first node that hits is unlinked.  A node whose owner was never set *)
(* sends the walk through a wild pointer (NULL in memory fresh from the    *)
(* kernel): the process is killed.                                         *)
search(s, key) ==
  /\ \/ /\ \A i \in DOMAIN sample_list[s] : sample_list[s][i] \in owned /\ ~Hit(s, key, sample_list[s][i])
        /\ verdict' = [verdict EXCEPT ![s] = 0]
        /\ tpc' = [tpc EXCEPT ![s] = "fifo"]
        /\ UNCHANGED <<sample_list, hit, died>>
     \/ \E i \in DOMAIN sample_list[s] :
          /\ \A j \in 1 .. i - 1 : sample_list[s][j] \in owned /\ ~Hit(s, key, sample_list[s][j])
          /\ \/ /\ sample_list[s][i] \notin owned
                /\ died' = "wild"
                /\ UNCHANGED <<sample_list, hit, verdict, tpc>>
             \/ /\ sample_list[s][i] \in owned /\ Hit(s, key, sample_list[s][i])
                /\ sample_list' = [sample_list EXCEPT ![s] = list_del(@, i)]
                /\ hit' = [hit EXCEPT ![s] = sample_list[s][i]]
                /\ verdict' = [verdict EXCEPT ![s] = 1]
                /\ tpc' = [tpc EXCEPT ![s] = "recycle"]
                /\ UNCHANGED died
  /\ UNCHANGED <<kick_mode, free, sample, owned, recvVars, countVars, isrVars, mbx, tmp, read, fifo>>

(* Mutant: the buffer of the hit node is not given back.                   *)
M_recycled(s) == free
recycled(s) == Append(free, hit[s])

(* buf_factory_recycle, under the factory's mutex; the list's is released  *)
(* after it.                                                               *)
buf_factory_recycle(s) ==
  /\ died = "no" /\ tpc[s] = "recycle"
  /\ free' = recycled(s)
  /\ hit' = [hit EXCEPT ![s] = None]
  /\ tpc' = [tpc EXCEPT ![s] = "fifo"]
  /\ UNCHANGED <<kick_mode, sample_list, sample, owned, recvVars, countVars, isrVars, mbx,
                 tmp, read, verdict, fifo, died>>

(* FPGA_WRITE16 of the verdict, after the mutex was released.              *)
write_fifo(s) ==
  /\ died = "no" /\ tpc[s] = "fifo"
  /\ fifo' = [fifo EXCEPT ![s] = Append(@, verdict[s])]
  /\ verdict' = [verdict EXCEPT ![s] = -1]
  /\ tpc' = [tpc EXCEPT ![s] = "pend"]
  /\ UNCHANGED <<kick_mode, free, sample_list, sample, owned, recvVars, countVars, isrVars, mbx,
                 tmp, read, hit, died>>

----------------------------------------------------------------------------
Recv == link \/ set_owner \/ clear_array(1) \/ clear_array(2) \/ reset_reply
Trig(s) ==
  \/ pend(s) \/ deref(s) \/ buf_factory_recycle(s) \/ write_fifo(s)
  \/ s = 1 /\ (load_count \/ store_count)
  \/ died = "no" /\ tpc[s] = "search" /\ \E key \in keys(s) : search(s, key)

Next ==
  \/ \E r \in Result : write_array(r)
  \/ reset_count
  \/ Recv
  \/ \E s \in Station : (\E c \in Code : latch(s, c)) \/ post(s) \/ Trig(s)

Spec == Init /\ [][Next]_vars

(* Every thread that can run eventually does.  Nothing makes the host send *)
(* or reset, or samples pass.                                              *)
Fairness == WF_vars(Recv) /\ \A s \in Station : WF_vars(post(s)) /\ WF_vars(Trig(s))

FairSpec == Spec /\ Fairness
----------------------------------------------------------------------------
(* Types of the variables (sample/array.c:27-37).                          *)
TypeOK ==
  /\ kick_mode \in {0, 1}
  /\ free \in Seq(Buf)
  /\ sample_list \in [Station -> Seq(Buf)]
  /\ sample \in [Buf -> Result]
  /\ owned \in SUBSET Buf
  /\ rpc \in {"idle", "link", "owner", "clear1", "clear2", "reply"}
  /\ rbuf \in IF rpc \in {"link", "owner"} THEN Buf ELSE {None}
  /\ cur_count_kt1 \in 0 .. WORD - 1 /\ tmp \in 0 .. WORD - 1
  /\ popped \in Nat /\ torn \in BOOLEAN
  /\ passed \in [Station -> Seq(Code)]
  /\ ipc \in [Station -> {"wait", "post"}]
  /\ mbx \in [Station -> Nat]
  /\ \A s \in Station : Len(passed[s]) <= MAX_PASS[s] /\ mbx[s] <= MAX_PASS[s]
  /\ tpc \in [Station -> {"pend", "load", "store", "deref", "search", "recycle", "fifo"}]
  /\ read \in [Station -> Nat]
  /\ hit \in [Station -> Buf \cup {None}]
  /\ \A s \in Station : hit[s] = None <=> tpc[s] # "recycle"
  /\ verdict \in [Station -> {-1, 0, 1}]
  /\ fifo \in [Station -> Seq({0, 1})]
  /\ died \in {"no", "dry", "wild"}

Free(b) == \E i \in DOMAIN free : free[i] = b
Listed(b, s) == \E i \in DOMAIN sample_list[s] : sample_list[s][i] = b
InHand(b) == rpc = "link" /\ rbuf = b
(* Buffer b waits at station s, or its trig task is giving it back.        *)
AtStation(b, s) == Listed(b, s) \/ hit[s] = b

(* No buffer is lost: it is free, at a station, or being filled by         *)
(* local_recv_tsk (array.c:61-62, 178-194, 209-212).                       *)
BufNoLoss == \A b \in Buf : Free(b) \/ InHand(b) \/ \E s \in Station : AtStation(b, s)

(* No buffer is in two places, whatever searches and resets overlap: one   *)
(* recycled twice would hold two results at once.                          *)
BufNoTwin ==
  /\ \A i, j \in DOMAIN free : free[i] = free[j] => i = j
  /\ \A s \in Station : \A i, j \in DOMAIN sample_list[s] : sample_list[s][i] = sample_list[s][j] => i = j
  /\ \A b \in Buf, s \in Station : ~(Listed(b, s) /\ hit[s] = b)
  /\ \A b \in Buf : ~(AtStation(b, 1) /\ AtStation(b, 2))
  /\ \A b \in Buf, s \in Station : AtStation(b, s) => ~Free(b) /\ ~InHand(b)
  /\ \A b \in Buf : ~(Free(b) /\ InHand(b))

(* Every buffer is in exactly one place, although searches and resets      *)
(* recycle under the mutex of one station only, the factory's list is      *)
(* common to both, and local_recv_tsk takes from it while a trig task has  *)
(* yet to give back (array.c:61-62, 178-194, 209-212).                     *)
BufInOnePlace == BufNoLoss /\ BufNoTwin

(* A listed node without an owner is the one local_recv_tsk has just       *)
(* linked, at the end of its list: the unlocked write of array.c:195 is    *)
(* the only window in which a search can meet one.                         *)
OwnerWindow ==
  \A s \in Station : \A i \in DOMAIN sample_list[s] :
    sample_list[s][i] \notin owned =>
      rpc = "owner" /\ rbuf = sample_list[s][i] /\ i = Len(sample_list[s])

(* The process dies for two reasons only: every buffer waits at a station  *)
(* or is on its way back from there in the hands of a trig task, or a      *)
(* search ran into the owner window of a buffer's first use                *)
(* (buf_factory.c:81, array.c:54).                                         *)
DeathCauses ==
  /\ died = "dry" => \A b \in Buf : \E s \in Station : AtStation(b, s)
  /\ died = "wild" => rpc = "owner" /\ rbuf \notin owned

(* No search follows the owner of a node that has none, outside the one    *)
(* window that the unlocked write of the owner leaves, and only there or   *)
(* for want of a buffer does the process end (array.c:190-195).            *)
Deaths == DeathCauses /\ OwnerWindow

(* When the reset reply is sent no result of before the reset is left at   *)
(* either station and every buffer is free, though the two lists are       *)
(* cleared one after the other under different mutexes, with searches in   *)
(* between (array.c:199-225, local_protocol.c:59-64).                      *)
ResetReclaims ==
  rpc = "reply" => /\ \A s \in Station : sample_list[s] = <<>>
                   /\ \A b \in Buf : Free(b)

(* cur_count_kt1 is the number of passages station 1 took up since the     *)
(* last reset, unless that reset's store fell between the load and the     *)
(* store of cur_count_kt1++ and was overwritten (array.c:239,              *)
(* local_protocol.c:59).                                                   *)
CountTracks ==
  ~torn => cur_count_kt1 = u32(popped - (IF tpc[1] \in {"load", "store"} THEN 1 ELSE 0))

(* Every passage is on its way to exactly one verdict: the FPGA's FIFOs    *)
(* must receive one entry per sample that passes (isr.c:80-92,             *)
(* array.c:65-72).                                                         *)
VerdictPerPassage ==
  \A s \in Station :
    Len(passed[s]) = Len(fifo[s]) + (IF tpc[s] = "pend" THEN 0 ELSE 1) + mbx[s]
                     + (IF ipc[s] = "post" THEN 1 ELSE 0)

(* The passage a trig task is deciding.                                    *)
own(s) == Len(fifo[s]) + 1

(* The code a passage is decided by is its own or a later one, never an    *)
(* earlier one: the static is latched before the message is posted         *)
(* (isr.c:88-92, array.c:246-247).                                         *)
NeverOlder ==
  \A s \in Station : tpc[s] \in {"search", "recycle", "fifo"} /\ (s = 2 \/ kick_mode # 0) =>
    read[s] \in own(s) .. Len(passed[s])

(* The results waiting at a station: what its nodes' buffers hold.         *)
waiting == [s \in Station |-> [i \in DOMAIN sample_list[s] |-> sample[sample_list[s][i]]]]

Line == INSTANCE RejectLine WITH mode <- kick_mode, line <- waiting, Key <- Word

(* The trig tasks implement the reject line, although a result is stored   *)
(* in a buffer that other results used before.                             *)
ImplementsRejectLine == Line!Spec

(* A station catches up with the samples that passed it, again and again,  *)
(* unless the process dies, whatever the host sends or resets meanwhile:   *)
(* as verdicts come one per passage and in order (VerdictPerPassage),      *)
(* every passage gets its own (isr.c:79-92, array.c:233-268).              *)
EveryPassageDecided ==
  \A s \in Station : []<>(Len(fifo[s]) = Len(passed[s]) \/ died # "no")

(* The comments at the interrupt (isr.c:79, "a sample passes the reject    *)
(* position") and at the verdict (array.c:64, "decide by the result") read *)
(* as if each passage were decided by its own wheel code.                  *)
OwnCode ==
  \A s \in Station : tpc[s] = "search" /\ (s = 2 \/ kick_mode # 0) => read[s] = own(s)
============================================================================
