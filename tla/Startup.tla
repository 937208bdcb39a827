------------------------------ MODULE Startup ------------------------------
(***************************************************************************)
(* The process from exec to exit, and again: app/main.c with the threads   *)
(* it starts and the mailboxes that outlive it.                            *)
(*                                                                         *)
(* main() makes the components one after the other, while the threads of   *)
(* the first ones already run.  kick1_isr_tsk posts to mailboxes that are  *)
(* made later, and local_recv_tsk takes the host's commands, which use     *)
(* lists and buffers that are made later.  A mailbox is a named POSIX      *)
(* queue: mailbox_create opens one that exists and nothing unlinks it, so  *)
(* a new life of the process finds in it the structs of the dead one, full *)
(* of pointers into memory that is gone.                                   *)
(*                                                                         *)
(* Three mailboxes stand for the program's nine: /rejectlocal, made before *)
(* its writers and its reader, /pos_c1, made after its writer, and         *)
(* /pos_kt1, made after the writer and used only in a position test.       *)
(***************************************************************************)
EXTENDS Naturals, Sequences

CONSTANTS
  MSG_NUM_MAX,  \* messages of the pool, and places in a mailbox
  MAX_LIVES     \* BOUND: lives of the process

ASSUME StartupAssumption == MSG_NUM_MAX \in Nat /\ MSG_NUM_MAX > 0 /\ MAX_LIVES \in Nat /\ MAX_LIVES > 0

Mailbox == {"local", "kick", "kt"}

(* The task that reads a mailbox.                                          *)
Reader == [m \in Mailbox |-> IF m = "local" THEN "send" ELSE IF m = "kick" THEN "trig" ELSE "dis"]

(* Mutant: array_buf_init starts no trig task.                             *)
M_Boot == <<"conf", "pool", "system", "fpga", "isr", "local_mbx", "send", "recv", "sample_buf", "sample_list",
            "kick_mbx", "kt_mbx", "pos_list", "pos_buf", "dis">>
(* Mutant: array_buf_init does not initialise the lists.                   *)
M2_Boot == <<"conf", "pool", "system", "fpga", "isr", "local_mbx", "send", "recv", "sample_buf",
             "kick_mbx", "trig", "kt_mbx", "pos_list", "pos_buf", "dis">>
(* What main() does that a thread may depend on, in the order of its calls.*)
Boot == <<"conf", "pool", "system",            \* sc_conf_load, create_msg_factory, sc_system_init
          "fpga", "isr",                       \* fpga_context_init
          "local_mbx", "send", "recv",         \* local_socket_init
          "sample_buf", "sample_list", "kick_mbx", "trig",  \* array_buf_init
          "kt_mbx", "pos_list", "pos_buf", "dis">>          \* position_context_init

Thread == {"isr", "send", "recv", "trig", "dis"}

VARIABLES
  life,    \* which life of the process this is
  died,    \* "no", or how this life ended
  main,    \* how many of the calls of Boot have returned
  absent,  \* threads that pthread_create could not create
  queue,   \* queue[m]: for each struct that waits in m, the life that posted it
  list,    \* how many messages are on g_msg_factory->list
  item,    \* g_sys_config.pos_test_item
  ipc,     \* kick1_isr_tsk
  named,   \* the id in the message it is about to post was a mailbox's
  rpc,     \* local_recv_tsk
  rd,      \* rd[m]: the task that reads mailbox m
  fresh, served, quiet, clean  \* history: see below

history == <<fresh, served, quiet, clean>>
vars == <<life, died, main, absent, queue, list, item, ipc, named, rpc, rd, history>>

did(x) == \E i \in 1 .. main : Boot[i] = x
up == main = Len(Boot)
runs(t) == died = "no" /\ did(t) /\ t \notin absent

Init ==
  /\ life = 1 /\ died = "no" /\ main = 0 /\ absent = {}
  /\ queue = [m \in Mailbox |-> <<>>]
  /\ list = 0 /\ item = 0
  /\ ipc = "wait" /\ named = FALSE /\ rpc = "idle"
  /\ rd = [m \in Mailbox |-> "pend"]
  /\ fresh = [m \in Mailbox |-> 0]  \* structs of this life in m
  /\ served = {}                    \* mailboxes whose reader got one of this life
  /\ quiet = TRUE                   \* no passage and no command came before main was up
  /\ clean = TRUE                   \* this life found its mailboxes empty

----------------------------------------------------------------------------
(* main *)

(* One call of Boot.  add_new_thread tests a `res' that it does not assign *)
(* from pthread_create: a thread that could not be created is not missed.  *)
boot ==
  /\ died = "no" /\ ~up
  /\ main' = main + 1
  /\ list' = IF Boot[main + 1] = "pool" THEN MSG_NUM_MAX ELSE list
  /\ \/ UNCHANGED absent
     \/ Boot[main + 1] \in Thread /\ absent' = absent \cup {Boot[main + 1]}
  /\ UNCHANGED <<life, died, queue, item, ipc, named, rpc, rd, history>>

(* The other calls end the process when they fail: a configuration file    *)
(* that cannot be read, no memory, no device, no queue, and each attribute *)
(* of a thread that add_new_thread_prepare does not get.                   *)
boot_fails ==
  /\ died = "no" /\ ~up
  /\ died' = "ERROR"
  /\ UNCHANGED <<life, main, absent, queue, list, item, ipc, named, rpc, rd, history>>

(* Killed, by an ERROR() or a fault of another module, or from outside.    *)
crash ==
  /\ died = "no"
  /\ died' = "crash"
  /\ UNCHANGED <<life, main, absent, queue, list, item, ipc, named, rpc, rd, history>>

(* The program is started again.  Only the mailboxes keep their contents.  *)
restart ==
  /\ died # "no" /\ life < MAX_LIVES
  /\ life' = life + 1 /\ died' = "no" /\ main' = 0 /\ absent' = {}
  /\ list' = 0 /\ item' = 0
  /\ ipc' = "wait" /\ named' = FALSE /\ rpc' = "idle"
  /\ rd' = [m \in Mailbox |-> "pend"]
  /\ fresh' = [m \in Mailbox |-> 0] /\ served' = {} /\ quiet' = TRUE
  /\ clean' = (queue = [m \in Mailbox |-> <<>>])
  /\ UNCHANGED queue

----------------------------------------------------------------------------
(* Messages *)

(* Mutant: the message stays on the free list.                             *)
M_produce(pc, next) == list > 0 /\ pc' = next /\ UNCHANGED <<list, died>>
(* msg_factory_produce, and the caller's next program counter.             *)
produce(pc, next) ==
  \/ list = 0 /\ died' = "dry" /\ UNCHANGED <<list, pc>>
  \/ list > 0 /\ list' = list - 1 /\ pc' = next /\ UNCHANGED died

(* Mutant: a message that overtakes those that wait.                       *)
M_mq_send(q) == <<life>> \o q
(* Every message has priority 0: first in, first out.                      *)
mq_send(q) == Append(q, life)

full(m) == Len(queue[m]) >= MSG_NUM_MAX

(* mailbox_post: mq_send waits while the queue is full.                    *)
mailbox_post(m) ==
  /\ ~full(m)
  /\ queue' = [queue EXCEPT ![m] = mq_send(@)]
  /\ fresh' = [fresh EXCEPT ![m] = @ + 1]

(* mailbox_pend by the reader of m.  A struct of an earlier life leads the *)
(* reader through the pointers `ops', `payload' or `node' of a dead        *)
(* process: whatever happens then, this life is over for the model.        *)
mailbox_pend(m) ==
  /\ runs(Reader[m]) /\ rd[m] = "pend"
  /\ queue[m] # <<>>
  /\ queue' = [queue EXCEPT ![m] = Tail(@)]
  /\ \/ /\ Head(queue[m]) # life
        /\ died' = "wild"
        /\ UNCHANGED <<rd, fresh, served>>
     \/ /\ Head(queue[m]) = life
        /\ rd' = [rd EXCEPT ![m] = "hold"]
        /\ fresh' = [fresh EXCEPT ![m] = @ - 1]
        /\ served' = served \cup {m}
        /\ UNCHANGED died
  /\ UNCHANGED <<life, main, absent, list, item, ipc, named, rpc, quiet, clean>>

(* msg_factory_recycle.  The distance task then reports.                   *)
recycle(m) ==
  /\ runs(Reader[m]) /\ rd[m] = "hold"
  /\ list' = list + 1
  /\ rd' = [rd EXCEPT ![m] = IF m = "kt" THEN "report" ELSE "pend"]
  /\ UNCHANGED <<life, died, main, absent, queue, item, ipc, named, rpc, history>>

report ==
  /\ runs("dis") /\ rd["kt"] = "report"
  /\ \/ list = 0 /\ died' = "dry" /\ UNCHANGED <<list, rd>>
     \/ list > 0 /\ list' = list - 1 /\ rd' = [rd EXCEPT !["kt"] = "post"] /\ UNCHANGED died
  /\ UNCHANGED <<life, main, absent, queue, item, ipc, named, rpc, history>>

post_report ==
  /\ runs("dis") /\ rd["kt"] = "post"
  /\ mailbox_post("local")
  /\ rd' = [rd EXCEPT !["kt"] = "pend"]
  /\ UNCHANGED <<life, died, main, absent, list, item, ipc, named, rpc, served, quiet, clean>>

----------------------------------------------------------------------------
(* kick1_isr_tsk *)

(* A sample at the reject position: a message for the mailbox whose id the *)
(* variable g_pos_kick1_mbx_id holds by now, 0 before it was made.         *)
passage ==
  /\ runs("isr") /\ ipc = "wait"
  /\ produce(ipc, "post")
  /\ named' = did("kick_mbx")
  /\ quiet' = (quiet /\ up)
  /\ UNCHANGED <<life, main, absent, queue, item, rpc, rd, fresh, served, clean>>

(* mailbox_post of a message produced for m.  mq_send(0, ...) fails, and   *)
(* ERROR("mq_send") ends the process.                                      *)
isr_post(pc, m, next) ==
  /\ runs("isr") /\ ipc = pc
  /\ \/ /\ ~named
        /\ died' = "unset"
        /\ UNCHANGED <<queue, fresh, ipc>>
     \/ /\ named
        /\ mailbox_post(m)
        /\ ipc' = next
        /\ UNCHANGED died
  /\ UNCHANGED <<life, main, absent, list, item, named, rpc, rd, served, quiet, clean>>

post_passage == isr_post("post", "kick", "item")

(* In position test 2 the passage is an event of the test as well.         *)
test_item ==
  /\ runs("isr") /\ ipc = "item"
  /\ ipc' = IF item = 2 THEN "event" ELSE "wait"
  /\ UNCHANGED <<life, died, main, absent, queue, list, item, named, rpc, rd, history>>

event ==
  /\ runs("isr") /\ ipc = "event"
  /\ produce(ipc, "post_event")
  /\ named' = did("kt_mbx")
  /\ UNCHANGED <<life, main, absent, queue, item, rpc, rd, history>>

post_event == isr_post("post_event", "kt", "wait")

Isr == post_passage \/ test_item \/ event \/ post_event

----------------------------------------------------------------------------
(* local_recv_tsk *)

(* A command that begins with a use of x, which is NULL or zero before     *)
(* main made it: the process dies of a segmentation fault.                 *)
use(x, next) ==
  \/ ~did(x) /\ died' = "null" /\ UNCHANGED rpc
  \/ did(x) /\ rpc' = next /\ UNCHANGED died

command ==
  /\ runs("recv") /\ rpc = "idle"
  /\ quiet' = (quiet /\ up)
  /\ UNCHANGED <<life, main, absent, queue, list, ipc, named, rd, fresh, served, clean>>

(* A result for a station, one that asks for no rejection (pos = 0), a     *)
(* reset, a handshake, the choice of a position test.                      *)
recv_sample_result == command /\ use("sample_buf", "link") /\ UNCHANGED item
recv_pass_result == command /\ rpc' = "reference" /\ UNCHANGED <<died, item>>
recv_reset_cmd == command /\ use("sample_list", "reply") /\ UNCHANGED item
recv_handshake_cmd == command /\ rpc' = "reply" /\ UNCHANGED <<died, item>>
recv_pos_test_cmd == command /\ item' \in {0, 2} /\ UNCHANGED <<died, rpc>>

Command == recv_sample_result \/ recv_pass_result \/ recv_reset_cmd \/ recv_handshake_cmd \/ recv_pos_test_cmd

(* list_add_tail of write_array; the reference for position test 2; the    *)
(* message of the reply.                                                   *)
recv_step(pc) ==
  /\ runs("recv") /\ rpc = pc
  /\ UNCHANGED <<life, main, absent, item, ipc, named, rd, served, quiet, clean>>

link == recv_step("link") /\ use("sample_list", "reference") /\ UNCHANGED <<queue, list, fresh>>

reference ==
  /\ recv_step("reference")
  /\ IF item = 2 THEN use("pos_buf", "idle") ELSE rpc' = "idle" /\ UNCHANGED died
  /\ UNCHANGED <<queue, list, fresh>>

reply == recv_step("reply") /\ produce(rpc, "post") /\ UNCHANGED <<queue, fresh>>
post_reply == recv_step("post") /\ mailbox_post("local") /\ rpc' = "idle" /\ UNCHANGED <<died, list>>

Recv == link \/ reference \/ reply \/ post_reply

Stop == boot_fails \/ crash
Serve(m) == mailbox_pend(m) \/ recycle(m)
Report == report \/ post_report

Next == boot \/ Stop \/ restart \/ passage \/ Isr \/ Command \/ Recv \/ Report \/ \E m \in Mailbox : Serve(m)

Spec == Init /\ [][Next]_vars

(* main() and every thread run on; a passage, a command, a crash and a new *)
(* start of the program are nobody's duty.                                 *)
Fairness ==
  /\ WF_vars(boot) /\ WF_vars(Isr) /\ WF_vars(Recv) /\ WF_vars(Report)
  /\ \A m \in Mailbox : WF_vars(Serve(m))

FairSpec == Spec /\ Fairness

----------------------------------------------------------------------------
(* Properties *)

(* Type invariant.                                                         *)
TypeOK ==
  /\ life \in 1 .. MAX_LIVES /\ main \in 0 .. Len(Boot) /\ absent \subseteq Thread
  /\ died \in {"no", "ERROR", "crash", "dry", "wild", "unset", "null"}
  /\ queue \in [Mailbox -> Seq(1 .. life)]
  /\ list \in 0 .. MSG_NUM_MAX /\ item \in {0, 2}
  /\ ipc \in {"wait", "post", "item", "event", "post_event"} /\ named \in BOOLEAN
  /\ rpc \in {"idle", "link", "reference", "reply", "post"}
  /\ rd \in [Mailbox -> {"pend", "hold", "report", "post"}]
  /\ fresh \in [Mailbox -> 0 .. MSG_NUM_MAX]
  /\ served \subseteq Mailbox /\ quiet \in BOOLEAN /\ clean \in BOOLEAN

(* What a dead life left in a mailbox lies in front of everything posted   *)
(* since (main.c starts the readers without draining the queues that       *)
(* mailbox_create found): once a reader has got a message of its own life, *)
(* no other one can reach it any more.                                     *)
StaleFirst == \A m \in served : \A i \in DOMAIN queue[m] : queue[m][i] = life

(* The order of main()'s calls is only dangerous until it ends, and only   *)
(* to a line that already moves or a host that already sends: a life       *)
(* before whose end no passage and no command came too early never posts   *)
(* to a mailbox without an id and never uses a list or a factory that is   *)
(* not there; a life that found its mailboxes empty never reads the        *)
(* message of another.                                                     *)
StartupDeaths ==
  /\ died = "unset" => ~quiet
  /\ died = "null" => ~quiet /\ ~up
  /\ died = "wild" => ~clean

(* Thread t is about to call mailbox_post for m.                           *)
Post == {<<"isr", "kick">>, <<"isr", "kt">>, <<"recv", "local">>, <<"dis", "local">>}
posting(t, m) ==
  CASE t = "isr" -> ipc = IF m = "kick" THEN "post" ELSE "post_event"
    [] t = "recv" -> rpc = "post"
    [] t = "dis" -> rd["kt"] = "post"

(* mq_send waits for nobody but the dead: a mailbox that makes a sender    *)
(* wait has a message of an earlier life in front, even when the thread    *)
(* that should read it was never created.                                  *)
BlocksOnlyOnStale ==
  died = "no" => \A p \in Post : posting(p[1], p[2]) /\ full(p[2]) => Head(queue[p[2]]) # life

(* The structs of a dead life do what harm they do from the front of a     *)
(* mailbox, before its reader has got one message of its own life: after   *)
(* that they neither reach it nor make a sender wait (mailbox.c:15-59).    *)
StaleInFront == StaleFirst /\ BlocksOnlyOnStale

(* Every mq_send returns, or the process ends, unless the reader of the    *)
(* mailbox could not be created, which add_new_thread does not notice.     *)
PostReturns ==
  \A p \in Post : posting(p[1], p[2]) ~> ~posting(p[1], p[2]) \/ died # "no" \/ Reader[p[2]] \in absent
============================================================================
