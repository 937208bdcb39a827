--------------------------- MODULE MCMessagePool ---------------------------
(* An instance of MessagePool with the three kinds of task the process     *)
(* has: isr (kick1_isr_tsk) only posts, dis (dis_c1_kt1_tsk) reads one     *)
(* mailbox and posts to another, send (local_send_tsk) only reads; recv    *)
(* (local_recv_tsk) competes with dis for the mailbox of send.             *)
EXTENDS MessagePool

MCReader == [q \in Mailbox |-> IF q = "kt" THEN "dis" ELSE "send"]
MCWriters == [q \in Mailbox |-> IF q = "kt" THEN {"isr"} ELSE {"dis", "recv"}]
(* One wheel code (isr.c:91); a reset reply (local_protocol.c:63), a        *)
(* position report (position.c:97-99).                                     *)
MCFrame == [q \in Mailbox |-> IF q = "kt" THEN {<<"code">>}
                              ELSE {<<"head">>, <<"head", "item", "dis">>}]
============================================================================
