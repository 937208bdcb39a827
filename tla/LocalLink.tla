----------------------------- MODULE LocalLink -----------------------------
(***************************************************************************)
(* The connection to the camera host: communication/local_socket.c.        *)
(*                                                                         *)
(* Three threads share connect_fd and connect_status, with no lock.        *)
(* local_connect_tsk makes a connection when the flag is down and wakes    *)
(* local_recv_tsk through gsem_link; local_recv_tsk reads commands until   *)
(* the host hangs up, closes the descriptor and takes the flag down;       *)
(* local_send_tsk looks at the flag once per message and at the descriptor *)
(* once per write.                                                         *)
(*                                                                         *)
(* A step is one access to a shared variable or one system call.  A word   *)
(* is four bytes; read may return any number of the words that are there,  *)
(* never a part of one.                                                    *)
(* A write to this blocking socket takes its whole buffer or fails.        *)
(***************************************************************************)
EXTENDS Naturals, Sequences, FiniteSets

CONSTANTS
  Cmd,       \* command words
  Params,    \* [Cmd -> Nat]: the words that follow the header of a command
  Items,     \* how many payloads a message may have
  None,      \* what cmdword holds before the first command
  MAX_CONN,  \* BOUND: sockets made
  MAX_CMD,   \* BOUND: commands sent on one connection
  MAX_MSG    \* BOUND: messages local_send_tsk receives

Conn == 1 .. MAX_CONN

ASSUME LinkAssumption ==
  /\ Params \in [Cmd -> Nat]
  /\ \A c \in Cmd : Params[c] <= 256  \* param is malloc(1024), and no length is checked
  /\ Items \subseteq Nat \ {0}
  /\ None \notin Cmd
  /\ MAX_CONN \in Nat /\ MAX_CMD \in Nat /\ MAX_MSG \in Nat

VARIABLES
  connect_fd,      \* the last socket made; 0: none yet, or socket() failed
  connect_status,
  gsem_link,
  opened, sock,    \* sockets made so far; "new", "connected" or "closed" each
  cpc,             \* local_connect_tsk: where it is
  peer,            \* the host's end of the connection: "open" or "closed"
  sent, rx,        \* commands the host sent on it, words not yet read
  rpc, nhas_recv,  \* local_recv_tsk: where it is, words read of header or param,
  length, cmdword, \* and SrvCmd_str
  param,
  short,           \* history: the header came in two reads
  executed,        \* history: what local_cmd_analyze was given, this connection
  msgs, item, num, \* local_send_tsk: messages received, the payload it writes
                   \* next (0: none), data_num
  tx               \* tx[c]: the payloads written to connection c

connVars == <<connect_fd, connect_status, gsem_link, opened, sock, cpc>>
hostVars == <<peer, sent, rx>>
recvVars == <<rpc, nhas_recv, length, cmdword, param, short, executed>>
sendVars == <<msgs, item, num, tx>>
vars == <<connVars, hostVars, recvVars, sendVars>>

Init ==
  /\ connect_fd = 0 /\ connect_status = 0 /\ gsem_link = 0
  /\ opened = 0 /\ sock = [c \in Conn |-> "none"] /\ cpc = "poll"
  /\ peer = "closed" /\ sent = <<>> /\ rx = <<>>
  /\ rpc = "wait" /\ nhas_recv = 0
  /\ length = 0 /\ cmdword = None /\ param = <<>> /\ short = FALSE /\ executed = <<>>
  /\ msgs = 0 /\ item = 0 /\ num = 0 /\ tx = [c \in Conn |-> <<>>]

----------------------------------------------------------------------------
(* The host *)

(* The k-th command of a connection on the wire: its length, its command   *)
(* word and its parameters.                                                *)
frame(k, c) == [i \in 1 .. 2 + Params[c] |-> <<k, i>>]

host_send(c) ==
  /\ peer = "open" /\ Len(sent) < MAX_CMD
  /\ sent' = Append(sent, c)
  /\ rx' = rx \o frame(Len(sent) + 1, c)
  /\ UNCHANGED <<peer, connVars, recvVars, sendVars>>

host_close ==
  /\ peer = "open"
  /\ peer' = "closed"
  /\ UNCHANGED <<sent, rx, connVars, recvVars, sendVars>>

----------------------------------------------------------------------------
(* local_connect_tsk *)

(* Mutant: the flag is not looked at.                                      *)
M_disconnected == TRUE
disconnected == connect_status = 0

(* socket(), which may fail: the message it prints changes nothing.        *)
make_socket ==
  /\ cpc = "poll" /\ disconnected
  /\ opened < MAX_CONN
  /\ opened' = opened + 1
  /\ \/ connect_fd' = opened + 1 /\ sock' = [sock EXCEPT ![opened + 1] = "new"]
     \/ connect_fd' = 0 /\ sock' = [sock EXCEPT ![opened + 1] = "closed"]
  /\ cpc' = "connect"
  /\ UNCHANGED <<connect_status, gsem_link, hostVars, recvVars, sendVars>>

(* connect() succeeds; on a descriptor of -1 it never does.                *)
accepted ==
  /\ cpc = "connect" /\ connect_fd # 0
  /\ sock' = [sock EXCEPT ![connect_fd] = "connected"]
  /\ peer' = "open" /\ sent' = <<>> /\ rx' = <<>>
  /\ executed' = <<>>
  /\ cpc' = "status"
  /\ UNCHANGED <<connect_fd, connect_status, gsem_link, opened,
                 rpc, nhas_recv, length, cmdword, param, short, sendVars>>

raise_status ==
  /\ cpc = "status"
  /\ connect_status' = 1
  /\ cpc' = "post"
  /\ UNCHANGED <<connect_fd, gsem_link, opened, sock, hostVars, recvVars, sendVars>>

(* Mutant: the semaphore is posted twice.                                  *)
M_posted == gsem_link + 2
posted == gsem_link + 1

post_link ==
  /\ cpc = "post"
  /\ gsem_link' = posted
  /\ cpc' = "poll"
  /\ UNCHANGED <<connect_fd, connect_status, opened, sock, hostVars, recvVars, sendVars>>

Connect == make_socket \/ raise_status \/ post_link

----------------------------------------------------------------------------
(* local_recv_tsk *)

wait_link ==
  /\ rpc = "wait" /\ gsem_link > 0
  /\ gsem_link' = gsem_link - 1
  /\ rpc' = "header" /\ nhas_recv' = 0
  /\ UNCHANGED <<connect_fd, connect_status, opened, sock, cpc, hostVars,
                 length, cmdword, param, short, executed, sendVars>>

(* Where the words of a header go.  A second read writes to                *)
(* &SrvCmd_str + nhas_recv, structures and not bytes on: what it reads is  *)
(* lost, and the command word stays what it was.                           *)
stored(n) == IF nhas_recv = 0 /\ n = 2 THEN sent[rx[1][1]] ELSE cmdword

(* A read of n words of the header.                                        *)
read_header(n) ==
  /\ rpc = "header" /\ n <= 2 - nhas_recv /\ n <= Len(rx)
  /\ length' = IF nhas_recv = 0 THEN Params[sent[rx[1][1]]] ELSE length
  /\ cmdword' = stored(n)
  /\ short' = (n = 1)
  /\ rx' = SubSeq(rx, n + 1, Len(rx))
  /\ param' = <<>>  \* overwritten by the next command
  /\ IF nhas_recv + n < 2 THEN nhas_recv' = nhas_recv + n /\ rpc' = rpc
     ELSE nhas_recv' = 0 /\ rpc' = IF length' = 0 THEN "analyze" ELSE "param"
  /\ UNCHANGED <<connVars, peer, sent, executed, sendVars>>

(* Mutant: every read may fill the whole buffer.                           *)
M_wanted == length
wanted == length - nhas_recv

(* A read of n words of the parameters.                                    *)
read_param(n) ==
  /\ rpc = "param" /\ n <= wanted /\ n <= Len(rx)
  /\ param' = param \o SubSeq(rx, 1, n)
  /\ rx' = SubSeq(rx, n + 1, Len(rx))
  /\ nhas_recv' = nhas_recv + n
  /\ rpc' = IF nhas_recv + n < length THEN "param" ELSE "analyze"
  /\ UNCHANGED <<connVars, peer, sent, length, cmdword, short, executed, sendVars>>

local_cmd_analyze ==
  /\ rpc = "analyze"
  /\ executed' = Append(executed, [cmdword |-> cmdword, param |-> param, short |-> short])
  /\ rpc' = "header" /\ nhas_recv' = 0
  /\ UNCHANGED <<connVars, hostVars, length, cmdword, param, short, sendVars>>

(* The end of the stream, or a reset connection: words that were not read  *)
(* may be lost.                                                            *)
read_fails ==
  /\ rpc \in {"header", "param"} /\ peer = "closed"
  /\ rpc' = "close"
  /\ UNCHANGED <<connVars, hostVars, nhas_recv, length, cmdword, param, short, executed, sendVars>>

hung_up == [sock EXCEPT ![connect_fd] = "closed"]

(* shutdown and close: from here on a write fails.                         *)
close_link ==
  /\ rpc = "close"
  /\ sock' = hung_up
  /\ rpc' = "down"
  /\ UNCHANGED <<connect_fd, connect_status, gsem_link, opened, cpc, hostVars,
                 nhas_recv, length, cmdword, param, short, executed, sendVars>>

(* Mutant: the flag stays up.                                              *)
M_lowered == connect_status
lowered == 0

lower_status ==
  /\ rpc = "down"
  /\ connect_status' = lowered
  /\ rpc' = "wait"
  /\ UNCHANGED <<connect_fd, gsem_link, opened, sock, cpc, hostVars,
                 nhas_recv, length, cmdword, param, short, executed, sendVars>>

Recv ==
  \/ wait_link \/ local_cmd_analyze \/ read_fails \/ close_link \/ lower_status
  \/ \E n \in 1 .. Len(rx) : read_header(n) \/ read_param(n)

----------------------------------------------------------------------------
(* local_send_tsk *)

(* mailbox_pend of a message with n payloads; without a connection it is   *)
(* recycled at once.                                                       *)
pend(n) ==
  /\ item = 0 /\ msgs < MAX_MSG
  /\ msgs' = msgs + 1
  /\ IF connect_status = 0 THEN UNCHANGED <<item, num>> ELSE item' = 1 /\ num' = n
  /\ UNCHANGED <<tx, connVars, hostVars, recvVars>>

write_succeeds == connect_fd # 0 /\ sock[connect_fd] = "connected" /\ peer = "open"

next_item == IF item < num THEN item + 1 ELSE 0
(* Mutant: a failed write goes on with the next payload.                   *)
M_after_failure == next_item
after_failure == 0

(* One write of one payload; a failure gives the message up.               *)
write ==
  /\ item # 0
  /\ \/ /\ write_succeeds
        /\ tx' = [tx EXCEPT ![connect_fd] = Append(@, [msg |-> msgs, item |-> item, num |-> num])]
        /\ item' = next_item
     \/ /\ ~write_succeeds
        /\ item' = after_failure
        /\ UNCHANGED tx
  /\ UNCHANGED <<msgs, num, connVars, hostVars, recvVars>>

Next ==
  \/ (\E c \in Cmd : host_send(c)) \/ host_close
  \/ Connect \/ accepted
  \/ Recv
  \/ (\E n \in Items : pend(n)) \/ write

Spec == Init /\ [][Next]_vars

(* The two threads run when they can, and the host listens: a connect that *)
(* is retried for ever succeeds.  Nothing makes the host send or hang up.  *)
Fairness == WF_vars(Connect) /\ WF_vars(accepted) /\ WF_vars(Recv)
FairSpec == Spec /\ Fairness
----------------------------------------------------------------------------
(* Types of the variables (local_socket.c:30-37, 79-88, 120-124).          *)
TypeOK ==
  /\ connect_fd \in 0 .. MAX_CONN /\ connect_status \in {0, 1} /\ gsem_link \in {0, 1}
  /\ opened \in 0 .. MAX_CONN /\ sock \in [Conn -> {"none", "new", "connected", "closed"}]
  /\ cpc \in {"poll", "connect", "status", "post"}
  /\ peer \in {"open", "closed"} /\ sent \in Seq(Cmd) /\ rx \in Seq(Nat \X Nat)
  /\ rpc \in {"wait", "header", "param", "analyze", "close", "down"}
  /\ nhas_recv \in Nat /\ length \in Nat /\ cmdword \in Cmd \cup {None}
  /\ param \in Seq(Nat \X Nat) /\ short \in BOOLEAN
  /\ executed \in Seq([cmdword : Cmd \cup {None}, param : Seq(Nat \X Nat), short : BOOLEAN])
  /\ msgs \in 0 .. MAX_MSG /\ item \in Nat /\ num \in Nat /\ item <= num
  /\ tx \in [Conn -> Seq([msg : Nat, item : Nat, num : Nat])]

(* The descriptor passes between the two threads like a baton, although    *)
(* they share it through an unlocked flag and a semaphore: what            *)
(* local_recv_tsk reads from and closes is a connected socket that         *)
(* local_connect_tsk will not replace (local_socket.c:48-71, 127-140).     *)
SessionOwned ==
  rpc \in {"header", "param", "analyze", "close"} =>
    /\ connect_fd # 0 /\ sock[connect_fd] = "connected"
    /\ cpc = "poll" /\ connect_status = 1 /\ gsem_link = 0

(* No socket is dropped without being closed: every one but the current    *)
(* one is closed, however often the host hangs up.                         *)
NoLeak == \A c \in 1 .. opened : c # connect_fd => sock[c] = "closed"

(* A socket has one owner at each moment, which closes it before another   *)
(* takes its place (local_socket.c:44-72, 127-155).                        *)
SocketsOwned == SessionOwned /\ NoLeak

(* The n-th command executed on a connection is the n-th the host sent on  *)
(* it, with its own parameters and nothing of an earlier connection,       *)
(* however many words each read returns.  Only its command word may be     *)
(* that of an earlier one, when the header came in two reads               *)
(* (local_socket.c:131-160).                                               *)
CommandAsSent ==
  \A n \in DOMAIN executed :
    /\ n \in DOMAIN sent
    /\ executed[n].param = [i \in 1 .. Params[sent[n]] |-> <<n, i + 2>>]
    /\ executed[n].short \/ executed[n].cmdword = sent[n]

(* What the host receives on a connection is whole messages in their       *)
(* order, but for its first, which may lack its beginning, and its last,   *)
(* which may lack its end (local_socket.c:93-112).                         *)
StreamShape ==
  \A c \in Conn : \A i \in 1 .. Len(tx[c]) - 1 :
    LET a == tx[c][i]  b == tx[c][i + 1]
    IN  IF a.item < a.num THEN b = [a EXCEPT !.item = @ + 1]
        ELSE b.item = 1 /\ b.msg > a.msg

(* And the missing beginning is what an earlier connection received: no    *)
(* message has a hole.                                                     *)
NoHole ==
  \A c \in Conn : \A i \in DOMAIN tx[c] : tx[c][i].item > 1 =>
    \E d \in 1 .. c : \E j \in DOMAIN tx[d] : tx[d][j] = [tx[c][i] EXCEPT !.item = @ - 1]

(* Over all connections, the host receives each message from its beginning *)
(* to the point where it hung up, whole and in order, although the flag is *)
(* looked at once per message and the descriptor at every write            *)
(* (local_socket.c:93-112).                                                *)
StreamWhole == StreamShape /\ NoHole

(* The socket() that failed: connect is retried on it for ever.            *)
Stuck == cpc = "connect" /\ connect_fd = 0

(* When the host has hung up, a new connection is made, unless socket()    *)
(* fails (local_socket.c:44-72, 135-140).                                  *)
Reconnects == peer = "closed" ~> peer = "open" \/ Stuck \/ opened = MAX_CONN

(* A command sent on a connection is executed unless the host hangs up.    *)
CommandsExecuted ==
  \A n \in 1 .. MAX_CMD : Len(sent) >= n ~> Len(executed) >= n \/ peer = "closed"

(* The host is served: it can connect again, and what it then asks for is  *)
(* done, with only an unlocked flag and a semaphore between the thread     *)
(* that connects and the one that reads (local_socket.c:44-72, 126-160).   *)
HostServed == Reconnects /\ CommandsExecuted

(* The comment of the loop (local_socket.c:130), "receive the length and   *)
(* the command": the header read is the length and the command word sent.  *)
HeaderReceived ==
  rpc \in {"param", "analyze"} => cmdword = sent[Len(executed) + 1]
============================================================================
