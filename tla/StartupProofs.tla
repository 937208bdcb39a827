--------------------------- MODULE StartupProofs ---------------------------
(***************************************************************************)
(* Proofs about Startup, for any number of messages and of lives.          *)
(*                                                                         *)
(* Three facts make the invariants inductive.  A mailbox is the stale      *)
(* structs followed by the fresh ones, and `fresh' counts the latter       *)
(* (Order).  Every message of a living process is on the free list, fresh  *)
(* in a mailbox, or in the hands of one thread (Balance).  And whatever a  *)
(* thread does before main is up was begun by a passage or a command that  *)
(* came before main was up (Early).                                        *)
(***************************************************************************)
EXTENDS Startup, TLAPS

Order ==
  \A m \in Mailbox :
    /\ fresh[m] <= Len(queue[m])
    /\ \A i \in 1 .. Len(queue[m]) : queue[m][i] = life <=> i > Len(queue[m]) - fresh[m]
    /\ m \in served \/ clean => fresh[m] = Len(queue[m])

One(b) == IF b THEN 1 ELSE 0
held ==
  One(ipc \in {"post", "post_event"}) + One(rpc = "post")
    + (One(rd["local"] = "hold") + One(rd["kick"] = "hold") + One(rd["kt"] \in {"hold", "post"}))
posted == fresh["local"] + fresh["kick"] + fresh["kt"]
made == IF main >= 2 THEN MSG_NUM_MAX ELSE 0
Balance == died = "no" => list + posted + held = made

Early ==
  /\ ~up /\ (ipc # "wait" \/ rpc # "idle") => ~quiet
  /\ ipc \in {"post", "post_event"} /\ ~named => ~quiet

IInv == TypeOK /\ Order /\ Balance /\ Early /\ StartupDeaths

----------------------------------------------------------------------------
(* Where in the order of main()'s calls the things are.                    *)
LEMMA BootOrder ==
  /\ Len(Boot) = 16
  /\ Boot[2] = "pool" /\ \A i \in 1 .. 16 : Boot[i] = "pool" => i = 2
  /\ \A i \in 1 .. 16 : Boot[i] \in Thread => i > 2
  /\ \A x \in {"kick_mbx", "kt_mbx", "sample_buf", "sample_list", "pos_buf"} : \E i \in 1 .. 16 : Boot[i] = x
<1>1. Len(Boot) = 16
  BY DEF Boot
<1>2. Boot[2] = "pool" /\ \A i \in 1 .. 16 : Boot[i] = "pool" => i = 2
  BY DEF Boot
<1>3. \A i \in 1 .. 16 : Boot[i] \in Thread => i > 2
  BY DEF Boot, Thread
<1>4. /\ Boot[9] = "sample_buf" /\ Boot[10] = "sample_list" /\ Boot[11] = "kick_mbx"
      /\ Boot[13] = "kt_mbx" /\ Boot[15] = "pos_buf"
  BY DEF Boot
<1> QED
  BY <1>1, <1>2, <1>3, <1>4

(* Nothing is missing any more once main is up.                            *)
LEMMA UpIsComplete ==
  ASSUME TypeOK, NEW x \in {"kick_mbx", "kt_mbx", "sample_buf", "sample_list", "pos_buf"}, ~did(x)
  PROVE  ~up
<1>1. PICK i \in 1 .. 16 : Boot[i] = x
  BY BootOrder
<1> QED
  BY <1>1, BootOrder DEF did, up

(* A thread that runs has the pool.                                        *)
LEMMA RunsAfterPool ==
  ASSUME TypeOK, NEW t \in Thread, runs(t)
  PROVE  main >= 2
<1>1. main \in 0 .. 16
  BY BootOrder DEF TypeOK
<1>2. PICK i \in 1 .. main : Boot[i] = t
  BY DEF runs, did
<1> QED
  BY <1>1, <1>2, BootOrder

(* What a step may do to the mailboxes.                                    *)
LEMMA MailboxEffect ==
  ASSUME Next
  PROVE  \/ UNCHANGED <<life, queue, fresh, served, clean>>
         \/ \E m \in Mailbox : mailbox_post(m) /\ UNCHANGED <<life, served, clean>>
         \/ \E m \in Mailbox : mailbox_pend(m)
         \/ restart
<1> DEFINE Effect == \/ UNCHANGED <<life, queue, fresh, served, clean>>
                     \/ \E m \in Mailbox : mailbox_post(m) /\ UNCHANGED <<life, served, clean>>
                     \/ \E m \in Mailbox : mailbox_pend(m)
                     \/ restart
<1> USE DEF history
<1>1. CASE boot \/ Stop \/ restart
  BY <1>1 DEF boot, Stop, boot_fails, crash
<1>2. CASE passage \/ Isr
  BY <1>2 DEF passage, Isr, post_passage, test_item, event, post_event, isr_post, Mailbox
<1>3. CASE Command
  BY <1>3 DEF Command, recv_sample_result, recv_pass_result, recv_reset_cmd, recv_handshake_cmd, recv_pos_test_cmd,
              command
<1>4. CASE Recv
  BY <1>4 DEF Recv, link, reference, reply, post_reply, recv_step, Mailbox
<1>5. CASE Report
  BY <1>5 DEF Report, report, post_report, Mailbox
<1>6. CASE \E m \in Mailbox : Serve(m)
  BY <1>6 DEF Serve, recycle
<1> QED
  BY <1>1, <1>2, <1>3, <1>4, <1>5, <1>6 DEF Next

----------------------------------------------------------------------------
(* The invariant holds initially.                                          *)
LEMMA InitIInv == Init => IInv
<1> SUFFICES ASSUME Init PROVE IInv
  OBVIOUS
<1>1. TypeOK
  <2>1. MSG_NUM_MAX \in Nat /\ MAX_LIVES \in Nat /\ MAX_LIVES > 0 /\ Len(Boot) = 16
    BY StartupAssumption, BootOrder
  <2>2. queue \in [Mailbox -> Seq(1 .. life)]
    BY DEF Init
  <2>3. fresh \in [Mailbox -> 0 .. MSG_NUM_MAX] /\ rd \in [Mailbox -> {"pend", "hold", "report", "post"}]
    BY <2>1 DEF Init
  <2>4. life \in 1 .. MAX_LIVES /\ main \in 0 .. Len(Boot) /\ list \in 0 .. MSG_NUM_MAX
    BY <2>1 DEF Init
  <2> QED
    BY <2>2, <2>3, <2>4 DEF Init, TypeOK
<1>2. Order
  BY DEF Init, Order
<1>3. Balance
  BY DEF Init, Balance, held, One, posted, made, Mailbox
<1>4. Early /\ StartupDeaths
  BY DEF Init, Early, StartupDeaths
<1> QED
  BY <1>1, <1>2, <1>3, <1>4 DEF IInv

(* The fresh structs stay behind the stale ones.                           *)
LEMMA OrderStep == IInv /\ Next => Order'
<1> SUFFICES ASSUME IInv, Next PROVE Order'
  OBVIOUS
<1> USE DEF IInv
<1>0. life \in Nat /\ \A m \in Mailbox : queue[m] \in Seq(Nat) /\ fresh[m] \in Nat
  BY StartupAssumption DEF TypeOK
<1>1. CASE UNCHANGED <<life, queue, fresh, served, clean>>
  BY <1>1 DEF Order
<1>2. ASSUME NEW m \in Mailbox, mailbox_post(m), UNCHANGED <<life, served, clean>> PROVE Order'
  <2> SUFFICES ASSUME NEW n \in Mailbox
               PROVE  /\ fresh'[n] <= Len(queue'[n])
                      /\ \A i \in 1 .. Len(queue'[n]) : queue'[n][i] = life <=> i > Len(queue'[n]) - fresh'[n]
                      /\ n \in served \/ clean => fresh'[n] = Len(queue'[n])
    BY <1>2 DEF Order
  <2>1. CASE n # m
    BY <1>2, <2>1 DEF mailbox_post, Order, TypeOK
  <2>2. CASE n = m
    <3>1. queue'[m] = Append(queue[m], life) /\ fresh'[m] = fresh[m] + 1
      BY <1>2 DEF mailbox_post, mq_send, TypeOK
    <3>2. /\ Len(queue'[m]) = Len(queue[m]) + 1 /\ queue'[m][Len(queue[m]) + 1] = life
          /\ \A i \in 1 .. Len(queue[m]) : queue'[m][i] = queue[m][i]
      BY <3>1, <1>0
    <3> HIDE <1>2
    <3>3. Len(queue[m]) \in Nat
      BY <1>0
    <3>4. /\ fresh[m] <= Len(queue[m])
          /\ \A i \in 1 .. Len(queue[m]) : queue[m][i] = life <=> i > Len(queue[m]) - fresh[m]
          /\ m \in served \/ clean => fresh[m] = Len(queue[m])
      BY DEF Order
    <3>5. fresh[m] \in Nat
      BY <1>0
    <3>6. ASSUME NEW i \in 1 .. Len(queue[m]) + 1
          PROVE  queue'[m][i] = life <=> i > Len(queue[m]) + 1 - (fresh[m] + 1)
      <4> DEFINE k == Len(queue[m])
                 f == fresh[m]
      <4>1. k \in Nat /\ f \in Nat /\ i \in 1 .. k + 1
        BY <3>3, <3>5, <3>6
      <4>2. CASE i \in 1 .. k
        <5>1. queue'[m][i] = life <=> i > k - f
          BY <3>2, <3>4, <4>2
        <5>2. k + 1 - (f + 1) = k - f
          BY <4>1
        <5> QED
          BY <5>1, <5>2
      <4>3. CASE i = k + 1
        <5>1. queue'[m][i] = life
          BY <3>2, <4>3
        <5> HIDE DEF k, f
        <5>2. i > k + 1 - (f + 1)
          BY <4>1, <4>3
        <5> QED
          BY <5>1, <5>2 DEF k, f
      <4> QED
        BY <4>1, <4>2, <4>3
    <3>7. \A i \in 1 .. Len(queue'[m]) : queue'[m][i] = life <=> i > Len(queue'[m]) - fresh'[m]
      <4>1. Len(queue'[m]) = Len(queue[m]) + 1 /\ fresh'[m] = fresh[m] + 1
        BY <3>1, <3>2
      <4> QED
        BY <4>1, <3>3, <3>5, <3>6
    <3>8. fresh'[m] <= Len(queue'[m]) /\ (m \in served \/ clean => fresh'[m] = Len(queue'[m]))
      BY <3>1, <3>2, <3>3, <3>4, <3>5
    <3> QED
      BY <3>7, <3>8, <2>2
  <2> QED
    BY <2>1, <2>2
<1>3. ASSUME NEW m \in Mailbox, mailbox_pend(m) PROVE Order'
  <2>0. life' = life /\ clean' = clean
    BY <1>3 DEF mailbox_pend
  <2> SUFFICES ASSUME NEW n \in Mailbox
               PROVE  /\ fresh'[n] <= Len(queue'[n])
                      /\ \A i \in 1 .. Len(queue'[n]) : queue'[n][i] = life <=> i > Len(queue'[n]) - fresh'[n]
                      /\ n \in served' \/ clean => fresh'[n] = Len(queue'[n])
    BY <2>0 DEF Order
  <2>1. CASE n # m
    BY <1>3, <2>1 DEF mailbox_pend, Order, TypeOK
  <2>2. CASE n = m
    <3>1. queue[m] # <<>> /\ queue'[m] = Tail(queue[m])
      BY <1>3 DEF mailbox_pend, TypeOK
    <3>2. /\ Len(queue[m]) \in Nat \ {0} /\ Len(queue'[m]) = Len(queue[m]) - 1 /\ Head(queue[m]) = queue[m][1]
          /\ \A i \in 1 .. Len(queue'[m]) : queue'[m][i] = queue[m][i + 1]
      BY <3>1, <1>0
    <3>3. \/ queue[m][1] # life /\ fresh'[m] = fresh[m] /\ served' = served
          \/ queue[m][1] = life /\ fresh'[m] = fresh[m] - 1
      BY <1>3, <3>2 DEF mailbox_pend, TypeOK
    <3>4. queue[m][1] = life <=> fresh[m] = Len(queue[m])
      BY <3>2, <1>0 DEF Order
    <3>5. /\ fresh[m] <= Len(queue[m])
          /\ \A i \in 1 .. Len(queue[m]) : queue[m][i] = life <=> i > Len(queue[m]) - fresh[m]
          /\ m \in served \/ clean => fresh[m] = Len(queue[m])
      BY DEF Order
    <3>6. fresh[m] \in Nat
      BY <1>0
    <3>7. ASSUME NEW i \in 1 .. Len(queue[m]) - 1
          PROVE  queue'[m][i] = life <=> i > Len(queue[m]) - 1 - fresh'[m]
      <4>1. i + 1 \in 1 .. Len(queue[m]) /\ queue'[m][i] = queue[m][i + 1]
        BY <3>2
      <4>2. queue'[m][i] = life <=> i + 1 > Len(queue[m]) - fresh[m]
        BY <4>1, <3>5
      <4> QED
        BY <4>2, <3>2, <3>3, <3>4, <3>6
    <3>8. \A i \in 1 .. Len(queue'[m]) : queue'[m][i] = life <=> i > Len(queue'[m]) - fresh'[m]
      BY <3>2, <3>7
    <3>9. fresh'[m] <= Len(queue'[m]) /\ (m \in served' \/ clean => fresh'[m] = Len(queue'[m]))
      BY <3>2, <3>3, <3>4, <3>5, <3>6
    <3> QED
      BY <3>8, <3>9, <2>2
  <2> QED
    BY <2>1, <2>2
<1>4. CASE restart
  <2>1. life' = life + 1 /\ queue' = queue /\ served' = {} /\ \A m \in Mailbox : fresh'[m] = 0
    BY <1>4 DEF restart
  <2>2. clean' => \A m \in Mailbox : Len(queue[m]) = 0
    <3> SUFFICES ASSUME clean' PROVE \A m \in Mailbox : Len(queue[m]) = 0
      OBVIOUS
    <3>1. queue = [m \in Mailbox |-> <<>>]
      BY <1>4 DEF restart
    <3> QED
      BY <3>1
  <2>3. \A m \in Mailbox : \A i \in 1 .. Len(queue[m]) : queue[m][i] <= life
    BY DEF TypeOK
  <2>4. \A m \in Mailbox : Len(queue[m]) \in Nat
    BY <1>0
  <2> QED
    BY <2>1, <2>2, <2>3, <2>4, <1>0 DEF Order
<1> QED
  BY <1>1, <1>2, <1>3, <1>4, MailboxEffect

(* What is posted early and who dies of it.                                *)
LEMMA EarlyStep == IInv /\ Next => Early' /\ StartupDeaths'
<1> SUFFICES ASSUME IInv, Next PROVE Early' /\ StartupDeaths'
  OBVIOUS
<1> USE DEF IInv, history, Early, StartupDeaths, up, runs
<1>0. main \in 0 .. 16
  BY BootOrder DEF TypeOK
<1>1. CASE boot
  BY <1>0, <1>1, BootOrder DEF boot
<1>2. CASE Stop \/ restart
  BY <1>2, BootOrder DEF Stop, boot_fails, crash, restart
<1>3. CASE passage
  <2>1. ~did("kick_mbx") => ~up
    BY UpIsComplete
  <2> QED
    BY <1>3, <2>1 DEF passage, produce
<1>4. CASE Isr
  <2>1. ~did("kt_mbx") => ~up
    BY UpIsComplete
  <2> QED
    BY <1>4, <2>1 DEF Isr, post_passage, test_item, event, post_event, isr_post, produce
<1>5. CASE Command
  <2>1. ~did("sample_buf") \/ ~did("sample_list") => ~up
    BY UpIsComplete
  <2> QED
    BY <1>5, <2>1 DEF Command, recv_sample_result, recv_pass_result, recv_reset_cmd, recv_handshake_cmd,
                      recv_pos_test_cmd, command, use
<1>6. CASE Recv
  <2>1. ~did("sample_list") \/ ~did("pos_buf") => ~up
    BY UpIsComplete
  <2> QED
    BY <1>6, <2>1 DEF Recv, link, reference, reply, post_reply, recv_step, use, produce
<1>7. CASE Report
  BY <1>7 DEF Report, report, post_report
<1>8. ASSUME NEW m \in Mailbox, mailbox_pend(m) PROVE Early' /\ StartupDeaths'
  <2>1. queue[m] # <<>> /\ Head(queue[m]) # life => ~clean
    <3>1. queue[m] \in Seq(Nat) /\ fresh[m] \in Nat
      BY StartupAssumption DEF TypeOK
    <3>2. queue[m] # <<>> => Head(queue[m]) = queue[m][1] /\ 1 \in 1 .. Len(queue[m])
      BY <3>1
    <3> QED
      BY <3>1, <3>2 DEF Order
  <2> QED
    BY <1>8, <2>1 DEF mailbox_pend
<1>9. CASE \E m \in Mailbox : recycle(m)
  BY <1>9 DEF recycle
<1> QED
  BY <1>1, <1>2, <1>3, <1>4, <1>5, <1>6, <1>7, <1>8, <1>9 DEF Next, Serve

(* Every variable keeps its type.                                          *)
LEMMA TypeStep == IInv /\ Next => TypeOK'
<1> SUFFICES ASSUME IInv, Next PROVE TypeOK'
  OBVIOUS
<1> USE DEF history
<1>0. /\ MSG_NUM_MAX \in Nat /\ life \in Nat /\ main \in 0 .. 16 /\ Len(Boot) = 16
      /\ \A m \in Mailbox : queue[m] \in Seq(Nat) /\ fresh[m] \in Nat /\ fresh[m] <= Len(queue[m])
  <2>1. TypeOK /\ Order /\ MSG_NUM_MAX \in Nat /\ MAX_LIVES \in Nat
    BY StartupAssumption DEF IInv
  <2>2. life \in Nat /\ main \in 0 .. 16 /\ Len(Boot) = 16
    BY <2>1, BootOrder DEF TypeOK
  <2>3. ASSUME NEW m \in Mailbox PROVE queue[m] \in Seq(Nat) /\ fresh[m] \in Nat /\ fresh[m] <= Len(queue[m])
    <3>1. queue[m] \in Seq(1 .. life) /\ fresh[m] \in 0 .. MSG_NUM_MAX
      BY <2>1 DEF TypeOK
    <3> QED
      BY <2>1, <2>2, <3>1 DEF Order
  <2> QED
    BY <2>1, <2>2, <2>3
<1>1. TypeOK
  BY DEF IInv
<1>2. CASE boot
  <2>1. main' \in 0 .. Len(Boot) /\ list' \in 0 .. MSG_NUM_MAX /\ absent' \subseteq Thread
    BY <1>0, <1>1, <1>2 DEF boot, up, TypeOK
  <2> QED
    BY <1>1, <1>2, <2>1 DEF boot, TypeOK
<1>3. CASE Stop
  BY <1>1, <1>3 DEF Stop, boot_fails, crash, TypeOK
<1>4. CASE restart
  <2>1. life' \in 1 .. MAX_LIVES /\ main' \in 0 .. Len(Boot) /\ list' \in 0 .. MSG_NUM_MAX
    BY <1>0, <1>1, <1>4, StartupAssumption DEF restart, TypeOK
  <2>2. 1 .. life \subseteq 1 .. life'
    BY <1>0, <1>4 DEF restart
  <2>3. queue' \in [Mailbox -> Seq(1 .. life')]
    BY <1>1, <1>4, <2>2 DEF restart, TypeOK
  <2>4. fresh' \in [Mailbox -> 0 .. MSG_NUM_MAX] /\ rd' \in [Mailbox -> {"pend", "hold", "report", "post"}]
    BY <1>0, <1>4 DEF restart
  <2>5. clean' \in BOOLEAN
    BY <1>4 DEF restart
  <2> QED
    BY <2>1, <2>3, <2>4, <2>5, <1>4 DEF restart, TypeOK
<1>5. ASSUME NEW m \in Mailbox, mailbox_post(m), UNCHANGED life
      PROVE  queue' \in [Mailbox -> Seq(1 .. life')] /\ fresh' \in [Mailbox -> 0 .. MSG_NUM_MAX]
  <2>1. life \in 1 .. life /\ queue \in [Mailbox -> Seq(1 .. life)] /\ fresh \in [Mailbox -> 0 .. MSG_NUM_MAX]
    BY <1>0, <1>1 DEF TypeOK
  <2>2. fresh[m] + 1 \in 0 .. MSG_NUM_MAX
    <3>1. Len(queue[m]) \in Nat /\ ~(Len(queue[m]) >= MSG_NUM_MAX)
      BY <1>0, <1>5 DEF mailbox_post, full
    <3> QED
      BY <1>0, <3>1
  <2>3. Append(queue[m], life) \in Seq(1 .. life)
    BY <2>1
  <2> QED
    BY <1>5, <2>1, <2>2, <2>3 DEF mailbox_post, mq_send
<1>6. CASE passage
  BY <1>0, <1>1, <1>6 DEF passage, produce, up, did, TypeOK
<1>7. CASE Isr
  <2>1. CASE post_passage
    BY <1>1, <1>5, <2>1 DEF post_passage, isr_post, TypeOK, Mailbox
  <2>2. CASE test_item
    BY <1>1, <2>2 DEF test_item, TypeOK
  <2>3. CASE event
    BY <1>0, <1>1, <2>3 DEF event, produce, did, TypeOK
  <2>4. CASE post_event
    BY <1>1, <1>5, <2>4 DEF post_event, isr_post, TypeOK, Mailbox
  <2> QED
    BY <1>7, <2>1, <2>2, <2>3, <2>4 DEF Isr
<1>8. CASE Command
  <2>1. rpc' \in {"idle", "link", "reference", "reply", "post"} /\ item' \in {0, 2}
    BY <1>1, <1>8 DEF Command, recv_sample_result, recv_pass_result, recv_reset_cmd, recv_handshake_cmd,
                      recv_pos_test_cmd, command, use, TypeOK
  <2>2. died' \in {"no", "ERROR", "crash", "dry", "wild", "unset", "null"}
    BY <1>1, <1>8 DEF Command, recv_sample_result, recv_pass_result, recv_reset_cmd, recv_handshake_cmd,
                      recv_pos_test_cmd, command, use, TypeOK
  <2>3. command
    BY <1>8 DEF Command, recv_sample_result, recv_pass_result, recv_reset_cmd, recv_handshake_cmd,
                recv_pos_test_cmd
  <2>4. quiet' \in BOOLEAN
    BY <2>3 DEF command
  <2> QED
    BY <1>1, <2>1, <2>2, <2>3, <2>4 DEF command, TypeOK
<1>9. CASE Recv
  <2>1. CASE link \/ reference
    BY <1>1, <2>1 DEF link, reference, recv_step, use, TypeOK
  <2>2. CASE reply
    BY <1>0, <1>1, <2>2 DEF reply, recv_step, produce, TypeOK
  <2>3. CASE post_reply
    BY <1>1, <1>5, <2>3 DEF post_reply, recv_step, TypeOK, Mailbox
  <2> QED
    BY <1>9, <2>1, <2>2, <2>3 DEF Recv
<1>10. CASE Report
  <2>1. CASE report
    <3>1. rd \in [Mailbox -> {"pend", "hold", "report", "post"}] /\ list \in 0 .. MSG_NUM_MAX
      BY <1>1 DEF TypeOK
    <3>2. rd' \in [Mailbox -> {"pend", "hold", "report", "post"}] /\ list' \in 0 .. MSG_NUM_MAX
      BY <1>0, <2>1, <3>1 DEF report
    <3> QED
      BY <1>1, <2>1, <3>2 DEF report, TypeOK
  <2>2. CASE post_report
    <3>1. queue' \in [Mailbox -> Seq(1 .. life')] /\ fresh' \in [Mailbox -> 0 .. MSG_NUM_MAX]
      BY <1>5, <2>2 DEF post_report, Mailbox
    <3>2. rd' \in [Mailbox -> {"pend", "hold", "report", "post"}]
      BY <1>1, <2>2 DEF post_report, TypeOK
    <3> QED
      BY <1>1, <2>2, <3>1, <3>2 DEF post_report, TypeOK
  <2> QED
    BY <1>10, <2>1, <2>2 DEF Report
<1>11. ASSUME NEW m \in Mailbox, mailbox_pend(m) PROVE TypeOK'
  <2>1. queue[m] # <<>> /\ queue' = [queue EXCEPT ![m] = Tail(@)] /\ life' = life
    BY <1>11 DEF mailbox_pend
  <2>2. queue' \in [Mailbox -> Seq(1 .. life')]
    <3>1. queue[m] \in Seq(1 .. life) /\ Tail(queue[m]) \in Seq(1 .. life)
      BY <1>1, <2>1 DEF TypeOK
    <3> QED
      BY <1>1, <2>1, <3>1 DEF TypeOK
  <2>3. Head(queue[m]) = life => fresh[m] > 0
    <3>1. Head(queue[m]) = queue[m][1] /\ 1 \in 1 .. Len(queue[m]) /\ Len(queue[m]) \in Nat
      BY <1>0, <2>1
    <3> QED
      BY <1>0, <3>1 DEF IInv, Order
  <2>4. /\ fresh' \in [Mailbox -> 0 .. MSG_NUM_MAX] /\ rd' \in [Mailbox -> {"pend", "hold", "report", "post"}]
        /\ served' \subseteq Mailbox
    <3>1. fresh[m] \in 0 .. MSG_NUM_MAX /\ (Head(queue[m]) = life => fresh[m] - 1 \in 0 .. MSG_NUM_MAX)
      BY <1>0, <1>1, <2>3 DEF TypeOK
    <3>2. /\ fresh \in [Mailbox -> 0 .. MSG_NUM_MAX] /\ rd \in [Mailbox -> {"pend", "hold", "report", "post"}]
          /\ served \subseteq Mailbox
      BY <1>1 DEF TypeOK
    <3>3. CASE Head(queue[m]) = life
      BY <1>11, <3>1, <3>2, <3>3 DEF mailbox_pend
    <3>4. CASE Head(queue[m]) # life
      BY <1>11, <3>2, <3>4 DEF mailbox_pend
    <3> QED
      BY <3>3, <3>4
  <2>5. died' \in {"no", "ERROR", "crash", "dry", "wild", "unset", "null"}
    BY <1>1, <1>11 DEF mailbox_pend, TypeOK
  <2> QED
    BY <1>1, <1>11, <2>2, <2>4, <2>5 DEF mailbox_pend, TypeOK
<1>12. ASSUME NEW m \in Mailbox, recycle(m) PROVE TypeOK'
  <2>1. list' \in 0 .. MSG_NUM_MAX
    <3>1. main >= 2 /\ died = "no" /\ list' = list + 1 /\ rd[m] = "hold"
      <4>1. Reader[m] \in Thread /\ runs(Reader[m])
        BY <1>12 DEF recycle, Mailbox, Reader, Thread
      <4> QED
        BY <1>1, <4>1, <1>12, RunsAfterPool DEF recycle, runs
    <3>2. held \in Nat /\ held >= 1 /\ posted \in Nat
      <4>1. posted \in Nat
        BY <1>0 DEF posted, Mailbox
      <4>2. held \in Nat
        BY DEF held, One
      <4>3. held >= 1
        BY <3>1 DEF held, One, Mailbox
      <4> QED
        BY <4>1, <4>2, <4>3
    <3>3. list \in 0 .. MSG_NUM_MAX
      BY <1>1 DEF TypeOK
    <3> QED
      BY <1>0, <3>1, <3>2, <3>3 DEF IInv, Balance, made
  <2> QED
    BY <1>1, <1>12, <2>1 DEF recycle, TypeOK
<1> QED
  BY <1>2, <1>3, <1>4, <1>6, <1>7, <1>8, <1>9, <1>10, <1>11, <1>12 DEF Next, Serve

(* No message is lost or made while the process lives.                     *)
LEMMA BalanceStep == IInv /\ Next => Balance'
<1> SUFFICES ASSUME IInv, Next, died' = "no" PROVE (list + posted + held = made)'
  BY DEF Balance
<1> USE DEF history
<1>0. /\ TypeOK /\ MSG_NUM_MAX \in Nat /\ main \in 0 .. 16 /\ Len(Boot) = 16
      /\ list \in Nat /\ posted \in Nat /\ held \in Nat
      /\ \A m \in Mailbox : fresh[m] \in Nat
  <2>1. TypeOK /\ MSG_NUM_MAX \in Nat /\ main \in 0 .. 16 /\ Len(Boot) = 16
    BY StartupAssumption, BootOrder DEF IInv, TypeOK
  <2>2. list \in Nat /\ \A m \in Mailbox : fresh[m] \in Nat
    BY <2>1 DEF TypeOK
  <2>3. posted \in Nat
    BY <2>2 DEF posted, Mailbox
  <2>4. held \in Nat
    BY DEF held, One
  <2> QED
    BY <2>1, <2>2, <2>3, <2>4
<1>1. CASE restart
  BY <1>1 DEF restart, posted, held, One, made, Mailbox
<1>2. died = "no" => list + posted + held = made
  BY DEF IInv, Balance
<1>3. fresh' = fresh => posted' = posted
  BY DEF posted
<1>4. ASSUME NEW m \in Mailbox, mailbox_post(m) PROVE posted' = posted + 1
  <2>1. fresh' = [fresh EXCEPT ![m] = fresh[m] + 1] /\ fresh \in [Mailbox -> 0 .. MSG_NUM_MAX]
    BY <1>0, <1>4 DEF mailbox_post, TypeOK
  <2>2. CASE m = "local"
    BY <1>0, <2>1, <2>2 DEF posted, Mailbox
  <2>3. CASE m = "kick"
    BY <1>0, <2>1, <2>3 DEF posted, Mailbox
  <2>4. CASE m = "kt"
    BY <1>0, <2>1, <2>4 DEF posted, Mailbox
  <2> QED
    BY <2>2, <2>3, <2>4 DEF Mailbox
<1>5. main' = main => made' = made
  BY DEF made
<1>6. UNCHANGED <<ipc, rpc, rd>> => held' = held
  BY DEF held
<1>7. CASE boot
  <2>1. died = "no" /\ main' = main + 1 /\ main < 16 /\ posted' = posted /\ held' = held
    BY <1>0, <1>3, <1>6, <1>7 DEF boot, up
  <2>2. CASE main + 1 = 2
    <3>1. list' = MSG_NUM_MAX /\ made = 0 /\ made' = MSG_NUM_MAX
      BY <1>0, <1>7, <2>1, <2>2, BootOrder DEF boot, made
    <3> QED
      BY <1>0, <1>2, <2>1, <3>1
  <2>3. CASE main + 1 # 2
    <3>1. list' = list /\ made = made'
      BY <1>0, <1>7, <2>1, <2>3, BootOrder DEF boot, made
    <3> QED
      BY <1>0, <1>2, <2>1, <3>1
  <2> QED
    BY <2>2, <2>3
<1>8. CASE Stop
  BY <1>8 DEF Stop, boot_fails, crash
<1>9. CASE passage
  <2>1. /\ died = "no" /\ fresh' = fresh /\ main' = main /\ rd' = rd /\ rpc' = rpc
        /\ ipc = "wait" /\ ipc' = "post" /\ list > 0 /\ list' = list - 1
    BY <1>9 DEF passage, runs, produce
  <2>2. held' = held + 1
    BY <2>1 DEF held, One
  <2> QED
    BY <1>0, <1>2, <1>3, <1>5, <2>1, <2>2
<1>10. CASE Isr
  <2>1. ASSUME NEW pc \in {"post", "post_event"}, NEW m \in Mailbox, NEW next \in {"item", "wait"},
               isr_post(pc, m, next)
        PROVE  (list + posted + held = made)'
    <3>1. /\ died = "no" /\ mailbox_post(m) /\ main' = main /\ rd' = rd /\ rpc' = rpc /\ list' = list
          /\ ipc = pc /\ ipc' = next
      BY <2>1 DEF isr_post, runs
    <3>2. held = held' + 1 /\ held' \in Nat
      BY <3>1 DEF held, One
    <3> QED
      BY <1>0, <1>2, <1>4, <1>5, <3>1, <3>2
  <2>2. CASE test_item
    <3>1. /\ died = "no" /\ fresh' = fresh /\ main' = main /\ rd' = rd /\ rpc' = rpc /\ list' = list
          /\ ipc = "item" /\ ipc' \in {"event", "wait"}
      BY <2>2 DEF test_item, runs
    <3>2. held' = held
      BY <3>1 DEF held, One
    <3> QED
      BY <1>0, <1>2, <1>3, <1>5, <3>1, <3>2
  <2>3. CASE event
    <3>1. /\ died = "no" /\ fresh' = fresh /\ main' = main /\ rd' = rd /\ rpc' = rpc
          /\ ipc = "event" /\ ipc' = "post_event" /\ list > 0 /\ list' = list - 1
      BY <2>3 DEF event, runs, produce
    <3>2. held' = held + 1
      BY <3>1 DEF held, One
    <3> QED
      BY <1>0, <1>2, <1>3, <1>5, <3>1, <3>2
  <2> QED
    BY <1>10, <2>1, <2>2, <2>3 DEF Isr, post_passage, post_event, Mailbox
<1>11. CASE Command
  <2>1. /\ died = "no" /\ fresh' = fresh /\ main' = main /\ rd' = rd /\ ipc' = ipc /\ list' = list
        /\ rpc = "idle" /\ rpc' # "post"
    BY <1>11 DEF Command, recv_sample_result, recv_pass_result, recv_reset_cmd, recv_handshake_cmd,
                 recv_pos_test_cmd, command, use, runs
  <2>2. held' = held
    BY <2>1 DEF held, One
  <2> QED
    BY <1>0, <1>2, <1>3, <1>5, <2>1, <2>2
<1>12. CASE Recv
  <2>1. CASE link \/ reference
    <3>1. /\ died = "no" /\ fresh' = fresh /\ main' = main /\ rd' = rd /\ ipc' = ipc /\ list' = list
          /\ rpc # "post" /\ rpc' # "post"
      BY <2>1 DEF link, reference, recv_step, use, runs
    <3>2. held' = held
      BY <3>1 DEF held, One
    <3> QED
      BY <1>0, <1>2, <1>3, <1>5, <3>1, <3>2
  <2>2. CASE reply
    <3>1. /\ died = "no" /\ fresh' = fresh /\ main' = main /\ rd' = rd /\ ipc' = ipc
          /\ rpc = "reply" /\ rpc' = "post" /\ list > 0 /\ list' = list - 1
      BY <2>2 DEF reply, recv_step, runs, produce
    <3>2. held' = held + 1
      BY <3>1 DEF held, One
    <3> QED
      BY <1>0, <1>2, <1>3, <1>5, <3>1, <3>2
  <2>3. CASE post_reply
    <3>1. /\ died = "no" /\ mailbox_post("local") /\ main' = main /\ rd' = rd /\ ipc' = ipc /\ list' = list
          /\ rpc = "post" /\ rpc' = "idle"
      BY <2>3 DEF post_reply, recv_step, runs
    <3>2. held = held' + 1 /\ held' \in Nat
      BY <3>1 DEF held, One
    <3> QED
      BY <1>0, <1>2, <1>4, <1>5, <3>1, <3>2 DEF Mailbox
  <2> QED
    BY <1>12, <2>1, <2>2, <2>3 DEF Recv
<1>13. CASE Report
  <2>1. CASE report
    <3>1. /\ died = "no" /\ fresh' = fresh /\ main' = main /\ rpc' = rpc /\ ipc' = ipc
          /\ rd["kt"] = "report" /\ rd' = [rd EXCEPT !["kt"] = "post"] /\ list > 0 /\ list' = list - 1
      BY <2>1 DEF report, runs
    <3>2. held' = held + 1
      BY <1>0, <3>1 DEF held, One, TypeOK, Mailbox
    <3> QED
      BY <1>0, <1>2, <1>3, <1>5, <3>1, <3>2
  <2>2. CASE post_report
    <3>1. /\ died = "no" /\ mailbox_post("local") /\ main' = main /\ rpc' = rpc /\ ipc' = ipc /\ list' = list
          /\ rd["kt"] = "post" /\ rd' = [rd EXCEPT !["kt"] = "pend"]
      BY <2>2 DEF post_report, runs
    <3>2. held = held' + 1 /\ held' \in Nat
      BY <1>0, <3>1 DEF held, One, TypeOK, Mailbox
    <3> QED
      BY <1>0, <1>2, <1>4, <1>5, <3>1, <3>2 DEF Mailbox
  <2> QED
    BY <1>13, <2>1, <2>2 DEF Report
<1>14. ASSUME NEW m \in Mailbox, mailbox_pend(m) PROVE (list + posted + held = made)'
  <2>1. /\ died = "no" /\ main' = main /\ rpc' = rpc /\ ipc' = ipc /\ list' = list
        /\ rd[m] = "pend" /\ rd' = [rd EXCEPT ![m] = "hold"] /\ fresh' = [fresh EXCEPT ![m] = fresh[m] - 1]
    <3>1. died = "no" /\ main' = main /\ rpc' = rpc /\ ipc' = ipc /\ list' = list /\ rd[m] = "pend"
      BY <1>14 DEF mailbox_pend, runs
    <3>2. died' # "wild"
      OBVIOUS
    <3>3. rd' = [rd EXCEPT ![m] = "hold"] /\ fresh' = [fresh EXCEPT ![m] = fresh[m] - 1]
      <4>1. CASE Head(queue[m]) # life
        BY <1>14, <3>2, <4>1 DEF mailbox_pend
      <4>2. CASE Head(queue[m]) = life
        BY <1>14, <4>2 DEF mailbox_pend
      <4> QED
        BY <4>1, <4>2
    <3> QED
      BY <3>1, <3>3
  <2>2. posted' = posted - 1 /\ held' = held + 1
    <3>0. fresh \in [Mailbox -> 0 .. MSG_NUM_MAX] /\ rd \in [Mailbox -> {"pend", "hold", "report", "post"}]
      BY <1>0 DEF TypeOK
    <3>1. CASE m = "local"
      BY <1>0, <2>1, <3>0, <3>1 DEF posted, held, One, Mailbox
    <3>2. CASE m = "kick"
      BY <1>0, <2>1, <3>0, <3>2 DEF posted, held, One, Mailbox
    <3>3. CASE m = "kt"
      BY <1>0, <2>1, <3>0, <3>3 DEF posted, held, One, Mailbox
    <3> QED
      BY <3>1, <3>2, <3>3 DEF Mailbox
  <2> QED
    BY <1>0, <1>2, <1>5, <2>1, <2>2
<1>15. ASSUME NEW m \in Mailbox, recycle(m) PROVE (list + posted + held = made)'
  <2>1. /\ died = "no" /\ main' = main /\ rpc' = rpc /\ ipc' = ipc /\ fresh' = fresh /\ list' = list + 1
        /\ rd[m] = "hold" /\ rd' = [rd EXCEPT ![m] = IF m = "kt" THEN "report" ELSE "pend"]
    BY <1>15 DEF recycle, runs
  <2>2. held = held' + 1 /\ held' \in Nat
    <3>0. rd \in [Mailbox -> {"pend", "hold", "report", "post"}]
      BY <1>0 DEF TypeOK
    <3>1. CASE m = "local"
      BY <1>0, <2>1, <3>0, <3>1 DEF held, One, Mailbox
    <3>2. CASE m = "kick"
      BY <1>0, <2>1, <3>0, <3>2 DEF held, One, Mailbox
    <3>3. CASE m = "kt"
      BY <1>0, <2>1, <3>0, <3>3 DEF held, One, Mailbox
    <3> QED
      BY <3>1, <3>2, <3>3 DEF Mailbox
  <2> QED
    BY <1>0, <1>2, <1>3, <1>5, <2>1, <2>2
<1> QED
  BY <1>1, <1>7, <1>8, <1>9, <1>10, <1>11, <1>12, <1>13, <1>14, <1>15 DEF Next, Serve

----------------------------------------------------------------------------
(* The strengthened invariant is inductive, so it always holds.            *)
THEOREM Invariance == Spec => []IInv
<1>1. IInv /\ [Next]_vars => IInv'
  <2>1. IInv /\ Next => IInv'
    BY TypeStep, OrderStep, BalanceStep, EarlyStep DEF IInv
  <2>2. IInv /\ UNCHANGED vars => IInv'
    BY DEF vars, history, IInv, TypeOK, Order, Balance, posted, held, made, Early, StartupDeaths, up
  <2> QED
    BY <2>1, <2>2
<1> QED
  BY <1>1, InitIInv, PTL DEF Spec

(* The process keeps its types through any number of lives.                *)
THEOREM TypeCorrect == Spec => []TypeOK
<1>1. IInv => TypeOK
  BY DEF IInv
<1> QED
  BY <1>1, Invariance, PTL

(* Once a reader has got a message of its own life, it gets no others: the *)
(* queues are first in, first out and every message has the same priority  *)
(* (mailbox.c:37, msg_factory.c:97).                                       *)
THEOREM StaleComesFirst == Spec => []StaleFirst
<1>1. IInv => StaleFirst
  <2> SUFFICES ASSUME IInv, NEW m \in served, NEW i \in DOMAIN queue[m] PROVE queue[m][i] = life
    BY DEF StaleFirst
  <2>1. m \in Mailbox /\ queue[m] \in Seq(Nat)
    BY StartupAssumption DEF IInv, TypeOK
  <2>2. i \in 1 .. Len(queue[m]) /\ fresh[m] = Len(queue[m])
    BY <2>1 DEF IInv, Order
  <2>3. i > Len(queue[m]) - fresh[m]
    BY <2>1, <2>2
  <2> QED
    BY <2>1, <2>2, <2>3 DEF IInv, Order
<1> QED
  BY <1>1, Invariance, PTL

(* A life that begins with empty mailboxes and with nothing on the line    *)
(* does not die of the order of main()'s calls (main.c:26-39).             *)
THEOREM QuietStartIsSafe == Spec => []StartupDeaths
<1>1. IInv => StartupDeaths
  BY DEF IInv
<1> QED
  BY <1>1, Invariance, PTL

(* mq_send only waits behind the messages of an earlier life: a mailbox    *)
(* has as many places as the pool has messages (mailbox.c:21, 39).         *)
THEOREM OnlyStaleBlocks == Spec => []BlocksOnlyOnStale
<1>1. IInv => BlocksOnlyOnStale
  <2> SUFFICES ASSUME IInv, died = "no", NEW p \in Post, posting(p[1], p[2]), full(p[2]), Head(queue[p[2]]) = life
               PROVE  FALSE
    BY DEF BlocksOnlyOnStale
  <2>1. p[2] \in Mailbox /\ held >= 1
    <3>1. held \in Nat
      BY DEF held, One
    <3>2. CASE p = <<"isr", "kick">>
      BY <3>2 DEF posting, held, One, Mailbox
    <3>3. CASE p = <<"isr", "kt">>
      BY <3>3 DEF posting, held, One, Mailbox
    <3>4. CASE p = <<"recv", "local">>
      BY <3>4 DEF posting, held, One, Mailbox
    <3>5. CASE p = <<"dis", "local">>
      BY <3>5 DEF posting, held, One, Mailbox
    <3> QED
      BY <3>2, <3>3, <3>4, <3>5 DEF Post
  <2> DEFINE m == p[2]
  <2>2. queue[m] \in Seq(Nat) /\ fresh[m] \in Nat /\ Len(queue[m]) >= MSG_NUM_MAX /\ MSG_NUM_MAX \in Nat \ {0}
    BY <2>1, StartupAssumption DEF IInv, TypeOK, full
  <2>3. Head(queue[m]) = queue[m][1] /\ 1 \in 1 .. Len(queue[m]) /\ Len(queue[m]) \in Nat
    BY <2>2
  <2>4. fresh[m] >= MSG_NUM_MAX
    BY <2>1, <2>2, <2>3 DEF IInv, Order
  <2>5. posted >= MSG_NUM_MAX /\ posted \in Nat /\ held \in Nat /\ list \in Nat
    <3>1. list \in Nat /\ \A n \in Mailbox : fresh[n] \in Nat
      BY <2>2 DEF IInv, TypeOK
    <3>2. posted >= MSG_NUM_MAX /\ posted \in Nat
      <4>1. fresh["local"] \in Nat /\ fresh["kick"] \in Nat /\ fresh["kt"] \in Nat
        BY <3>1 DEF Mailbox
      <4>2. m = "local" \/ m = "kick" \/ m = "kt"
        BY <2>1 DEF Mailbox
      <4>3. fresh["local"] >= MSG_NUM_MAX \/ fresh["kick"] >= MSG_NUM_MAX \/ fresh["kt"] >= MSG_NUM_MAX
        BY <2>4, <4>2
      <4>4. MSG_NUM_MAX \in Nat
        BY <2>2
      <4> HIDE DEF m
      <4> QED
        BY <4>1, <4>3, <4>4 DEF posted
    <3>3. held \in Nat
      BY DEF held, One
    <3> QED
      BY <3>1, <3>2, <3>3
  <2> QED
    BY <2>1, <2>2, <2>5 DEF IInv, Balance, made
<1> QED
  BY <1>1, Invariance, PTL

(* Both: the structs of a dead life do their harm from the front of a      *)
(* mailbox, or not at all (mailbox.c:15-59).                               *)
THEOREM StaleStaysInFront == Spec => []StaleInFront
BY StaleComesFirst, OnlyStaleBlocks, PTL DEF StaleInFront

----------------------------------------------------------------------------
(* The reader behind a full mailbox *)

(* A reader that is busy has got a message of its own life.                *)
Busy == \A m \in Mailbox : rd[m] # "pend" => m \in served

(* A sender that waits does so for a reader that is not busy, and has got  *)
(* nothing in this life: the reader takes the first struct as soon as it   *)
(* runs, and dies of it.                                                   *)
MeetsReader ==
  died = "no" => \A p \in Post : posting(p[1], p[2]) /\ full(p[2]) =>
    /\ rd[p[2]] = "pend" /\ p[2] \notin served
    /\ queue[p[2]] # <<>> /\ Head(queue[p[2]]) # life

LEMMA BusyInvariance == Spec => []Busy
<1>1. Init => Busy
  BY DEF Init, Busy
<1>2. IInv /\ Busy /\ [Next]_vars => Busy'
  <2> SUFFICES ASSUME IInv, Busy, [Next]_vars PROVE Busy'
    OBVIOUS
  <2>1. rd \in [Mailbox -> {"pend", "hold", "report", "post"}]
    BY DEF IInv, TypeOK
  <2>2. CASE UNCHANGED <<rd, served>>
    BY <2>2 DEF Busy
  <2>3. CASE restart
    BY <2>3 DEF restart, Busy
  <2>4. ASSUME NEW m \in Mailbox, mailbox_pend(m) PROVE Busy'
    BY <2>1, <2>4 DEF mailbox_pend, Busy
  <2>5. ASSUME NEW m \in Mailbox, recycle(m) PROVE Busy'
    BY <2>1, <2>5 DEF recycle, history, Busy
  <2>6. CASE report
    <3>1. served' = served /\ (rd' = rd \/ rd' = [rd EXCEPT !["kt"] = "post"]) /\ rd["kt"] = "report"
      BY <2>6 DEF report, history
    <3> QED
      BY <2>1, <3>1 DEF Busy
  <2>7. CASE post_report
    BY <2>1, <2>7 DEF post_report, Busy
  <2>8. boot \/ Stop \/ passage \/ Isr \/ Command \/ Recv \/ UNCHANGED vars => UNCHANGED <<rd, served>>
    BY DEF boot, Stop, boot_fails, crash, passage, Isr, post_passage, test_item, event, post_event, isr_post,
           Command, command, recv_sample_result, recv_pass_result, recv_reset_cmd, recv_handshake_cmd,
           recv_pos_test_cmd, Recv, recv_step, link, reference, reply, post_reply, vars, history
  <2> QED
    BY <2>2, <2>3, <2>4, <2>5, <2>6, <2>7, <2>8 DEF Next, Serve, Report
<1> QED
  BY <1>1, <1>2, Invariance, PTL DEF Spec

(* Why every mq_send returns or ends with the process (PostReturns): no    *)
(* chain of threads can wait for each other.  A sender that waits finds    *)
(* the reader of the mailbox at mq_receive, with a struct of a dead life   *)
(* to take; only a reader that main() has not made yet, or that could not  *)
(* be created, keeps it waiting (mailbox.c:33-59, thread.c:83-99).         *)
THEOREM WaitersMeetReader == Spec => []MeetsReader
<1>1. IInv /\ Busy /\ StaleFirst /\ BlocksOnlyOnStale => MeetsReader
  <2> SUFFICES ASSUME IInv, Busy, StaleFirst, BlocksOnlyOnStale, died = "no",
                      NEW p \in Post, posting(p[1], p[2]), full(p[2])
               PROVE  /\ rd[p[2]] = "pend" /\ p[2] \notin served
                      /\ queue[p[2]] # <<>> /\ Head(queue[p[2]]) # life
    BY DEF MeetsReader
  <2>1. p[2] \in Mailbox
    BY DEF Post, Mailbox
  <2>2. queue[p[2]] \in Seq(1 .. life) /\ Len(queue[p[2]]) >= MSG_NUM_MAX
    BY <2>1 DEF IInv, TypeOK, full
  <2>3. queue[p[2]] # <<>> /\ 1 \in DOMAIN queue[p[2]] /\ Head(queue[p[2]]) = queue[p[2]][1]
    BY <2>2, StartupAssumption
  <2>4. Head(queue[p[2]]) # life
    BY DEF BlocksOnlyOnStale
  <2>5. p[2] \notin served
    BY <2>3, <2>4 DEF StaleFirst
  <2> QED
    BY <2>1, <2>3, <2>4, <2>5 DEF Busy
<1> QED
  BY <1>1, Invariance, BusyInvariance, StaleComesFirst, OnlyStaleBlocks, PTL
============================================================================
