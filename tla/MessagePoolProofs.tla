------------------------- MODULE MessagePoolProofs -------------------------
(***************************************************************************)
(* Proofs about MessagePool, for any number of messages, threads and       *)
(* mailboxes.                                                              *)
(*                                                                         *)
(* The safety properties lean on one another: a posted message carries its *)
(* sender's frame only because it was blank when it was built, it was      *)
(* blank because every message on the free list is, and that holds because *)
(* a message is never on the list and in a mailbox at once.  IInv is their *)
(* conjunction with the two facts about blank messages, and it is          *)
(* inductive.                                                              *)
(***************************************************************************)
EXTENDS MessagePool, SequenceTheorems, FiniteSetTheorems, TLAPS

(* A message on the free list has no payload (msg_clear in recycle).       *)
FreeIsBlank == \A m \in Msg : InList(m) => payload[m] = <<>>

(* A message that was produced and not posted yet has none either, and is  *)
(* addressed to a mailbox its thread writes to.                            *)
BuiltIsBlank ==
  \A t \in Thread : built[t] # None =>
    /\ payload[built[t]] = <<>>
    /\ id[built[t]] \in Mailbox
    /\ t \in Writers[id[built[t]]]

IInv ==
  /\ TypeOK
  /\ NoLoss
  /\ NoTwin
  /\ CopyAgrees
  /\ FrameIntact
  /\ ExitsOnlyWhenDry
  /\ FreeIsBlank
  /\ BuiltIsBlank

----------------------------------------------------------------------------
(* The elements of a sequence without its head.                            *)
LEMMA TailElements ==
  ASSUME NEW S, NEW s \in Seq(S), s # <<>>
  PROVE  /\ Tail(s) \in Seq(S)
         /\ Head(s) \in S
         /\ Head(s) = s[1]
         /\ 1 \in DOMAIN s
         /\ \A i \in DOMAIN Tail(s) : i \in Nat /\ i + 1 \in DOMAIN s /\ Tail(s)[i] = s[i + 1]
         /\ \A i \in DOMAIN s : i = 1 \/ (i - 1 \in DOMAIN Tail(s) /\ Tail(s)[i - 1] = s[i])
BY HeadTailProperties, LenProperties, Len(s) \in Nat \ {0}

(* The elements of a sequence with one more at its end.                    *)
LEMMA AppendElements ==
  ASSUME NEW S, NEW s \in Seq(S), NEW e \in S
  PROVE  /\ Append(s, e) \in Seq(S)
         /\ DOMAIN Append(s, e) = DOMAIN s \cup {Len(s) + 1}
         /\ Len(s) + 1 \notin DOMAIN s
         /\ Append(s, e)[Len(s) + 1] = e
         /\ \A i \in DOMAIN s : Append(s, e)[i] = s[i]
BY AppendProperties, LenProperties

(* The pool of create_msg_factory satisfies the invariant.                 *)
LEMMA InitIInv == Init => IInv
<1> SUFFICES ASSUME Init PROVE IInv
  OBVIOUS
<1> USE DEF Init
<1>1. TypeOK
  <2>1. list \in Seq(Msg)
    BY IsASeq, PoolAssumption DEF Msg
  <2>2. /\ payload \in [Msg -> Seq(Datum)]
        /\ queue \in [Mailbox -> Seq(Copy)]
    OBVIOUS
  <2> QED
    BY <2>1, <2>2 DEF TypeOK
<1>2. \A m \in Msg : InList(m)
  BY PoolAssumption DEF InList, Msg
<1>3. NoLoss
  BY <1>2 DEF NoLoss
<1>4. NoTwin
  BY DEF NoTwin, InQueue, Building, Reading
<1>5. CopyAgrees /\ FrameIntact /\ ExitsOnlyWhenDry
  BY DEF CopyAgrees, FrameIntact, ExitsOnlyWhenDry
<1>6. FreeIsBlank /\ BuiltIsBlank
  BY DEF FreeIsBlank, BuiltIsBlank
<1> QED
  BY <1>1, <1>3, <1>4, <1>5, <1>6 DEF IInv

(* A step that changes nothing keeps the invariant.                        *)
LEMMA StutterIInv == IInv /\ UNCHANGED vars => IInv'
<1> SUFFICES ASSUME IInv, UNCHANGED vars PROVE IInv'
  OBVIOUS
<1>1. TypeOK' /\ ExitsOnlyWhenDry'
  BY DEF IInv, TypeOK, ExitsOnlyWhenDry, vars
<1>2. NoLoss' /\ NoTwin'
  BY DEF IInv, NoLoss, NoTwin, InList, InQueue, Building, Reading, vars
<1>3. CopyAgrees' /\ FrameIntact' /\ FreeIsBlank' /\ BuiltIsBlank'
  BY DEF IInv, CopyAgrees, FrameIntact, FreeIsBlank, BuiltIsBlank, InList, vars
<1> QED
  BY <1>1, <1>2, <1>3 DEF IInv

(* The step that ends the process on an empty free list keeps it too.      *)
LEMMA DryIInv ==
  ASSUME IInv, list = <<>>, exited' = TRUE,
         UNCHANGED <<list, payload, id, queue, built, got, due>>
  PROVE  IInv'
<1>1. TypeOK' /\ ExitsOnlyWhenDry'
  BY DEF IInv, TypeOK, ExitsOnlyWhenDry
<1>2. NoLoss' /\ NoTwin'
  BY DEF IInv, NoLoss, NoTwin, InList, InQueue, Building, Reading
<1>3. CopyAgrees' /\ FrameIntact' /\ FreeIsBlank' /\ BuiltIsBlank'
  BY DEF IInv, CopyAgrees, FrameIntact, FreeIsBlank, BuiltIsBlank, InList
<1> QED
  BY <1>1, <1>2, <1>3 DEF IInv

(* Taking a message off the free list keeps the invariant.                 *)
LEMMA ProduceIInv ==
  ASSUME IInv, NEW t \in Thread, NEW q \in Mailbox, msg_factory_produce(t, q)
  PROVE  IInv'
<1> USE DEF IInv, list_del
<1>1. CASE list = <<>> /\ exited' = TRUE /\ UNCHANGED <<list, id, built>>
  BY <1>1, DryIInv DEF msg_factory_produce
<1>2. CASE list # <<>> /\ list' = list_del(list) /\ UNCHANGED exited
  <2> DEFINE m == Head(list)
  <2>1. /\ id' = [id EXCEPT ![m] = q]
        /\ built' = [built EXCEPT ![t] = m]
        /\ UNCHANGED <<payload, queue, got, due, exited>>
        /\ t \in Writers[q] /\ built[t] = None /\ got[t] = None
        /\ exited = FALSE
    BY <1>2 DEF msg_factory_produce, TypeOK
  <2>2. /\ list' \in Seq(Msg) /\ m \in Msg /\ m = list[1] /\ 1 \in DOMAIN list
        /\ \A i \in DOMAIN list' : i \in Nat /\ i + 1 \in DOMAIN list /\ list'[i] = list[i + 1]
        /\ \A i \in DOMAIN list : i = 1 \/ (i - 1 \in DOMAIN list' /\ list'[i - 1] = list[i])
    BY <1>2, TailElements DEF TypeOK
  <2>3. /\ \A n \in Msg : InList(n) => n = m \/ InList(n)'
        /\ \A n \in Msg : InList(n)' => InList(n) /\ n # m
        /\ InList(m)
    BY <2>2 DEF InList, NoTwin
  <2>4. /\ \A n \in Msg : \A r \in Mailbox : InQueue(n, r)' <=> InQueue(n, r)
        /\ \A n \in Msg : \A u \in Thread : Reading(n, u)' <=> Reading(n, u)
        /\ \A n \in Msg : \A u \in Thread : Building(n, u)' <=> Building(n, u) \/ (n = m /\ u = t)
    BY <2>1, <2>2, PoolAssumption DEF InQueue, Reading, Building, TypeOK
  <2>5. TypeOK'
    BY <2>1, <2>2 DEF TypeOK
  <2>6. NoLoss'
    BY <2>3, <2>4 DEF NoLoss
  <2>7. NoTwin'
    <3>1. \A i, j \in DOMAIN list' : list'[i] = list'[j] => i = j
      BY <2>2 DEF NoTwin
    <3>2. \A r, p \in Mailbox : \A i \in DOMAIN queue'[r], j \in DOMAIN queue'[p] :
            queue'[r][i].msg = queue'[p][j].msg => r = p /\ i = j
      BY <2>1 DEF NoTwin
    <3>3. \A n \in Msg : \A u, v \in Thread :
            /\ Building(n, u)' /\ Building(n, v)' => u = v
            /\ Reading(n, u)' /\ Reading(n, v)' => u = v
            /\ ~(Building(n, u)' /\ Reading(n, v)')
      BY <2>3, <2>4 DEF NoTwin
    <3>4. \A n \in Msg : \A u \in Thread : Building(n, u)' \/ Reading(n, u)' =>
            ~InList(n)' /\ \A r \in Mailbox : ~InQueue(n, r)'
      BY <2>3, <2>4 DEF NoTwin
    <3>5. \A n \in Msg : InList(n)' => \A r \in Mailbox : ~InQueue(n, r)'
      BY <2>3, <2>4 DEF NoTwin
    <3> QED
      BY <3>1, <3>2, <3>3, <3>4, <3>5 DEF NoTwin
  <2>8. CopyAgrees' /\ FrameIntact'
    <3>1. \A r \in Mailbox : \A i \in DOMAIN queue[r] : queue[r][i].msg \in Msg /\ queue[r][i].msg # m
      <4> SUFFICES ASSUME NEW r \in Mailbox, NEW i \in DOMAIN queue[r]
                   PROVE  queue[r][i].msg \in Msg /\ queue[r][i].msg # m
        OBVIOUS
      <4>1. queue[r][i] \in Copy
        BY ElementOfSeq DEF TypeOK
      <4>2. ~InQueue(m, r)
        BY <2>2, <2>3 DEF NoTwin
      <4> QED
        BY <4>1, <4>2 DEF Copy, InQueue
    <3>2. \A u \in Thread : got[u] # None => got[u].msg \in Msg /\ got[u].msg # m
      BY <2>2, <2>3 DEF TypeOK, Copy, NoTwin, Reading
    <3>3. \A n \in Msg : n # m => id'[n] = id[n]
      BY <2>1 DEF TypeOK
    <3>4. FrameIntact'
      BY <2>1 DEF FrameIntact
    <3>5. CopyAgrees'
      BY <2>1, <3>1, <3>2, <3>3 DEF CopyAgrees
    <3> QED
      BY <3>4, <3>5
  <2>9. ExitsOnlyWhenDry' /\ FreeIsBlank' /\ BuiltIsBlank'
    <3>1. FreeIsBlank'
      BY <2>1, <2>3 DEF FreeIsBlank
    <3>2. \A u \in Thread : u # t /\ built[u] # None => built[u] # m /\ built[u] \in Msg
      BY <2>2, <2>3 DEF TypeOK, NoTwin, Building
    <3>3. BuiltIsBlank'
      BY <2>1, <2>2, <2>3, <3>2 DEF BuiltIsBlank, FreeIsBlank, TypeOK
    <3> QED
      BY <2>1, <3>1, <3>3 DEF ExitsOnlyWhenDry
  <2> QED
    BY <2>5, <2>6, <2>7, <2>8, <2>9
<1> QED
  BY <1>1, <1>2 DEF msg_factory_produce

(* Sending a built message keeps the invariant: its frame becomes the      *)
(* whole payload, because the payload was blank.                           *)
LEMMA PostIInv ==
  ASSUME IInv, NEW t \in Thread, NEW q \in Mailbox, NEW f \in Frame[q], mailbox_post(t, f)
  PROVE  IInv'
<1> USE DEF IInv
<1> DEFINE m == built[t]
           r == id[m]
           c == Struct(m, f)
<1>1. /\ m \in Msg /\ r \in Mailbox /\ t \in Writers[r] /\ payload[m] = <<>>
      /\ f \in Frame[r]
      /\ exited = FALSE
      /\ UNCHANGED <<list, id, got, exited>>
  BY DEF mailbox_post, TypeOK, BuiltIsBlank
<1>2. f \in Seq(Datum) /\ Len(f) \in 1 .. PAYLOAD_NUM_MAX
  BY <1>1, FrameAssumption
<1>3. msg_set_data(payload[m], f) = f
  BY <1>1, <1>2, ConcatEmptySeq, PoolAssumption DEF msg_set_data
<1>4. /\ payload' = [payload EXCEPT ![m] = f]
      /\ queue' = [queue EXCEPT ![r] = Append(@, c)]
      /\ built' = [built EXCEPT ![t] = None]
      /\ due' = due \ {t}
  BY <1>3 DEF mailbox_post
<1>5. c \in Copy /\ c.msg = m /\ c.payload_num = Len(f)
  BY <1>1, <1>2, PoolAssumption DEF Struct, Copy
<1>6. queue[r] \in Seq(Copy)
  BY <1>1 DEF TypeOK
<1>7. /\ queue'[r] \in Seq(Copy)
      /\ DOMAIN queue'[r] = DOMAIN queue[r] \cup {Len(queue[r]) + 1}
      /\ Len(queue[r]) + 1 \notin DOMAIN queue[r]
      /\ queue'[r][Len(queue[r]) + 1] = c
      /\ \A i \in DOMAIN queue[r] : queue'[r][i] = queue[r][i]
      /\ \A p \in Mailbox : p # r => queue'[p] = queue[p]
  BY <1>1, <1>4, <1>5, <1>6, AppendElements DEF TypeOK
<1>8. /\ \A n \in Msg : \A p \in Mailbox : InQueue(n, p)' <=> InQueue(n, p) \/ (n = m /\ p = r)
      /\ \A n \in Msg : InList(n)' <=> InList(n)
      /\ \A n \in Msg : \A u \in Thread : Reading(n, u)' <=> Reading(n, u)
      /\ \A n \in Msg : \A u \in Thread : Building(n, u)' <=> Building(n, u) /\ u # t
      /\ Building(m, t) /\ m # None
  <2>1. \A n \in Msg : \A p \in Mailbox : InQueue(n, p)' <=> InQueue(n, p) \/ (n = m /\ p = r)
    BY <1>5, <1>7 DEF InQueue
  <2>2. \A n \in Msg : \A u \in Thread : Building(n, u)' <=> Building(n, u) /\ u # t
    BY <1>4 DEF Building, TypeOK
  <2> QED
    BY <1>1, <2>1, <2>2, PoolAssumption DEF InList, Reading, Building
<1>9. ~InList(m) /\ \A p \in Mailbox : ~InQueue(m, p)
  BY <1>1, <1>8 DEF NoTwin
<1>10. TypeOK'
  BY <1>1, <1>2, <1>4, <1>7 DEF TypeOK
<1>11. NoLoss'
  <2> SUFFICES ASSUME NEW n \in Msg
               PROVE  \/ InList(n)'
                      \/ \E p \in Mailbox : InQueue(n, p)'
                      \/ \E u \in Thread : Building(n, u)' \/ Reading(n, u)'
    BY DEF NoLoss
  <2>1. CASE n = m
    BY <1>1, <1>8, <2>1
  <2>2. CASE n # m
    <3>1. \A u \in Thread : Building(n, u) => Building(n, u)'
      BY <1>8, <2>2 DEF Building
    <3> QED
      BY <1>8, <3>1 DEF NoLoss
  <2> QED
    BY <2>1, <2>2
<1>12. \A p \in Mailbox : \A i \in DOMAIN queue'[p] :
         \/ p = r /\ i = Len(queue[r]) + 1 /\ queue'[p][i] = c
         \/ i \in DOMAIN queue[p] /\ queue'[p][i] = queue[p][i]
  BY <1>7
<1>13. \A p \in Mailbox : \A i \in DOMAIN queue[p] :
         /\ queue[p][i].msg \in Msg /\ queue[p][i].msg # m
         /\ payload'[queue[p][i].msg] = payload[queue[p][i].msg]
  <2> SUFFICES ASSUME NEW p \in Mailbox, NEW i \in DOMAIN queue[p]
               PROVE  /\ queue[p][i].msg \in Msg /\ queue[p][i].msg # m
                      /\ payload'[queue[p][i].msg] = payload[queue[p][i].msg]
    OBVIOUS
  <2>1. queue[p][i] \in Copy
    BY ElementOfSeq DEF TypeOK
  <2> QED
    BY <1>4, <1>9, <2>1 DEF Copy, InQueue, TypeOK
<1>14. payload'[m] = f
  BY <1>1, <1>4 DEF TypeOK
<1>15. NoTwin'
  <2>1. \A i, j \in DOMAIN list' : list'[i] = list'[j] => i = j
    BY <1>1 DEF NoTwin
  <2>2. \A p, s \in Mailbox : \A i \in DOMAIN queue'[p], j \in DOMAIN queue'[s] :
          queue'[p][i].msg = queue'[s][j].msg => p = s /\ i = j
    BY <1>5, <1>12, <1>13 DEF NoTwin
  <2>3. \A n \in Msg : \A u, v \in Thread :
          /\ Building(n, u)' /\ Building(n, v)' => u = v
          /\ Reading(n, u)' /\ Reading(n, v)' => u = v
          /\ ~(Building(n, u)' /\ Reading(n, v)')
    BY <1>8 DEF NoTwin
  <2>4. \A n \in Msg : \A u \in Thread : Building(n, u)' \/ Reading(n, u)' =>
          ~InList(n)' /\ \A p \in Mailbox : ~InQueue(n, p)'
    BY <1>1, <1>8 DEF NoTwin
  <2>5. \A n \in Msg : InList(n)' => \A p \in Mailbox : ~InQueue(n, p)'
    BY <1>8, <1>9 DEF NoTwin
  <2> QED
    BY <2>1, <2>2, <2>3, <2>4, <2>5 DEF NoTwin
<1>16. CopyAgrees'
  <2>1. \A p \in Mailbox : \A i \in DOMAIN queue'[p] :
          /\ id'[queue'[p][i].msg] = p
          /\ queue'[p][i].payload_num = Len(payload'[queue'[p][i].msg])
          /\ queue'[p][i].payload_num > 0
    <3> SUFFICES ASSUME NEW p \in Mailbox, NEW i \in DOMAIN queue'[p]
                 PROVE  /\ id[queue'[p][i].msg] = p
                        /\ queue'[p][i].payload_num = Len(payload'[queue'[p][i].msg])
                        /\ queue'[p][i].payload_num > 0
      BY <1>1
    <3>1. CASE p = r /\ queue'[p][i] = c
      BY <1>2, <1>5, <1>14, <3>1
    <3>2. CASE i \in DOMAIN queue[p] /\ queue'[p][i] = queue[p][i]
      BY <1>13, <3>2 DEF CopyAgrees
    <3> QED
      BY <1>12, <3>1, <3>2
  <2>2. \A u \in Thread : got[u] # None => got[u].msg \in Msg /\ got[u].msg # m
    BY <1>1, <1>8 DEF TypeOK, Copy, NoTwin, Reading
  <2>3. \A u \in Thread : got'[u] # None =>
          /\ u = Reader[id'[got'[u].msg]]
          /\ got'[u].payload_num = Len(payload'[got'[u].msg]) /\ got'[u].payload_num > 0
    BY <1>1, <1>4, <2>2 DEF CopyAgrees, TypeOK
  <2> QED
    BY <2>1, <2>3 DEF CopyAgrees
<1>17. FrameIntact'
  BY <1>1, <1>5, <1>12, <1>13, <1>14 DEF FrameIntact
<1>18. ExitsOnlyWhenDry' /\ FreeIsBlank'
  BY <1>1, <1>4, <1>8, <1>9 DEF ExitsOnlyWhenDry, FreeIsBlank, TypeOK
<1>19. BuiltIsBlank'
  <2>1. \A u \in Thread : built'[u] # None => u # t /\ built'[u] = built[u] /\ built[u] \in Msg /\ built[u] # m
    BY <1>1, <1>4, <1>8 DEF TypeOK, NoTwin, Building
  <2> QED
    BY <1>1, <1>4, <2>1 DEF BuiltIsBlank, TypeOK
<1> QED
  BY <1>10, <1>11, <1>15, <1>16, <1>17, <1>18, <1>19

(* Receiving a message keeps the invariant: the copy moves from the        *)
(* mailbox to its only reader.                                             *)
LEMMA PendIInv ==
  ASSUME IInv, NEW t \in Thread, NEW q \in Mailbox, mailbox_pend(t, q)
  PROVE  IInv'
<1> USE DEF IInv
<1> DEFINE c == Head(queue[q])
<1>1. /\ t = Reader[q] /\ built[t] = None /\ got[t] = None
      /\ queue[q] # <<>>
      /\ got' = [got EXCEPT ![t] = c]
      /\ queue' = [queue EXCEPT ![q] = Tail(@)]
      /\ UNCHANGED <<list, payload, id, built, due, exited>>
  BY DEF mailbox_pend
<1>2. /\ queue'[q] \in Seq(Copy)
      /\ c \in Copy /\ c.msg \in Msg /\ c # None
      /\ c = queue[q][1] /\ 1 \in DOMAIN queue[q]
      /\ \A i \in DOMAIN queue'[q] : i \in Nat /\ i + 1 \in DOMAIN queue[q] /\ queue'[q][i] = queue[q][i + 1]
      /\ \A i \in DOMAIN queue[q] : i = 1 \/ (i - 1 \in DOMAIN queue'[q] /\ queue'[q][i - 1] = queue[q][i])
      /\ \A p \in Mailbox : p # q => queue'[p] = queue[p]
  <2>1. queue[q] \in Seq(Copy) /\ queue'[q] = Tail(queue[q])
    BY <1>1 DEF TypeOK
  <2>2. c \in Copy
    BY <1>1, <2>1, TailElements
  <2>3. c.msg \in Msg /\ c # None
    BY <2>2, PoolAssumption DEF Copy
  <2> QED
    BY <1>1, <2>1, <2>2, <2>3, TailElements DEF TypeOK
<1>3. /\ \A n \in Msg : \A p \in Mailbox : InQueue(n, p)' => InQueue(n, p)
      /\ \A n \in Msg : \A p \in Mailbox : InQueue(n, p) => InQueue(n, p)' \/ n = c.msg
      /\ InQueue(c.msg, q)
  BY <1>2 DEF InQueue
<1>4. \A n \in Msg : n = c.msg => \A p \in Mailbox : ~InQueue(n, p)'
  <2> SUFFICES ASSUME NEW p \in Mailbox, NEW i \in DOMAIN queue'[p], queue'[p][i].msg = c.msg
               PROVE  FALSE
    BY DEF InQueue
  <2>1. CASE p = q
    BY <1>2, <2>1 DEF NoTwin
  <2>2. CASE p # q
    BY <1>2, <2>2 DEF NoTwin
  <2> QED
    BY <2>1, <2>2
<1>5. /\ \A n \in Msg : InList(n)' <=> InList(n)
      /\ \A n \in Msg : \A u \in Thread : Building(n, u)' <=> Building(n, u)
      /\ \A n \in Msg : \A u \in Thread : Reading(n, u)' <=> Reading(n, u) \/ (n = c.msg /\ u = t)
  BY <1>1, <1>2 DEF InList, Building, Reading, TypeOK
<1>6. ~InList(c.msg) /\ \A u \in Thread : ~Building(c.msg, u) /\ ~Reading(c.msg, u)
  BY <1>2, <1>3 DEF NoTwin
<1>7. TypeOK'
  BY <1>1, <1>2 DEF TypeOK
<1>8. NoLoss'
  <2> SUFFICES ASSUME NEW n \in Msg
               PROVE  \/ InList(n)'
                      \/ \E p \in Mailbox : InQueue(n, p)'
                      \/ \E u \in Thread : Building(n, u)' \/ Reading(n, u)'
    BY DEF NoLoss
  <2>1. CASE n = c.msg
    BY <1>2, <1>5, <2>1
  <2>2. CASE n # c.msg
    BY <1>3, <1>5, <2>2 DEF NoLoss
  <2> QED
    BY <2>1, <2>2
<1>9. NoTwin'
  <2>1. \A i, j \in DOMAIN list' : list'[i] = list'[j] => i = j
    BY <1>1 DEF NoTwin
  <2>2. \A p, s \in Mailbox : \A i \in DOMAIN queue'[p], j \in DOMAIN queue'[s] :
          queue'[p][i].msg = queue'[s][j].msg => p = s /\ i = j
    <3> SUFFICES ASSUME NEW p \in Mailbox, NEW s \in Mailbox,
                        NEW i \in DOMAIN queue'[p], NEW j \in DOMAIN queue'[s],
                        queue'[p][i].msg = queue'[s][j].msg
                 PROVE  p = s /\ i = j
      OBVIOUS
    <3>1. CASE p = q /\ s = q
      <4>1. i + 1 = j + 1 /\ i \in Nat /\ j \in Nat
        BY <1>2, <3>1 DEF NoTwin
      <4> QED
        BY <3>1, <4>1
    <3>2. CASE p = q /\ s # q
      <4>1. i + 1 \in DOMAIN queue[p] /\ j \in DOMAIN queue[s]
        BY <1>2, <3>2
      <4>2. queue[p][i + 1].msg = queue[s][j].msg
        BY <1>2, <3>2
      <4> QED
        BY <3>2, <4>1, <4>2 DEF NoTwin
    <3>3. CASE p # q /\ s = q
      <4>1. i \in DOMAIN queue[p] /\ j + 1 \in DOMAIN queue[s]
        BY <1>2, <3>3
      <4>2. queue[p][i].msg = queue[s][j + 1].msg
        BY <1>2, <3>3
      <4> QED
        BY <3>3, <4>1, <4>2 DEF NoTwin
    <3>4. CASE p # q /\ s # q
      BY <1>2, <3>4 DEF NoTwin
    <3> QED
      BY <3>1, <3>2, <3>3, <3>4
  <2>3. \A n \in Msg : \A u, v \in Thread :
          /\ Building(n, u)' /\ Building(n, v)' => u = v
          /\ Reading(n, u)' /\ Reading(n, v)' => u = v
          /\ ~(Building(n, u)' /\ Reading(n, v)')
    BY <1>5, <1>6 DEF NoTwin
  <2>4. \A n \in Msg : \A u \in Thread : Building(n, u)' \/ Reading(n, u)' =>
          ~InList(n)' /\ \A p \in Mailbox : ~InQueue(n, p)'
    BY <1>3, <1>4, <1>5, <1>6 DEF NoTwin
  <2>5. \A n \in Msg : InList(n)' => \A p \in Mailbox : ~InQueue(n, p)'
    BY <1>3, <1>5 DEF NoTwin
  <2> QED
    BY <2>1, <2>2, <2>3, <2>4, <2>5 DEF NoTwin
<1>10. \A p \in Mailbox : \A i \in DOMAIN queue'[p] : \E j \in DOMAIN queue[p] : queue'[p][i] = queue[p][j]
  BY <1>2
<1>11. CopyAgrees'
  <2>1. \A p \in Mailbox : \A i \in DOMAIN queue'[p] :
          /\ id'[queue'[p][i].msg] = p
          /\ queue'[p][i].payload_num = Len(payload'[queue'[p][i].msg])
          /\ queue'[p][i].payload_num > 0
    BY <1>1, <1>10 DEF CopyAgrees
  <2>2. \A u \in Thread : got'[u] # None =>
          /\ u = Reader[id'[got'[u].msg]]
          /\ got'[u].payload_num = Len(payload'[got'[u].msg]) /\ got'[u].payload_num > 0
    BY <1>1, <1>2 DEF CopyAgrees, TypeOK
  <2> QED
    BY <2>1, <2>2 DEF CopyAgrees
<1>12. FrameIntact'
  BY <1>1, <1>10 DEF FrameIntact
<1>13. ExitsOnlyWhenDry' /\ FreeIsBlank' /\ BuiltIsBlank'
  BY <1>1, <1>5 DEF ExitsOnlyWhenDry, FreeIsBlank, BuiltIsBlank
<1> QED
  BY <1>7, <1>8, <1>9, <1>11, <1>12, <1>13

(* Reading a payload keeps the invariant: a received copy has at least one *)
(* payload, so the first get_data finds one and the others are counted.    *)
LEMMA GetDataIInv ==
  ASSUME IInv, NEW t \in Thread, msg_get_data(t)
  PROVE  IInv'
<1> USE DEF IInv
<1>1. /\ got[t] \in Copy /\ got[t] # None /\ MayGet(got[t])
      /\ got[t].payload_num > 0
      /\ UNCHANGED <<list, payload, id, queue, built, due>>
  BY DEF msg_get_data, TypeOK, CopyAgrees
<1>2. /\ got[t].cur_payload_idx # got[t].payload_num
      /\ got' = [got EXCEPT ![t].cur_payload_idx = @ + 1]
      /\ UNCHANGED exited
  BY <1>1 DEF msg_get_data, MayGet, Copy
<1>3. /\ got'[t] \in Copy /\ got'[t] # None
      /\ got'[t].msg = got[t].msg /\ got'[t].payload_num = got[t].payload_num
      /\ \A u \in Thread : u # t => got'[u] = got[u]
      /\ got' \in [Thread -> Copy \cup {None}]
  <2>1. got[t].cur_payload_idx + 1 \in 0 .. PAYLOAD_NUM_MAX
    BY <1>1, <1>2, PoolAssumption DEF MayGet, Copy
  <2>2. [got[t] EXCEPT !.cur_payload_idx = @ + 1] \in Copy
    BY <1>1, <2>1 DEF Copy
  <2>3. got'[t] = [got[t] EXCEPT !.cur_payload_idx = @ + 1] /\ \A u \in Thread : u # t => got'[u] = got[u]
    BY <1>2 DEF TypeOK
  <2>4. got'[t].msg = got[t].msg /\ got'[t].payload_num = got[t].payload_num
    BY <1>1, <2>3 DEF Copy
  <2>5. got' \in [Thread -> Copy \cup {None}]
    BY <1>2, <2>2, <2>3 DEF TypeOK
  <2> QED
    BY <2>2, <2>3, <2>4, <2>5, PoolAssumption
<1>4. /\ \A n \in Msg : InList(n)' <=> InList(n)
      /\ \A n \in Msg : \A p \in Mailbox : InQueue(n, p)' <=> InQueue(n, p)
      /\ \A n \in Msg : \A u \in Thread : Building(n, u)' <=> Building(n, u)
      /\ \A n \in Msg : \A u \in Thread : Reading(n, u)' <=> Reading(n, u)
  BY <1>1, <1>3 DEF InList, InQueue, Building, Reading
<1>5. TypeOK'
  BY <1>1, <1>2, <1>3 DEF TypeOK
<1>6. NoLoss'
  BY <1>4 DEF NoLoss
<1>7. NoTwin'
  BY <1>1, <1>4 DEF NoTwin
<1>8. CopyAgrees'
  BY <1>1, <1>3 DEF CopyAgrees
<1>9. FrameIntact' /\ ExitsOnlyWhenDry' /\ FreeIsBlank' /\ BuiltIsBlank'
  BY <1>1, <1>2, <1>4 DEF FrameIntact, ExitsOnlyWhenDry, FreeIsBlank, BuiltIsBlank
<1> QED
  BY <1>5, <1>6, <1>7, <1>8, <1>9

(* Recycling a message keeps the invariant: it returns blank.              *)
LEMMA RecycleIInv ==
  ASSUME IInv, NEW t \in Thread, msg_factory_recycle(t)
  PROVE  IInv'
<1> USE DEF IInv
<1>1. PICK m \in Msg : m = got[t].msg
  BY DEF msg_factory_recycle, TypeOK, Copy
<1>2. /\ Reading(m, t) /\ got[t] # None
      /\ payload' = [payload EXCEPT ![m] = <<>>]
      /\ id' = [id EXCEPT ![m] = None]
      /\ list' = Append(list, m)
      /\ got' = [got EXCEPT ![t] = None]
      /\ due' = due \cup ({t} \cap Relay)
      /\ exited = FALSE
      /\ UNCHANGED <<queue, built, exited>>
  BY <1>1 DEF msg_factory_recycle, msg_clear, list_add_tail, Reading, TypeOK
<1>3. /\ list' \in Seq(Msg)
      /\ DOMAIN list' = DOMAIN list \cup {Len(list) + 1}
      /\ list'[Len(list) + 1] = m
      /\ \A i \in DOMAIN list : list'[i] = list[i]
  BY <1>2, AppendElements DEF TypeOK
<1>4. /\ \A n \in Msg : InList(n)' <=> InList(n) \/ n = m
      /\ \A n \in Msg : \A p \in Mailbox : InQueue(n, p)' <=> InQueue(n, p)
      /\ \A n \in Msg : \A u \in Thread : Building(n, u)' <=> Building(n, u)
      /\ \A n \in Msg : \A u \in Thread : Reading(n, u)' <=> Reading(n, u) /\ u # t
  BY <1>2, <1>3 DEF InList, InQueue, Building, Reading, TypeOK
<1>5. /\ ~InList(m)
      /\ \A p \in Mailbox : ~InQueue(m, p)
      /\ \A u \in Thread : ~Building(m, u) /\ (Reading(m, u) => u = t)
  BY <1>2 DEF NoTwin
<1>6. TypeOK'
  BY <1>2, <1>3 DEF TypeOK
<1>7. NoLoss'
  <2>1. \A n \in Msg : n # m => ~Reading(n, t)
    BY <1>1 DEF Reading
  <2> QED
    BY <1>4, <2>1 DEF NoLoss
<1>8. NoTwin'
  <2>1. \A i, j \in DOMAIN list' : list'[i] = list'[j] => i = j
    BY <1>3, <1>5 DEF NoTwin, InList
  <2>2. \A p, s \in Mailbox : \A i \in DOMAIN queue'[p], j \in DOMAIN queue'[s] :
          queue'[p][i].msg = queue'[s][j].msg => p = s /\ i = j
    BY <1>2 DEF NoTwin
  <2>3. \A n \in Msg : \A u, v \in Thread :
          /\ Building(n, u)' /\ Building(n, v)' => u = v
          /\ Reading(n, u)' /\ Reading(n, v)' => u = v
          /\ ~(Building(n, u)' /\ Reading(n, v)')
    BY <1>4 DEF NoTwin
  <2>4. \A n \in Msg : \A u \in Thread : Building(n, u)' \/ Reading(n, u)' =>
          ~InList(n)' /\ \A p \in Mailbox : ~InQueue(n, p)'
    BY <1>4, <1>5 DEF NoTwin
  <2>5. \A n \in Msg : InList(n)' => \A p \in Mailbox : ~InQueue(n, p)'
    BY <1>4, <1>5 DEF NoTwin
  <2> QED
    BY <2>1, <2>2, <2>3, <2>4, <2>5 DEF NoTwin
<1>9. \A n \in Msg : n # m => payload'[n] = payload[n] /\ id'[n] = id[n]
  BY <1>2 DEF TypeOK
<1>10. \A p \in Mailbox : \A i \in DOMAIN queue[p] : queue[p][i].msg \in Msg /\ queue[p][i].msg # m
  <2> SUFFICES ASSUME NEW p \in Mailbox, NEW i \in DOMAIN queue[p]
               PROVE  queue[p][i].msg \in Msg /\ queue[p][i].msg # m
    OBVIOUS
  <2>1. queue[p][i] \in Copy
    BY ElementOfSeq DEF TypeOK
  <2> QED
    BY <1>5, <2>1 DEF Copy, InQueue
<1>11. \A u \in Thread : got'[u] # None => got'[u] = got[u] /\ got[u].msg \in Msg /\ got[u].msg # m
  BY <1>2, <1>5 DEF TypeOK, Copy, Reading
<1>12. CopyAgrees' /\ FrameIntact'
  BY <1>2, <1>9, <1>10, <1>11 DEF CopyAgrees, FrameIntact
<1>13. ExitsOnlyWhenDry' /\ FreeIsBlank'
  BY <1>2, <1>4, <1>9 DEF ExitsOnlyWhenDry, FreeIsBlank, TypeOK
<1>14. BuiltIsBlank'
  <2>1. \A u \in Thread : built[u] # None => built[u] \in Msg /\ built[u] # m
    BY <1>5 DEF TypeOK, Building
  <2> QED
    BY <1>2, <1>9, <2>1 DEF BuiltIsBlank
<1> QED
  BY <1>6, <1>7, <1>8, <1>12, <1>13, <1>14

----------------------------------------------------------------------------
(* The inductive invariant holds in every reachable state.                 *)
THEOREM Invariance == Spec => []IInv
<1>1. ASSUME IInv, Next PROVE IInv'
  <2> SUFFICES ASSUME NEW t \in Thread,
                      \/ \E q \in Mailbox : msg_factory_produce(t, q)
                      \/ \E q \in Mailbox : \E f \in Frame[q] : mailbox_post(t, f)
                      \/ \E q \in Mailbox : mailbox_pend(t, q)
                      \/ msg_get_data(t)
                      \/ msg_factory_recycle(t)
               PROVE  IInv'
    BY <1>1 DEF Next
  <2> QED
    BY <1>1, ProduceIInv, PostIInv, PendIInv, GetDataIInv, RecycleIInv
<1>2. IInv /\ [Next]_vars => IInv'
  BY <1>1, StutterIInv
<1> QED
  BY <1>2, InitIInv, PTL DEF Spec

(* Types of the pool's variables, for every size of the pool.              *)
THEOREM TypeCorrect == Spec => []TypeOK
BY Invariance, PTL DEF IInv

(* Every message is in exactly one place: never lost and never in two, for *)
(* any number of messages, tasks and mailboxes (msg_factory.c:83-136).     *)
THEOREM PoolInOnePlace == Spec => []InOnePlace
BY Invariance, PTL DEF IInv, InOnePlace

(* A waiting message carries a frame of its mailbox, whole, and a reader's *)
(* copy agrees with the pool's original until it is recycled               *)
(* (mailbox.c:33-59, message.c:11-90).                                     *)
THEOREM PoolMessageIntact == Spec => []MessageIntact
BY Invariance, PTL DEF IInv, MessageIntact

(* The pool never stops the process unless its free list is empty.         *)
THEOREM PoolExitsOnlyWhenDry == Spec => []ExitsOnlyWhenDry
BY Invariance, PTL DEF IInv

(* Sending never blocks: the structs in a mailbox belong to different      *)
(* messages, none of which is the one being sent, so they are fewer than   *)
(* the pool's messages and than mq_maxmsg.                                 *)
THEOREM SendNeverBlocks == Spec => []PostNeverBlocks
<1>1. IInv => PostNeverBlocks
  <2> SUFFICES ASSUME IInv, NEW t \in Thread, built[t] # None
               PROVE  Len(queue[id[built[t]]]) < mq_maxmsg
    BY DEF PostNeverBlocks
  <2> DEFINE m == built[t]
             q == id[m]
             n == Len(queue[q])
             S == 1 .. n
             T == Msg \ {m}
  <2>1. m \in Msg /\ q \in Mailbox /\ Building(m, t)
    BY DEF IInv, TypeOK, BuiltIsBlank, Building
  <2>2. queue[q] \in Seq(Copy) /\ n \in Nat /\ DOMAIN queue[q] = S
    BY <2>1, LenProperties DEF IInv, TypeOK
  <2> DEFINE f == [i \in S |-> queue[q][i].msg]
  <2>3. f \in Injection(S, T)
    <3>1. \A i \in S : f[i] \in T
      <4> SUFFICES ASSUME NEW i \in S PROVE queue[q][i].msg \in T
        OBVIOUS
      <4>1. queue[q][i] \in Copy
        BY <2>2, ElementOfSeq
      <4>2. ~InQueue(m, q)
        BY <2>1 DEF IInv, NoTwin
      <4> QED
        BY <2>2, <4>1, <4>2 DEF Copy, InQueue
    <3>2. \A i, j \in S : f[i] = f[j] => i = j
      BY <2>1, <2>2 DEF IInv, NoTwin
    <3> QED
      BY <3>1, <3>2 DEF Injection, IsInjective
  <2>4. IsFiniteSet(Msg) /\ Cardinality(Msg) = MSG_NUM_MAX
    BY FS_Interval, PoolAssumption DEF Msg
  <2>5. IsFiniteSet(T) /\ Cardinality(T) = MSG_NUM_MAX - 1
    BY <2>1, <2>4, FS_RemoveElement
  <2>6. Cardinality(S) = n
    BY <2>2, FS_Interval
  <2>7. Cardinality(S) <= Cardinality(T)
    BY <2>3, <2>5, FS_Injection
  <2> QED
    BY <2>2, <2>5, <2>6, <2>7, PoolAssumption DEF mq_maxmsg
<1> QED
  BY <1>1, Invariance, PTL

(* Nothing but an empty pool keeps a task from sending, for any number of  *)
(* messages, tasks and mailboxes (mailbox.c:21, 39, msg_factory.c:91).     *)
THEOREM PoolServesSenders == Spec => []SendersServed
BY PoolExitsOnlyWhenDry, SendNeverBlocks, PTL DEF SendersServed

----------------------------------------------------------------------------
(* The refinement of MailLine: each step of the pool is a step of the line *)
(* of frames or leaves what the tasks see alone.                           *)

(* A copy that waits in a mailbox has not been read: get_data advances the *)
(* index of the receiver's own copy (mailbox.c:33-59, message.c:28-55).    *)
Unread == \A q \in Mailbox : \A i \in 1 .. Len(queue[q]) : queue[q][i].cur_payload_idx = 0

(* A step adds at most a fresh copy to a mailbox, or takes its head.       *)
LEMMA UnreadInvariance == Spec => []Unread
<1>1. Init => Unread
  BY DEF Init, Unread
<1>2. ASSUME IInv, Unread, Next PROVE Unread'
  <2> SUFFICES ASSUME NEW t \in Thread,
                      \/ \E q \in Mailbox : msg_factory_produce(t, q)
                      \/ \E q \in Mailbox : \E f \in Frame[q] : mailbox_post(t, f)
                      \/ \E q \in Mailbox : mailbox_pend(t, q)
                      \/ msg_get_data(t)
                      \/ msg_factory_recycle(t)
               PROVE  Unread'
    BY <1>2 DEF Next
  <2>1. CASE UNCHANGED queue
    BY <1>2, <2>1 DEF Unread
  <2>2. ASSUME NEW q \in Mailbox, NEW f \in Frame[q], mailbox_post(t, f) PROVE Unread'
    <3> DEFINE m == built[t]
               r == id[m]
               c == Struct(m, msg_set_data(payload[m], f))
    <3>1. m \in Msg /\ r \in Mailbox /\ queue' = [queue EXCEPT ![r] = Append(@, c)]
      BY <1>2, <2>2 DEF mailbox_post, IInv, TypeOK, BuiltIsBlank
    <3>2. queue[r] \in Seq(Copy) /\ queue'[r] = Append(queue[r], c) /\ c.cur_payload_idx = 0
          /\ \A p \in Mailbox : p # r => queue'[p] = queue[p]
      <4>1. queue \in [Mailbox -> Seq(Copy)]
        BY <1>2 DEF IInv, TypeOK
      <4>2. c.cur_payload_idx = 0
        BY DEF Struct
      <4> HIDE DEF c
      <4> QED
        BY <3>1, <4>1, <4>2
    <3>3. \A i \in 1 .. Len(queue'[r]) : queue'[r][i].cur_payload_idx = 0
      <4> HIDE DEF c
      <4>1. /\ Len(queue[r]) \in Nat /\ Len(queue'[r]) = Len(queue[r]) + 1
            /\ queue'[r][Len(queue[r]) + 1] = c
            /\ \A i \in 1 .. Len(queue[r]) : queue'[r][i] = queue[r][i]
        BY <3>2
      <4> QED
        BY <1>2, <3>1, <3>2, <4>1 DEF Unread
    <3>4. ASSUME NEW p \in Mailbox, p # r PROVE \A i \in 1 .. Len(queue'[p]) : queue'[p][i].cur_payload_idx = 0
      <4>1. queue'[p] = queue[p]
        BY <3>2, <3>4
      <4> QED
        BY <1>2, <4>1 DEF Unread
    <3> QED
      BY <3>3, <3>4 DEF Unread
  <2>3. ASSUME NEW q \in Mailbox, mailbox_pend(t, q) PROVE Unread'
    <3>1. /\ queue[q] \in Seq(Copy) /\ queue[q] # <<>> /\ queue'[q] = Tail(queue[q])
          /\ \A p \in Mailbox : p # q => queue'[p] = queue[p]
      BY <1>2, <2>3 DEF mailbox_pend, IInv, TypeOK
    <3>2. /\ Len(queue[q]) \in Nat /\ Len(queue'[q]) = Len(queue[q]) - 1
          /\ \A i \in 1 .. Len(queue'[q]) : queue'[q][i] = queue[q][i + 1]
      BY <3>1, HeadTailProperties, LenProperties
    <3>3. \A i \in 1 .. Len(queue'[q]) : queue'[q][i].cur_payload_idx = 0
      BY <1>2, <3>2 DEF Unread
    <3> QED
      BY <1>2, <3>1, <3>3 DEF Unread
  <2> QED
    BY <2>1, <2>2, <2>3 DEF msg_factory_produce, msg_get_data, msg_factory_recycle
<1>3. Unread /\ UNCHANGED vars => Unread'
  BY DEF Unread, vars
<1> QED
  BY <1>1, <1>2, <1>3, Invariance, PTL DEF Spec

(* A sequence is another one with an element appended when it has those    *)
(* elements, and the tail of another one likewise.                         *)
LEMMA IsAppend ==
  ASSUME NEW S, NEW s \in Seq(S), NEW e \in S, NEW u \in Seq(S),
         Len(u) = Len(s) + 1, u[Len(s) + 1] = e,
         \A i \in 1 .. Len(s) : u[i] = s[i]
  PROVE  u = Append(s, e)
<1> DEFINE v == Append(s, e)
<1>1. v \in Seq(S) /\ Len(v) = Len(s) + 1 /\ v[Len(s) + 1] = e
  BY AppendProperties
<1>2. \A i \in 1 .. Len(s) : v[i] = s[i]
  BY AppendProperties
<1>3. Len(s) \in Nat
  BY LenProperties
<1> HIDE DEF v
<1>4. \A i \in 1 .. Len(u) : u[i] = v[i]
  BY <1>1, <1>2, <1>3
<1>5. u = v
  BY <1>1, <1>4, SeqEqual
<1> QED
  BY <1>5 DEF v

LEMMA IsTail ==
  ASSUME NEW S, NEW s \in Seq(S), s # <<>>, NEW u \in Seq(S),
         Len(u) = Len(s) - 1,
         \A i \in 1 .. Len(u) : u[i] = s[i + 1]
  PROVE  u = Tail(s)
<1> DEFINE v == Tail(s)
<1>1. v \in Seq(S) /\ Len(v) = Len(s) - 1 /\ \A i \in 1 .. Len(v) : v[i] = s[i + 1]
  BY HeadTailProperties
<1> HIDE DEF v
<1>2. u = v
  BY <1>1, SeqEqual
<1> QED
  BY <1>2 DEF v

(* The frames behind a sequence of struct copies are a sequence as long.   *)
Frames(s, p) == [i \in DOMAIN s |-> p[s[i].msg]]
LEMMA FramesOf ==
  ASSUME NEW s \in Seq(Copy), NEW p \in [Msg -> Seq(Datum)]
  PROVE  /\ Frames(s, p) \in Seq(Seq(Datum))
         /\ Len(Frames(s, p)) = Len(s)
         /\ \A i \in 1 .. Len(s) : s[i].msg \in Msg /\ Frames(s, p)[i] = p[s[i].msg]
<1> DEFINE F == Frames(s, p)
<1>1. DOMAIN s = 1 .. Len(s) /\ Len(s) \in Nat
  BY LenProperties
<1>2. \A i \in DOMAIN s : s[i] \in Copy
  BY ElementOfSeq, <1>1
<1>3. \A i \in DOMAIN s : s[i].msg \in Msg /\ p[s[i].msg] \in Seq(Datum)
  BY <1>2 DEF Copy
<1>4. F \in Seq(Seq(Datum)) /\ Len(F) = Len(s)
  <2>1. F = [i \in 1 .. Len(s) |-> p[s[i].msg]]
    BY <1>1 DEF Frames
  <2> HIDE DEF F
  <2> QED
    BY <1>1, <1>3, <2>1
<1>5. \A i \in 1 .. Len(s) : s[i].msg \in Msg /\ F[i] = p[s[i].msg]
  BY <1>1, <1>3 DEF Frames
<1> QED
  BY <1>1, <1>4, <1>5

(* What a task sees of the message it reads is a frame, never None.        *)
LEMMA ReaderSees ==
  ASSUME IInv, NEW t \in Thread, got[t] # None
  PROVE  /\ got[t] \in Copy /\ got[t].msg \in Msg
         /\ reading[t] = [frame |-> payload[got[t].msg], taken |-> got[t].cur_payload_idx]
         /\ reading[t] # None
<1>1. got[t] \in Copy
  BY DEF IInv, TypeOK
<1>2. got[t].msg \in Msg /\ got[t].cur_payload_idx \in Nat
  BY <1>1 DEF Copy
<1>3. payload[got[t].msg] \in Seq(Datum)
  BY <1>2 DEF IInv, TypeOK
<1>4. reading[t] = [frame |-> payload[got[t].msg], taken |-> got[t].cur_payload_idx]
  BY DEF reading
<1> QED
  BY <1>1, <1>2, <1>3, <1>4, PoolAssumption

(* The pool begins as an empty line with every message to spare.           *)
LEMMA InitRefines == Init => Line!Init
<1> SUFFICES ASSUME Init PROVE Line!Init
  OBVIOUS
<1> USE DEF Init
<1>1. Len(list) = MSG_NUM_MAX
  BY PoolAssumption
<1>2. writing = [t \in Thread |-> None] /\ reading = [t \in Thread |-> None]
  BY DEF writing, reading
<1>3. \A q \in Mailbox : [i \in DOMAIN queue[q] |-> payload[queue[q][i].msg]] = <<>>
  OBVIOUS
<1>4. mail = [q \in Mailbox |-> <<>>]
  BY <1>3 DEF mail
<1> QED
  BY <1>1, <1>2, <1>4 DEF Line!Init

(* msg_factory_produce takes one of the spare messages, or ends the        *)
(* process, which the tasks see no message of.                             *)
LEMMA ProduceRefines ==
  ASSUME IInv, NEW t \in Thread, NEW q \in Mailbox, msg_factory_produce(t, q)
  PROVE  Line!Take(t, q) \/ UNCHANGED Line!lineVars
<1> USE DEF IInv, list_del
<1>1. CASE list = <<>> /\ exited' = TRUE /\ UNCHANGED <<list, id, built>>
  BY <1>1 DEF msg_factory_produce, Line!lineVars, writing, mail, reading
<1>2. CASE list # <<>> /\ list' = list_del(list) /\ UNCHANGED exited
  <2> DEFINE m == Head(list)
  <2>1. /\ id' = [id EXCEPT ![m] = q]
        /\ built' = [built EXCEPT ![t] = m]
        /\ UNCHANGED <<payload, queue, got>>
        /\ t \in Writers[q] /\ built[t] = None /\ got[t] = None
    BY <1>2 DEF msg_factory_produce
  <2>2. m \in Msg /\ InList(m) /\ m # None
    BY <1>2, TailElements, PoolAssumption DEF TypeOK, InList
  <2>3. Len(list) > 0 /\ Len(list') = Len(list) - 1
    BY <1>2, HeadTailProperties, LenProperties, EmptySeq DEF TypeOK
  <2>4. \A u \in Thread : built[u] # None => built[u] \in Msg /\ built[u] # m
    BY <2>2 DEF TypeOK, NoTwin, Building
  <2>5. writing' = [writing EXCEPT ![t] = q]
    <3>1. writing'[t] = q
      BY <2>1, <2>2 DEF writing, TypeOK
    <3>2. \A u \in Thread : u # t => writing'[u] = writing[u]
      BY <2>1, <2>4 DEF writing, TypeOK
    <3> QED
      BY <3>1, <3>2 DEF writing
  <2>6. mail' = mail /\ reading' = reading
    BY <2>1 DEF mail, reading
  <2>7. writing[t] = None /\ reading[t] = None
    BY <2>1 DEF writing, reading
  <2> QED
    BY <2>1, <2>3, <2>5, <2>6, <2>7 DEF Line!Take
<1> QED
  BY <1>1, <1>2 DEF msg_factory_produce

(* mailbox_post appends the frame itself, whole, to the line of frames:    *)
(* the message was blank, and no payload that waits or is read is its own. *)
LEMMA PostRefines ==
  ASSUME IInv, NEW t \in Thread, NEW q \in Mailbox, NEW f \in Frame[q], mailbox_post(t, f)
  PROVE  \E r \in Mailbox : f \in Frame[r] /\ Line!Send(t, r, f)
<1> DEFINE m == built[t]
           r == id[m]
           c == Struct(m, f)
<1>1. /\ m \in Msg /\ r \in Mailbox /\ payload[m] = <<>> /\ m # None
      /\ f \in Frame[r] /\ Building(m, t)
      /\ UNCHANGED <<list, id, got>>
  BY DEF mailbox_post, IInv, TypeOK, BuiltIsBlank, Building
<1>2. f \in Seq(Datum) /\ Len(f) \in 1 .. PAYLOAD_NUM_MAX
  BY <1>1, FrameAssumption
<1>3. msg_set_data(payload[m], f) = f
  BY <1>1, <1>2, ConcatEmptySeq, PoolAssumption DEF msg_set_data
<1>4. /\ payload' = [payload EXCEPT ![m] = f]
      /\ queue' = [queue EXCEPT ![r] = Append(@, c)]
      /\ built' = [built EXCEPT ![t] = None]
  BY <1>3 DEF mailbox_post
<1>5. c \in Copy /\ c.msg = m
  BY <1>1, <1>2, PoolAssumption DEF Struct, Copy
<1>6. payload' \in [Msg -> Seq(Datum)] /\ payload'[m] = f
      /\ \A n \in Msg : n # m => payload'[n] = payload[n]
  BY <1>1, <1>2, <1>4 DEF IInv, TypeOK
<1>7. \A p \in Mailbox : \A i \in DOMAIN queue[p] :
        queue[p][i].msg \in Msg /\ queue[p][i].msg # m
  <2> SUFFICES ASSUME NEW p \in Mailbox, NEW i \in DOMAIN queue[p]
               PROVE  queue[p][i].msg \in Msg /\ queue[p][i].msg # m
    OBVIOUS
  <2>1. queue[p][i] \in Copy
    BY ElementOfSeq DEF IInv, TypeOK
  <2>2. ~InQueue(m, p)
    BY <1>1 DEF IInv, NoTwin
  <2> QED
    BY <2>1, <2>2 DEF Copy, InQueue
<1> HIDE DEF c
<1>8. \A p \in Mailbox : p # r => mail'[p] = mail[p]
  BY <1>1, <1>4, <1>6, <1>7 DEF mail, IInv, TypeOK
<1>9. mail'[r] = Append(mail[r], f)
  <2>1. queue[r] \in Seq(Copy)
    BY <1>1 DEF IInv, TypeOK
  <2>2. queue'[r] = Append(queue[r], c)
    <3>1. queue \in [Mailbox -> Seq(Copy)]
      BY DEF IInv, TypeOK
    <3> QED
      BY <1>1, <1>4, <3>1
  <2>a. Len(queue'[r]) = Len(queue[r]) + 1
    BY <1>5, <2>1, <2>2, AppendProperties
  <2>3. /\ queue'[r] \in Seq(Copy)
        /\ Len(queue'[r]) = Len(queue[r]) + 1
        /\ queue'[r][Len(queue[r]) + 1] = c
        /\ \A i \in 1 .. Len(queue[r]) : queue'[r][i] = queue[r][i]
    BY <1>5, <2>1, <2>2, AppendProperties
  <2>4. mail[r] = Frames(queue[r], payload) /\ mail'[r] = Frames(queue'[r], payload')
    BY <1>1 DEF mail, Frames
  <2>5. /\ mail[r] \in Seq(Seq(Datum)) /\ Len(mail[r]) = Len(queue[r])
        /\ Len(queue[r]) \in Nat
        /\ \A i \in 1 .. Len(queue[r]) : mail[r][i] = payload[queue[r][i].msg]
    <3>1. payload \in [Msg -> Seq(Datum)]
      BY DEF IInv, TypeOK
    <3> QED
      BY <2>1, <2>4, <3>1, FramesOf, LenProperties
  <2>6. /\ mail'[r] \in Seq(Seq(Datum)) /\ Len(mail'[r]) = Len(queue'[r])
        /\ \A i \in 1 .. Len(queue'[r]) : mail'[r][i] = payload'[queue'[r][i].msg]
    BY <1>6, <2>3, <2>4, FramesOf
  <2>7. \A i \in 1 .. Len(queue[r]) : mail'[r][i] = mail[r][i]
    <3> SUFFICES ASSUME NEW i \in 1 .. Len(queue[r]) PROVE mail'[r][i] = mail[r][i]
      OBVIOUS
    <3>1. i \in 1 .. Len(queue'[r]) /\ i \in DOMAIN queue[r]
      BY <2>1, <2>3, <2>5, LenProperties
    <3>2. queue'[r][i] = queue[r][i] /\ queue[r][i].msg \in Msg /\ queue[r][i].msg # m
      BY <1>1, <1>7, <2>3, <3>1
    <3> QED
      BY <1>6, <2>5, <2>6, <3>1, <3>2
  <2>8. mail'[r][Len(queue[r]) + 1] = f
    <3>1. Len(queue[r]) + 1 \in 1 .. Len(queue'[r])
      BY <2>3, <2>5
    <3>2. payload'[queue'[r][Len(queue[r]) + 1].msg] = f
      BY <1>5, <1>6, <2>3
    <3> QED
      BY <2>6, <3>1, <3>2
  <2>9. /\ Len(mail'[r]) = Len(mail[r]) + 1 /\ mail'[r][Len(mail[r]) + 1] = f
        /\ \A i \in 1 .. Len(mail[r]) : mail'[r][i] = mail[r][i]
    <3>1. Len(mail[r]) = Len(queue[r])
      BY <2>5
    <3>2. Len(mail'[r]) = Len(mail[r]) + 1
      <4>1. Len(mail'[r]) = Len(queue'[r])
        BY <2>6
      <4> QED
        BY <2>a, <3>1, <4>1
    <3> QED
      BY <2>7, <2>8, <3>1, <3>2
  <2> QED
    BY <1>2, <2>5, <2>6, <2>9, IsAppend, Zenon
<1>10. mail' = [mail EXCEPT ![r] = Append(@, f)]
  BY <1>1, <1>8, <1>9 DEF mail
<1>11. writing[t] = r /\ writing' = [writing EXCEPT ![t] = None]
  BY <1>1, <1>4 DEF writing, IInv, TypeOK
<1>12. reading' = reading
  <2>1. \A u \in Thread : got[u] # None => got[u].msg \in Msg /\ got[u].msg # m
    BY <1>1 DEF IInv, TypeOK, Copy, NoTwin, Reading
  <2> QED
    BY <1>1, <1>6, <2>1 DEF reading
<1>13. Line!Send(t, r, f)
  BY <1>1, <1>10, <1>11, <1>12 DEF Line!Send
<1> QED
  BY <1>1, <1>13

(* mailbox_pend takes the oldest frame off the line.                       *)
LEMMA PendRefines ==
  ASSUME IInv, Unread, NEW t \in Thread, NEW q \in Mailbox, mailbox_pend(t, q)
  PROVE  Line!Receive(t, q)
<1> DEFINE c == Head(queue[q])
<1>1. /\ t = Reader[q] /\ built[t] = None /\ got[t] = None
      /\ queue[q] # <<>> /\ queue[q] \in Seq(Copy)
      /\ got' = [got EXCEPT ![t] = c]
      /\ queue' = [queue EXCEPT ![q] = Tail(@)]
      /\ UNCHANGED <<list, payload, id, built>>
  BY DEF mailbox_pend, IInv, TypeOK
<1>2. /\ c \in Copy /\ c = queue[q][1]
      /\ queue'[q] = Tail(queue[q]) /\ queue'[q] \in Seq(Copy)
      /\ Len(queue[q]) \in Nat /\ Len(queue[q]) > 0 /\ Len(queue'[q]) = Len(queue[q]) - 1
      /\ \A i \in 1 .. Len(queue'[q]) : queue'[q][i] = queue[q][i + 1]
  BY <1>1, HeadTailProperties, LenProperties, EmptySeq DEF IInv, TypeOK
<1>3. c # None /\ c.msg \in Msg
  BY <1>2, PoolAssumption DEF Copy
<1>4. mail[q] = Frames(queue[q], payload) /\ mail'[q] = Frames(queue'[q], payload)
  BY <1>1 DEF mail, Frames
<1>a. payload \in [Msg -> Seq(Datum)]
  BY DEF IInv, TypeOK
<1>5. /\ mail[q] \in Seq(Seq(Datum)) /\ Len(mail[q]) = Len(queue[q])
      /\ \A i \in 1 .. Len(queue[q]) : mail[q][i] = payload[queue[q][i].msg]
  BY <1>1, <1>4, <1>a, FramesOf
<1>6. /\ mail'[q] \in Seq(Seq(Datum)) /\ Len(mail'[q]) = Len(queue'[q])
      /\ \A i \in 1 .. Len(queue'[q]) : mail'[q][i] = payload[queue'[q][i].msg]
  BY <1>2, <1>4, <1>a, FramesOf
<1>7. mail[q] # <<>>
  BY <1>2, <1>5
<1>8. Head(mail[q]) = payload[c.msg]
  BY <1>2, <1>4, <1>5, <1>7, HeadTailProperties
<1>10. mail'[q] = Tail(mail[q])
  <2>1. \A i \in 1 .. Len(mail'[q]) : mail'[q][i] = mail[q][i + 1]
    <3> SUFFICES ASSUME NEW i \in 1 .. Len(queue'[q]) PROVE mail'[q][i] = mail[q][i + 1]
      BY <1>6
    <3>1. i + 1 \in 1 .. Len(queue[q])
      BY <1>2
    <3>2. mail'[q][i] = payload[queue[q][i + 1].msg]
      BY <1>2, <1>4, <1>6
    <3> QED
      BY <1>5, <3>1, <3>2
  <2> QED
    BY <1>2, <1>5, <1>6, <1>7, IsTail, <2>1
<1>11. mail' = [mail EXCEPT ![q] = Tail(@)]
  <2>1. \A p \in Mailbox : p # q => mail'[p] = mail[p]
    BY <1>1 DEF mail, IInv, TypeOK
  <2> QED
    BY <1>10, <2>1 DEF mail
<1>12. writing' = writing /\ writing[t] = None /\ reading[t] = None
  BY <1>1 DEF writing, reading
<1>13. reading' = [reading EXCEPT ![t] = [frame |-> Head(mail[q]), taken |-> 0]]
  <2>1. c.cur_payload_idx = 0
    BY <1>2, LenProperties DEF Unread
  <2>2. reading'[t] = [frame |-> payload[c.msg], taken |-> 0]
    BY <1>1, <1>3, <2>1 DEF reading, IInv, TypeOK
  <2>3. \A u \in Thread : u # t => reading'[u] = reading[u]
    BY <1>1 DEF reading, IInv, TypeOK
  <2> QED
    BY <1>8, <2>2, <2>3 DEF reading
<1> QED
  BY <1>1, <1>7, <1>11, <1>12, <1>13 DEF Line!Receive

(* msg_get_data moves on in a frame that has more: the first call finds a  *)
(* payload because no frame is empty, the others are counted.              *)
LEMMA GetDataRefines ==
  ASSUME IInv, NEW t \in Thread, msg_get_data(t)
  PROVE  Line!ReadOne(t)
<1> DEFINE c == got[t]
<1>1. /\ c \in Copy /\ c # None /\ c.msg \in Msg
      /\ reading[t] = [frame |-> payload[c.msg], taken |-> c.cur_payload_idx]
      /\ reading[t] # None
  BY ReaderSees DEF msg_get_data
<1>2. c.payload_num = Len(payload[c.msg]) /\ c.payload_num > 0
  BY <1>1 DEF IInv, CopyAgrees
<1>3. c.cur_payload_idx \in Nat /\ c.payload_num \in Nat
  BY <1>1 DEF Copy
<1>4. /\ MayGet(c) /\ UNCHANGED <<list, payload, id, queue, built>>
      /\ got \in [Thread -> Copy \cup {None}]
  BY DEF msg_get_data, IInv, TypeOK
<1>5. c.cur_payload_idx < c.payload_num
  BY <1>2, <1>3, <1>4 DEF MayGet, msg_get_data
<1>6. got' = [got EXCEPT ![t].cur_payload_idx = @ + 1]
  BY <1>3, <1>5 DEF msg_get_data
<1>7. /\ got'[t] = [c EXCEPT !.cur_payload_idx = @ + 1]
      /\ \A u \in Thread : u # t => got'[u] = got[u]
  BY <1>4, <1>6
<1>8. /\ got'[t].msg = c.msg /\ got'[t].cur_payload_idx = c.cur_payload_idx + 1
      /\ got'[t] # None
  <2>1. c.cur_payload_idx + 1 \in 0 .. PAYLOAD_NUM_MAX
    BY <1>1, <1>3, <1>5, PoolAssumption DEF Copy
  <2>2. got'[t] \in Copy
    BY <1>1, <1>7, <2>1 DEF Copy
  <2>3. got'[t].msg = c.msg /\ got'[t].cur_payload_idx = c.cur_payload_idx + 1
    BY <1>1, <1>7 DEF Copy
  <2> QED
    BY <2>2, <2>3, PoolAssumption
<1>9. reading' = [reading EXCEPT ![t].taken = @ + 1]
  <2>1. reading'[t] = [frame |-> payload[c.msg], taken |-> c.cur_payload_idx + 1]
    BY <1>4, <1>8 DEF reading
  <2>2. \A u \in Thread : u # t => reading'[u] = reading[u]
    BY <1>4, <1>7 DEF reading
  <2>3. [reading[t] EXCEPT !.taken = @ + 1] = [frame |-> payload[c.msg], taken |-> c.cur_payload_idx + 1]
    BY <1>1
  <2> QED
    BY <2>1, <2>2, <2>3 DEF reading
<1>10. writing' = writing /\ mail' = mail
  BY <1>4 DEF writing, mail
<1> QED
  BY <1>1, <1>2, <1>4, <1>5, <1>9, <1>10 DEF Line!ReadOne

(* msg_factory_recycle gives one message back: the payload it clears is    *)
(* neither waiting nor being read by another task.                         *)
LEMMA RecycleRefines ==
  ASSUME IInv, NEW t \in Thread, msg_factory_recycle(t)
  PROVE  Line!Return(t)
<1>1. got[t] # None /\ got[t].msg \in Msg /\ reading[t] # None
  BY ReaderSees DEF msg_factory_recycle
<1>2. PICK m \in Msg : m = got[t].msg
  BY <1>1
<1>3. /\ Reading(m, t)
      /\ payload' = [payload EXCEPT ![m] = <<>>]
      /\ id' = [id EXCEPT ![m] = None]
      /\ list' = Append(list, m)
      /\ got' = [got EXCEPT ![t] = None]
      /\ UNCHANGED <<queue, built>>
  BY <1>1, <1>2 DEF msg_factory_recycle, msg_clear, list_add_tail, Reading
<1>4. \A n \in Msg : n # m => payload'[n] = payload[n] /\ id'[n] = id[n]
  BY <1>3 DEF IInv, TypeOK
<1>5. Len(list') = Len(list) + 1
  BY <1>3, AppendProperties DEF IInv, TypeOK
<1>6. mail' = mail
  <2>1. \A p \in Mailbox : \A i \in DOMAIN queue[p] : queue[p][i].msg \in Msg /\ queue[p][i].msg # m
    <3> SUFFICES ASSUME NEW p \in Mailbox, NEW i \in DOMAIN queue[p]
                 PROVE  queue[p][i].msg \in Msg /\ queue[p][i].msg # m
      OBVIOUS
    <3>1. queue[p][i] \in Copy
      BY ElementOfSeq DEF IInv, TypeOK
    <3>2. ~InQueue(m, p)
      BY <1>3 DEF IInv, NoTwin
    <3> QED
      BY <3>1, <3>2 DEF Copy, InQueue
  <2> QED
    BY <1>3, <1>4, <2>1 DEF mail
<1>7. writing' = writing
  <2>1. \A u \in Thread : built[u] # None => built[u] \in Msg /\ built[u] # m
    BY <1>3 DEF IInv, TypeOK, NoTwin, Building
  <2> QED
    BY <1>3, <1>4, <2>1 DEF writing
<1>8. reading' = [reading EXCEPT ![t] = None]
  <2>1. \A u \in Thread : u # t /\ got[u] # None => got[u].msg \in Msg /\ got[u].msg # m
    BY <1>2, <1>3 DEF IInv, TypeOK, Copy, NoTwin, Reading
  <2>2. got'[t] = None /\ \A u \in Thread : u # t => got'[u] = got[u]
    BY <1>3 DEF IInv, TypeOK
  <2>3. reading'[t] = None
    BY <2>2 DEF reading
  <2>4. \A u \in Thread : u # t => reading'[u] = reading[u]
    BY <1>4, <2>1, <2>2 DEF reading
  <2> QED
    BY <2>3, <2>4 DEF reading
<1> QED
  BY <1>1, <1>5, <1>6, <1>7, <1>8 DEF Line!Return

(* Messages are values, for any number of messages, tasks, mailboxes and   *)
(* frames: whatever is recycled and taken again, a task sees every message *)
(* as its sender made it (msg_factory.c:83-136, mailbox.c:33-59,           *)
(* message.c:11-90).                                                       *)
THEOREM Refinement == Spec => ImplementsMailLine
<1>1. ASSUME IInv, Unread, Next PROVE Line!Next \/ UNCHANGED Line!lineVars
  <2> SUFFICES ASSUME NEW t \in Thread,
                      \/ \E q \in Mailbox : msg_factory_produce(t, q)
                      \/ \E q \in Mailbox : \E f \in Frame[q] : mailbox_post(t, f)
                      \/ \E q \in Mailbox : mailbox_pend(t, q)
                      \/ msg_get_data(t)
                      \/ msg_factory_recycle(t)
               PROVE  Line!Next \/ UNCHANGED Line!lineVars
    BY <1>1 DEF Next
  <2>1. ASSUME NEW q \in Mailbox, msg_factory_produce(t, q)
        PROVE  Line!Next \/ UNCHANGED Line!lineVars
    BY <1>1, <2>1, ProduceRefines DEF Line!Next
  <2>2. ASSUME NEW q \in Mailbox, NEW f \in Frame[q], mailbox_post(t, f) PROVE Line!Next
    BY <1>1, <2>2, PostRefines DEF Line!Next
  <2>3. ASSUME NEW q \in Mailbox, mailbox_pend(t, q) PROVE Line!Next
    BY <1>1, <2>3, PendRefines DEF Line!Next
  <2>4. ASSUME msg_get_data(t) PROVE Line!Next
    BY <1>1, <2>4, GetDataRefines DEF Line!Next
  <2>5. ASSUME msg_factory_recycle(t) PROVE Line!Next
    BY <1>1, <2>5, RecycleRefines DEF Line!Next
  <2> QED
    BY <2>1, <2>2, <2>3, <2>4, <2>5
<1>2. UNCHANGED vars => UNCHANGED Line!lineVars
  BY DEF vars, Line!lineVars, writing, mail, reading
<1> QED
  BY <1>1, <1>2, InitRefines, Invariance, UnreadInvariance, PTL
     DEF Spec, ImplementsMailLine, Line!Spec
============================================================================
