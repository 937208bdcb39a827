----------------------- MODULE PositionReportProofs -----------------------
(***************************************************************************)
(* Proofs about PositionReport, for any number of buffers, references and  *)
(* events and any of the four tests.                                       *)
(*                                                                         *)
(* Four inductive invariants, each using those before it: how many         *)
(* references, events and reports are where (CountInv); where each buffer  *)
(* is (BufInv); which reference each waiting buffer holds (RefInv); and    *)
(* what was paired and reported (PairInv).                                 *)
(***************************************************************************)
EXTENDS PositionReport, SequenceTheorems, TLAPS

USE DEF isrVars, writeVars, storeVars, disVars, reportVars

(* What is under way: a reference in the writer's buffer, a reference and  *)
(* an event that are latched but not posted, an event the distance task    *)
(* has taken and not reported, a reference it has used and not unlinked.   *)
filling == IF wpc = "fill" THEN 1 ELSE 0
kicking == IF ipc \in {"kick usec", "kick post"} THEN 1 ELSE 0
latching == IF ipc \in {"usec", "post"} THEN 1 ELSE 0
taken == IF dpc # "pend" THEN 1 ELSE 0
unlinking == IF dpc = "del" THEN 1 ELSE 0
adding == IF wpc = "add" THEN 1 ELSE 0
halfkick == IF ipc = "kick usec" THEN 1 ELSE 0
halfevent == IF ipc = "usec" THEN 1 ELSE 0

(* How many references and events are where.                               *)
Accounts ==
  /\ written + kp_mbx + filling + kicking <= refs
  /\ handled + kt_mbx + latching = events
  /\ handled = Len(sent) + local_mbx + taken

(* The words of the statics that the interrupt thread has written.         *)
Latched ==
  /\ ~distance => kp[1] >= refs /\ kp[2] + halfkick >= refs
  /\ kft[1] >= events /\ kft[2] + halfevent >= events

(* What the threads hold at their program points.                          *)
Held ==
  /\ wpc # "idle" => wbuf \in Buf
  /\ dpc \in {"owner", "measure", "del", "recycle"} => dbuf \in Buf
  /\ dpc \in {"owner", "measure", "del"} => list # <<>> /\ dbuf = list[1]

CountInv == TypeOK /\ Accounts /\ Held

Among(b, s) == \E i \in DOMAIN s : s[i] = b
Once(s) == \A i, j \in DOMAIN s : s[i] = s[j] => i = j
Writing(b) == wpc \in {"fill", "add"} /\ b = wbuf
Recycling(b) == dpc = "recycle" /\ b = dbuf

(* Every buffer is free, waits, is being written or is given back; and it  *)
(* is only in one of these places.                                         *)
NoLoss == \A b \in Buf : Among(b, free) \/ Among(b, list) \/ Writing(b) \/ Recycling(b)

NoTwin ==
  /\ Once(free) /\ Once(list)
  /\ \A b \in Buf : Among(b, free) => ~Among(b, list)
  /\ \A b \in Buf : Writing(b) => ~Among(b, free) /\ ~Among(b, list) /\ ~Recycling(b)
  /\ \A b \in Buf : Recycling(b) => ~Among(b, free) /\ ~Among(b, list)

BufInv == NoLoss /\ NoTwin /\ Deaths

(* References the list has given up.                                       *)
used == Len(pairs) - unlinking

(* Buffer b holds reference r, measured by its own latched value or a      *)
(* later one.                                                              *)
Holds(b, r) == sample[b].ref = r /\ sample[b].stamp[1] >= r /\ sample[b].stamp[2] >= r

(* The references that wait, in their order.                               *)
Waiting ==
  /\ written = used + Len(list) + adding
  /\ \A i \in DOMAIN list : Holds(list[i], used + i)
  /\ wpc = "add" => Holds(wbuf, written)

RefInv == Latched /\ Waiting

(* The events taken so far; dis is that of the last of them.               *)
Events ==
  /\ \A k \in DOMAIN pairs : pairs[k].event <= dis
  /\ dis <= handled
  /\ dpc \in {"look", "owner", "measure"} => dis < handled
  /\ dis = 0 \/ \E k \in DOMAIN pairs : pairs[k].event = dis
  /\ \A n \in DOMAIN sent : sent[n] # None => sent[n] <= dis

(* What ReportsInOrder says beyond Accounts.                               *)
Reports ==
  \A n \in DOMAIN sent : sent[n] # None =>
    /\ sent[n] = 0 \/ \E k \in DOMAIN pairs : pairs[k].event = sent[n]
    /\ \A k \in DOMAIN pairs : ~(sent[n] < pairs[k].event /\ pairs[k].event <= n)
    /\ \A m \in 1 .. n - 1 : sent[m] # None => sent[m] <= sent[n]

PairInv == PairsInOrder /\ Events /\ Reports

IInv == CountInv /\ BufInv /\ RefInv /\ PairInv

----------------------------------------------------------------------------
(* The elements of a sequence without its head.                            *)
LEMMA TailElements ==
  ASSUME NEW S, NEW s \in Seq(S), s # <<>>
  PROVE  /\ Tail(s) \in Seq(S)
         /\ Head(s) \in S
         /\ Head(s) = s[1]
         /\ Len(s) \in Nat \ {0}
         /\ DOMAIN s = 1 .. Len(s)
         /\ DOMAIN Tail(s) = 1 .. Len(s) - 1
         /\ Len(Tail(s)) = Len(s) - 1
         /\ \A i \in 1 .. Len(s) - 1 : Tail(s)[i] = s[i + 1]
BY HeadTailProperties, LenProperties, Len(s) \in Nat \ {0}

(* The elements of a sequence with one more at its end.                    *)
LEMMA AppendElements ==
  ASSUME NEW S, NEW s \in Seq(S), NEW e \in S
  PROVE  /\ Append(s, e) \in Seq(S)
         /\ Len(s) \in Nat
         /\ Len(Append(s, e)) = Len(s) + 1
         /\ DOMAIN s = 1 .. Len(s)
         /\ DOMAIN Append(s, e) = 1 .. Len(s) + 1
         /\ Append(s, e)[Len(s) + 1] = e
         /\ \A i \in 1 .. Len(s) : Append(s, e)[i] = s[i]
BY AppendProperties, LenProperties

(* list_del on the head of a list in which no node is twice.               *)
LEMMA Unlinked ==
  ASSUME list \in Seq(Buf), list # <<>>, dbuf = list[1], Once(list)
  PROVE  unlinked = Tail(list)
<1> DEFINE c == CHOOSE i \in DOMAIN list : list[i] = dbuf
<1>1. Len(list) \in Nat \ {0} /\ DOMAIN list = 1 .. Len(list)
  BY TailElements
<1>2. 1 \in DOMAIN list /\ list[1] = dbuf
  BY <1>1
<1>3. c \in DOMAIN list /\ list[c] = dbuf
  BY <1>2
<1>4. c = 1
  BY <1>2, <1>3 DEF Once
<1>5. unlinked = [j \in 1 .. Len(list) - 1 |-> IF j < 1 THEN list[j] ELSE list[j + 1]]
  BY <1>4 DEF unlinked
<1>6. Tail(list) \in [1 .. Len(list) - 1 -> Buf] /\ \A j \in 1 .. Len(list) - 1 : Tail(list)[j] = list[j + 1]
  <2>1. Tail(list) \in Seq(Buf) /\ Len(Tail(list)) = Len(list) - 1
    BY TailElements
  <2>2. Tail(list) \in [1 .. Len(Tail(list)) -> Buf]
    BY <2>1, LenProperties, ElementOfSeq
  <2> QED
    BY <2>1, <2>2, TailElements
<1>7. unlinked \in [1 .. Len(list) - 1 -> Buf] /\ \A j \in 1 .. Len(list) - 1 : unlinked[j] = list[j + 1]
  <2>1. \A j \in 1 .. Len(list) - 1 : ~(j < 1) /\ list[j + 1] \in Buf
    BY <1>1, ElementOfSeq
  <2> QED
    BY <1>5, <2>1
<1> QED
  BY <1>6, <1>7

----------------------------------------------------------------------------
(* Types, and how many references, events and reports are where.           *)
LEMMA CountInit == Init => CountInv
<1> SUFFICES ASSUME Init PROVE CountInv
  OBVIOUS
<1>1. free \in Seq(Buf) /\ list \in Seq(Buf)
  BY PositionAssumption DEF Init, Buf
<1>2. sample \in [Buf -> Reference]
  BY DEF Init, Reference, Stamp
<1>3. pairs \in Seq([event : Nat, stamp : Stamp, from : Reference]) /\ sent \in Seq(Nat \cup {None})
  BY DEF Init
<1>4. kp \in Stamp /\ kft \in Stamp
  BY DEF Init, Stamp
<1>5. TypeOK
  <2>1. 0 \in 0 .. MAX_REF /\ 0 \in 0 .. MAX_EVENT
    BY PositionAssumption
  <2> QED
    BY <1>1, <1>2, <1>3, <1>4, <2>1 DEF Init, TypeOK
<1>6. Len(sent) = 0
  BY DEF Init
<1> QED
  BY <1>5, <1>6 DEF Init, CountInv, Accounts, Held, filling, kicking, latching, taken

(* A stamp with one of its words written.                                  *)
LEMMA StampWord ==
  ASSUME NEW t \in Stamp, NEW n \in Nat
  PROVE  /\ [t EXCEPT ![1] = n] \in Stamp /\ [t EXCEPT ![1] = n][1] = n /\ [t EXCEPT ![1] = n][2] = t[2]
         /\ [t EXCEPT ![2] = n] \in Stamp /\ [t EXCEPT ![2] = n][1] = t[1] /\ [t EXCEPT ![2] = n][2] = n
         /\ <<n, n>> \in Stamp /\ t[1] \in Nat /\ t[2] \in Nat
BY DEF Stamp

(* The counters are numbers, and within their bounds because of Accounts.  *)
LEMMA Numbers ==
  TypeOK => /\ refs \in Nat /\ events \in Nat /\ kp_mbx \in Nat /\ kt_mbx \in Nat /\ written \in Nat
            /\ handled \in Nat /\ dis \in Nat /\ local_mbx \in Nat /\ Len(sent) \in Nat
            /\ refs <= MAX_REF /\ events <= MAX_EVENT
<1> SUFFICES ASSUME TypeOK
             PROVE  /\ refs \in Nat /\ events \in Nat /\ kp_mbx \in Nat /\ kt_mbx \in Nat /\ written \in Nat
                    /\ handled \in Nat /\ dis \in Nat /\ local_mbx \in Nat /\ Len(sent) \in Nat
                    /\ refs <= MAX_REF /\ events <= MAX_EVENT
  OBVIOUS
<1>1. Len(sent) \in Nat
  BY LenProperties DEF TypeOK
<1>2. refs \in 0 .. MAX_REF /\ kp_mbx \in 0 .. MAX_REF /\ written \in 0 .. MAX_REF
  BY DEF TypeOK
<1>3. /\ events \in 0 .. MAX_EVENT /\ kt_mbx \in 0 .. MAX_EVENT /\ handled \in 0 .. MAX_EVENT
      /\ dis \in 0 .. MAX_EVENT /\ local_mbx \in 0 .. MAX_EVENT
  BY DEF TypeOK
<1> QED
  BY <1>1, <1>2, <1>3, PositionAssumption

(* What is under way is a number.                                          *)
LEMMA Digits ==
  /\ filling \in Nat /\ kicking \in Nat /\ latching \in Nat /\ taken \in Nat
  /\ unlinking \in Nat /\ adding \in Nat /\ halfkick \in Nat /\ halfevent \in Nat
BY DEF filling, kicking, latching, taken, unlinking, adding, halfkick, halfevent

(* What list_del leaves is a list of buffers, whichever node it unlinks.   *)
LEMMA UnlinkedType ==
  ASSUME list \in Seq(Buf), list # <<>>
  PROVE  unlinked \in Seq(Buf)
<1>1. Len(list) \in Nat \ {0} /\ DOMAIN list = 1 .. Len(list)
  BY TailElements
<1>2. \A i : [j \in 1 .. Len(list) - 1 |-> IF j < i THEN list[j] ELSE list[j + 1]] \in [1 .. Len(list) - 1 -> Buf]
  BY <1>1, ElementOfSeq
<1>3. unlinked \in [1 .. Len(list) - 1 -> Buf] /\ Len(list) - 1 \in Nat
  BY <1>1, <1>2 DEF unlinked
<1> QED
  BY <1>3, SeqDef

(* Each step moves a reference or an event from one account to the next.   *)
LEMMA CountStep == CountInv /\ [Next]_vars => CountInv'
<1> SUFFICES ASSUME CountInv, [Next]_vars PROVE CountInv'
  OBVIOUS
<1>a. TypeOK /\ Accounts /\ Held
  BY DEF CountInv
<1>b. /\ refs \in Nat /\ events \in Nat /\ kp_mbx \in Nat /\ kt_mbx \in Nat /\ written \in Nat
      /\ handled \in Nat /\ dis \in Nat /\ local_mbx \in Nat /\ Len(sent) \in Nat
      /\ refs <= MAX_REF /\ events <= MAX_EVENT
  BY <1>a, Numbers
<1>c. filling \in Nat /\ kicking \in Nat /\ latching \in Nat /\ taken \in Nat
  BY Digits
<1>0. CASE UNCHANGED vars
  <2>1. TypeOK'
    <3>1. /\ item' = item /\ testing' = testing /\ ipc' = ipc /\ refs' = refs /\ kp' = kp
          /\ events' = events /\ kft' = kft /\ kp_mbx' = kp_mbx /\ kt_mbx' = kt_mbx
          /\ wpc' = wpc /\ wbuf' = wbuf /\ written' = written /\ free' = free /\ list' = list
          /\ owned' = owned /\ sample' = sample /\ dpc' = dpc /\ dbuf' = dbuf
          /\ handled' = handled /\ dis' = dis /\ pairs' = pairs
          /\ local_mbx' = local_mbx /\ sent' = sent /\ died' = died
      BY <1>0 DEF vars
    <3> QED
      BY <1>a, <3>1, ZenonT(60) DEF TypeOK
  <2> USE <1>0, <1>a DEF vars
  <2>2. Accounts'
    BY DEF Accounts, filling, kicking, latching, taken
  <2>3. Held'
    BY DEF Held
  <2> QED
    BY <2>1, <2>2, <2>3 DEF CountInv
<1>1. ASSUME NEW on \in BOOLEAN, recv_pos_test_cmd(on) PROVE CountInv'
  <2> USE <1>1, <1>a DEF recv_pos_test_cmd
  <2>1. TypeOK'
    BY DEF TypeOK
  <2>2. Accounts'
    BY DEF Accounts, filling, kicking, latching, taken
  <2>3. Held'
    BY DEF Held
  <2> QED
    BY <2>1, <2>2, <2>3 DEF CountInv
<1>2. CASE kick
  <2>1. filling' = filling /\ kicking = 0 /\ kicking' = 1 /\ latching' = latching /\ taken' = taken
    BY <1>2 DEF kick, filling, kicking, latching, taken
  <2>2. refs' = refs + 1 /\ refs < MAX_REF /\ events' = events /\ kp_mbx' = kp_mbx /\ kt_mbx' = kt_mbx /\ written' = written
        /\ handled' = handled /\ local_mbx' = local_mbx /\ sent' = sent
    BY <1>2 DEF kick
  <2>3. Accounts'
    BY <2>1, <2>2, <1>a, <1>b, <1>c DEF Accounts
  <2>4. refs' \in 0 .. MAX_REF
    BY <2>1, <2>2, <2>3, <1>a, <1>b, <1>c, PositionAssumption DEF Accounts
  <2>5. kp' \in Stamp
    <3>1. refs + 1 \in Nat
      BY <1>b
    <3>2. kp \in Stamp
      BY <1>a DEF TypeOK
    <3> QED
      BY <1>2, <3>1, <3>2, StampWord DEF kick
  <2>6. TypeOK'
    BY <1>2, <1>a, <2>4, <2>5 DEF kick, TypeOK
  <2>7. Held'
    BY <1>2, <1>a DEF kick, TypeOK, Held
  <2> QED
    BY <2>3, <2>6, <2>7 DEF CountInv
<1>3. CASE event
  <2>1. filling' = filling /\ kicking' = kicking /\ latching = 0 /\ latching' = 1 /\ taken' = taken
    BY <1>3 DEF event, filling, kicking, latching, taken
  <2>2. events' = events + 1 /\ events < MAX_EVENT /\ refs' = refs /\ kp_mbx' = kp_mbx /\ kt_mbx' = kt_mbx /\ written' = written
        /\ handled' = handled /\ local_mbx' = local_mbx /\ sent' = sent
    BY <1>3 DEF event
  <2>3. Accounts'
    BY <2>1, <2>2, <1>a, <1>b, <1>c DEF Accounts
  <2>4. events' \in 0 .. MAX_EVENT
    BY <2>1, <2>2, <2>3, <1>a, <1>b, <1>c, PositionAssumption DEF Accounts
  <2>5. kft' \in Stamp
    <3>0. kft \in Stamp
      BY <1>a DEF TypeOK
    <3>1. events + 1 \in Nat
      BY <1>b
    <3>2. [kft EXCEPT ![1] = events + 1] \in Stamp /\ <<events + 1, events + 1>> \in Stamp
      BY <3>0, <3>1, StampWord
    <3> QED
      BY <1>3, <3>2 DEF event
  <2>6. TypeOK'
    BY <1>3, <1>a, <2>4, <2>5 DEF event, TypeOK
  <2>7. Held'
    BY <1>3, <1>a DEF event, TypeOK, Held
  <2> QED
    BY <2>3, <2>6, <2>7 DEF CountInv
<1>4. CASE recv_sample_result
  <2>1. filling = 0 /\ filling' \in {0, 1} /\ kicking' = kicking /\ latching' = latching /\ taken' = taken
    BY <1>4 DEF recv_sample_result, produce, filling, kicking, latching, taken
  <2>2. refs' = refs + 1 /\ refs < MAX_REF /\ events' = events /\ kp_mbx' = kp_mbx /\ kt_mbx' = kt_mbx /\ written' = written
        /\ handled' = handled /\ local_mbx' = local_mbx /\ sent' = sent
    BY <1>4 DEF recv_sample_result, produce
  <2>3. Accounts'
    <3>1. CASE filling' = 0
      BY <2>1, <2>2, <3>1, <1>a, <1>b, <1>c DEF Accounts
    <3>2. CASE filling' = 1
      BY <2>1, <2>2, <3>2, <1>a, <1>b, <1>c DEF Accounts
    <3> QED
      BY <2>1, <3>1, <3>2
  <2>4. refs' \in 0 .. MAX_REF
    BY <2>1, <2>2, <2>3, <1>a, <1>b, <1>c, PositionAssumption DEF Accounts
  <2>5. free' \in Seq(Buf) /\ wbuf' \in Buf \cup {None}
    <3>1. free \in Seq(Buf) /\ wbuf \in Buf \cup {None}
      BY <1>a DEF TypeOK
    <3>2. CASE free = <<>>
      BY <1>4, <3>1, <3>2 DEF recv_sample_result, produce
    <3>3. CASE free # <<>>
      BY <1>4, <3>1, <3>3, TailElements DEF recv_sample_result, produce
    <3> QED
      BY <3>2, <3>3
  <2>6. TypeOK'
    BY <1>4, <1>a, <2>4, <2>5 DEF recv_sample_result, produce, TypeOK
  <2>7. Held'
    <3>1. free \in Seq(Buf)
      BY <1>a DEF TypeOK
    <3> QED
      BY <1>4, <3>1, <1>a, TailElements DEF recv_sample_result, produce, Held
  <2> QED
    BY <2>3, <2>6, <2>7 DEF CountInv
<1>5. CASE kick_usec
  <2>1. filling' = filling /\ kicking = 1 /\ kicking' = 1 /\ latching' = latching /\ taken' = taken
    BY <1>5 DEF kick_usec, filling, kicking, latching, taken
  <2>2. refs' = refs /\ events' = events /\ kp_mbx' = kp_mbx /\ kt_mbx' = kt_mbx /\ written' = written
        /\ handled' = handled /\ local_mbx' = local_mbx /\ sent' = sent
    BY <1>5 DEF kick_usec
  <2>3. Accounts'
    BY <2>1, <2>2, <1>a, <1>b, <1>c DEF Accounts
  <2>4. kp' \in Stamp
    <3>1. refs \in Nat
      BY <1>b
    <3>2. kp \in Stamp
      BY <1>a DEF TypeOK
    <3> QED
      BY <1>5, <3>1, <3>2, StampWord DEF kick_usec
  <2>5. TypeOK'
    BY <1>5, <1>a, <2>4 DEF kick_usec, TypeOK
  <2>6. Held'
    BY <1>5, <1>a DEF kick_usec, TypeOK, Held
  <2> QED
    BY <2>3, <2>5, <2>6 DEF CountInv
<1>6. CASE post_kick
  <2>1. filling' = filling /\ kicking = 1 /\ kicking' = 0 /\ latching' = latching /\ taken' = taken
    BY <1>6 DEF post_kick, filling, kicking, latching, taken
  <2>2. kp_mbx' = kp_mbx + 1 /\ refs' = refs /\ events' = events /\ kt_mbx' = kt_mbx /\ written' = written
        /\ handled' = handled /\ local_mbx' = local_mbx /\ sent' = sent
    BY <1>6 DEF post_kick
  <2>3. Accounts'
    BY <2>1, <2>2, <1>a, <1>b, <1>c DEF Accounts
  <2>4. kp_mbx' \in 0 .. MAX_REF
    BY <2>1, <2>2, <2>3, <1>a, <1>b, <1>c, PositionAssumption DEF Accounts
  <2>5. TypeOK'
    BY <1>6, <1>a, <2>4 DEF post_kick, TypeOK
  <2>6. Held'
    BY <1>6, <1>a DEF post_kick, TypeOK, Held
  <2> QED
    BY <2>3, <2>5, <2>6 DEF CountInv
<1>7. CASE event_usec
  <2>1. filling' = filling /\ kicking' = kicking /\ latching = 1 /\ latching' = 1 /\ taken' = taken
    BY <1>7 DEF event_usec, filling, kicking, latching, taken
  <2>2. refs' = refs /\ events' = events /\ kp_mbx' = kp_mbx /\ kt_mbx' = kt_mbx /\ written' = written
        /\ handled' = handled /\ local_mbx' = local_mbx /\ sent' = sent
    BY <1>7 DEF event_usec
  <2>3. Accounts'
    BY <2>1, <2>2, <1>a, <1>b, <1>c DEF Accounts
  <2>4. kft' \in Stamp
    <3>1. events \in Nat
      BY <1>b
    <3>2. kft \in Stamp
      BY <1>a DEF TypeOK
    <3> QED
      BY <1>7, <3>1, <3>2, StampWord DEF event_usec
  <2>5. TypeOK'
    BY <1>7, <1>a, <2>4 DEF event_usec, TypeOK
  <2>6. Held'
    BY <1>7, <1>a DEF event_usec, TypeOK, Held
  <2> QED
    BY <2>3, <2>5, <2>6 DEF CountInv
<1>8. CASE post_event
  <2>1. filling' = filling /\ kicking' = kicking /\ latching = 1 /\ latching' = 0 /\ taken' = taken
    BY <1>8 DEF post_event, filling, kicking, latching, taken
  <2>2. kt_mbx' = kt_mbx + 1 /\ refs' = refs /\ events' = events /\ kp_mbx' = kp_mbx /\ written' = written
        /\ handled' = handled /\ local_mbx' = local_mbx /\ sent' = sent
    BY <1>8 DEF post_event
  <2>3. Accounts'
    BY <2>1, <2>2, <1>a, <1>b, <1>c DEF Accounts
  <2>4. kt_mbx' \in 0 .. MAX_EVENT
    BY <2>1, <2>2, <2>3, <1>a, <1>b, <1>c, PositionAssumption DEF Accounts
  <2>5. TypeOK'
    BY <1>8, <1>a, <2>4 DEF post_event, TypeOK
  <2>6. Held'
    BY <1>8, <1>a DEF post_event, TypeOK, Held
  <2> QED
    BY <2>3, <2>5, <2>6 DEF CountInv
<1>9. CASE write_kp_array
  <2>1. filling = 0 /\ filling' \in {0, 1} /\ kicking' = kicking /\ latching' = latching /\ taken' = taken
    BY <1>9 DEF write_kp_array, produce, filling, kicking, latching, taken
  <2>2. kp_mbx > 0 /\ kp_mbx' = kp_mbx - 1 /\ refs' = refs /\ events' = events /\ kt_mbx' = kt_mbx /\ written' = written
        /\ handled' = handled /\ local_mbx' = local_mbx /\ sent' = sent
    BY <1>9 DEF write_kp_array, produce
  <2>3. Accounts'
    <3>1. CASE filling' = 0
      BY <2>1, <2>2, <3>1, <1>a, <1>b, <1>c DEF Accounts
    <3>2. CASE filling' = 1
      BY <2>1, <2>2, <3>2, <1>a, <1>b, <1>c DEF Accounts
    <3> QED
      BY <2>1, <3>1, <3>2
  <2>4. kp_mbx' \in 0 .. MAX_REF
    BY <2>1, <2>2, <2>3, <1>a, <1>b, <1>c, PositionAssumption DEF Accounts
  <2>5. free' \in Seq(Buf) /\ wbuf' \in Buf \cup {None}
    <3>1. free \in Seq(Buf) /\ wbuf \in Buf \cup {None}
      BY <1>a DEF TypeOK
    <3>2. CASE free = <<>>
      BY <1>9, <3>1, <3>2 DEF write_kp_array, produce
    <3>3. CASE free # <<>>
      BY <1>9, <3>1, <3>3, TailElements DEF write_kp_array, produce
    <3> QED
      BY <3>2, <3>3
  <2>6. TypeOK'
    BY <1>9, <1>a, <2>4, <2>5 DEF write_kp_array, produce, TypeOK
  <2>7. Held'
    <3>1. free \in Seq(Buf)
      BY <1>a DEF TypeOK
    <3> QED
      BY <1>9, <3>1, <1>a, TailElements DEF write_kp_array, produce, Held
  <2> QED
    BY <2>3, <2>6, <2>7 DEF CountInv
<1>10. CASE fill
  <2>1. filling = 1 /\ filling' = 0 /\ kicking' = kicking /\ latching' = latching /\ taken' = taken
    BY <1>10 DEF fill, filling, kicking, latching, taken
  <2>2. written' = written + 1 /\ refs' = refs /\ events' = events /\ kp_mbx' = kp_mbx /\ kt_mbx' = kt_mbx
        /\ handled' = handled /\ local_mbx' = local_mbx /\ sent' = sent
    BY <1>10 DEF fill
  <2>3. Accounts'
    BY <2>1, <2>2, <1>a, <1>b, <1>c DEF Accounts
  <2>4. written' \in 0 .. MAX_REF
    BY <2>1, <2>2, <2>3, <1>a, <1>b, <1>c, PositionAssumption DEF Accounts
  <2>5. sample' \in [Buf -> Reference]
    <3>0. kp \in Stamp /\ sample \in [Buf -> Reference]
      BY <1>a DEF TypeOK
    <3>1. written + 1 \in Nat /\ refs \in Nat
      BY <1>b
    <3>2. (IF distance THEN <<refs, refs>> ELSE kp) \in Stamp
      BY <3>0, <3>1, StampWord
    <3>3. [ref |-> written + 1, stamp |-> IF distance THEN <<refs, refs>> ELSE kp] \in Reference
      BY <3>1, <3>2 DEF Reference
    <3> QED
      BY <1>10, <3>0, <3>3 DEF fill
  <2>6. TypeOK'
    BY <1>10, <1>a, <2>4, <2>5 DEF fill, TypeOK
  <2>7. Held'
    BY <1>10, <1>a DEF fill, TypeOK, Held
  <2> QED
    BY <2>3, <2>6, <2>7 DEF CountInv
<1>11. CASE add
  <2>1. filling = 0 /\ filling' = 0 /\ kicking' = kicking /\ latching' = latching /\ taken' = taken
    BY <1>11 DEF add, filling, kicking, latching, taken
  <2>2. refs' = refs /\ events' = events /\ kp_mbx' = kp_mbx /\ kt_mbx' = kt_mbx /\ written' = written
        /\ handled' = handled /\ local_mbx' = local_mbx /\ sent' = sent
    BY <1>11 DEF add
  <2>3. Accounts'
    BY <2>1, <2>2, <1>a, <1>b, <1>c DEF Accounts
  <2>4. list' \in Seq(Buf)
    <3>1. list \in Seq(Buf) /\ wbuf \in Buf
      BY <1>11, <1>a DEF add, TypeOK, Held
    <3> QED
      BY <1>11, <3>1, AppendElements DEF add
  <2>5. TypeOK'
    BY <1>11, <1>a, <2>4 DEF add, TypeOK
  <2>6. Held'
    <3>1. list \in Seq(Buf) /\ wbuf \in Buf
      BY <1>11, <1>a DEF add, TypeOK, Held
    <3>2. Len(list') \in Nat \ {0} /\ (list # <<>> => list'[1] = list[1])
      BY <1>11, <3>1, AppendElements, TailElements DEF add
    <3>3. list' # <<>>
      BY <3>2
    <3> QED
      BY <1>11, <3>1, <3>2, <3>3, <1>a DEF add, Held
  <2> QED
    BY <2>3, <2>5, <2>6 DEF CountInv
<1>12. CASE set_owner
  <2>1. filling = 0 /\ filling' = 0 /\ kicking' = kicking /\ latching' = latching /\ taken' = taken
    BY <1>12 DEF set_owner, filling, kicking, latching, taken
  <2>2. refs' = refs /\ events' = events /\ kp_mbx' = kp_mbx /\ kt_mbx' = kt_mbx /\ written' = written
        /\ handled' = handled /\ local_mbx' = local_mbx /\ sent' = sent
    BY <1>12 DEF set_owner
  <2>3. Accounts'
    BY <2>1, <2>2, <1>a, <1>b, <1>c DEF Accounts
  <2>4. owned' \subseteq Buf
    BY <1>12, <1>a, PositionAssumption DEF set_owner, TypeOK, Held
  <2>5. TypeOK'
    BY <1>12, <1>a, <2>4 DEF set_owner, TypeOK
  <2>6. Held'
    BY <1>12, <1>a DEF set_owner, TypeOK, Held
  <2> QED
    BY <2>3, <2>5, <2>6 DEF CountInv
<1>13. CASE pend
  <2>1. filling' = filling /\ kicking' = kicking /\ latching' = latching /\ taken = 0 /\ taken' = 1
    BY <1>13 DEF pend, consumed, filling, kicking, latching, taken
  <2>2. kt_mbx > 0 /\ kt_mbx' = kt_mbx - 1 /\ handled' = handled + 1 /\ refs' = refs /\ events' = events /\ kp_mbx' = kp_mbx /\ written' = written
        /\ local_mbx' = local_mbx /\ sent' = sent
    BY <1>13 DEF pend, consumed
  <2>3. Accounts'
    BY <2>1, <2>2, <1>a, <1>b, <1>c DEF Accounts
  <2>4. kt_mbx' \in 0 .. MAX_EVENT /\ handled' \in 0 .. MAX_EVENT
    BY <2>1, <2>2, <2>3, <1>a, <1>b, <1>c, PositionAssumption DEF Accounts
  <2>5. TypeOK'
    BY <1>13, <1>a, <2>4 DEF pend, consumed, TypeOK
  <2>6. Held'
    BY <1>13, <1>a DEF pend, consumed, TypeOK, Held
  <2> QED
    BY <2>3, <2>5, <2>6 DEF CountInv
<1>14. CASE look
  <2>1. filling' = filling /\ kicking' = kicking /\ latching' = latching /\ taken = 1 /\ taken' = 1
    BY <1>14 DEF look, without_reference, filling, kicking, latching, taken
  <2>2. refs' = refs /\ events' = events /\ kp_mbx' = kp_mbx /\ kt_mbx' = kt_mbx /\ written' = written
        /\ handled' = handled /\ local_mbx' = local_mbx /\ sent' = sent
    BY <1>14 DEF look, without_reference
  <2>3. Accounts'
    BY <2>1, <2>2, <1>a, <1>b, <1>c DEF Accounts
  <2>4. dbuf' \in Buf \cup {None}
    <3>1. list \in Seq(Buf) /\ dbuf \in Buf \cup {None}
      BY <1>a DEF TypeOK
    <3> QED
      BY <1>14, <3>1, TailElements DEF look, without_reference
  <2>5. TypeOK'
    BY <1>14, <1>a, <2>4 DEF look, without_reference, TypeOK
  <2>6. Held'
    <3>1. list \in Seq(Buf)
      BY <1>a DEF TypeOK
    <3> QED
      BY <1>14, <3>1, <1>a, TailElements DEF look, without_reference, Held
  <2> QED
    BY <2>3, <2>5, <2>6 DEF CountInv
<1>15. CASE follow_owner
  <2>1. filling' = filling /\ kicking' = kicking /\ latching' = latching /\ taken = 1 /\ taken' = 1
    BY <1>15 DEF follow_owner, filling, kicking, latching, taken
  <2>2. refs' = refs /\ events' = events /\ kp_mbx' = kp_mbx /\ kt_mbx' = kt_mbx /\ written' = written
        /\ handled' = handled /\ local_mbx' = local_mbx /\ sent' = sent
    BY <1>15 DEF follow_owner
  <2>3. Accounts'
    BY <2>1, <2>2, <1>a, <1>b, <1>c DEF Accounts
  <2>4. died' \in {"no", "dry", "wild"}
    BY <1>15, <1>a, PositionAssumption DEF follow_owner, TypeOK
  <2>5. TypeOK'
    BY <1>15, <1>a, <2>4 DEF follow_owner, TypeOK
  <2>6. Held'
    BY <1>15, <1>a DEF follow_owner, TypeOK, Held
  <2> QED
    BY <2>3, <2>5, <2>6 DEF CountInv
<1>16. CASE measure
  <2>1. filling' = filling /\ kicking' = kicking /\ latching' = latching /\ taken = 1 /\ taken' = 1
    BY <1>16 DEF measure, filling, kicking, latching, taken
  <2>2. refs' = refs /\ events' = events /\ kp_mbx' = kp_mbx /\ kt_mbx' = kt_mbx /\ written' = written
        /\ handled' = handled /\ local_mbx' = local_mbx /\ sent' = sent
    BY <1>16 DEF measure
  <2>3. Accounts'
    BY <2>1, <2>2, <1>a, <1>b, <1>c DEF Accounts
  <2>4. dis' \in 0 .. MAX_EVENT
    BY <1>16, <1>a, PositionAssumption DEF measure, TypeOK
  <2>5. pairs' \in Seq([event : Nat, stamp : Stamp, from : Reference])
    BY <1>16, <1>a, PositionAssumption, AppendElements, <1>b DEF measure, TypeOK, Held
  <2>6. TypeOK'
    BY <1>16, <1>a, <2>4, <2>5 DEF measure, TypeOK
  <2>7. Held'
    BY <1>16, <1>a DEF measure, TypeOK, Held
  <2> QED
    BY <2>3, <2>6, <2>7 DEF CountInv
<1>17. CASE del
  <2>1. filling' = filling /\ kicking' = kicking /\ latching' = latching /\ taken = 1 /\ taken' = 1
    BY <1>17 DEF del, filling, kicking, latching, taken
  <2>2. refs' = refs /\ events' = events /\ kp_mbx' = kp_mbx /\ kt_mbx' = kt_mbx /\ written' = written
        /\ handled' = handled /\ local_mbx' = local_mbx /\ sent' = sent
    BY <1>17 DEF del
  <2>3. Accounts'
    BY <2>1, <2>2, <1>a, <1>b, <1>c DEF Accounts
  <2>4. list' \in Seq(Buf)
    <3>1. list \in Seq(Buf) /\ list # <<>>
      BY <1>17, <1>a DEF del, TypeOK, Held
    <3> QED
      BY <1>17, <3>1, UnlinkedType DEF del
  <2>5. TypeOK'
    BY <1>17, <1>a, <2>4 DEF del, TypeOK
  <2>6. Held'
    BY <1>17, <1>a DEF del, TypeOK, Held
  <2> QED
    BY <2>3, <2>5, <2>6 DEF CountInv
<1>18. CASE buf_factory_recycle
  <2>1. filling' = filling /\ kicking' = kicking /\ latching' = latching /\ taken = 1 /\ taken' = 1
    BY <1>18 DEF buf_factory_recycle, recycled, filling, kicking, latching, taken
  <2>2. refs' = refs /\ events' = events /\ kp_mbx' = kp_mbx /\ kt_mbx' = kt_mbx /\ written' = written
        /\ handled' = handled /\ local_mbx' = local_mbx /\ sent' = sent
    BY <1>18 DEF buf_factory_recycle, recycled
  <2>3. Accounts'
    BY <2>1, <2>2, <1>a, <1>b, <1>c DEF Accounts
  <2>4. free' \in Seq(Buf)
    BY <1>18, <1>a, PositionAssumption, AppendElements DEF buf_factory_recycle, recycled, TypeOK, Held
  <2>5. TypeOK'
    BY <1>18, <1>a, <2>4 DEF buf_factory_recycle, recycled, TypeOK
  <2>6. Held'
    BY <1>18, <1>a DEF buf_factory_recycle, recycled, TypeOK, Held
  <2> QED
    BY <2>3, <2>5, <2>6 DEF CountInv
<1>19. CASE report
  <2>1. filling' = filling /\ kicking' = kicking /\ latching' = latching /\ taken = 1 /\ taken' = 0
    BY <1>19 DEF report, reported, filling, kicking, latching, taken
  <2>2. local_mbx' = local_mbx + 1 /\ refs' = refs /\ events' = events /\ kp_mbx' = kp_mbx /\ kt_mbx' = kt_mbx
        /\ written' = written /\ handled' = handled /\ sent' = sent
    BY <1>19 DEF report, reported
  <2>3. Accounts'
    BY <2>1, <2>2, <1>a, <1>b, <1>c DEF Accounts
  <2>4. local_mbx' \in 0 .. MAX_EVENT
    BY <2>1, <2>2, <2>3, <1>a, <1>b, <1>c, PositionAssumption DEF Accounts
  <2>5. TypeOK'
    BY <1>19, <1>a, <2>4 DEF report, reported, TypeOK
  <2>6. Held'
    BY <1>19, <1>a DEF report, reported, TypeOK, Held
  <2> QED
    BY <2>3, <2>5, <2>6 DEF CountInv
<1>20. ASSUME NEW connected \in BOOLEAN, send(connected) PROVE CountInv'
  <2>1. filling' = filling /\ kicking' = kicking /\ latching' = latching /\ taken' = taken
    BY <1>20 DEF send, filling, kicking, latching, taken
  <2>2. local_mbx > 0 /\ local_mbx' = local_mbx - 1 /\ refs' = refs /\ events' = events /\ kp_mbx' = kp_mbx /\ kt_mbx' = kt_mbx
        /\ written' = written /\ handled' = handled
    BY <1>20 DEF send
  <2>3. Len(sent') = Len(sent) + 1 /\ sent' \in Seq(Nat \cup {None})
    <3>1. dis \in Nat \cup {None} /\ sent \in Seq(Nat \cup {None})
      BY <1>a, <1>b DEF TypeOK
    <3> QED
      BY <1>20, <3>1, AppendElements DEF send
  <2>4. Accounts'
    BY <2>1, <2>2, <2>3, <1>a, <1>b, <1>c DEF Accounts
  <2>5. local_mbx' \in 0 .. MAX_EVENT
    BY <2>1, <2>2, <2>3, <2>4, <1>a, <1>b, <1>c, PositionAssumption DEF Accounts
  <2>6. TypeOK'
    BY <1>20, <1>a, <2>3, <2>5 DEF send, TypeOK
  <2>7. Held'
    BY <1>20, <1>a DEF send, TypeOK, Held
  <2> QED
    BY <2>4, <2>6, <2>7 DEF CountInv
<1> QED
  BY <1>0, <1>1, <1>2, <1>3, <1>4, <1>5, <1>6, <1>7, <1>8, <1>9, <1>10, <1>11, <1>12, <1>13, <1>14, <1>15, <1>16, <1>17, <1>18, <1>19, <1>20 DEF CountInv, Next, Isr, Write, Dis, Send

----------------------------------------------------------------------------
(* Where each buffer is.                                                   *)
LEMMA Popped ==
  ASSUME NEW S, NEW s \in Seq(S), s # <<>>, Once(s)
  PROVE  /\ Once(Tail(s)) /\ ~Among(Head(s), Tail(s))
         /\ \A b : Among(b, s) <=> b = Head(s) \/ Among(b, Tail(s))
<1>1. /\ Head(s) = s[1] /\ Len(s) \in Nat \ {0} /\ DOMAIN s = 1 .. Len(s)
      /\ DOMAIN Tail(s) = 1 .. Len(s) - 1
      /\ \A i \in 1 .. Len(s) - 1 : Tail(s)[i] = s[i + 1]
  BY TailElements
<1>2. ASSUME NEW i \in DOMAIN Tail(s) PROVE i + 1 \in DOMAIN s /\ i + 1 # 1 /\ Tail(s)[i] = s[i + 1]
  BY <1>1
<1>3. Once(Tail(s)) 
  <2> SUFFICES ASSUME NEW i \in DOMAIN Tail(s), NEW j \in DOMAIN Tail(s), Tail(s)[i] = Tail(s)[j] PROVE i = j
    BY DEF Once
  <2>1. i + 1 = j + 1
    BY <1>2 DEF Once
  <2> QED
    BY <1>1, <2>1
<1>4. ~Among(Head(s), Tail(s))
  BY <1>1, <1>2 DEF Once, Among
<1>5. ASSUME NEW b, Among(b, s) PROVE b = Head(s) \/ Among(b, Tail(s))
  <2>1. PICK i \in DOMAIN s : s[i] = b
    BY <1>5 DEF Among
  <2>2. CASE i # 1
    <3>1. i - 1 \in DOMAIN Tail(s) /\ (i - 1) + 1 = i
      BY <1>1, <2>2
    <3> QED
      BY <1>2, <2>1, <3>1 DEF Among
  <2> QED
    BY <1>1, <2>1, <2>2
<1>6. ASSUME NEW b, b = Head(s) \/ Among(b, Tail(s)) PROVE Among(b, s)
  <2>1. 1 \in DOMAIN s
    BY <1>1
  <2> QED
    BY <1>1, <1>2, <1>6, <2>1 DEF Among
<1> QED
  BY <1>3, <1>4, <1>5, <1>6

(* A buffer put at the end of a list that does not have it.                *)
LEMMA Pushed ==
  ASSUME NEW S, NEW s \in Seq(S), NEW e \in S, Once(s), ~Among(e, s)
  PROVE  /\ Once(Append(s, e))
         /\ \A b : Among(b, Append(s, e)) <=> b = e \/ Among(b, s)
<1>1. /\ Len(s) \in Nat /\ DOMAIN s = 1 .. Len(s) /\ DOMAIN Append(s, e) = 1 .. Len(s) + 1
      /\ Append(s, e)[Len(s) + 1] = e
      /\ \A i \in 1 .. Len(s) : Append(s, e)[i] = s[i]
  BY AppendElements
<1>2. \A i \in DOMAIN Append(s, e) : i = Len(s) + 1 \/ i \in DOMAIN s
  BY <1>1
<1>3. \A i \in DOMAIN s : i \in DOMAIN Append(s, e) /\ Append(s, e)[i] = s[i] /\ s[i] # e
  BY <1>1 DEF Among
<1>4. Len(s) + 1 \in DOMAIN Append(s, e)
  BY <1>1
<1>5. Once(Append(s, e))
  BY <1>1, <1>2, <1>3 DEF Once
<1>6. \A b : Among(b, Append(s, e)) <=> b = e \/ Among(b, s)
  BY <1>1, <1>2, <1>3, <1>4 DEF Among
<1> QED
  BY <1>5, <1>6

(* At first every buffer is free.                                          *)
LEMMA BufInit == Init => BufInv
<1> SUFFICES ASSUME Init PROVE BufInv
  OBVIOUS
<1>1. DOMAIN free = Buf /\ \A b \in Buf : free[b] = b
  BY DEF Init, Buf
<1>2. DOMAIN list = {}
  BY DEF Init
<1>3. NoLoss
  BY <1>1 DEF NoLoss, Among
<1>4. NoTwin
  BY <1>1, <1>2 DEF Init, NoTwin, Among, Once, Writing, Recycling
<1> QED
  BY <1>3, <1>4 DEF Init, BufInv, Deaths

(* A step that leaves the two lists alone and every held buffer held.      *)
LEMMA BufSame ==
  ASSUME NoLoss, NoTwin, free' = free, list' = list,
         \A b \in Buf : (Writing(b))' = Writing(b) /\ (Recycling(b))' = Recycling(b)
  PROVE  NoLoss' /\ NoTwin'
BY DEF NoLoss, NoTwin

(* buf_factory_produce with no buffer left: all of them wait or are being  *)
(* measured, as the one thread that writes holds none.                     *)
LEMMA ProduceDry ==
  ASSUME NoLoss, NoTwin, died = "no", wpc = "idle", list' = list, dpc' = dpc, dbuf' = dbuf,
         free = <<>>, died' = "dry", UNCHANGED <<free, wbuf, wpc>>
  PROVE  BufInv'
<1>1. NoLoss' /\ NoTwin'
  BY BufSame DEF Writing, Recycling
<1>2. ASSUME NEW b \in Buf PROVE b = dbuf \/ Among(b, list)
  BY DEF NoLoss, Among, Writing, Recycling
<1> QED
  BY <1>1, <1>2 DEF BufInv, Deaths, Among

(* buf_factory_produce.                                                    *)
LEMMA ProduceTakes ==
  ASSUME TypeOK, NoLoss, NoTwin, died = "no", wpc = "idle", list' = list, dpc' = dpc, dbuf' = dbuf,
         free # <<>>, free' = Tail(free), wbuf' = Head(free), wpc' = "fill", died' = died
  PROVE  BufInv'
<1>1. free \in Seq(Buf)
  BY DEF TypeOK
<1>2. Head(free) \in Buf
  BY <1>1, TailElements
<1>3. Once(free') /\ ~Among(wbuf', free') /\ \A b : Among(b, free) <=> b = wbuf' \/ Among(b, free')
  BY <1>1, Popped DEF NoTwin
<1>4. \A b \in Buf : ((Writing(b))' <=> b = wbuf') /\ ~Writing(b) /\ (Recycling(b))' = Recycling(b)
  BY DEF Writing, Recycling
<1>5. NoLoss' /\ NoTwin'
  BY <1>2, <1>3, <1>4 DEF NoLoss, NoTwin
<1> QED
  BY <1>5 DEF BufInv, Deaths

(* Each step hands a buffer on: free, written, waiting, recycled, free.    *)
LEMMA BufStep == CountInv /\ BufInv /\ [Next]_vars => BufInv'
<1> SUFFICES ASSUME CountInv, BufInv, [Next]_vars PROVE BufInv'
  OBVIOUS
<1>a. TypeOK /\ Held
  BY DEF CountInv
<1>b. NoLoss /\ NoTwin /\ Deaths
  BY DEF BufInv
<1>c. free \in Seq(Buf) /\ list \in Seq(Buf)
  BY <1>a DEF TypeOK
<1>0. CASE UNCHANGED vars
  BY <1>0, <1>b DEF vars, BufInv, NoLoss, NoTwin, Deaths, Writing, Recycling
<1>1. ASSUME NEW on \in BOOLEAN, recv_pos_test_cmd(on) PROVE BufInv'
  <2>1. NoLoss' /\ NoTwin'
    BY <1>1, <1>b, BufSame DEF recv_pos_test_cmd, Writing, Recycling
  <2> QED
    BY <1>1, <2>1 DEF recv_pos_test_cmd, BufInv, Deaths
<1>2. CASE kick
  <2>1. NoLoss' /\ NoTwin'
    BY <1>2, <1>b, BufSame DEF kick, Writing, Recycling
  <2> QED
    BY <1>2, <2>1 DEF kick, BufInv, Deaths
<1>3. CASE event
  <2>1. NoLoss' /\ NoTwin'
    BY <1>3, <1>b, BufSame DEF event, Writing, Recycling
  <2> QED
    BY <1>3, <2>1 DEF event, BufInv, Deaths
<1>4. CASE recv_sample_result
  <2>1. died = "no" /\ wpc = "idle" /\ list' = list /\ dpc' = dpc /\ dbuf' = dbuf /\ owned' = owned
    BY <1>4 DEF recv_sample_result, produce
  <2>2. CASE free = <<>> /\ died' = "dry" /\ UNCHANGED <<free, wbuf, wpc>>
    BY <1>b, <2>1, <2>2, ProduceDry
  <2>3. CASE free # <<>> /\ free' = Tail(free) /\ wbuf' = Head(free) /\ wpc' = "fill" /\ UNCHANGED died
    BY <1>a, <1>b, <1>c, <2>1, <2>3, ProduceTakes
  <2> QED
    BY <1>4, <2>2, <2>3 DEF recv_sample_result, produce
<1>5. CASE kick_usec
  <2>1. NoLoss' /\ NoTwin'
    BY <1>5, <1>b, BufSame DEF kick_usec, Writing, Recycling
  <2> QED
    BY <1>5, <2>1 DEF kick_usec, BufInv, Deaths
<1>6. CASE post_kick
  <2>1. NoLoss' /\ NoTwin'
    BY <1>6, <1>b, BufSame DEF post_kick, Writing, Recycling
  <2> QED
    BY <1>6, <2>1 DEF post_kick, BufInv, Deaths
<1>7. CASE event_usec
  <2>1. NoLoss' /\ NoTwin'
    BY <1>7, <1>b, BufSame DEF event_usec, Writing, Recycling
  <2> QED
    BY <1>7, <2>1 DEF event_usec, BufInv, Deaths
<1>8. CASE post_event
  <2>1. NoLoss' /\ NoTwin'
    BY <1>8, <1>b, BufSame DEF post_event, Writing, Recycling
  <2> QED
    BY <1>8, <2>1 DEF post_event, BufInv, Deaths
<1>9. CASE write_kp_array
  <2>1. died = "no" /\ wpc = "idle" /\ list' = list /\ dpc' = dpc /\ dbuf' = dbuf /\ owned' = owned
    BY <1>9 DEF write_kp_array, produce
  <2>2. CASE free = <<>> /\ died' = "dry" /\ UNCHANGED <<free, wbuf, wpc>>
    BY <1>b, <2>1, <2>2, ProduceDry
  <2>3. CASE free # <<>> /\ free' = Tail(free) /\ wbuf' = Head(free) /\ wpc' = "fill" /\ UNCHANGED died
    BY <1>a, <1>b, <1>c, <2>1, <2>3, ProduceTakes
  <2> QED
    BY <1>9, <2>2, <2>3 DEF write_kp_array, produce
<1>10. CASE fill
  <2>1. NoLoss' /\ NoTwin'
    BY <1>10, <1>b, BufSame DEF fill, Writing, Recycling
  <2> QED
    BY <1>10, <2>1 DEF fill, BufInv, Deaths
<1>11. CASE add
  <2>1. wbuf \in Buf /\ Writing(wbuf)
    BY <1>11, <1>a DEF add, Held, Writing
  <2>2. list' = Append(list, wbuf) /\ free' = free /\ ~\E b \in Buf : (Writing(b))'
    BY <1>11 DEF add, Writing
  <2>3. Once(list') /\ \A b : Among(b, list') <=> b = wbuf \/ Among(b, list)
    BY <1>b, <1>c, <2>1, <2>2, Pushed DEF NoTwin
  <2>4. \A b \in Buf : (Recycling(b))' = Recycling(b) /\ (Writing(b) => b = wbuf)
    BY <1>11 DEF add, Recycling, Writing
  <2>5. NoLoss' /\ NoTwin'
    BY <1>b, <2>1, <2>2, <2>3, <2>4 DEF NoLoss, NoTwin
  <2> QED
    BY <1>11, <2>5 DEF add, BufInv, Deaths
<1>12. CASE set_owner
  <2>1. NoLoss' /\ NoTwin'
    BY <1>12, <1>b, BufSame DEF set_owner, Writing, Recycling
  <2> QED
    BY <1>12, <2>1 DEF set_owner, BufInv, Deaths
<1>13. CASE pend
  <2>1. NoLoss' /\ NoTwin'
    BY <1>13, <1>b, BufSame DEF pend, consumed, Writing, Recycling
  <2> QED
    BY <1>13, <2>1 DEF pend, consumed, BufInv, Deaths
<1>14. CASE look
  <2>1. NoLoss' /\ NoTwin'
    BY <1>14, <1>b, BufSame DEF look, without_reference, Writing, Recycling
  <2> QED
    BY <1>14, <2>1 DEF look, without_reference, BufInv, Deaths
<1>15. CASE follow_owner
  <2>1. NoLoss' /\ NoTwin'
    BY <1>15, <1>b, BufSame DEF follow_owner, Writing, Recycling
  <2>2. dbuf = Head(list)
    BY <1>15, <1>a, <1>c, TailElements DEF follow_owner, Held
  <2> QED
    BY <1>15, <2>1, <2>2 DEF follow_owner, BufInv, Deaths
<1>16. CASE measure
  <2>1. NoLoss' /\ NoTwin'
    BY <1>16, <1>b, BufSame DEF measure, Writing, Recycling
  <2> QED
    BY <1>16, <2>1 DEF measure, BufInv, Deaths
<1>17. CASE del
  <2>1. list # <<>> /\ dbuf \in Buf /\ dbuf = list[1]
    BY <1>17, <1>a DEF del, Held
  <2>2. list' = Tail(list) /\ dbuf = Head(list)
    BY <1>17, <1>b, <1>c, <2>1, Unlinked, TailElements DEF del, NoTwin
  <2>3. Once(list') /\ ~Among(dbuf, list') /\ \A b : Among(b, list) <=> b = dbuf \/ Among(b, list')
    BY <1>b, <1>c, <2>1, <2>2, Popped DEF NoTwin
  <2>4. free' = free /\ \A b \in Buf : (Writing(b))' = Writing(b) /\ ~Recycling(b) /\ ((Recycling(b))' <=> b = dbuf)
    BY <1>17 DEF del, Recycling, Writing
  <2>5. NoLoss' /\ NoTwin'
    BY <1>b, <2>1, <2>3, <2>4 DEF NoLoss, NoTwin
  <2> QED
    BY <1>17, <2>5 DEF del, BufInv, Deaths
<1>18. CASE buf_factory_recycle
  <2>1. dbuf \in Buf /\ Recycling(dbuf)
    BY <1>18, <1>a DEF buf_factory_recycle, Held, Recycling
  <2>2. free' = Append(free, dbuf) /\ list' = list /\ ~\E b \in Buf : (Recycling(b))'
    BY <1>18 DEF buf_factory_recycle, recycled, Recycling
  <2>3. Once(free') /\ \A b : Among(b, free') <=> b = dbuf \/ Among(b, free)
    BY <1>b, <1>c, <2>1, <2>2, Pushed DEF NoTwin
  <2>4. \A b \in Buf : (Writing(b))' = Writing(b) /\ (Recycling(b) => b = dbuf)
    BY <1>18 DEF buf_factory_recycle, Recycling, Writing
  <2>5. NoLoss' /\ NoTwin'
    BY <1>b, <2>1, <2>2, <2>3, <2>4 DEF NoLoss, NoTwin
  <2> QED
    BY <1>18, <2>5 DEF buf_factory_recycle, BufInv, Deaths
<1>19. CASE report
  <2>1. NoLoss' /\ NoTwin'
    BY <1>19, <1>b, BufSame DEF report, reported, Writing, Recycling
  <2> QED
    BY <1>19, <2>1 DEF report, reported, BufInv, Deaths
<1>20. ASSUME NEW connected \in BOOLEAN, send(connected) PROVE BufInv'
  <2>1. NoLoss' /\ NoTwin'
    BY <1>20, <1>b, BufSame DEF send, Writing, Recycling
  <2> QED
    BY <1>20, <2>1 DEF send, BufInv, Deaths
<1> QED
  BY <1>0, <1>1, <1>2, <1>3, <1>4, <1>5, <1>6, <1>7, <1>8, <1>9, <1>10, <1>11, <1>12, <1>13, <1>14, <1>15, <1>16, <1>17, <1>18, <1>19, <1>20 DEF Next, Isr, Write, Dis, Send

----------------------------------------------------------------------------
(* Which reference each waiting buffer holds, and what it is measured by.  *)
LEMMA RefInit == Init => RefInv
<1> SUFFICES ASSUME Init PROVE RefInv
  OBVIOUS
<1>1. Len(list) = 0 /\ Len(pairs) = 0 /\ DOMAIN list = {}
  BY DEF Init
<1>2. Latched
  BY DEF Init, Latched, halfkick, halfevent
<1>3. Waiting
  BY <1>1 DEF Init, Waiting, used, adding, unlinking
<1> QED
  BY <1>2, <1>3 DEF RefInv

(* Only the interrupt thread writes the statics, and a word at a time.     *)
LEMMA LatchedStep == CountInv /\ Latched /\ [Next]_vars => Latched'
<1> SUFFICES ASSUME CountInv, Latched, [Next]_vars PROVE Latched'
  OBVIOUS
<1>a. refs \in Nat /\ events \in Nat /\ refs + 1 \in Nat /\ events + 1 \in Nat
  BY Numbers DEF CountInv
<1>b. kp \in Stamp /\ kft \in Stamp
  BY DEF CountInv, TypeOK
<1>c. kp[1] \in Nat /\ kp[2] \in Nat /\ kft[1] \in Nat /\ kft[2] \in Nat
  BY <1>a, <1>b, StampWord
<1>0. CASE UNCHANGED vars
  <2>1. UNCHANGED <<item, refs, kp, events, kft, halfkick, halfevent>>
    BY <1>0 DEF vars, halfkick, halfevent
  <2> QED
    BY <2>1 DEF Latched, distance
<1>1. ASSUME NEW on \in BOOLEAN, recv_pos_test_cmd(on) PROVE Latched'
  <2>1. UNCHANGED <<item, refs, kp, events, kft, halfkick, halfevent>>
    BY <1>1 DEF recv_pos_test_cmd, halfkick, halfevent
  <2> QED
    BY <2>1 DEF Latched, distance
<1>2. CASE kick
  <2>1. refs' = refs + 1 /\ halfkick = 0 /\ halfkick' = 1 /\ ~distance /\ UNCHANGED <<item, events, kft, halfevent>>
    BY <1>2 DEF kick, halfkick, halfevent, distance
  <2>2. kp'[1] = refs + 1 /\ kp'[2] = kp[2]
    BY <1>2, <1>a, <1>b, StampWord DEF kick
  <2> QED
    BY <2>1, <2>2, <1>a, <1>c DEF Latched, distance
<1>3. CASE event
  <2>1. events' = events + 1 /\ halfevent = 0 /\ UNCHANGED <<item, refs, kp, halfkick>>
    BY <1>3 DEF event, halfkick, halfevent, distance
  <2>2. /\ kft'[1] = events + 1
        /\ kft'[2] + halfevent' >= events + 1
    <3>1. CASE distance
      <4>1. kft' = <<events + 1, events + 1>> /\ halfevent' = 0
        BY <1>3, <3>1 DEF event, halfevent
      <4> QED
        BY <4>1, <1>a
    <3>2. CASE ~distance
      <4>1. kft' = [kft EXCEPT ![1] = events + 1] /\ halfevent' = 1
        BY <1>3, <3>2 DEF event, halfevent
      <4>2. kft'[1] = events + 1 /\ kft'[2] = kft[2]
        BY <4>1, <1>a, <1>b, StampWord
      <4>3. kft[2] + halfevent >= events
        BY DEF Latched
      <4> QED
        BY <2>1, <4>1, <4>2, <4>3, <1>a, <1>c
    <3> QED
      BY <3>1, <3>2
  <2> QED
    BY <2>1, <2>2, <1>a DEF Latched, distance
<1>4. CASE recv_sample_result
  <2>1. distance /\ UNCHANGED <<item, events, kft, halfevent>>
    BY <1>4 DEF recv_sample_result, halfevent
  <2> QED
    BY <2>1 DEF Latched, distance
<1>5. CASE kick_usec
  <2>1. halfkick' = 0 /\ UNCHANGED <<item, refs, events, kft, halfevent>>
    BY <1>5 DEF kick_usec, halfkick, halfevent, distance
  <2>2. kp'[1] = kp[1] /\ kp'[2] = refs
    BY <1>5, <1>a, <1>b, StampWord DEF kick_usec
  <2> QED
    BY <2>1, <2>2, <1>a, <1>c DEF Latched, distance
<1>6. CASE post_kick
  <2>1. UNCHANGED <<item, refs, kp, events, kft, halfkick, halfevent>>
    BY <1>6 DEF post_kick, halfkick, halfevent
  <2> QED
    BY <2>1 DEF Latched, distance
<1>7. CASE event_usec
  <2>1. halfevent' = 0 /\ UNCHANGED <<item, refs, events, kp, halfkick>>
    BY <1>7 DEF event_usec, halfkick, halfevent, distance
  <2>2. kft'[1] = kft[1] /\ kft'[2] = events
    BY <1>7, <1>a, <1>b, StampWord DEF event_usec
  <2> QED
    BY <2>1, <2>2, <1>a, <1>c DEF Latched, distance
<1>8. CASE post_event
  <2>1. UNCHANGED <<item, refs, kp, events, kft, halfkick, halfevent>>
    BY <1>8 DEF post_event, halfkick, halfevent
  <2> QED
    BY <2>1 DEF Latched, distance
<1>9. CASE write_kp_array
  <2>1. UNCHANGED <<item, refs, kp, events, kft, halfkick, halfevent>>
    BY <1>9 DEF write_kp_array, produce, halfkick, halfevent
  <2> QED
    BY <2>1 DEF Latched, distance
<1>10. CASE fill
  <2>1. UNCHANGED <<item, refs, kp, events, kft, halfkick, halfevent>>
    BY <1>10 DEF fill, halfkick, halfevent
  <2> QED
    BY <2>1 DEF Latched, distance
<1>11. CASE add
  <2>1. UNCHANGED <<item, refs, kp, events, kft, halfkick, halfevent>>
    BY <1>11 DEF add, halfkick, halfevent
  <2> QED
    BY <2>1 DEF Latched, distance
<1>12. CASE set_owner
  <2>1. UNCHANGED <<item, refs, kp, events, kft, halfkick, halfevent>>
    BY <1>12 DEF set_owner, halfkick, halfevent
  <2> QED
    BY <2>1 DEF Latched, distance
<1>13. CASE pend
  <2>1. UNCHANGED <<item, refs, kp, events, kft, halfkick, halfevent>>
    BY <1>13 DEF pend, consumed, halfkick, halfevent
  <2> QED
    BY <2>1 DEF Latched, distance
<1>14. CASE look
  <2>1. UNCHANGED <<item, refs, kp, events, kft, halfkick, halfevent>>
    BY <1>14 DEF look, without_reference, halfkick, halfevent
  <2> QED
    BY <2>1 DEF Latched, distance
<1>15. CASE follow_owner
  <2>1. UNCHANGED <<item, refs, kp, events, kft, halfkick, halfevent>>
    BY <1>15 DEF follow_owner, halfkick, halfevent
  <2> QED
    BY <2>1 DEF Latched, distance
<1>16. CASE measure
  <2>1. UNCHANGED <<item, refs, kp, events, kft, halfkick, halfevent>>
    BY <1>16 DEF measure, halfkick, halfevent
  <2> QED
    BY <2>1 DEF Latched, distance
<1>17. CASE del
  <2>1. UNCHANGED <<item, refs, kp, events, kft, halfkick, halfevent>>
    BY <1>17 DEF del, halfkick, halfevent
  <2> QED
    BY <2>1 DEF Latched, distance
<1>18. CASE buf_factory_recycle
  <2>1. UNCHANGED <<item, refs, kp, events, kft, halfkick, halfevent>>
    BY <1>18 DEF buf_factory_recycle, recycled, halfkick, halfevent
  <2> QED
    BY <2>1 DEF Latched, distance
<1>19. CASE report
  <2>1. UNCHANGED <<item, refs, kp, events, kft, halfkick, halfevent>>
    BY <1>19 DEF report, reported, halfkick, halfevent
  <2> QED
    BY <2>1 DEF Latched, distance
<1>20. ASSUME NEW connected \in BOOLEAN, send(connected) PROVE Latched'
  <2>1. UNCHANGED <<item, refs, kp, events, kft, halfkick, halfevent>>
    BY <1>20 DEF send, halfkick, halfevent
  <2> QED
    BY <2>1 DEF Latched, distance
<1> QED
  BY <1>0, <1>1, <1>2, <1>3, <1>4, <1>5, <1>6, <1>7, <1>8, <1>9, <1>10, <1>11, <1>12, <1>13, <1>14, <1>15, <1>16, <1>17, <1>18, <1>19, <1>20 DEF Next, Isr, Write, Dis, Send

(* What measure adds to the history.                                       *)
LEMMA Measured ==
  ASSUME CountInv, measure
  PROVE  /\ Len(pairs) \in Nat /\ Len(pairs') = Len(pairs) + 1
         /\ DOMAIN pairs = 1 .. Len(pairs) /\ DOMAIN pairs' = 1 .. Len(pairs) + 1
         /\ pairs'[Len(pairs) + 1] = [event |-> handled, stamp |-> kft, from |-> sample[dbuf]]
         /\ \A k \in 1 .. Len(pairs) : pairs'[k] = pairs[k]
<1>1. dbuf \in Buf
  BY DEF CountInv, Held, measure
<1>2. kft \in Stamp /\ sample[dbuf] \in Reference /\ pairs \in Seq([event : Nat, stamp : Stamp, from : Reference])
  BY <1>1 DEF CountInv, TypeOK
<1>3. handled \in Nat
  BY Numbers DEF CountInv
<1>4. [event |-> handled, stamp |-> kft, from |-> sample[dbuf]] \in [event : Nat, stamp : Stamp, from : Reference]
  BY <1>2, <1>3
<1>5. pairs' = Append(pairs, [event |-> handled, stamp |-> kft, from |-> sample[dbuf]])
  BY DEF measure
<1> QED
  BY <1>2, <1>4, <1>5, AppendElements

(* A step that leaves the list and the references in it alone.             *)
LEMMA WaitingSame ==
  ASSUME Waiting, UNCHANGED <<written, pairs, list, sample>>, (dpc = "del")' = (dpc = "del"),
         (wpc = "add")' = (wpc = "add"), wpc = "add" => wbuf' = wbuf
  PROVE  Waiting'
<1>1. used' = used /\ adding' = adding
  BY DEF used, unlinking, adding
<1> QED
  BY <1>1 DEF Waiting, Holds

(* A reference is written once, linked at the tail and unlinked at the     *)
(* head: its place in the list is its number.                              *)
LEMMA WaitingStep == CountInv /\ BufInv /\ RefInv /\ [Next]_vars => Waiting'
<1> SUFFICES ASSUME CountInv, BufInv, RefInv, [Next]_vars PROVE Waiting'
  OBVIOUS
<1>a. Waiting /\ Latched /\ Accounts /\ Held /\ NoTwin
  BY DEF CountInv, BufInv, RefInv
<1>b. refs \in Nat /\ written \in Nat /\ kp_mbx \in Nat /\ filling \in Nat /\ kicking \in Nat /\ halfkick \in Nat
  BY Numbers, Digits DEF CountInv
<1>c. list \in Seq(Buf) /\ kp \in Stamp /\ sample \in [Buf -> Reference]
      /\ pairs \in Seq([event : Nat, stamp : Stamp, from : Reference])
  BY DEF CountInv, TypeOK
<1>d. Len(list) \in Nat /\ DOMAIN list = 1 .. Len(list) /\ Len(pairs) \in Nat
  BY <1>c, LenProperties
<1>e. used \in Int
  BY <1>d DEF used, unlinking
<1>0. CASE UNCHANGED vars
  BY <1>0, <1>a, WaitingSame DEF vars
<1>1. ASSUME NEW on \in BOOLEAN, recv_pos_test_cmd(on) PROVE Waiting'
  BY <1>1, <1>a, WaitingSame DEF recv_pos_test_cmd
<1>2. CASE kick
  BY <1>2, <1>a, WaitingSame DEF kick
<1>3. CASE event
  BY <1>3, <1>a, WaitingSame DEF event
<1>4. CASE recv_sample_result
  BY <1>4, <1>a, WaitingSame DEF recv_sample_result, produce
<1>5. CASE kick_usec
  BY <1>5, <1>a, WaitingSame DEF kick_usec
<1>6. CASE post_kick
  BY <1>6, <1>a, WaitingSame DEF post_kick
<1>7. CASE event_usec
  BY <1>7, <1>a, WaitingSame DEF event_usec
<1>8. CASE post_event
  BY <1>8, <1>a, WaitingSame DEF post_event
<1>9. CASE write_kp_array
  BY <1>9, <1>a, WaitingSame DEF write_kp_array, produce
<1>10. CASE fill
  <2>1. wbuf \in Buf /\ ~Among(wbuf, list)
    BY <1>10, <1>a DEF fill, Held, NoTwin, Writing
  <2>2. /\ written' = written + 1 /\ UNCHANGED <<list, pairs, wbuf, used>>
        /\ adding = 0 /\ adding' = 1 /\ filling = 1 /\ wpc' = "add"
    BY <1>10 DEF fill, used, unlinking, adding, filling
  <2>3. written' = used' + Len(list') + adding'
    BY <2>2, <1>a, <1>b, <1>d, <1>e DEF Waiting
  <2>4. \A i \in DOMAIN list : list[i] \in Buf /\ sample'[list[i]] = sample[list[i]]
    <3>1. \A i \in DOMAIN list : list[i] \in Buf /\ list[i] # wbuf
      BY <1>c, <1>d, <2>1, ElementOfSeq DEF Among
    <3> QED
      BY <1>10, <1>c, <3>1 DEF fill
  <2>5. \A i \in DOMAIN list' : (Holds(list[i], used + i))'
    BY <1>a, <2>2, <2>4 DEF Waiting, Holds
  <2>6. sample'[wbuf] = [ref |-> written + 1, stamp |-> IF distance THEN <<refs, refs>> ELSE kp]
    BY <1>10, <1>c, <2>1 DEF fill
  <2>7. written + 1 <= refs /\ written + 1 + halfkick <= refs
    <3>1. written + kp_mbx + filling + kicking <= refs
      BY <1>a DEF Accounts
    <3>2. halfkick = 0 \/ (halfkick = 1 /\ kicking = 1)
      BY DEF halfkick, kicking
    <3> QED
      BY <1>b, <2>2, <3>1, <3>2
  <2>8. sample'[wbuf].ref = written + 1 /\ sample'[wbuf].stamp[1] >= written + 1 /\ sample'[wbuf].stamp[2] >= written + 1
    <3>1. CASE distance
      <4>1. sample'[wbuf].ref = written + 1 /\ sample'[wbuf].stamp[1] = refs /\ sample'[wbuf].stamp[2] = refs
        BY <2>6, <3>1
      <4> QED
        BY <1>b, <2>7, <4>1
    <3>2. CASE ~distance
      <4>1. sample'[wbuf].ref = written + 1 /\ sample'[wbuf].stamp = kp
        BY <2>6, <3>2
      <4>2. kp[1] \in Nat /\ kp[2] \in Nat
        BY <1>b, <1>c, StampWord
      <4>3. kp[1] >= refs /\ kp[2] + halfkick >= refs
        BY <1>a, <3>2 DEF Latched
      <4>4. kp[1] >= written + 1 /\ kp[2] >= written + 1
        BY <1>b, <2>7, <4>2, <4>3
      <4> QED
        BY <4>1, <4>4
    <3> QED
      BY <3>1, <3>2
  <2>9. (Holds(wbuf, written))'
    BY <2>2, <2>8 DEF Holds
  <2> QED
    BY <2>3, <2>5, <2>9 DEF Waiting
<1>11. CASE add
  <2>1. wbuf \in Buf /\ Holds(wbuf, written) /\ adding = 1
    BY <1>11, <1>a DEF add, Held, Waiting, adding
  <2>2. list' = Append(list, wbuf) /\ UNCHANGED <<written, sample, used>> /\ adding' = 0 /\ wpc' # "add"
    BY <1>11 DEF add, used, unlinking, adding
  <2>3. /\ Len(list') = Len(list) + 1 /\ DOMAIN list' = 1 .. Len(list) + 1 /\ list'[Len(list) + 1] = wbuf
        /\ \A i \in 1 .. Len(list) : list'[i] = list[i]
    BY <1>c, <2>1, <2>2, AppendElements
  <2>4. written = used + Len(list) + 1
    BY <1>a, <2>1 DEF Waiting
  <2>5. ASSUME NEW i \in DOMAIN list' PROVE (Holds(list[i], used + i))'
    <3>1. CASE i \in 1 .. Len(list)
      BY <1>a, <1>d, <2>2, <2>3, <3>1 DEF Waiting, Holds
    <3>2. CASE i = Len(list) + 1
      <4>1. used + i = written
        BY <1>d, <1>e, <2>4, <3>2
      <4> QED
        BY <2>1, <2>2, <2>3, <3>2, <4>1 DEF Holds
    <3> QED
      BY <1>d, <2>3, <3>1, <3>2
  <2>6. written' = used' + Len(list') + adding'
    BY <1>b, <1>d, <1>e, <2>2, <2>3, <2>4
  <2> QED
    BY <2>2, <2>5, <2>6 DEF Waiting
<1>12. CASE set_owner
  BY <1>12, <1>a, WaitingSame DEF set_owner
<1>13. CASE pend
  BY <1>13, <1>a, WaitingSame DEF pend, consumed
<1>14. CASE look
  BY <1>14, <1>a, WaitingSame DEF look, without_reference
<1>15. CASE follow_owner
  BY <1>15, <1>a, WaitingSame DEF follow_owner
<1>16. CASE measure
  <2>1. UNCHANGED <<written, list, sample, wpc, wbuf>> /\ adding' = adding /\ unlinking = 0 /\ unlinking' = 1
    BY <1>16 DEF measure, adding, unlinking
  <2>2. Len(pairs') = Len(pairs) + 1
    BY <1>16, Measured
  <2>3. used' = used
    BY <1>d, <2>1, <2>2 DEF used
  <2> QED
    BY <1>a, <2>1, <2>3 DEF Waiting, Holds
<1>17. CASE del
  <2>1. list # <<>> /\ dbuf = list[1]
    BY <1>17, <1>a DEF del, Held
  <2>2. list' = Tail(list)
    BY <1>17, <1>a, <1>c, <2>1, Unlinked DEF del, NoTwin
  <2>3. UNCHANGED <<written, pairs, sample, wpc, wbuf>> /\ adding' = adding /\ unlinking = 1 /\ unlinking' = 0
    BY <1>17 DEF del, adding, unlinking
  <2>4. used' = used + 1
    BY <1>d, <2>3 DEF used
  <2>5. Len(list') = Len(list) - 1 /\ DOMAIN list' = 1 .. Len(list) - 1 /\ \A i \in 1 .. Len(list) - 1 : list'[i] = list[i + 1]
    BY <1>c, <2>1, <2>2, TailElements
  <2>6. ASSUME NEW i \in DOMAIN list' PROVE (Holds(list[i], used + i))'
    <3>1. i + 1 \in DOMAIN list /\ used' + i = used + (i + 1)
      BY <1>d, <1>e, <2>4, <2>5
    <3>2. Holds(list[i + 1], used + (i + 1))
      BY <1>a, <3>1 DEF Waiting
    <3> QED
      BY <2>3, <2>5, <3>1, <3>2 DEF Holds
  <2>7. written' = used' + Len(list') + adding'
    <3>1. written = used + Len(list) + adding /\ adding \in Nat
      BY <1>a, Digits DEF Waiting
    <3> QED
      BY <1>b, <1>d, <1>e, <2>3, <2>4, <2>5, <3>1
  <2> QED
    BY <1>a, <2>3, <2>6, <2>7 DEF Waiting, Holds
<1>18. CASE buf_factory_recycle
  BY <1>18, <1>a, WaitingSame DEF buf_factory_recycle, recycled
<1>19. CASE report
  BY <1>19, <1>a, WaitingSame DEF report, reported
<1>20. ASSUME NEW connected \in BOOLEAN, send(connected) PROVE Waiting'
  BY <1>20, <1>a, WaitingSame DEF send
<1> QED
  BY <1>0, <1>1, <1>2, <1>3, <1>4, <1>5, <1>6, <1>7, <1>8, <1>9, <1>10, <1>11, <1>12, <1>13, <1>14, <1>15, <1>16, <1>17, <1>18, <1>19, <1>20 DEF Next, Isr, Write, Dis, Send

----------------------------------------------------------------------------
(* What was paired and what was reported.                                  *)
LEMMA PairInit == Init => PairInv
<1> SUFFICES ASSUME Init PROVE PairInv
  OBVIOUS
<1>1. DOMAIN pairs = {} /\ DOMAIN sent = {}
  BY DEF Init
<1> QED
  BY <1>1 DEF Init, PairInv, PairsInOrder, Events, Reports

(* The numbers in the histories.                                           *)
LEMMA Histories ==
  ASSUME CountInv
  PROVE  /\ Len(pairs) \in Nat /\ DOMAIN pairs = 1 .. Len(pairs)
         /\ Len(sent) \in Nat /\ DOMAIN sent = 1 .. Len(sent)
         /\ \A k \in DOMAIN pairs : pairs[k].event \in Nat
         /\ \A n \in DOMAIN sent : sent[n] \in Nat \cup {None}
<1>1. pairs \in Seq([event : Nat, stamp : Stamp, from : Reference]) /\ sent \in Seq(Nat \cup {None})
  BY DEF CountInv, TypeOK
<1>2. Len(pairs) \in Nat /\ DOMAIN pairs = 1 .. Len(pairs) /\ Len(sent) \in Nat /\ DOMAIN sent = 1 .. Len(sent)
  BY <1>1, LenProperties
<1>3. \A k \in DOMAIN pairs : pairs[k] \in [event : Nat, stamp : Stamp, from : Reference]
  BY <1>1, <1>2, ElementOfSeq
<1>4. \A n \in DOMAIN sent : sent[n] \in Nat \cup {None}
  BY <1>1, <1>2, ElementOfSeq
<1> QED
  BY <1>2, <1>3, <1>4

(* A step that takes, measures and sends nothing.                          *)
LEMMA PairSame ==
  ASSUME PairInv, UNCHANGED <<pairs, handled, dis, sent>>,
         dpc' \in {"look", "owner", "measure"} => dpc \in {"look", "owner", "measure"}
  PROVE  PairInv'
BY DEF PairInv, PairsInOrder, Events, Reports

(* Events are taken in order, so dis and with it the reports only grow.    *)
LEMMA PairStep == CountInv /\ RefInv /\ PairInv /\ [Next]_vars => PairInv'
<1> SUFFICES ASSUME CountInv, RefInv, PairInv, [Next]_vars PROVE PairInv'
  OBVIOUS
<1>a. PairsInOrder /\ Events /\ Reports
  BY DEF PairInv
<1>b. Accounts /\ Held /\ Latched /\ Waiting
  BY DEF CountInv, RefInv
<1>c. /\ events \in Nat /\ kt_mbx \in Nat /\ handled \in Nat /\ dis \in Nat /\ local_mbx \in Nat
      /\ latching \in Nat /\ halfevent \in Nat /\ taken \in Nat
  BY Numbers, Digits DEF CountInv
<1>d. /\ Len(pairs) \in Nat /\ DOMAIN pairs = 1 .. Len(pairs)
      /\ Len(sent) \in Nat /\ DOMAIN sent = 1 .. Len(sent)
      /\ \A k \in DOMAIN pairs : pairs[k].event \in Nat
      /\ \A n \in DOMAIN sent : sent[n] \in Nat \cup {None}
  BY Histories
<1>0. CASE UNCHANGED vars
  BY <1>0, PairSame DEF vars
<1>1. ASSUME NEW on \in BOOLEAN, recv_pos_test_cmd(on) PROVE PairInv'
  BY <1>1, PairSame DEF recv_pos_test_cmd
<1>2. CASE kick
  BY <1>2, PairSame DEF kick
<1>3. CASE event
  BY <1>3, PairSame DEF event
<1>4. CASE recv_sample_result
  BY <1>4, PairSame DEF recv_sample_result, produce
<1>5. CASE kick_usec
  BY <1>5, PairSame DEF kick_usec
<1>6. CASE post_kick
  BY <1>6, PairSame DEF post_kick
<1>7. CASE event_usec
  BY <1>7, PairSame DEF event_usec
<1>8. CASE post_event
  BY <1>8, PairSame DEF post_event
<1>9. CASE write_kp_array
  BY <1>9, PairSame DEF write_kp_array, produce
<1>10. CASE fill
  BY <1>10, PairSame DEF fill
<1>11. CASE add
  BY <1>11, PairSame DEF add
<1>12. CASE set_owner
  BY <1>12, PairSame DEF set_owner
<1>13. CASE pend
  <2>1. handled' = handled + 1 /\ UNCHANGED <<pairs, dis, sent>>
    BY <1>13 DEF pend
  <2>2. dis <= handled
    BY <1>a DEF Events
  <2>3. dis < handled' /\ dis <= handled'
    BY <1>c, <2>1, <2>2
  <2>4. Events'
    BY <1>a, <2>1, <2>3 DEF Events
  <2>5. PairsInOrder' /\ Reports'
    BY <1>a, <2>1 DEF PairsInOrder, Reports
  <2> QED
    BY <2>4, <2>5 DEF PairInv
<1>14. CASE look
  BY <1>14, PairSame DEF look, without_reference
<1>15. CASE follow_owner
  BY <1>15, PairSame DEF follow_owner
<1>16. CASE measure
  <2> DEFINE K == Len(pairs) + 1
  <2>1. /\ DOMAIN pairs' = 1 .. K /\ K \in DOMAIN pairs'
        /\ pairs'[K] = [event |-> handled, stamp |-> kft, from |-> sample[dbuf]]
        /\ \A k \in 1 .. Len(pairs) : k \in DOMAIN pairs' /\ pairs'[k] = pairs[k]
    BY <1>16, <1>d, Measured
  <2>2. pairs'[K].event = handled /\ pairs'[K].stamp = kft /\ pairs'[K].from = sample[dbuf]
    BY <2>1
  <2>3. dis' = handled /\ UNCHANGED <<handled, sent>> /\ dpc' = "del" /\ dpc = "measure"
    BY <1>16 DEF measure
  <2>4. dis < handled /\ \A k \in DOMAIN pairs : pairs[k].event <= dis
    BY <1>a, <2>3 DEF Events
  <2>5. \A k \in DOMAIN pairs : pairs[k].event < handled
    BY <1>c, <1>d, <2>4
  <2>6. PairsInOrder'
    <3>1. /\ sample[dbuf].ref = K
          /\ sample[dbuf].stamp[1] >= K /\ sample[dbuf].stamp[2] >= K
      <4>1. list # <<>> /\ dbuf = list[1] /\ list \in Seq(Buf)
        BY <1>b, <2>3 DEF Held, CountInv, TypeOK
      <4>2. 1 \in DOMAIN list
        BY <4>1, TailElements
      <4>3. used = Len(pairs)
        BY <1>d, <2>3 DEF used, unlinking
      <4>4. Holds(list[1], used + 1)
        BY <1>b, <4>2 DEF Waiting
      <4> QED
        BY <4>1, <4>3, <4>4 DEF Holds
    <3>2. kft[1] >= handled /\ kft[2] >= handled
      <4>1. kft[1] >= events /\ kft[2] + halfevent >= events
        BY <1>b DEF Latched
      <4>2. handled + kt_mbx + latching = events
        BY <1>b DEF Accounts
      <4>3. halfevent = 0 \/ (halfevent = 1 /\ latching = 1)
        BY DEF halfevent, latching
      <4>4. kft[1] \in Nat /\ kft[2] \in Nat
        BY <1>c, StampWord DEF CountInv, TypeOK
      <4> QED
        BY <1>c, <4>1, <4>2, <4>3, <4>4
    <3>3. ASSUME NEW k \in 1 .. Len(pairs)
          PROVE  /\ pairs'[k].from.ref = k
                 /\ \A j \in 1 .. k - 1 : pairs'[j].event < pairs'[k].event
                 /\ \A w \in {1, 2} : pairs'[k].stamp[w] >= pairs'[k].event /\ pairs'[k].from.stamp[w] >= k
      <4>1. \A j \in 1 .. k - 1 : j \in 1 .. Len(pairs)
        BY <1>d
      <4> QED
        BY <1>a, <1>d, <2>1, <4>1 DEF PairsInOrder
    <3>4. /\ pairs'[K].from.ref = K
          /\ \A j \in 1 .. K - 1 : pairs'[j].event < pairs'[K].event
          /\ \A w \in {1, 2} : pairs'[K].stamp[w] >= pairs'[K].event /\ pairs'[K].from.stamp[w] >= K
      <4>1. \A j \in 1 .. K - 1 : j \in DOMAIN pairs
        BY <1>d
      <4>2. \A j \in 1 .. K - 1 : pairs'[j].event < pairs'[K].event
        BY <1>d, <2>1, <2>2, <2>5, <4>1
      <4>3. \A w \in {1, 2} : pairs'[K].stamp[w] >= pairs'[K].event /\ pairs'[K].from.stamp[w] >= K
        BY <2>2, <3>1, <3>2
      <4> QED
        BY <2>2, <3>1, <4>2, <4>3
    <3>5. \A k \in DOMAIN pairs' : k \in 1 .. Len(pairs) \/ k = K
      BY <1>d, <2>1
    <3> QED
      BY <3>3, <3>4, <3>5 DEF PairsInOrder
  <2>7. \A k \in DOMAIN pairs' : (k \in DOMAIN pairs /\ pairs'[k] = pairs[k]) \/ k = K
    BY <1>d, <2>1
  <2>8. \A i \in DOMAIN sent : sent[i] # None => sent[i] \in Nat /\ sent[i] < handled
    BY <1>a, <1>c, <1>d, <2>4 DEF Events
  <2>9. Events'
    <3>1. \A k \in DOMAIN pairs' : pairs'[k].event <= dis'
      BY <1>c, <1>d, <2>2, <2>3, <2>5, <2>7
    <3>2. \A i \in DOMAIN sent : sent[i] # None => sent[i] <= handled
      BY <1>c, <2>8
    <3> QED
      BY <1>c, <2>1, <2>2, <2>3, <3>1, <3>2 DEF Events
  <2>10. Reports'
    <3>1. Len(sent) < handled
      <4>1. handled = Len(sent) + local_mbx + taken /\ taken = 1
        BY <1>b, <2>3 DEF Accounts, taken
      <4> QED
        BY <1>c, <1>d, <4>1
    <3>2. ASSUME NEW i \in DOMAIN sent, sent[i] # None
          PROVE  /\ sent[i] = 0 \/ \E k \in DOMAIN pairs' : pairs'[k].event = sent[i]
                 /\ \A k \in DOMAIN pairs' : ~(sent[i] < pairs'[k].event /\ pairs'[k].event <= i)
                 /\ \A m \in 1 .. i - 1 : sent[m] # None => sent[m] <= sent[i]
      <4>1. /\ sent[i] = 0 \/ \E k \in DOMAIN pairs : pairs[k].event = sent[i]
            /\ \A k \in DOMAIN pairs : ~(sent[i] < pairs[k].event /\ pairs[k].event <= i)
            /\ \A m \in 1 .. i - 1 : sent[m] # None => sent[m] <= sent[i]
        BY <1>a, <3>2 DEF Reports
      <4>2. sent[i] = 0 \/ \E k \in DOMAIN pairs' : pairs'[k].event = sent[i]
        BY <1>d, <2>1, <4>1
      <4>3. ~(handled <= i)
        BY <1>c, <1>d, <3>1
      <4>4. \A k \in DOMAIN pairs' : ~(sent[i] < pairs'[k].event /\ pairs'[k].event <= i)
        BY <2>2, <2>7, <4>1, <4>3
      <4> QED
        BY <4>1, <4>2, <4>4
    <3> QED
      BY <2>3, <3>2 DEF Reports
  <2> QED
    BY <2>6, <2>9, <2>10 DEF PairInv
<1>17. CASE del
  BY <1>17, PairSame DEF del
<1>18. CASE buf_factory_recycle
  BY <1>18, PairSame DEF buf_factory_recycle, recycled
<1>19. CASE report
  BY <1>19, PairSame DEF report, reported
<1>20. ASSUME NEW connected \in BOOLEAN, send(connected) PROVE PairInv'
  <2> DEFINE r == IF connected THEN dis ELSE None
             N == Len(sent) + 1
  <2>1. sent' = Append(sent, r) /\ UNCHANGED <<pairs, handled, dis, dpc>>
    BY <1>20 DEF send
  <2>2. sent \in Seq(Nat \cup {None}) /\ r \in Nat \cup {None} /\ (r # None => r = dis)
    BY <1>c DEF CountInv, TypeOK
  <2>3. /\ DOMAIN sent' = 1 .. N /\ sent'[N] = r
        /\ \A i \in 1 .. Len(sent) : sent'[i] = sent[i]
    BY <2>1, <2>2, AppendElements
  <2>4. \A i \in DOMAIN sent' : i \in DOMAIN sent \/ i = N
    BY <1>d, <2>3
  <2>5. \A i \in DOMAIN sent' : sent'[i] # None => sent'[i] <= dis
    BY <1>a, <1>c, <1>d, <2>2, <2>3, <2>4 DEF Events
  <2>6. Events'
    BY <1>a, <2>1, <2>5 DEF Events
  <2>7. ASSUME NEW i \in DOMAIN sent', sent'[i] # None
        PROVE  /\ sent'[i] = 0 \/ \E k \in DOMAIN pairs : pairs[k].event = sent'[i]
               /\ \A k \in DOMAIN pairs : ~(sent'[i] < pairs[k].event /\ pairs[k].event <= i)
               /\ \A m \in 1 .. i - 1 : sent'[m] # None => sent'[m] <= sent'[i]
    <3>1. \A m \in 1 .. i - 1 : m \in DOMAIN sent /\ sent'[m] = sent[m]
      BY <1>d, <2>3
    <3>2. CASE i \in DOMAIN sent
      BY <1>a, <1>d, <2>3, <2>7, <3>1, <3>2 DEF Reports
    <3>3. CASE i = N
      <4>1. sent'[i] = dis
        BY <2>2, <2>3, <2>7, <3>3
      <4>2. \A k \in DOMAIN pairs : ~(dis < pairs[k].event)
        BY <1>a, <1>c, <1>d DEF Events
      <4> QED
        BY <1>a, <3>1, <4>1, <4>2 DEF Events
    <3> QED
      BY <2>4, <3>2, <3>3
  <2>8. Reports'
    BY <2>1, <2>7 DEF Reports
  <2>9. PairsInOrder'
    BY <1>a, <2>1 DEF PairsInOrder
  <2> QED
    BY <2>6, <2>8, <2>9 DEF PairInv
<1> QED
  BY <1>0, <1>1, <1>2, <1>3, <1>4, <1>5, <1>6, <1>7, <1>8, <1>9, <1>10, <1>11, <1>12, <1>13, <1>14, <1>15, <1>16, <1>17, <1>18, <1>19, <1>20 DEF Next, Isr, Write, Dis, Send

----------------------------------------------------------------------------
(* The four invariants together are inductive, so they always hold.        *)
THEOREM Invariance == Spec => []IInv
<1>1. Init => IInv
  BY CountInit, BufInit, RefInit, PairInit DEF IInv
<1>2. IInv /\ [Next]_vars => IInv'
  BY CountStep, BufStep, LatchedStep, WaitingStep, PairStep DEF IInv, RefInv
<1> QED
  BY <1>1, <1>2, PTL DEF Spec

(* The variables keep their types, for any number of buffers, references   *)
(* and events.                                                             *)
THEOREM TypeCorrect == Spec => []TypeOK
<1>1. IInv => TypeOK
  BY DEF IInv, CountInv
<1> QED
  BY <1>1, Invariance, PTL

(* References are used up in order, each for one event, and measured by    *)
(* their own latched values or later ones (position.c:77-92, 263-275).     *)
THEOREM ReferencesInOrder == Spec => []PairsInOrder
<1>1. IInv => PairsInOrder
  BY DEF IInv, PairInv
<1> QED
  BY <1>1, Invariance, PTL

(* Every event is answered once, and a report never goes back, although it *)
(* carries a pointer to a static (position.c:94-100, local_socket.c:106).  *)
THEOREM ReportsNeverGoBack == Spec => []ReportsInOrder
<1>1. IInv => ReportsInOrder
  <2> SUFFICES ASSUME IInv PROVE ReportsInOrder
    OBVIOUS
  <2>1. handled = Len(sent) + local_mbx + taken /\ taken = IF dpc = "pend" THEN 0 ELSE 1
    BY DEF IInv, CountInv, Accounts, taken
  <2>2. Reports
    BY DEF IInv, PairInv
  <2> QED
    BY <2>1, <2>2 DEF ReportsInOrder, Reports
<1> QED
  BY <1>1, Invariance, PTL

(* The process dies only when every buffer holds a reference, or in the    *)
(* window without an owner (buf_factory.c:81, position.c:84, 272-273).     *)
THEOREM WhyItDies == Spec => []Deaths
<1>1. IInv => Deaths
  BY DEF IInv, BufInv
<1> QED
  BY <1>1, Invariance, PTL

----------------------------------------------------------------------------
(* Answering, without fairness: what stands between the test and the       *)
(* reports it owes can only shrink, until the next event is latched.  The  *)
(* weights are the steps that an event in that place has before it.        *)
stage == [pend |-> 0, report |-> 2, recycle |-> 3, del |-> 4, measure |-> 5, owner |-> 6, look |-> 7]
work == (IF ipc = "usec" THEN 10 ELSE IF ipc = "post" THEN 9 ELSE 0) + 8 * kt_mbx + stage[dpc] + local_mbx

(* Every step that an event's answer takes brings the test nearer to its   *)
(* last report, unless it ends the process, and no step of any thread      *)
(* takes it back but another event.                                        *)
NearerStep ==
  /\ event_usec \/ post_event \/ Dis \/ Send => work' < work \/ died' = "wild"
  /\ work' > work => event

(* No work is left exactly when every event has its report; as long as     *)
(* some is left, a thread is at it, and the only one that may have to wait *)
(* is the distance task, for the mutex the writer holds.                   *)
AnswersAreOwed ==
  /\ work \in Nat
  /\ work = 0 <=> Len(sent) = events
  /\ work > 0 => \/ ipc \in {"usec", "post"} \/ kt_mbx > 0 \/ local_mbx > 0
                 \/ dpc # "pend" /\ ~(dpc = "del" /\ wpc = "owner")
                 \/ wpc = "owner"

(* The terms of the sum.                                                   *)
LEMMA WorkTerms ==
  ASSUME CountInv
  PROVE  /\ stage[dpc] \in 0 .. 7 /\ (stage[dpc] = 0 <=> dpc = "pend")
         /\ kt_mbx \in Nat /\ local_mbx \in Nat /\ work \in Nat
<1>0. /\ dpc \in {"pend", "look", "owner", "measure", "del", "recycle", "report"}
      /\ kt_mbx \in 0 .. MAX_EVENT /\ local_mbx \in 0 .. MAX_EVENT
  BY DEF CountInv, TypeOK
<1>1. stage[dpc] \in 0 .. 7 /\ (stage[dpc] = 0 <=> dpc = "pend")
  BY <1>0 DEF stage
<1>2. kt_mbx \in Nat /\ local_mbx \in Nat
  BY <1>0, PositionAssumption
<1>3. work \in Nat
  BY <1>1, <1>2 DEF work
<1> QED
  BY <1>1, <1>2, <1>3

LEMMA AnswersOwed == ASSUME IInv PROVE AnswersAreOwed
<1> USE DEF IInv, CountInv
<1>1. PICK g \in 0 .. 7, k \in Nat, l \in Nat, e \in Nat, n \in Nat :
        g = stage[dpc] /\ k = kt_mbx /\ l = local_mbx /\ e = events /\ n = Len(sent)
  <2>1. events \in 0 .. MAX_EVENT /\ sent \in Seq(Nat \cup {None})
    BY DEF TypeOK
  <2>2. events \in Nat /\ Len(sent) \in Nat
    BY <2>1, LenProperties, PositionAssumption
  <2> QED
    BY <2>2, WorkTerms
<1>2. g = 0 <=> dpc = "pend"
  BY <1>1, WorkTerms
<1>3. e = n + l + (IF g = 0 THEN 0 ELSE 1) + k + latching
  BY <1>1, <1>2 DEF Accounts, taken, TypeOK, latching
<1>4. work = (IF ipc = "usec" THEN 10 ELSE IF ipc = "post" THEN 9 ELSE 0) + 8 * k + g + l
  BY <1>1 DEF work
<1>5. CASE ipc \in {"usec", "post"}
  <2>1. e = n + l + (IF g = 0 THEN 0 ELSE 1) + k + 1
    BY <1>3, <1>5 DEF latching
  <2>2. work = 10 + 8 * k + g + l \/ work = 9 + 8 * k + g + l
    BY <1>4, <1>5
  <2>3. e # n /\ work # 0
    BY <2>1, <2>2
  <2> QED
    BY <1>1, <1>5, <2>3, WorkTerms DEF AnswersAreOwed
<1>6. CASE ipc \notin {"usec", "post"}
  <2>1. e = n + l + (IF g = 0 THEN 0 ELSE 1) + k
    BY <1>3, <1>6 DEF latching
  <2>2. work = 8 * k + g + l
    BY <1>4, <1>6
  <2>3. (work = 0 <=> e = n) /\ (work > 0 => k > 0 \/ g # 0 \/ l > 0)
    BY <2>1, <2>2
  <2> QED
    BY <1>1, <1>2, <2>3, WorkTerms DEF AnswersAreOwed
<1> QED
  BY <1>5, <1>6

(* The sum when the parts that an action leaves alone are left alone.      *)
LEMMA AnswerStep ==
  ASSUME IInv, IInv', event_usec \/ post_event \/ Dis \/ Send
  PROVE  work' < work \/ (died' = "wild" /\ work' = work)
<1> USE DEF IInv
<1>1. /\ stage[dpc] \in 0 .. 7 /\ kt_mbx \in Nat /\ local_mbx \in Nat
  BY WorkTerms
<1>2. CASE event_usec
  <2>1. ipc = "usec" /\ ipc' = "post" /\ UNCHANGED <<kt_mbx, dpc, local_mbx>>
    BY <1>2 DEF event_usec
  <2> QED
    BY <1>1, <2>1 DEF work
<1>3. CASE post_event
  <2>1. ipc = "post" /\ ipc' = "wait" /\ kt_mbx' = kt_mbx + 1 /\ UNCHANGED <<dpc, local_mbx>>
    BY <1>3 DEF post_event
  <2> QED
    BY <1>1, <2>1 DEF work
<1>4. CASE Send
  <2>1. local_mbx' = local_mbx - 1 /\ UNCHANGED <<ipc, kt_mbx, dpc>>
    BY <1>4 DEF Send, send
  <2> QED
    BY <1>1, <2>1 DEF work
<1>5. CASE pend
  <2>1. /\ dpc = "pend" /\ dpc' = "look" /\ kt_mbx' = kt_mbx - 1
        /\ UNCHANGED <<ipc, local_mbx>>
    BY <1>5 DEF pend, consumed
  <2>2. stage[dpc] = 0 /\ stage[dpc]' = 7
    BY <2>1 DEF stage
  <2> QED
    BY <1>1, <2>1, <2>2 DEF work
<1>6. CASE report
  <2>1. /\ dpc = "report" /\ dpc' = "pend" /\ local_mbx' = local_mbx + 1
        /\ UNCHANGED <<ipc, kt_mbx>>
    BY <1>6 DEF report, reported
  <2>2. stage[dpc] = 2 /\ stage[dpc]' = 0
    BY <2>1 DEF stage
  <2> QED
    BY <1>1, <2>1, <2>2 DEF work
<1>7. CASE follow_owner /\ dbuf \notin owned
  <2>1. died' = "wild" /\ UNCHANGED <<ipc, kt_mbx, local_mbx, dpc>>
    BY <1>7 DEF follow_owner
  <2> QED
    BY <2>1 DEF work
<1>8. ASSUME UNCHANGED <<ipc, kt_mbx, local_mbx>>, stage[dpc]' \in 0 .. 7, stage[dpc]' < stage[dpc]
      PROVE  work' < work
  BY <1>1, <1>8 DEF work
<1>9. CASE look
  <2>1. dpc = "look" /\ dpc' \in {"report", "owner"} /\ UNCHANGED <<ipc, kt_mbx, local_mbx>>
    BY <1>9 DEF look, without_reference
  <2> QED
    BY <1>8, <2>1 DEF stage
<1>10. CASE follow_owner /\ dbuf \in owned
  <2>1. dpc = "owner" /\ dpc' = "measure" /\ UNCHANGED <<ipc, kt_mbx, local_mbx>>
    BY <1>10 DEF follow_owner
  <2> QED
    BY <1>8, <2>1 DEF stage
<1>11. CASE measure
  <2>1. dpc = "measure" /\ dpc' = "del" /\ UNCHANGED <<ipc, kt_mbx, local_mbx>>
    BY <1>11 DEF measure
  <2> QED
    BY <1>8, <2>1 DEF stage
<1>12. CASE del
  <2>1. dpc = "del" /\ dpc' = "recycle" /\ UNCHANGED <<ipc, kt_mbx, local_mbx>>
    BY <1>12 DEF del
  <2> QED
    BY <1>8, <2>1 DEF stage
<1>13. CASE buf_factory_recycle
  <2>1. dpc = "recycle" /\ dpc' = "report" /\ UNCHANGED <<ipc, kt_mbx, local_mbx>>
    BY <1>13 DEF buf_factory_recycle
  <2> QED
    BY <1>8, <2>1 DEF stage
<1> QED
  BY <1>2, <1>3, <1>4, <1>5, <1>6, <1>7, <1>9, <1>10, <1>11, <1>12, <1>13 DEF Dis

(* The steps of the other threads.                                         *)
LEMMA AnswerKept ==
  ASSUME IInv,
         \/ \E on \in BOOLEAN : recv_pos_test_cmd(on)
         \/ kick \/ recv_sample_result \/ kick_usec \/ post_kick \/ Write
  PROVE  work' = work
<1>1. CASE kick \/ kick_usec \/ post_kick
  <2>1. ipc \notin {"usec", "post"} /\ ipc' \notin {"usec", "post"} /\ UNCHANGED <<kt_mbx, dpc, local_mbx>>
    BY <1>1 DEF kick, kick_usec, post_kick
  <2> QED
    BY <2>1 DEF work
<1>2. CASE (\E on \in BOOLEAN : recv_pos_test_cmd(on)) \/ recv_sample_result \/ Write
  <2>1. UNCHANGED <<ipc, kt_mbx, dpc, local_mbx>>
    BY <1>2 DEF recv_pos_test_cmd, recv_sample_result, Write, write_kp_array, fill, add, set_owner
  <2> QED
    BY <2>1 DEF work
<1> QED
  BY <1>1, <1>2

(* A test that owes reports comes nearer to the last of them with every    *)
(* step of the distance task and the sender, whether or not a reference    *)
(* waits; commands, references and the writer's mutex do not take it back  *)
(* (position.c:77-100, isr.c:93-97).                                       *)
THEOREM AnswersAll == Spec => []AnswersAreOwed /\ [][NearerStep]_vars
<1>1. IInv => AnswersAreOwed
  BY AnswersOwed
<1>2. IInv' => AnswersAreOwed'
  BY <1>1, PTL
<1>3. IInv /\ IInv' /\ [Next]_vars => [NearerStep]_vars
  <2> SUFFICES ASSUME IInv, IInv', Next PROVE NearerStep
    OBVIOUS
  <2>1. work \in Nat /\ work' \in Nat
    BY <1>1, <1>2 DEF AnswersAreOwed
  <2>2. CASE event_usec \/ post_event \/ Dis \/ Send
    <3>1. work' < work \/ (died' = "wild" /\ work' = work)
      BY <2>2, AnswerStep
    <3> QED
      BY <2>1, <3>1 DEF NearerStep
  <2>3. CASE ~(event_usec \/ post_event \/ Dis \/ Send) /\ event
    BY <2>3 DEF NearerStep
  <2>4. CASE ~(event_usec \/ post_event \/ Dis \/ Send) /\ ~event
    <3>1. work' = work
      BY <2>4, AnswerKept DEF Next, Isr
    <3> QED
      BY <2>1, <2>4, <3>1 DEF NearerStep
  <2> QED
    BY <2>2, <2>3, <2>4
<1> QED
  BY <1>1, <1>3, Invariance, PTL DEF Spec
=============================================================================
