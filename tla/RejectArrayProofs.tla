------------------------- MODULE RejectArrayProofs -------------------------
(***************************************************************************)
(* Proofs about RejectArray, for any number of buffers, any results, any   *)
(* wheel codes and any bound on the passages.                              *)
(*                                                                         *)
(* Three inductive invariants, each using those before it: the types; the  *)
(* buffers (BufInv: where each buffer is, who owns it, what a reset has    *)
(* emptied); and the passages (PassInv: how many of them are where, what   *)
(* the trig tasks have read and counted).  With them every step of the     *)
(* array is a step of RejectLine or leaves the line alone; that a C        *)
(* comparison hits exactly in a sample's window is proved in WheelProofs.  *)
(***************************************************************************)
EXTENDS RejectArray, WheelProofs, SequenceTheorems, TLAPS

(* A reset that has cleared a list finds it empty until it replies, and no *)
(* buffer of it is in the trig task's hands.                               *)
Cleared(s) == sample_list[s] = <<>> /\ hit[s] = None
RecvState ==
  /\ rpc \in {"clear2", "reply"} => Cleared(1)
  /\ rpc = "reply" => Cleared(2)

BufInv == BufNoLoss /\ BufNoTwin /\ OwnerWindow /\ RecvState /\ DeathCauses

(* A verdict waits exactly between the search and the FIFO; only station 1 *)
(* counts, and in the inner-wheel mode it reads no wheel code.             *)
TrigState ==
  /\ \A s \in Station : tpc[s] \in {"recycle", "fifo"} <=> verdict[s] # -1
  /\ tpc[2] \notin {"load", "store"}
  /\ tpc[1] = "deref" => kick_mode # 0

(* The register of an increment that no reset disturbed is the count.      *)
LoadAgrees == tpc[1] = "store" /\ ~torn => tmp = cur_count_kt1

PassInv == VerdictPerPassage /\ NeverOlder /\ CountTracks /\ LoadAgrees /\ TrigState

----------------------------------------------------------------------------
(* A word is a word.                                                       *)
LEMMA u32Range == ASSUME NEW x \in Int PROVE u32(x) \in 0 .. WORD - 1
BY WidthAssumption DEF u32

(* The elements of a sequence without its head.                            *)
LEMMA TailElements ==
  ASSUME NEW S, NEW s \in Seq(S), s # <<>>
  PROVE  /\ Tail(s) \in Seq(S)
         /\ Head(s) \in S
         /\ Head(s) = s[1]
         /\ 1 \in DOMAIN s
         /\ \A i \in DOMAIN Tail(s) : i \in Nat \ {0} /\ i + 1 \in DOMAIN s /\ Tail(s)[i] = s[i + 1]
         /\ \A i \in DOMAIN s : i = 1 \/ (i - 1 \in DOMAIN Tail(s) /\ Tail(s)[i - 1] = s[i])
BY HeadTailProperties, LenProperties, Len(s) \in Nat \ {0}

(* The elements of a sequence with one more at its end.                    *)
LEMMA AppendElements ==
  ASSUME NEW S, NEW s \in Seq(S), NEW e \in S
  PROVE  /\ Append(s, e) \in Seq(S)
         /\ Len(s) \in Nat
         /\ Len(Append(s, e)) = Len(s) + 1
         /\ DOMAIN s = 1 .. Len(s)
         /\ DOMAIN Append(s, e) = 1 .. Len(s) + 1
         /\ Append(s, e)[Len(s) + 1] = e
         /\ \A i \in DOMAIN s : Append(s, e)[i] = s[i]
BY AppendProperties, LenProperties

(* Unlinking the i-th node leaves the others, in their order.              *)
LEMMA ListDelElements ==
  ASSUME NEW S, NEW l \in Seq(S), NEW i \in DOMAIN l
  PROVE  /\ list_del(l, i) \in Seq(S)
         /\ Len(list_del(l, i)) = Len(l) - 1
         /\ DOMAIN list_del(l, i) = 1 .. Len(l) - 1
         /\ \A j \in 1 .. Len(l) - 1 : list_del(l, i)[j] = IF j < i THEN l[j] ELSE l[j + 1]
<1>1. Len(l) \in Nat /\ DOMAIN l = 1 .. Len(l) /\ Len(l) - 1 \in Nat
  BY LenProperties
<1>2. \A j \in 1 .. Len(l) - 1 : (IF j < i THEN l[j] ELSE l[j + 1]) \in S
  BY <1>1, ElementOfSeq
<1>3. list_del(l, i) \in [1 .. Len(l) - 1 -> S]
  BY <1>2 DEF list_del
<1>4. list_del(l, i) \in Seq(S)
  BY <1>1, <1>3, SeqDef
<1> QED
  BY <1>1, <1>3, <1>4, LenProperties DEF list_del

(* Which node is where after that: the nodes left are all but the i-th,    *)
(* each once, and the last one is still the last.                          *)
LEMMA ListDelNodes ==
  ASSUME NEW S, NEW l \in Seq(S), NEW n \in DOMAIN l, NEW m, m = list_del(l, n)
  PROVE  /\ \A j \in DOMAIN m : \E k \in DOMAIN l : k # n /\ m[j] = l[k] /\ (k = Len(l) => j = Len(m))
         /\ \A k \in DOMAIN l : k # n => \E j \in DOMAIN m : m[j] = l[k]
         /\ (\A i, j \in DOMAIN l : l[i] = l[j] => i = j) => \A i, j \in DOMAIN m : m[i] = m[j] => i = j
<1>0. PICK N \in Nat : N = Len(l) /\ DOMAIN l = 1 .. N
  BY LenProperties
<1>1. n \in 1 .. N /\ DOMAIN m = 1 .. N - 1 /\ Len(m) = N - 1
  BY <1>0, ListDelElements
<1>2. \A j \in 1 .. N - 1 : m[j] = IF j < n THEN l[j] ELSE l[j + 1]
  BY <1>0, ListDelElements
<1> DEFINE At(j) == IF j < n THEN j ELSE j + 1
<1>3. \A j \in 1 .. N - 1 : At(j) \in 1 .. N /\ At(j) # n /\ (At(j) = N => j = N - 1)
  BY <1>1
<1>4. \A j \in 1 .. N - 1 : m[j] = l[At(j)]
  BY <1>2
<1>5. \A i, j \in 1 .. N - 1 : At(i) = At(j) => i = j
  BY <1>1
<1>6. \A k \in 1 .. N : k # n => \E j \in 1 .. N - 1 : At(j) = k
  <2> SUFFICES ASSUME NEW k \in 1 .. N, k # n PROVE \E j \in 1 .. N - 1 : At(j) = k
    OBVIOUS
  <2>1. CASE k < n
    <3>1. k \in 1 .. N - 1 /\ At(k) = k
      BY <1>1, <2>1
    <3> QED
      BY <3>1
  <2>2. CASE k > n
    <3>1. k - 1 \in 1 .. N - 1 /\ At(k - 1) = k
      BY <1>1, <2>2
    <3> QED
      BY <3>1
  <2> QED
    BY <1>1, <2>1, <2>2
<1> HIDE DEF At
<1>7. \A j \in DOMAIN m : \E k \in DOMAIN l : k # n /\ m[j] = l[k] /\ (k = Len(l) => j = Len(m))
  <2> SUFFICES ASSUME NEW j \in 1 .. N - 1
               PROVE  \E k \in 1 .. N : k # n /\ m[j] = l[k] /\ (k = N => j = N - 1)
    BY <1>0, <1>1
  <2>1. At(j) \in 1 .. N /\ At(j) # n /\ m[j] = l[At(j)] /\ (At(j) = N => j = N - 1)
    BY <1>3, <1>4
  <2> QED
    BY <2>1
<1>8. \A k \in DOMAIN l : k # n => \E j \in DOMAIN m : m[j] = l[k]
  BY <1>0, <1>1, <1>4, <1>6
<1>9. ASSUME \A i, j \in DOMAIN l : l[i] = l[j] => i = j
      PROVE  \A i, j \in DOMAIN m : m[i] = m[j] => i = j
  BY <1>0, <1>1, <1>3, <1>4, <1>5, <1>9
<1> QED
  BY <1>7, <1>8, <1>9

(* The elements of a concatenation.                                        *)
LEMMA ConcatElements ==
  ASSUME NEW S, NEW s \in Seq(S), NEW t \in Seq(S)
  PROVE  /\ s \o t \in Seq(S)
         /\ Len(s) \in Nat /\ Len(t) \in Nat
         /\ DOMAIN s = 1 .. Len(s) /\ DOMAIN t = 1 .. Len(t)
         /\ DOMAIN (s \o t) = 1 .. Len(s) + Len(t)
         /\ \A i \in DOMAIN s : (s \o t)[i] = s[i]
         /\ \A i \in DOMAIN t : (s \o t)[Len(s) + i] = t[i]
BY ConcatProperties, LenProperties

(* The steps of the array, one by one.                                     *)
Deciding(s) == tpc[s] = "search" /\ died = "no" /\ \E key \in keys(s) : search(s, key)

LEMMA NextSteps ==
  Next => \/ \E r \in Result : write_array(r)
          \/ link \/ set_owner \/ reset_count \/ clear_array(1) \/ clear_array(2) \/ reset_reply
          \/ load_count \/ store_count
          \/ \E s \in Station : \/ \E c \in Code : latch(s, c)
                              \/ post(s) \/ pend(s) \/ deref(s) \/ Deciding(s)
                                \/ buf_factory_recycle(s) \/ write_fifo(s)
BY DEF Next, Recv, Trig, Deciding

----------------------------------------------------------------------------
(* The types hold initially.                                               *)
LEMMA InitTypeOK == Init => TypeOK
<1> SUFFICES ASSUME Init PROVE TypeOK
  OBVIOUS
<1> USE DEF Init
<1>1. free \in Seq(Buf)
  BY IsASeq, ArrayAssumption DEF Buf
<1>2. sample \in [Buf -> Result]
  <2>1. (CHOOSE r \in Result : TRUE) \in Result
    <3>1. \E r \in Result : TRUE
      BY ArrayAssumption
    <3> QED
      BY <3>1, Zenon
  <2> QED
    BY <2>1
<1>3. cur_count_kt1 \in 0 .. WORD - 1 /\ tmp \in 0 .. WORD - 1
  BY WidthAssumption
<1>4. \A s \in Station : Len(passed[s]) <= MAX_PASS[s] /\ mbx[s] <= MAX_PASS[s]
  BY ArrayAssumption DEF Station
<1>5. /\ kick_mode \in {0, 1} /\ owned \in SUBSET Buf /\ popped \in Nat /\ torn \in BOOLEAN
      /\ rpc \in {"idle", "link", "owner", "clear1", "clear2", "reply"}
      /\ rbuf \in IF rpc \in {"link", "owner"} THEN Buf ELSE {None}
      /\ died \in {"no", "dry", "wild"}
  OBVIOUS
<1>6. /\ sample_list \in [Station -> Seq(Buf)]
      /\ passed \in [Station -> Seq(Code)] /\ fifo \in [Station -> Seq({0, 1})]
      /\ ipc \in [Station -> {"wait", "post"}]
      /\ mbx \in [Station -> Nat] /\ read \in [Station -> Nat]
      /\ tpc \in [Station -> {"pend", "load", "store", "deref", "search", "recycle", "fifo"}]
      /\ hit \in [Station -> Buf \cup {None}] /\ (\A s \in Station : hit[s] = None <=> tpc[s] # "recycle")
      /\ verdict \in [Station -> {-1, 0, 1}]
  OBVIOUS
<1> QED
  BY <1>1, <1>2, <1>3, <1>4, <1>5, <1>6 DEF TypeOK

(* Every step of local_recv_tsk keeps the types.                           *)
LEMMA RecvTypeOK ==
  ASSUME TypeOK,
         \/ \E r \in Result : write_array(r)
         \/ link \/ set_owner \/ reset_count \/ clear_array(1) \/ clear_array(2) \/ reset_reply
  PROVE  TypeOK'
<1> USE DEF TypeOK, recvVars, countVars, isrVars, trigVars
<1>1. ASSUME NEW r \in Result, write_array(r) PROVE TypeOK'
  <2>1. CASE free = <<>>
    BY <1>1, <2>1 DEF write_array
  <2>2. CASE free # <<>>
    <3>1. Head(free) \in Buf /\ Tail(free) \in Seq(Buf)
      BY <2>2, TailElements
    <3> QED
      BY <1>1, <2>2, <3>1 DEF write_array, buf_factory_produce
  <2> QED
    BY <2>1, <2>2
<1>2. CASE link
  <2>1. rbuf \in Buf /\ sample[rbuf].pos \in Station
    BY <1>2, ArrayAssumption DEF link
  <2>2. sample_list' \in [Station -> Seq(Buf)]
    BY <1>2, <2>1, AppendProperties DEF link
  <2> QED
    BY <1>2, <2>1, <2>2 DEF link
<1>3. CASE set_owner
  BY <1>3 DEF set_owner, owners
<1>4. CASE reset_count
  BY <1>4, WidthAssumption DEF reset_count
<1>5. ASSUME NEW s \in Station, clear_array(s) PROVE TypeOK'
  BY <1>5, ConcatElements DEF clear_array, recycle_all
<1>6. CASE reset_reply
  BY <1>6 DEF reset_reply
<1> QED
  BY <1>1, <1>2, <1>3, <1>4, <1>5, <1>6 DEF Station

(* Every step of an interrupt thread or a trig task but the search.        *)
LEMMA PassTypeOK ==
  ASSUME TypeOK, PassInv, NEW s \in Station,
         \/ \E c \in Code : latch(s, c)
         \/ post(s) \/ pend(s) \/ deref(s) \/ buf_factory_recycle(s) \/ write_fifo(s)
         \/ load_count \/ store_count
  PROVE  TypeOK'
<1> USE DEF TypeOK, recvVars, countVars, isrVars, trigVars
<1>0. MAX_PASS \in [Station -> Nat] /\ \A u \in Station : Len(passed[u]) \in Nat /\ Len(fifo[u]) \in Nat
  BY ArrayAssumption, LenProperties
<1>1. ASSUME NEW c \in Code, latch(s, c) PROVE TypeOK'
  <2>1. /\ passed' \in [Station -> Seq(Code)]
        /\ \A u \in Station : Len(passed'[u]) <= MAX_PASS[u]
    BY <1>0, <1>1, AppendProperties DEF latch
  <2> QED
    BY <1>1, <2>1 DEF latch
<1>2. CASE post(s)
  <2>1. mbx'[s] \in Nat /\ mbx'[s] <= MAX_PASS[s]
    <3>1. Len(passed[s]) >= mbx[s] + 1
      <4>1. \E d \in {0, 1} : Len(passed[s]) = Len(fifo[s]) + d + mbx[s] + 1
        BY <1>2 DEF post, PassInv, VerdictPerPassage
      <4> QED
        BY <1>0, <4>1
    <3>2. mbx'[s] = mbx[s] + 1
      BY <1>2 DEF post, posted
    <3> QED
      BY <1>0, <3>1, <3>2
  <2> QED
    BY <1>2, <2>1 DEF post, posted
<1>3. CASE pend(s)
  BY <1>0, <1>3 DEF pend
<1>4. CASE deref(s)
  BY <1>4, LenProperties DEF deref, current
<1>5. CASE write_fifo(s)
  <2>1. verdict[s] \in {0, 1}
    BY <1>5 DEF write_fifo, PassInv, TrigState
  <2>2. fifo' \in [Station -> Seq({0, 1})]
    BY <1>5, <2>1, AppendProperties DEF write_fifo
  <2> QED
    BY <1>5, <2>2 DEF write_fifo
<1>6. CASE load_count
  BY <1>6 DEF load_count
<1>7. CASE store_count
  <2>1. tmp + 1 \in Int
    BY <1>7 DEF store_count
  <2>2. counted \in 0 .. WORD - 1
    BY <2>1, u32Range DEF counted
  <2> QED
    BY <1>7, <2>2 DEF store_count
<1>8. CASE buf_factory_recycle(s)
  <2>1. hit[s] \in Buf
    BY <1>8 DEF buf_factory_recycle
  <2>2. free' \in Seq(Buf)
    BY <1>8, <2>1, AppendProperties DEF buf_factory_recycle, recycled
  <2> QED
    BY <1>8, <2>2 DEF buf_factory_recycle
<1> QED
  BY <1>1, <1>2, <1>3, <1>4, <1>5, <1>6, <1>7, <1>8

----------------------------------------------------------------------------
(* What a search can do: miss, die on a node without an owner, or take the *)
(* i-th node.                                                              *)
Miss(s) ==
  /\ verdict' = [verdict EXCEPT ![s] = 0]
  /\ tpc' = [tpc EXCEPT ![s] = "fifo"]
  /\ UNCHANGED <<sample_list, hit, died>>
Wild(s) ==
  /\ \E i \in DOMAIN sample_list[s] : sample_list[s][i] \notin owned
  /\ died' = "wild"
  /\ UNCHANGED <<sample_list, hit, verdict, tpc>>
Unlink(s, i) ==
  /\ sample_list' = [sample_list EXCEPT ![s] = list_del(@, i)]
  /\ hit' = [hit EXCEPT ![s] = sample_list[s][i]]
  /\ verdict' = [verdict EXCEPT ![s] = 1]
  /\ tpc' = [tpc EXCEPT ![s] = "recycle"]
  /\ UNCHANGED died

LEMMA SearchCases ==
  ASSUME NEW s \in Station, Deciding(s)
  PROVE  /\ UNCHANGED <<kick_mode, free, sample, owned, rpc, rbuf, cur_count_kt1, popped, torn,
                        passed, ipc, mbx, tmp, read, fifo>>
         /\ tpc[s] = "search" /\ died = "no"
         /\ Miss(s) \/ Wild(s) \/ \E i \in DOMAIN sample_list[s] : Unlink(s, i)
<1>1. PICK key \in keys(s) : search(s, key)
  BY DEF Deciding
<1>2. /\ UNCHANGED <<kick_mode, free, sample, owned, rpc, rbuf, cur_count_kt1, popped, torn,
                     passed, ipc, mbx, tmp, read, fifo>>
      /\ tpc[s] = "search" /\ died = "no"
  BY <1>1 DEF Deciding, search, recvVars, countVars, isrVars
<1>3. Miss(s) \/ Wild(s) \/ \E i \in DOMAIN sample_list[s] : Unlink(s, i)
  BY <1>1 DEF search, Miss, Wild, Unlink
<1> QED
  BY <1>2, <1>3

(* A search keeps the types.                                               *)
LEMMA SearchTypeOK ==
  ASSUME TypeOK, NEW s \in Station, Deciding(s)
  PROVE  TypeOK'
<1> USE DEF TypeOK
<1>0. /\ UNCHANGED <<kick_mode, free, sample, owned, rpc, rbuf, cur_count_kt1, popped, torn,
                     passed, ipc, mbx, tmp, read, fifo>>
      /\ tpc[s] = "search"
  BY SearchCases
<1>1. CASE Miss(s)
  BY <1>0, <1>1 DEF Miss
<1>2. CASE Wild(s)
  BY <1>0, <1>2 DEF Wild
<1>3. ASSUME NEW i \in DOMAIN sample_list[s], Unlink(s, i)
      PROVE  TypeOK'
  <2>1. sample_list' \in [Station -> Seq(Buf)]
    BY <1>3, ListDelElements DEF Unlink
  <2>2. sample_list[s][i] \in Buf /\ sample_list[s][i] # None
    BY ElementOfSeq, ArrayAssumption
  <2>3. /\ tpc' \in [Station -> {"pend", "load", "store", "deref", "search", "recycle", "fifo"}]
        /\ verdict' \in [Station -> {-1, 0, 1}]
        /\ died' = died
    BY <1>3 DEF Unlink
  <2>4. /\ hit' \in [Station -> Buf \cup {None}]
        /\ \A u \in Station : hit'[u] = None <=> tpc'[u] # "recycle"
    BY <1>0, <1>3, <2>2 DEF Unlink
  <2> QED
    BY <1>0, <2>1, <2>3, <2>4
<1> QED
  BY SearchCases, <1>1, <1>2, <1>3

(* The types are preserved by every step, given the passages' invariant.   *)
LEMMA NextTypeOK ==
  ASSUME TypeOK, PassInv, [Next]_vars
  PROVE  TypeOK'
<1>1. CASE UNCHANGED vars
  BY <1>1 DEF TypeOK, vars, recvVars, countVars, isrVars, trigVars
<1>2. CASE Next
  BY <1>2, NextSteps, RecvTypeOK, PassTypeOK, SearchTypeOK DEF Station
<1> QED
  BY <1>1, <1>2

----------------------------------------------------------------------------
(* Where the buffers are, initially: all free.                             *)
LEMMA InitBufInv == Init => BufInv
<1> SUFFICES ASSUME Init PROVE BufInv
  OBVIOUS
<1> USE DEF Init
<1>1. BufNoLoss
  BY ArrayAssumption DEF BufNoLoss, Free, Buf
<1>2. BufNoTwin
  BY ArrayAssumption DEF BufNoTwin, Free, Listed, InHand, AtStation, Station
<1>3. OwnerWindow /\ RecvState /\ DeathCauses
  BY DEF OwnerWindow, RecvState, DeathCauses
<1> QED
  BY <1>1, <1>2, <1>3 DEF BufInv

(* Steps that leave the buffers and local_recv_tsk alone.                  *)
LEMMA OtherBufInv ==
  ASSUME BufInv, UNCHANGED <<free, sample_list, hit, owned, rpc, rbuf, died>>
  PROVE  BufInv'
<1>1. BufNoLoss' /\ BufNoTwin'
  BY DEF BufInv, BufNoLoss, BufNoTwin, Free, Listed, InHand, AtStation
<1>2. OwnerWindow' /\ RecvState' /\ DeathCauses'
  BY DEF BufInv, OwnerWindow, RecvState, Cleared, DeathCauses, Listed, AtStation
<1> QED
  BY <1>1, <1>2 DEF BufInv

(* Taking a buffer.                                                        *)
LEMMA WriteBufInv ==
  ASSUME TypeOK, BufInv, NEW r \in Result, write_array(r)
  PROVE  BufInv'
<1> USE DEF BufInv, recvVars, trigVars
<1>1. /\ died = "no" /\ rpc = "idle"
      /\ UNCHANGED <<sample_list, hit, owned>>
  BY DEF write_array
<1>2. CASE free = <<>> /\ died' = "dry" /\ UNCHANGED <<free, sample, recvVars>>
  <2>1. BufNoLoss' /\ BufNoTwin'
    BY <1>1, <1>2 DEF BufNoLoss, BufNoTwin, Free, Listed, InHand, AtStation
  <2>2. OwnerWindow' /\ RecvState'
    BY <1>1, <1>2 DEF OwnerWindow, RecvState, Cleared
  <2>3. DeathCauses'
    BY <1>1, <1>2 DEF DeathCauses, BufNoLoss, Free, InHand, Listed, AtStation
  <2> QED
    BY <2>1, <2>2, <2>3
<1>3. CASE free # <<>> /\ buf_factory_produce /\ rpc' = "link" /\ UNCHANGED died
  <2>1. /\ Head(free) = free[1] /\ Head(free) \in Buf /\ 1 \in DOMAIN free
        /\ \A i \in DOMAIN free' : i \in Nat \ {0} /\ i + 1 \in DOMAIN free /\ free'[i] = free[i + 1]
        /\ \A i \in DOMAIN free : i = 1 \/ (i - 1 \in DOMAIN free' /\ free'[i - 1] = free[i])
    BY <1>3, TailElements DEF buf_factory_produce, TypeOK
  <2> PICK x \in Buf : x = free[1] /\ x = rbuf'
    BY <1>3, <2>1 DEF buf_factory_produce
  <2>2. /\ \A b \in Buf : Free(b)' <=> Free(b) /\ b # x
        /\ \A b \in Buf : \A s \in Station : Listed(b, s)' <=> Listed(b, s)
        /\ \A b \in Buf : \A s \in Station : AtStation(b, s)' <=> AtStation(b, s)
        /\ \A b \in Buf : InHand(b)' <=> b = x
        /\ Free(x)
    <3>1. \A b \in Buf : Free(b)' => Free(b) /\ b # x
      <4> SUFFICES ASSUME NEW i \in DOMAIN free' PROVE Free(free'[i]) /\ free'[i] # x
        BY DEF Free
      <4>1. i + 1 \in DOMAIN free /\ i + 1 # 1 /\ free'[i] = free[i + 1]
        BY <2>1
      <4> QED
        BY <2>1, <4>1 DEF Free, BufNoTwin
    <3>2. \A b \in Buf : Free(b) /\ b # x => Free(b)'
      BY <2>1 DEF Free
    <3> QED
      BY <1>1, <1>3, <2>1, <3>1, <3>2 DEF Free, Listed, InHand, AtStation
  <2>3. BufNoLoss'
    BY <1>1, <2>2 DEF BufNoLoss, InHand
  <2>4. BufNoTwin'
    <3>1. \A i, j \in DOMAIN free' : free'[i] = free'[j] => i = j
      BY <2>1 DEF BufNoTwin
    <3>2. \A s \in Station : \A i, j \in DOMAIN sample_list'[s] : sample_list'[s][i] = sample_list'[s][j] => i = j
      BY <1>1 DEF BufNoTwin
    <3>3. \A b \in Buf, s \in Station : ~(Listed(b, s)' /\ hit'[s] = b)
      BY <1>1, <2>2 DEF BufNoTwin
    <3>4. \A b \in Buf : ~(AtStation(b, 1)' /\ AtStation(b, 2)')
      BY <2>2 DEF BufNoTwin, Station
    <3>5. \A b \in Buf, s \in Station : AtStation(b, s)' => ~Free(b)' /\ ~InHand(b)'
      BY <2>2 DEF BufNoTwin
    <3>6. \A b \in Buf : ~(Free(b)' /\ InHand(b)')
      BY <2>2
    <3> QED
      BY <3>1, <3>2, <3>3, <3>4, <3>5, <3>6 DEF BufNoTwin
  <2>5. OwnerWindow' /\ RecvState' /\ DeathCauses'
    BY <1>1, <1>3 DEF OwnerWindow, RecvState, Cleared, DeathCauses
  <2> QED
    BY <2>3, <2>4, <2>5
<1> QED
  BY <1>2, <1>3 DEF write_array

(* Linking it into its station's list.                                     *)
LEMMA LinkBufInv ==
  ASSUME TypeOK, BufInv, link
  PROVE  BufInv'
<1> USE DEF BufInv
<1>0. PICK x \in Buf, s \in Station : x = rbuf /\ s = sample[x].pos
  BY ArrayAssumption DEF link, TypeOK
<1> DEFINE l == sample_list[s]
<1>1. /\ died = "no" /\ rpc = "link" /\ rpc' = "owner" /\ rbuf = x /\ rbuf' = x
      /\ UNCHANGED <<free, owned, died, hit>>
      /\ InHand(x)
  BY <1>0 DEF link, InHand, trigVars
<1>2. /\ sample_list'[s] \in Seq(Buf)
      /\ Len(l) \in Nat /\ Len(sample_list'[s]) = Len(l) + 1
      /\ DOMAIN l = 1 .. Len(l) /\ DOMAIN sample_list'[s] = 1 .. Len(l) + 1
      /\ sample_list'[s][Len(l) + 1] = x
      /\ \A i \in DOMAIN l : sample_list'[s][i] = l[i]
      /\ \A u \in Station : u # s => sample_list'[u] = sample_list[u]
  <2>1. l \in Seq(Buf) /\ sample_list'[s] = Append(l, x)
        /\ \A u \in Station : u # s => sample_list'[u] = sample_list[u]
    BY <1>0, <1>1 DEF link, TypeOK
  <2> QED
    BY <1>1, <2>1, AppendElements
<1>3. /\ \A b \in Buf : Free(b)' <=> Free(b)
      /\ \A b \in Buf : ~InHand(b)'
      /\ \A b \in Buf : \A u \in Station : Listed(b, u)' <=> Listed(b, u) \/ (b = x /\ u = s)
      /\ \A b \in Buf : \A u \in Station : AtStation(b, u)' <=> AtStation(b, u) \/ (b = x /\ u = s)
  <2>1. \A b \in Buf : Listed(b, s)' <=> Listed(b, s) \/ b = x
    <3>1. \A i \in DOMAIN sample_list'[s] : i \in DOMAIN l \/ i = Len(l) + 1
      BY <1>2
    <3>2. DOMAIN l \subseteq DOMAIN sample_list'[s] /\ Len(l) + 1 \in DOMAIN sample_list'[s]
      BY <1>2
    <3>3. \A i \in DOMAIN l : sample_list'[s][i] = l[i]
      BY <1>2
    <3> QED
      BY <1>2, <3>1, <3>2, <3>3 DEF Listed
  <2>2. \A b \in Buf : \A u \in Station : u # s => (Listed(b, u)' <=> Listed(b, u))
    BY <1>2 DEF Listed
  <2> QED
    BY <1>1, <2>1, <2>2 DEF Free, InHand, AtStation
<1>4. ~Free(x) /\ \A u \in Station : ~AtStation(x, u)
  BY <1>1 DEF BufNoTwin
<1>5. BufNoLoss'
  <2> SUFFICES ASSUME NEW b \in Buf PROVE Free(b)' \/ \E u \in Station : AtStation(b, u)'
    BY DEF BufNoLoss
  <2>1. CASE b = x
    <3>1. AtStation(x, s)'
      BY <1>3
    <3> QED
      BY <2>1, <3>1
  <2>2. CASE b # x
    BY <1>1, <1>3, <2>2 DEF BufNoLoss, InHand
  <2> QED
    BY <2>1, <2>2
<1>6. BufNoTwin'
  <2>1. \A i, j \in DOMAIN free' : free'[i] = free'[j] => i = j
    BY <1>1 DEF BufNoTwin
  <2>2. \A u \in Station : \A i, j \in DOMAIN sample_list'[u] : sample_list'[u][i] = sample_list'[u][j] => i = j
    <3>1. \A i, j \in DOMAIN sample_list'[s] : sample_list'[s][i] = sample_list'[s][j] => i = j
      <4>1. \A i \in DOMAIN l : l[i] # x
        BY <1>1, <1>4 DEF Listed, AtStation
      <4>2. \A i, j \in DOMAIN l : l[i] = l[j] => i = j
        BY <1>1 DEF BufNoTwin
      <4>3. \A i \in DOMAIN sample_list'[s] : i \in DOMAIN l \/ i = Len(l) + 1
        BY <1>2
      <4> HIDE DEF l
      <4>4. \A i \in DOMAIN sample_list'[s] :
              sample_list'[s][i] = IF i \in DOMAIN l THEN l[i] ELSE x
        BY <1>2, <4>3
      <4> QED
        BY <4>1, <4>2, <4>3, <4>4
    <3>2. \A u \in Station : u # s =>
            \A i, j \in DOMAIN sample_list'[u] : sample_list'[u][i] = sample_list'[u][j] => i = j
      BY <1>2 DEF BufNoTwin
    <3> QED
      BY <3>1, <3>2
  <2>3. \A b \in Buf, u \in Station : ~(Listed(b, u)' /\ hit'[u] = b)
    BY <1>1, <1>3, <1>4 DEF BufNoTwin, AtStation
  <2>4. \A b \in Buf : ~(AtStation(b, 1)' /\ AtStation(b, 2)')
    BY <1>3, <1>4 DEF BufNoTwin, Station
  <2>5. \A b \in Buf, u \in Station : AtStation(b, u)' => ~Free(b)' /\ ~InHand(b)'
    BY <1>3, <1>4 DEF BufNoTwin
  <2>6. \A b \in Buf : ~(Free(b)' /\ InHand(b)')
    BY <1>3
  <2> QED
    BY <2>1, <2>2, <2>3, <2>4, <2>5, <2>6 DEF BufNoTwin
<1>7. OwnerWindow'
  <2> SUFFICES ASSUME NEW u \in Station, NEW i \in DOMAIN sample_list'[u], sample_list'[u][i] \notin owned
               PROVE  x = sample_list'[u][i] /\ i = Len(sample_list'[u])
    BY <1>1 DEF OwnerWindow
  <2>1. \A v \in Station : \A j \in DOMAIN sample_list[v] : sample_list[v][j] \in owned
    BY <1>1 DEF OwnerWindow
  <2>2. CASE u = s
    BY <1>2, <2>1, <2>2
  <2>3. CASE u # s
    BY <1>2, <2>1, <2>3
  <2> QED
    BY <2>2, <2>3
<1>8. RecvState' /\ DeathCauses'
  BY <1>1 DEF RecvState, Cleared, DeathCauses
<1> QED
  BY <1>5, <1>6, <1>7, <1>8

(* Giving the linked node its owner, starting a reset, and replying to it. *)
LEMMA RecvBufInv ==
  ASSUME TypeOK, BufInv, set_owner \/ reset_count \/ reset_reply
  PROVE  BufInv'
<1> USE DEF BufInv, recvVars, trigVars, set_owner, owners, reset_count, reset_reply
<1>1. BufNoLoss' /\ BufNoTwin'
  BY DEF BufNoLoss, BufNoTwin, Free, Listed, InHand, AtStation
<1>2. OwnerWindow'
  BY DEF OwnerWindow
<1>3. RecvState' /\ DeathCauses'
  BY DEF RecvState, Cleared, DeathCauses
<1> QED
  BY <1>1, <1>2, <1>3

(* Emptying one station's list.                                            *)
LEMMA ClearBufInv ==
  ASSUME TypeOK, BufInv, NEW s \in Station, clear_array(s)
  PROVE  BufInv'
<1> USE DEF BufInv
<1>0. PICK l \in Seq(Buf) : l = sample_list[s]
  BY DEF TypeOK
<1>1. /\ died = "no" /\ died' = "no" /\ UNCHANGED <<owned, rbuf, hit>> /\ hit[s] = None
      /\ rpc \notin {"link", "owner"} /\ rpc' \notin {"link", "owner"}
      /\ free' = free \o l
      /\ sample_list' = [sample_list EXCEPT ![s] = <<>>]
  BY <1>0 DEF clear_array, recycle_all, locked, trigVars, TypeOK
<1>2. sample_list'[s] = <<>> /\ \A u \in Station : u # s => sample_list'[u] = sample_list[u]
  <2>1. sample_list \in [Station -> Seq(Buf)]
    BY DEF TypeOK
  <2> QED
    BY <1>1, <2>1
<1>3. /\ Len(free) \in Nat /\ Len(l) \in Nat
      /\ DOMAIN free = 1 .. Len(free) /\ DOMAIN l = 1 .. Len(l)
      /\ DOMAIN free' = 1 .. Len(free) + Len(l)
      /\ \A i \in DOMAIN free : free'[i] = free[i]
      /\ \A i \in DOMAIN l : free'[Len(free) + i] = l[i]
  <2>1. free \in Seq(Buf)
    BY DEF TypeOK
  <2> QED
    BY <1>1, <2>1, ConcatElements
<1>4. \A i \in DOMAIN free' : i \in DOMAIN free \/ (i - Len(free) \in DOMAIN l /\ free'[i] = l[i - Len(free)])
  <2> SUFFICES ASSUME NEW i \in DOMAIN free', i \notin DOMAIN free
               PROVE  i - Len(free) \in DOMAIN l /\ free'[i] = l[i - Len(free)]
    OBVIOUS
  <2>1. i \in Nat /\ i > Len(free) /\ i <= Len(free) + Len(l)
    BY <1>3
  <2> DEFINE k == i - Len(free)
  <2>2. k \in DOMAIN l /\ Len(free) + k = i
    BY <1>3, <2>1
  <2> QED
    BY <1>3, <2>2
<1>5. /\ \A b \in Buf : Free(b)' <=> Free(b) \/ Listed(b, s)
      /\ \A b \in Buf : ~Listed(b, s)' /\ ~AtStation(b, s)' /\ (AtStation(b, s) => Listed(b, s))
      /\ \A b \in Buf : \A u \in Station : u # s => (Listed(b, u)' <=> Listed(b, u)) /\ (AtStation(b, u)' <=> AtStation(b, u))
      /\ \A b \in Buf : ~InHand(b) /\ ~InHand(b)'
  <2>1. \A b \in Buf : Free(b)' => Free(b) \/ Listed(b, s)
    BY <1>0, <1>3, <1>4 DEF Free, Listed
  <2>2. \A b \in Buf : Free(b) => Free(b)'
    BY <1>3 DEF Free
  <2>3. \A b \in Buf : Listed(b, s) => Free(b)'
    <3> SUFFICES ASSUME NEW i \in DOMAIN l PROVE \E j \in DOMAIN free' : free'[j] = l[i]
      BY <1>0 DEF Listed, Free
    <3>1. Len(free) + i \in DOMAIN free'
      BY <1>3
    <3> QED
      BY <1>3, <3>1
  <2>4. \A b \in Buf : ~Listed(b, s)'
    BY <1>2 DEF Listed
  <2>5. \A b \in Buf : \A u \in Station : u # s => (Listed(b, u)' <=> Listed(b, u))
    BY <1>2 DEF Listed
  <2>6. \A b \in Buf : ~InHand(b) /\ ~InHand(b)'
    BY <1>1 DEF InHand
  <2>7. \A b \in Buf : b # None
    BY ArrayAssumption
  <2> QED
    BY <1>1, <2>1, <2>2, <2>3, <2>4, <2>5, <2>6, <2>7 DEF AtStation
<1>6. BufNoLoss'
  <2> SUFFICES ASSUME NEW b \in Buf, ~Free(b)' PROVE \E u \in Station : AtStation(b, u)'
    BY DEF BufNoLoss
  <2>1. PICK u \in Station : AtStation(b, u)
    BY <1>5 DEF BufNoLoss
  <2>2. u # s
    BY <1>5, <2>1
  <2> QED
    BY <1>5, <2>1, <2>2
<1>7. BufNoTwin'
  <2>1. \A i, j \in DOMAIN free' : free'[i] = free'[j] => i = j
    <3> SUFFICES ASSUME NEW i \in DOMAIN free', NEW j \in DOMAIN free', free'[i] = free'[j] PROVE i = j
      OBVIOUS
    <3>1. \A m \in DOMAIN free : \A n \in DOMAIN l : free[m] # l[n]
      <4> SUFFICES ASSUME NEW m \in DOMAIN free, NEW n \in DOMAIN l, free[m] = l[n] PROVE FALSE
        OBVIOUS
      <4>1. free[m] \in Buf /\ Free(free[m]) /\ AtStation(free[m], s)
        BY <1>0, ElementOfSeq DEF Free, Listed, AtStation, TypeOK
      <4> QED
        BY <4>1 DEF BufNoTwin
    <3>2. \A m, n \in DOMAIN l : l[m] = l[n] => m = n
      BY <1>0 DEF BufNoTwin
    <3>3. \A m, n \in DOMAIN free : free[m] = free[n] => m = n
      BY DEF BufNoTwin
    <3>4. CASE i \in DOMAIN free
      BY <1>3, <1>4, <3>1, <3>3, <3>4
    <3>5. CASE i \notin DOMAIN free /\ j \in DOMAIN free
      BY <1>3, <1>4, <3>1, <3>5
    <3>6. CASE i \notin DOMAIN free /\ j \notin DOMAIN free
      <4>1. i - Len(free) = j - Len(free)
        BY <1>4, <3>2, <3>6
      <4> QED
        BY <1>3, <4>1
    <3> QED
      BY <3>4, <3>5, <3>6
  <2>2. \A u \in Station : \A i, j \in DOMAIN sample_list'[u] : sample_list'[u][i] = sample_list'[u][j] => i = j
    BY <1>2 DEF BufNoTwin
  <2>3. \A b \in Buf, u \in Station : ~(Listed(b, u)' /\ hit'[u] = b)
    BY <1>1, <1>5 DEF BufNoTwin
  <2>4. \A b \in Buf : ~(AtStation(b, 1)' /\ AtStation(b, 2)')
    BY <1>5 DEF Station
  <2>5. \A b \in Buf, u \in Station : AtStation(b, u)' => ~Free(b)' /\ ~InHand(b)'
    <3> SUFFICES ASSUME NEW b \in Buf, NEW u \in Station, Free(b)', AtStation(b, u)' PROVE FALSE
      BY <1>5
    <3>1. u # s /\ AtStation(b, u) /\ (Free(b) \/ AtStation(b, s))
      BY <1>5 DEF AtStation
    <3> QED
      BY <3>1 DEF BufNoTwin, Station
  <2>6. \A b \in Buf : ~(Free(b)' /\ InHand(b)')
    BY <1>5
  <2> QED
    BY <2>1, <2>2, <2>3, <2>4, <2>5, <2>6 DEF BufNoTwin
<1>8. OwnerWindow'
  <2> SUFFICES ASSUME NEW u \in Station, NEW i \in DOMAIN sample_list'[u] PROVE sample_list'[u][i] \in owned
    BY <1>1 DEF OwnerWindow
  <2>1. u # s
    BY <1>2
  <2> QED
    BY <1>1, <1>2, <2>1 DEF OwnerWindow
<1>9. RecvState' /\ DeathCauses'
  BY <1>1, <1>2 DEF clear_array, RecvState, Cleared, DeathCauses, Station
<1> QED
  BY <1>6, <1>7, <1>8, <1>9

(* Unlinking a node: its buffer stays at the station, in hand.             *)
LEMMA UnlinkBufInv ==
  ASSUME TypeOK, BufInv, NEW s \in Station, NEW n \in DOMAIN sample_list[s], Unlink(s, n),
         died = "no", tpc[s] = "search", UNCHANGED <<free, owned, rpc, rbuf>>
  PROVE  BufInv'
<1> USE DEF BufInv
<1>0. PICK l \in Seq(Buf), x \in Buf : l = sample_list[s] /\ n \in DOMAIN l /\ x = l[n]
  BY ElementOfSeq DEF TypeOK
<1>1. /\ died' = "no" /\ hit[s] = None /\ hit'[s] = x
      /\ \A u \in Station : u # s => hit'[u] = hit[u]
      /\ sample_list' = [sample_list EXCEPT ![s] = list_del(l, n)]
      /\ \A u \in Station : u # s => sample_list'[u] = sample_list[u]
  BY <1>0 DEF Unlink, TypeOK
<1>2. PICK m :
        /\ m = sample_list'[s]
        /\ \A j \in DOMAIN m : \E k \in DOMAIN l : k # n /\ m[j] = l[k] /\ (k = Len(l) => j = Len(m))
        /\ \A k \in DOMAIN l : k # n => \E j \in DOMAIN m : m[j] = l[k]
        /\ (\A i, j \in DOMAIN l : l[i] = l[j] => i = j) => \A i, j \in DOMAIN m : m[i] = m[j] => i = j
  <2>1. sample_list'[s] = list_del(l, n)
    BY <1>1 DEF TypeOK
  <2> QED
    BY <1>0, <2>1, ListDelNodes
<1>3. \A b \in Buf : b # None
  BY ArrayAssumption
<1>4. \A i, j \in DOMAIN l : l[i] = l[j] => i = j
  BY <1>0 DEF BufNoTwin
<1>5. /\ \A b \in Buf : Free(b)' <=> Free(b)
      /\ \A b \in Buf : Listed(b, s)' <=> Listed(b, s) /\ b # x
      /\ \A b \in Buf : \A u \in Station : u # s => (Listed(b, u)' <=> Listed(b, u))
      /\ \A b \in Buf : \A u \in Station : AtStation(b, u)' <=> AtStation(b, u)
      /\ \A b \in Buf : InHand(b)' <=> InHand(b)
      /\ Listed(x, s)
  <2>1. \A b \in Buf : Free(b)' <=> Free(b)
    BY DEF Free
  <2>2. \A b \in Buf : Listed(b, s)' => Listed(b, s) /\ b # x
    BY <1>0, <1>2, <1>4 DEF Listed
  <2>3. \A b \in Buf : Listed(b, s) /\ b # x => Listed(b, s)'
    <3> SUFFICES ASSUME NEW b \in Buf, Listed(b, s), b # x
                 PROVE  \E j \in DOMAIN m : m[j] = b
      BY <1>2 DEF Listed
    <3>1. PICK k \in DOMAIN l : l[k] = b
      BY <1>0 DEF Listed
    <3>2. k # n
      BY <1>0, <3>1
    <3> QED
      BY <1>2, <3>1, <3>2
  <2>4. \A b \in Buf : \A u \in Station : u # s => (Listed(b, u)' <=> Listed(b, u))
    BY <1>1 DEF Listed
  <2>5. (\A b \in Buf : InHand(b)' <=> InHand(b)) /\ Listed(x, s)
    BY <1>0 DEF InHand, Listed
  <2>6. \A b \in Buf : AtStation(b, s)' <=> AtStation(b, s)
    BY <1>1, <1>3, <2>2, <2>3, <2>5 DEF AtStation
  <2>7. \A b \in Buf : \A u \in Station : u # s => (AtStation(b, u)' <=> AtStation(b, u))
    BY <1>1, <2>4 DEF AtStation
  <2> QED
    BY <2>1, <2>2, <2>3, <2>4, <2>5, <2>6, <2>7
<1>6. BufNoLoss'
  BY <1>5 DEF BufNoLoss
<1>7. BufNoTwin'
  <2>1. \A i, j \in DOMAIN free' : free'[i] = free'[j] => i = j
    BY DEF BufNoTwin
  <2>2. \A u \in Station : \A i, j \in DOMAIN sample_list'[u] : sample_list'[u][i] = sample_list'[u][j] => i = j
    <3>1. \A i, j \in DOMAIN sample_list'[s] : sample_list'[s][i] = sample_list'[s][j] => i = j
      BY <1>2, <1>4
    <3>2. \A u \in Station : u # s =>
            \A i, j \in DOMAIN sample_list'[u] : sample_list'[u][i] = sample_list'[u][j] => i = j
      BY <1>1 DEF BufNoTwin
    <3> QED
      BY <3>1, <3>2
  <2>3. \A b \in Buf, u \in Station : ~(Listed(b, u)' /\ hit'[u] = b)
    BY <1>1, <1>5 DEF BufNoTwin
  <2>4. \A b \in Buf : ~(AtStation(b, 1)' /\ AtStation(b, 2)')
    BY <1>5 DEF BufNoTwin, Station
  <2>5. \A b \in Buf, u \in Station : AtStation(b, u)' => ~Free(b)' /\ ~InHand(b)'
    BY <1>5 DEF BufNoTwin
  <2>6. \A b \in Buf : ~(Free(b)' /\ InHand(b)')
    BY <1>5 DEF BufNoTwin
  <2> QED
    BY <2>1, <2>2, <2>3, <2>4, <2>5, <2>6 DEF BufNoTwin
<1>8. OwnerWindow'
  <2> SUFFICES ASSUME NEW u \in Station, NEW i \in DOMAIN sample_list'[u], sample_list'[u][i] \notin owned
               PROVE  rpc = "owner" /\ rbuf = sample_list'[u][i] /\ i = Len(sample_list'[u])
    BY DEF OwnerWindow
  <2>1. CASE u # s
    BY <1>1, <2>1 DEF OwnerWindow
  <2>2. CASE u = s
    <3>1. PICK k \in DOMAIN l : m[i] = l[k] /\ (k = Len(l) => i = Len(m))
      BY <1>2, <2>2
    <3>2. l[k] \notin owned
      BY <1>2, <2>2, <3>1
    <3>3. rpc = "owner" /\ rbuf = l[k] /\ k = Len(l)
      BY <1>0, <3>2 DEF OwnerWindow
    <3> QED
      BY <1>2, <2>2, <3>1, <3>3
  <2> QED
    BY <2>1, <2>2
<1>9. RecvState' /\ DeathCauses'
  <2>1. \A u \in Station : sample_list[u] = <<>> => u # s
    BY <1>0
  <2> QED
    BY <1>1, <2>1 DEF RecvState, Cleared, DeathCauses, Station
<1> QED
  BY <1>6, <1>7, <1>8, <1>9

(* Giving the buffer in hand back to the factory.                          *)
LEMMA RecycleBufInv ==
  ASSUME TypeOK, BufInv, NEW s \in Station, buf_factory_recycle(s)
  PROVE  BufInv'
<1> USE DEF BufInv
<1>0. PICK x \in Buf : x = hit[s]
  BY DEF buf_factory_recycle, TypeOK
<1>1. /\ died = "no" /\ free' = Append(free, x) /\ hit'[s] = None
      /\ \A u \in Station : u # s => hit'[u] = hit[u]
      /\ UNCHANGED <<sample_list, owned, rpc, rbuf, died>>
  BY <1>0 DEF buf_factory_recycle, recycled, recvVars, TypeOK
<1>2. /\ Len(free) \in Nat /\ DOMAIN free = 1 .. Len(free)
      /\ DOMAIN free' = 1 .. Len(free) + 1
      /\ free'[Len(free) + 1] = x
      /\ \A i \in DOMAIN free : free'[i] = free[i]
  BY <1>1, AppendElements DEF TypeOK
<1>3. /\ \A b \in Buf : Free(b)' <=> Free(b) \/ b = x
      /\ \A b \in Buf : InHand(b)' <=> InHand(b)
      /\ \A b \in Buf : \A u \in Station : Listed(b, u)' <=> Listed(b, u)
      /\ \A b \in Buf : \A u \in Station : AtStation(b, u)' <=> AtStation(b, u) /\ b # x
      /\ ~Free(x) /\ ~InHand(x)
  <2>1. \A b \in Buf : Free(b)' <=> Free(b) \/ b = x
    BY <1>2 DEF Free
  <2>2. \A b \in Buf : b # None
    BY ArrayAssumption
  <2>3. /\ \A b \in Buf : InHand(b)' <=> InHand(b)
        /\ \A b \in Buf : \A u \in Station : Listed(b, u)' <=> Listed(b, u)
    BY <1>1 DEF InHand, Listed
  <2>4. AtStation(x, s) /\ ~Listed(x, s) /\ \A u \in Station : u # s => ~AtStation(x, u)
    BY <1>0 DEF AtStation, BufNoTwin, Station
  <2>5. \A b \in Buf : AtStation(b, s)' <=> AtStation(b, s) /\ b # x
    BY <1>0, <1>1, <2>2, <2>3, <2>4 DEF AtStation
  <2>6. \A b \in Buf : \A u \in Station : u # s => (AtStation(b, u)' <=> AtStation(b, u) /\ b # x)
    BY <1>1, <2>3, <2>4 DEF AtStation
  <2> QED
    BY <2>1, <2>3, <2>4, <2>5, <2>6 DEF BufNoTwin
<1>4. BufNoLoss'
  BY <1>3 DEF BufNoLoss
<1>5. BufNoTwin'
  <2>1. \A i, j \in DOMAIN free' : free'[i] = free'[j] => i = j
    <3>1. \A i \in DOMAIN free : free[i] # x
      BY <1>3 DEF Free
    <3>2. \A i, j \in DOMAIN free : free[i] = free[j] => i = j
      BY DEF BufNoTwin
    <3> QED
      BY <1>2, <3>1, <3>2
  <2>2. \A u \in Station : \A i, j \in DOMAIN sample_list'[u] : sample_list'[u][i] = sample_list'[u][j] => i = j
    BY <1>1 DEF BufNoTwin
  <2>3. \A b \in Buf, u \in Station : ~(Listed(b, u)' /\ hit'[u] = b)
    <3>1. \A b \in Buf : b # None
      BY ArrayAssumption
    <3> QED
      BY <1>1, <1>3, <3>1 DEF BufNoTwin
  <2>4. \A b \in Buf : ~(AtStation(b, 1)' /\ AtStation(b, 2)')
    BY <1>3 DEF BufNoTwin, Station
  <2>5. \A b \in Buf, u \in Station : AtStation(b, u)' => ~Free(b)' /\ ~InHand(b)'
    BY <1>3 DEF BufNoTwin
  <2>6. \A b \in Buf : ~(Free(b)' /\ InHand(b)')
    BY <1>3 DEF BufNoTwin
  <2> QED
    BY <2>1, <2>2, <2>3, <2>4, <2>5, <2>6 DEF BufNoTwin
<1>6. OwnerWindow'
  BY <1>1 DEF OwnerWindow
<1>7. RecvState' /\ DeathCauses'
  BY <1>1 DEF RecvState, Cleared, DeathCauses, Station
<1> QED
  BY <1>4, <1>5, <1>6, <1>7

(* The buffers' invariant is preserved by every step.                      *)
LEMMA NextBufInv ==
  ASSUME TypeOK, BufInv, [Next]_vars
  PROVE  BufInv'
<1> USE DEF recvVars, countVars, isrVars, trigVars
<1>1. CASE UNCHANGED vars
  BY <1>1, OtherBufInv DEF vars
<1>2. ASSUME NEW s \in Station, Deciding(s) PROVE BufInv'
  <2>1. died = "no" /\ tpc[s] = "search" /\ UNCHANGED <<free, owned, rpc, rbuf>>
    BY <1>2, SearchCases
  <2>2. CASE Miss(s)
    BY <2>1, <2>2, OtherBufInv DEF Miss
  <2>3. CASE Wild(s)
    <3>1. BufNoLoss' /\ BufNoTwin'
      BY <2>1, <2>3 DEF Wild, BufInv, BufNoLoss, BufNoTwin, Free, Listed, InHand, AtStation
    <3>2. OwnerWindow' /\ RecvState'
      BY <2>1, <2>3 DEF Wild, BufInv, OwnerWindow, RecvState, Cleared
    <3>3. DeathCauses'
      BY <2>1, <2>3 DEF Wild, BufInv, OwnerWindow, DeathCauses
    <3> QED
      BY <3>1, <3>2, <3>3 DEF BufInv
  <2>4. ASSUME NEW i \in DOMAIN sample_list[s], Unlink(s, i) PROVE BufInv'
    BY <2>1, <2>4, UnlinkBufInv
  <2>5. Miss(s) \/ Wild(s) \/ \E i \in DOMAIN sample_list[s] : Unlink(s, i)
    BY <1>2, SearchCases
  <2> QED
    BY <2>2, <2>3, <2>4, <2>5
<1>3. ASSUME NEW s \in Station,
             \/ \E c \in Code : latch(s, c)
             \/ post(s) \/ pend(s) \/ deref(s) \/ write_fifo(s) \/ load_count \/ store_count
      PROVE  BufInv'
  BY <1>3, OtherBufInv DEF latch, post, pend, deref, write_fifo, load_count, store_count
<1>4. CASE Next
  BY <1>2, <1>3, <1>4, NextSteps, WriteBufInv, LinkBufInv, RecvBufInv, ClearBufInv, RecycleBufInv DEF Station
<1> QED
  BY <1>1, <1>4

----------------------------------------------------------------------------
(* Counting the passages.  A word's increment is the increment's word.     *)
LEMMA u32Increment == ASSUME NEW x \in Int PROVE u32(u32(x) + 1) = u32(x + 1)
<1> USE WidthAssumption DEF u32
<1>1. PICK W \in Nat \ {0} : W = WORD
  OBVIOUS
<1>2. PICK q \in Int, r \in 0 .. W - 1 : x = W * q + r /\ r = x % W
  BY <1>1
<1>3. ASSUME NEW y \in Int, NEW p \in Int, NEW e \in 0 .. W - 1, y = W * p + e
      PROVE  y % W = e
  BY <1>1, <1>3
<1>4. CASE r + 1 < W
  <2>1. (x + 1) % W = r + 1
    BY <1>1, <1>2, <1>3, <1>4
  <2>2. (r + 1) % W = r + 1
    BY <1>1, <1>2, <1>4
  <2> QED
    BY <1>1, <1>2, <2>1, <2>2
<1>5. CASE r + 1 = W
  <2>1. PICK p \in Int : x + 1 = W * p + 0
    <3>1. x + 1 = W * (q + 1) + 0
      BY <1>1, <1>2, <1>5
    <3> QED
      BY <3>1
  <2>2. (x + 1) % W = 0
    <3>1. x + 1 \in Int /\ 0 \in 0 .. W - 1
      OBVIOUS
    <3> QED
      BY <1>3, <2>1, <3>1
  <2>3. (r + 1) % W = 0
    <3>1. r + 1 = W * 1 + 0
      BY <1>1, <1>5
    <3> QED
      BY <1>1, <1>3, <3>1
  <2> QED
    BY <1>1, <1>2, <2>2, <2>3
<1> QED
  BY <1>1, <1>2, <1>4, <1>5

(* Initially no passage is anywhere.                                       *)
LEMMA InitPassInv == Init => PassInv
<1> SUFFICES ASSUME Init PROVE PassInv
  OBVIOUS
<1> USE DEF Init
<1>1. VerdictPerPassage /\ NeverOlder
  BY DEF VerdictPerPassage, NeverOlder
<1>2. CountTracks
  BY WidthAssumption DEF CountTracks, u32, Station
<1>3. LoadAgrees /\ TrigState
  BY DEF LoadAgrees, TrigState, Station
<1> QED
  BY <1>1, <1>2, <1>3 DEF PassInv

(* Where the passages of a station are: nothing that follows looks inside. *)
InTrig(s) == IF tpc[s] = "pend" THEN 0 ELSE 1
InIsr(s) == IF ipc[s] = "post" THEN 1 ELSE 0
Balance(s) == Len(passed[s]) = Len(fifo[s]) + InTrig(s) + mbx[s] + InIsr(s)
Newer(s) ==
  tpc[s] \in {"search", "recycle", "fifo"} /\ (s = 2 \/ kick_mode # 0) => read[s] \in own(s) .. Len(passed[s])
VerdictState(s) == tpc[s] \in {"recycle", "fifo"} <=> verdict[s] # -1

(* What the steps of one station keep of the other's, and what remains to  *)
(* be shown of its own.                                                    *)
LEMMA StationStep ==
  ASSUME PassInv, NEW s \in Station, UNCHANGED kick_mode,
         \A u \in Station : u # s =>
           /\ passed'[u] = passed[u] /\ fifo'[u] = fifo[u] /\ tpc'[u] = tpc[u] /\ mbx'[u] = mbx[u]
           /\ ipc'[u] = ipc[u] /\ read'[u] = read[u] /\ verdict'[u] = verdict[u],
         Balance(s)', Newer(s)', VerdictState(s)'
  PROVE  /\ VerdictPerPassage' /\ NeverOlder'
         /\ \A u \in Station : tpc'[u] \in {"recycle", "fifo"} <=> verdict'[u] # -1
<1>1. VerdictPerPassage'
  <2> SUFFICES ASSUME NEW u \in Station PROVE Balance(u)'
    BY DEF VerdictPerPassage, Balance, InTrig, InIsr
  <2>1. Balance(u)
    BY DEF PassInv, VerdictPerPassage, Balance, InTrig, InIsr
  <2> QED
    BY <2>1 DEF Balance, InTrig, InIsr
<1>2. NeverOlder'
  BY DEF PassInv, NeverOlder, Newer, own
<1>3. \A u \in Station : tpc'[u] \in {"recycle", "fifo"} <=> verdict'[u] # -1
  BY DEF PassInv, TrigState, VerdictState
<1> QED
  BY <1>1, <1>2, <1>3

(* Steps that touch no passage.                                            *)
LEMMA OtherPassInv ==
  ASSUME PassInv, UNCHANGED <<kick_mode, countVars, isrVars, mbx, tpc, tmp, read, verdict, fifo>>
  PROVE  PassInv'
BY DEF PassInv, VerdictPerPassage, NeverOlder, CountTracks, LoadAgrees, TrigState, own,
       countVars, isrVars

(* A reset starts counting anew, or is undone by an increment under way.   *)
LEMMA ResetPassInv ==
  ASSUME TypeOK, PassInv, reset_count
  PROVE  PassInv'
<1> USE DEF reset_count, isrVars, trigVars, PassInv
<1>1. VerdictPerPassage' /\ NeverOlder' /\ TrigState'
  BY DEF VerdictPerPassage, NeverOlder, TrigState, own
<1>2. CountTracks'
  <2> SUFFICES ASSUME tpc[1] # "store"
               PROVE  0 = u32(popped' - (IF tpc[1] \in {"load", "store"} THEN 1 ELSE 0))
    BY DEF CountTracks
  <2>1. popped' - (IF tpc[1] \in {"load", "store"} THEN 1 ELSE 0) = 0
    OBVIOUS
  <2>2. u32(0) = 0
    BY WidthAssumption DEF u32
  <2> QED
    BY <2>1, <2>2
<1>3. LoadAgrees'
  BY DEF LoadAgrees
<1> QED
  BY <1>1, <1>2, <1>3

(* An interrupt thread latches a code and posts.                           *)
LEMMA IsrPassInv ==
  ASSUME TypeOK, PassInv, NEW s \in Station, (\E c \in Code : latch(s, c)) \/ post(s)
  PROVE  PassInv'
<1>0. /\ UNCHANGED <<kick_mode, countVars, tpc, tmp, read, verdict, fifo>>
      /\ \A u \in Station : u # s => passed'[u] = passed[u] /\ mbx'[u] = mbx[u] /\ ipc'[u] = ipc[u]
  BY DEF latch, post, trigVars, TypeOK
<1>1. Balance(s) /\ Newer(s) /\ VerdictState(s) /\ Len(passed[s]) \in Nat /\ Len(fifo[s]) \in Nat
      /\ mbx[s] \in Nat /\ InTrig(s) \in {0, 1}
  <2>1. Balance(s)
    BY DEF PassInv, VerdictPerPassage, Balance, InTrig, InIsr
  <2>2. Newer(s) /\ VerdictState(s)
    BY DEF PassInv, NeverOlder, TrigState, Newer, VerdictState
  <2>3. Len(passed[s]) \in Nat /\ Len(fifo[s]) \in Nat /\ mbx[s] \in Nat /\ InTrig(s) \in {0, 1}
    BY LenProperties DEF TypeOK, InTrig
  <2> QED
    BY <2>1, <2>2, <2>3
<1>2. Balance(s)' /\ Len(passed'[s]) >= Len(passed[s])
  <2>1. ASSUME NEW c \in Code, latch(s, c) PROVE Balance(s)' /\ Len(passed'[s]) >= Len(passed[s])
    <3>1. /\ Len(passed'[s]) = Len(passed[s]) + 1 /\ mbx'[s] = mbx[s]
      BY <2>1, AppendProperties DEF latch, TypeOK
    <3>2. InIsr(s) = 0 /\ InIsr(s)' = 1 /\ InTrig(s)' = InTrig(s)
      BY <1>0, <2>1 DEF latch, TypeOK, InIsr, InTrig
    <3> QED
      BY <1>0, <1>1, <3>1, <3>2 DEF Balance
  <2>2. CASE post(s)
    <3>1. passed' = passed /\ mbx'[s] = mbx[s] + 1
      BY <2>2 DEF post, posted, TypeOK
    <3>2. InIsr(s) = 1 /\ InIsr(s)' = 0 /\ InTrig(s)' = InTrig(s)
      BY <1>0, <2>2 DEF post, TypeOK, InIsr, InTrig
    <3>3. passed'[s] = passed[s] /\ fifo'[s] = fifo[s]
      BY <1>0, <3>1
    <3>4. Len(passed[s]) = Len(fifo[s]) + InTrig(s) + mbx[s] + 1
      BY <1>1, <3>2 DEF Balance
    <3>5. Balance(s)'
      BY <1>1, <3>1, <3>2, <3>3, <3>4 DEF Balance
    <3> QED
      BY <1>1, <3>3, <3>5
  <2> QED
    BY <2>1, <2>2
<1>3. Newer(s)' /\ VerdictState(s)'
  <2>1. Len(passed'[s]) \in Nat
    <3>1. passed' \in [Station -> Seq(Code)]
      BY PassTypeOK DEF TypeOK
    <3> QED
      BY <3>1, LenProperties
  <2>2. own(s)' = own(s) /\ own(s) \in Nat
    BY <1>0, <1>1 DEF own
  <2> QED
    BY <1>0, <1>1, <1>2, <2>1, <2>2 DEF Newer, VerdictState, own, TypeOK
<1>4. CountTracks' /\ LoadAgrees'
  BY <1>0 DEF PassInv, CountTracks, LoadAgrees, countVars
<1> QED
  BY <1>0, <1>2, <1>3, <1>4, StationStep DEF PassInv, TrigState

(* Counting a passage: a load and a store.                                 *)
LEMMA CountPassInv ==
  ASSUME TypeOK, PassInv, load_count \/ store_count
  PROVE  PassInv'
<1>0. /\ UNCHANGED <<kick_mode, passed, ipc, mbx, read, verdict, fifo, popped, torn>>
      /\ \A u \in Station : u # 1 => tpc'[u] = tpc[u]
      /\ 1 \in Station
      /\ tpc[1] \in {"load", "store"} /\ tpc'[1] \in {"store", "search", "deref"}
      /\ tpc'[1] = "search" => kick_mode = 0
      /\ tpc'[1] = "deref" => kick_mode # 0
  BY DEF load_count, store_count, countVars, isrVars, TypeOK, Station
<1>1. Balance(1)' /\ Newer(1)' /\ VerdictState(1)'
  <2>1. Balance(1) /\ VerdictState(1)
    BY <1>0 DEF PassInv, VerdictPerPassage, Balance, InTrig, InIsr, TrigState, VerdictState
  <2>2. InTrig(1)' = InTrig(1) /\ InIsr(1)' = InIsr(1)
    BY <1>0 DEF InTrig, InIsr
  <2> QED
    BY <1>0, <2>1, <2>2 DEF Balance, Newer, VerdictState
<1>2. CountTracks' /\ LoadAgrees'
  <2>1. CASE load_count
    BY <1>0, <2>1 DEF load_count, countVars, PassInv, CountTracks, LoadAgrees, TypeOK
  <2>2. CASE store_count
    <3>1. ~torn => cur_count_kt1 = u32(popped - 1) /\ tmp = cur_count_kt1
      BY <2>2 DEF store_count, PassInv, CountTracks, LoadAgrees
    <3>2. u32(u32(popped - 1) + 1) = u32(popped)
      <4>1. popped - 1 \in Int /\ (popped - 1) + 1 = popped
        BY DEF TypeOK
      <4> QED
        BY <4>1, u32Increment
    <3>3. ~torn => cur_count_kt1' = u32(popped)
      BY <2>2, <3>1, <3>2 DEF store_count, counted
    <3>4. tpc'[1] \notin {"load", "store"} /\ popped - 0 = popped
      BY <2>2 DEF store_count, TypeOK, Station
    <3> QED
      BY <1>0, <3>3, <3>4 DEF CountTracks, LoadAgrees
  <2> QED
    BY <2>1, <2>2
<1> QED
  BY <1>0, <1>1, <1>2, StationStep DEF PassInv, TrigState, Station

(* Taking a passage up.                                                    *)
LEMMA PendPassInv ==
  ASSUME TypeOK, PassInv, NEW s \in Station, pend(s)
  PROVE  PassInv'
<1>0. /\ UNCHANGED <<kick_mode, cur_count_kt1, torn, passed, ipc, tmp, read, verdict, fifo>>
      /\ \A u \in Station : u # s => tpc'[u] = tpc[u] /\ mbx'[u] = mbx[u]
      /\ tpc[s] = "pend" /\ tpc'[s] = IF s = 1 THEN "load" ELSE "deref"
      /\ mbx'[s] = mbx[s] - 1 /\ mbx[s] \in Nat /\ mbx'[s] \in Nat
      /\ popped \in Nat /\ popped' = IF s = 1 THEN popped + 1 ELSE popped
  <2>1. mbx \in [Station -> Nat] /\ popped \in Nat
        /\ tpc \in [Station -> {"pend", "load", "store", "deref", "search", "recycle", "fifo"}]
    BY DEF TypeOK
  <2>2. mbx[s] - 1 \in Nat
    BY <2>1 DEF pend
  <2> QED
    BY <2>1, <2>2 DEF pend, isrVars
<1>1. Balance(s)' /\ Newer(s)' /\ VerdictState(s)'
  <2>1. Balance(s) /\ VerdictState(s)
    BY DEF PassInv, VerdictPerPassage, Balance, InTrig, InIsr, TrigState, VerdictState
  <2>2. InTrig(s) = 0 /\ InTrig(s)' = 1 /\ InIsr(s)' = InIsr(s) /\ InIsr(s) \in Nat /\ Len(fifo[s]) \in Nat
    <3>1. fifo[s] \in Seq({0, 1})
      BY DEF TypeOK
    <3>2. Len(fifo[s]) \in Nat
      BY <3>1
    <3> QED
      BY <1>0, <3>2 DEF InTrig, InIsr
  <2>3. Balance(s)'
    <3>1. mbx'[s] = mbx[s] - 1 /\ mbx[s] \in Nat /\ passed'[s] = passed[s] /\ fifo'[s] = fifo[s]
      BY <1>0
    <3>2. Len(passed[s]) = Len(fifo[s]) + mbx[s] + InIsr(s) /\ mbx'[s] \in Nat
      BY <1>0, <2>1, <2>2 DEF Balance
    <3>3. Len(passed[s]) = Len(fifo[s]) + 1 + mbx'[s] + InIsr(s)
      BY <2>2, <3>1, <3>2
    <3>4. InTrig(s)' = 1 /\ InIsr(s)' = InIsr(s)
      BY <2>2
    <3> QED
      BY <3>1, <3>3, <3>4 DEF Balance
  <2>4. Newer(s)' /\ VerdictState(s)'
    BY <1>0, <2>1 DEF Newer, VerdictState
  <2> QED
    BY <2>3, <2>4
<1>2. CountTracks' /\ LoadAgrees' /\ tpc'[2] \notin {"load", "store"} /\ (tpc'[1] = "deref" => kick_mode # 0)
  <2>1. CASE s = 1
    <3>1. ~torn => cur_count_kt1 = u32(popped - 0)
      BY <1>0, <2>1 DEF PassInv, CountTracks
    <3>2. popped' - 1 = popped - 0 /\ tpc'[1] = "load"
      BY <1>0, <2>1
    <3>3. CountTracks'
      BY <1>0, <3>1, <3>2 DEF CountTracks
    <3> QED
      BY <1>0, <2>1, <3>2, <3>3 DEF PassInv, TrigState, LoadAgrees, Station
  <2>2. CASE s = 2
    BY <1>0, <2>2 DEF PassInv, CountTracks, LoadAgrees, TrigState, Station
  <2> QED
    BY <2>1, <2>2 DEF Station
<1> QED
  BY <1>0, <1>1, <1>2, StationStep DEF PassInv, TrigState

(* Recycling the buffer of a hit.                                          *)
LEMMA RecyclePassInv ==
  ASSUME TypeOK, PassInv, NEW s \in Station, buf_factory_recycle(s)
  PROVE  PassInv'
<1>0. /\ UNCHANGED <<kick_mode, countVars, passed, ipc, mbx, tmp, read, verdict, fifo>>
      /\ \A u \in Station : u # s => tpc'[u] = tpc[u]
      /\ tpc[s] = "recycle" /\ tpc'[s] = "fifo"
  BY DEF buf_factory_recycle, isrVars, TypeOK
<1>1. Balance(s)' /\ Newer(s)' /\ VerdictState(s)'
  <2>1. Balance(s) /\ Newer(s) /\ VerdictState(s) /\ InTrig(s)' = InTrig(s) /\ InIsr(s)' = InIsr(s)
    BY <1>0 DEF PassInv, VerdictPerPassage, NeverOlder, TrigState, Balance, Newer, VerdictState, InTrig, InIsr
  <2> QED
    BY <1>0, <2>1 DEF Balance, Newer, VerdictState, own
<1>2. \A u \in Station : tpc'[u] \in {"load", "store"} <=> tpc[u] \in {"load", "store"}
  BY <1>0
<1>3. CountTracks' /\ LoadAgrees'
  BY <1>0, <1>2 DEF PassInv, CountTracks, LoadAgrees, countVars, Station
<1>4. tpc'[2] \notin {"load", "store"} /\ (tpc'[1] = "deref" => kick_mode # 0)
  BY <1>0, <1>2 DEF PassInv, TrigState, Station
<1> QED
  BY <1>0, <1>1, <1>3, <1>4, StationStep DEF PassInv, TrigState

(* Reading the static through the pointer, and writing the verdict.        *)
LEMMA TrigPassInv ==
  ASSUME TypeOK, PassInv, NEW s \in Station, deref(s) \/ write_fifo(s)
  PROVE  PassInv'
<1>0. /\ UNCHANGED <<kick_mode, countVars, passed, ipc, mbx, tmp>>
      /\ \A u \in Station : u # s =>
           tpc'[u] = tpc[u] /\ read'[u] = read[u] /\ verdict'[u] = verdict[u] /\ fifo'[u] = fifo[u]
      /\ tpc[s] \in {"deref", "fifo"} /\ tpc'[s] \in {"search", "pend"}
  BY DEF deref, write_fifo, isrVars, TypeOK
<1>1. Balance(s) /\ VerdictState(s) /\ InIsr(s)' = InIsr(s) /\ InIsr(s) \in Nat
      /\ Len(passed[s]) \in Nat /\ Len(fifo[s]) \in Nat /\ mbx[s] \in Nat
  BY <1>0, LenProperties DEF PassInv, VerdictPerPassage, Balance, InTrig, InIsr, TrigState, VerdictState, TypeOK
<1>2. Balance(s)' /\ Newer(s)' /\ VerdictState(s)'
  <2>1. CASE deref(s)
    <3>1. InTrig(s) = 1 /\ InTrig(s)' = 1 /\ fifo'[s] = fifo[s]
      BY <2>1 DEF deref, TypeOK, InTrig
    <3>2. read'[s] = Len(passed[s]) /\ tpc'[s] = "search" /\ verdict'[s] = verdict[s] /\ tpc[s] = "deref"
      BY <2>1 DEF deref, current, TypeOK
    <3>3. Len(passed[s]) >= Len(fifo[s]) + 1
      BY <1>1, <3>1 DEF Balance
    <3> QED
      BY <1>0, <1>1, <3>1, <3>2, <3>3 DEF Balance, Newer, VerdictState, own
  <2>2. CASE write_fifo(s)
    <3>1. InTrig(s) = 1 /\ InTrig(s)' = 0 /\ tpc'[s] = "pend" /\ verdict'[s] = -1
      BY <2>2 DEF write_fifo, TypeOK, InTrig
    <3>2. Len(fifo'[s]) = Len(fifo[s]) + 1
      <4>1. verdict[s] \in {0, 1}
        BY <2>2 DEF write_fifo, PassInv, TrigState, TypeOK
      <4>2. fifo'[s] = Append(fifo[s], verdict[s])
        BY <2>2 DEF write_fifo, TypeOK
      <4> QED
        BY <4>1, <4>2, AppendProperties DEF TypeOK
    <3> QED
      BY <1>0, <1>1, <3>1, <3>2 DEF Balance, Newer, VerdictState
  <2> QED
    BY <2>1, <2>2
<1>3. \A u \in Station : tpc'[u] \in {"load", "store"} <=> tpc[u] \in {"load", "store"}
  BY <1>0
<1>4. CountTracks' /\ LoadAgrees'
  BY <1>0, <1>3 DEF PassInv, CountTracks, LoadAgrees, countVars, Station
<1>5. tpc'[2] \notin {"load", "store"} /\ (tpc'[1] = "deref" => kick_mode # 0)
  BY <1>0, <1>3 DEF PassInv, TrigState, Station
<1> QED
  BY <1>0, <1>2, <1>4, <1>5, StationStep DEF PassInv, TrigState

(* Searching.                                                              *)
LEMMA SearchPassInv ==
  ASSUME TypeOK, PassInv, NEW s \in Station, Deciding(s)
  PROVE  PassInv'
<1>0. /\ UNCHANGED <<kick_mode, cur_count_kt1, popped, torn, passed, ipc, mbx, tmp, read, fifo>>
      /\ tpc[s] = "search"
  BY SearchCases
<1>1. CASE tpc' = tpc /\ verdict' = verdict
  BY <1>0, <1>1, OtherPassInv DEF countVars, isrVars
<1>2. CASE \E p \in {"recycle", "fifo"}, v \in {0, 1} :
             tpc' = [tpc EXCEPT ![s] = p] /\ verdict' = [verdict EXCEPT ![s] = v]
  <2>1. /\ tpc'[s] \in {"recycle", "fifo"} /\ verdict'[s] # -1
        /\ \A u \in Station : u # s => tpc'[u] = tpc[u] /\ verdict'[u] = verdict[u]
    BY <1>2 DEF TypeOK
  <2>2. Balance(s)' /\ Newer(s)' /\ VerdictState(s)'
    <3>1. Balance(s) /\ Newer(s) /\ InTrig(s)' = InTrig(s) /\ InIsr(s)' = InIsr(s)
      BY <1>0, <2>1 DEF PassInv, VerdictPerPassage, NeverOlder, Balance, Newer, InTrig, InIsr
    <3> QED
      BY <1>0, <2>1, <3>1 DEF Balance, Newer, VerdictState, own
  <2>3. \A u \in Station : tpc'[u] \in {"load", "store"} <=> tpc[u] \in {"load", "store"}
    BY <1>0, <2>1
  <2>4. CountTracks' /\ LoadAgrees'
    BY <1>0, <2>1, <2>3 DEF PassInv, CountTracks, LoadAgrees, Station
  <2>5. tpc'[2] \notin {"load", "store"} /\ (tpc'[1] = "deref" => kick_mode # 0)
    BY <1>0, <2>1, <2>3 DEF PassInv, TrigState, Station
  <2> QED
    BY <1>0, <2>1, <2>2, <2>4, <2>5, StationStep DEF PassInv, TrigState
<1> QED
  BY <1>1, <1>2, SearchCases DEF Miss, Wild, Unlink

----------------------------------------------------------------------------
IInv == TypeOK /\ BufInv /\ PassInv

(* The passages' invariant is preserved by every step.                     *)
LEMMA NextPassInv ==
  ASSUME TypeOK, PassInv, [Next]_vars
  PROVE  PassInv'
<1>1. CASE UNCHANGED vars
  BY <1>1, OtherPassInv DEF vars, trigVars
<1>2. ASSUME (\E r \in Result : write_array(r)) \/ link \/ set_owner \/ clear_array(1) \/ clear_array(2) \/ reset_reply
      PROVE  PassInv'
  BY <1>2, OtherPassInv DEF write_array, link, set_owner, clear_array, reset_reply, trigVars
<1>3. CASE Next
  BY <1>2, <1>3, NextSteps, ResetPassInv, IsrPassInv, CountPassInv, PendPassInv, TrigPassInv,
     RecyclePassInv, SearchPassInv DEF Station
<1> QED
  BY <1>1, <1>3

(* The three invariants together are inductive, so they always hold.       *)
THEOREM Invariance == Spec => []IInv
<1>1. Init => IInv
  BY InitTypeOK, InitBufInv, InitPassInv DEF IInv
<1>2. IInv /\ [Next]_vars => IInv'
  BY NextTypeOK, NextBufInv, NextPassInv DEF IInv
<1> QED
  BY <1>1, <1>2, PTL DEF Spec

(* Every variable keeps its type (array.c:27-37).                          *)
THEOREM TypeCorrect == Spec => []TypeOK
<1>1. IInv => TypeOK
  BY DEF IInv
<1> QED
  BY <1>1, Invariance, PTL

(* Every buffer of g_c1_sample_buf is in exactly one place, whatever the   *)
(* searches, resets and new results do between each other: none is lost,   *)
(* and none is recycled twice (array.c:61-62, 178-194, 209-212).           *)
THEOREM BufferInOnePlace == Spec => []BufInOnePlace
<1>1. IInv => BufInOnePlace
  BY DEF IInv, BufInv, BufInOnePlace
<1> QED
  BY <1>1, Invariance, PTL

(* The process ends only with every buffer waiting at a station or in the  *)
(* hands of its trig task, or by a search that fell into the owner window  *)
(* (buf_factory.c:81, array.c:54).                                         *)
THEOREM WhyItDies == Spec => []Deaths
<1>1. IInv => Deaths
  BY DEF IInv, BufInv, Deaths
<1> QED
  BY <1>1, Invariance, PTL

(* When a reset replies, both lists are empty and every buffer is free,    *)
(* though the lists were cleared under different mutexes (array.c:199-225, *)
(* local_protocol.c:59-64).                                                *)
THEOREM ResetIsComplete == Spec => []ResetReclaims
<1>1. IInv => ResetReclaims
  <2> SUFFICES ASSUME IInv, rpc = "reply"
               PROVE  (\A s \in Station : sample_list[s] = <<>>) /\ \A b \in Buf : Free(b)
    BY DEF ResetReclaims
  <2>1. \A s \in Station : sample_list[s] = <<>>
    BY DEF IInv, BufInv, RecvState, Cleared, Station
  <2>2. \A b \in Buf : ~InHand(b) /\ \A s \in Station : ~AtStation(b, s)
    <3>1. \A s \in Station : hit[s] = None
      BY DEF IInv, BufInv, RecvState, Cleared, Station
    <3> QED
      BY <2>1, <3>1, ArrayAssumption DEF InHand, Listed, AtStation
  <2>3. \A b \in Buf : Free(b)
    BY <2>2 DEF IInv, BufInv, BufNoLoss
  <2> QED
    BY <2>1, <2>3
<1> QED
  BY <1>1, Invariance, PTL

(* Station 1's counter is the number of passages since the last reset,     *)
(* modulo the word, unless that reset's store was overwritten (array.c:239,*)
(* local_protocol.c:59).                                                   *)
THEOREM CounterTracks == Spec => []CountTracks
<1>1. IInv => CountTracks
  BY DEF IInv, PassInv
<1> QED
  BY <1>1, Invariance, PTL

(* Every passage is decided, being decided, or on its way to a trig task,  *)
(* and none of them twice (isr.c:80-92, array.c:65-72).                    *)
THEOREM OneVerdictPerPassage == Spec => []VerdictPerPassage
<1>1. IInv => VerdictPerPassage
  BY DEF IInv, PassInv
<1> QED
  BY <1>1, Invariance, PTL

(* A passage is never decided by the wheel code of an earlier one          *)
(* (isr.c:88-92, array.c:246-247).                                         *)
THEOREM CodeNeverOlder == Spec => []NeverOlder
<1>1. IInv => NeverOlder
  BY DEF IInv, PassInv
<1> QED
  BY <1>1, Invariance, PTL

----------------------------------------------------------------------------
(* The reject array implements the reject line.  Linking a buffer is       *)
(* Accept, latching a code is Arrive, a search is Decide, clearing a list  *)
(* is Clear and writing the FIFO is Emit; every other step of the five     *)
(* threads stutters.  write_array does because of the buffers' invariant:  *)
(* it overwrites a buffer's result, and only a free buffer is on no list.  *)

(* The results of a list of buffers.                                       *)
Results(l) == [i \in DOMAIN l |-> sample[l[i]]]

(* The line at a station has one result per node.                          *)
LEMMA WaitingElements ==
  ASSUME TypeOK, NEW s \in Station
  PROVE  /\ waiting = [u \in Station |-> Results(sample_list[u])]
         /\ waiting[s] = Results(sample_list[s])
         /\ waiting[s] \in Seq(Result)
         /\ Len(waiting[s]) = Len(sample_list[s])
         /\ DOMAIN waiting[s] = DOMAIN sample_list[s]
         /\ \A i \in DOMAIN sample_list[s] : waiting[s][i] = sample[sample_list[s][i]]
<1> PICK l \in Seq(Buf) : l = sample_list[s]
  BY DEF TypeOK
<1> PICK n \in Nat : n = Len(l) /\ DOMAIN l = 1 .. n
  BY LenProperties
<1>1. waiting[s] = Results(l) /\ waiting = [u \in Station |-> Results(sample_list[u])]
  BY DEF waiting, Results
<1>2. \A i \in 1 .. n : sample[l[i]] \in Result
  BY ElementOfSeq DEF TypeOK
<1>3. Results(l) \in [1 .. n -> Result]
  BY <1>2 DEF Results
<1>4. Results(l) \in Seq(Result)
  BY <1>3, SeqDef
<1>5. Len(Results(l)) = n
  BY <1>3, <1>4, LenProperties
<1> QED
  BY <1>1, <1>3, <1>4, <1>5 DEF Results

(* A change at one station.                                                *)
LEMMA OneStation ==
  ASSUME NEW s \in Station, \A u \in Station : u # s => waiting'[u] = waiting[u]
  PROVE  waiting' = [waiting EXCEPT ![s] = waiting'[s]]
<1> PICK v, w : v = waiting' /\ w = waiting
  OBVIOUS
<1>1. v = [u \in Station |-> v[u]] /\ w = [u \in Station |-> w[u]]
  BY DEF waiting
<1> QED
  BY <1>1

(* A result hits exactly when its sample is due.                           *)
LEMMA DueHits ==
  ASSUME TypeOK, NEW s \in Station, NEW key \in Word, NEW r \in Result
  PROVE  Line!Due(s, key, r) <=> hits(g_sys_config, kick_mode, s, key, r)
<1>1. g_sys_config \in Configuration /\ key \in Int /\ r.wheel_code \in Int
  BY ArrayAssumption DEF Word
<1>2. wheel_code_abs(g_sys_config, s, key, r.wheel_code) <= g_sys_config.sample_length \div 2
      <=> InWindow(g_sys_config, s, key, r.wheel_code)
  BY <1>1, InsideIsWindow
<1>3. Line!InWindow(g_sys_config, s, key, r.wheel_code) <=> InWindow(g_sys_config, s, key, r.wheel_code)
  BY DEF Line!InWindow, Line!travel, InWindow, travel
<1> QED
  BY <1>2, <1>3 DEF Line!Due, hits

LEMMA StationsAgree == Line!Station = Station
BY DEF Station, Line!Station

(* No result waits before the first arrives.                               *)
LEMMA LineInit == Init => Line!Init
<1> SUFFICES ASSUME Init PROVE Line!Init
  OBVIOUS
<1>1. \A s \in Station : [i \in DOMAIN sample_list[s] |-> sample[sample_list[s][i]]] = <<>>
  BY DEF Init
<1>2. waiting = [s \in Station |-> <<>>]
  BY <1>1 DEF waiting
<1> QED
  BY <1>2, StationsAgree DEF Init, Line!Init

(* Steps that touch neither lists nor results nor verdicts.                *)
LEMMA LineStutter ==
  ASSUME UNCHANGED <<kick_mode, sample_list, sample, passed, verdict, fifo>>
  PROVE  UNCHANGED Line!vars
BY DEF Line!vars, waiting

(* Filling a buffer that is on no list is not seen.                        *)
LEMMA LineWrite ==
  ASSUME TypeOK, BufInv, NEW r \in Result, write_array(r)
  PROVE  UNCHANGED Line!vars
<1>1. UNCHANGED <<kick_mode, sample_list, passed, verdict, fifo>>
  BY DEF write_array, trigVars, isrVars
<1>2. CASE UNCHANGED sample
  BY <1>1, <1>2, LineStutter
<1>3. CASE free # <<>> /\ sample' = [sample EXCEPT ![Head(free)] = r]
  <2>1. Head(free) \in Buf /\ Free(Head(free))
    BY <1>3, TailElements DEF TypeOK, Free
  <2>2. \A s \in Station : \A i \in DOMAIN sample_list[s] : sample_list[s][i] # Head(free)
    BY <2>1 DEF BufInv, BufNoTwin, Listed, AtStation
  <2>3. \A s \in Station : \A i \in DOMAIN sample_list[s] : sample_list[s][i] \in Buf
    BY ElementOfSeq DEF TypeOK
  <2>4. \A s \in Station : \A i \in DOMAIN sample_list[s] : sample'[sample_list[s][i]] = sample[sample_list[s][i]]
    BY <1>3, <2>2, <2>3 DEF TypeOK
  <2>5. \A s \in Station : [i \in DOMAIN sample_list[s] |-> sample'[sample_list[s][i]]]
                           = [i \in DOMAIN sample_list[s] |-> sample[sample_list[s][i]]]
    BY <2>4
  <2>6. waiting' = waiting
    BY <1>1, <2>5 DEF waiting
  <2> QED
    BY <1>1, <2>6 DEF Line!vars
<1> QED
  BY <1>2, <1>3 DEF write_array

(* Linking a buffer is a result joining the line.                          *)
LEMMA LineAccept ==
  ASSUME TypeOK, TypeOK', link
  PROVE  \E s \in Station : Line!Accept(s)
<1>0. /\ rbuf \in Buf /\ sample[rbuf] \in Result /\ sample[rbuf].pos \in Station
      /\ sample_list[sample[rbuf].pos] \in Seq(Buf)
  <2>1. rbuf \in Buf
    BY DEF link, TypeOK
  <2>2. sample \in [Buf -> Result] /\ sample_list \in [Station -> Seq(Buf)]
    BY DEF TypeOK
  <2>3. sample[rbuf] \in Result
    BY <2>1, <2>2
  <2>4. sample[rbuf].pos \in Station
    BY <2>3, ArrayAssumption
  <2> QED
    BY <2>1, <2>2, <2>3, <2>4
<1> PICK x \in Buf, s \in Station, r \in Result, l \in Seq(Buf) :
      x = rbuf /\ r = sample[x] /\ s = r.pos /\ l = sample_list[s]
  BY <1>0
<1>1. /\ UNCHANGED <<kick_mode, sample, passed, verdict, fifo>>
      /\ sample_list' = [sample_list EXCEPT ![s] = Append(l, x)]
  <2>1. UNCHANGED <<kick_mode, sample, passed, verdict, fifo>>
    <3>1. kick_mode' = kick_mode /\ sample' = sample /\ UNCHANGED isrVars /\ UNCHANGED trigVars
      BY DEF link
    <3> QED
      BY <3>1 DEF trigVars, isrVars
  <2>2. sample_list' = [sample_list EXCEPT ![sample[rbuf].pos] = Append(sample_list[sample[rbuf].pos], rbuf)]
    BY Zenon DEF link
  <2> QED
    BY <2>1, <2>2
<1>2. Results(Append(l, x)) = Append(Results(l), r)
  <2>1. /\ Append(l, x) \in Seq(Buf) /\ Len(l) \in Nat
        /\ DOMAIN l = 1 .. Len(l) /\ DOMAIN Append(l, x) = 1 .. Len(l) + 1
        /\ Append(l, x)[Len(l) + 1] = x
        /\ \A i \in DOMAIN l : Append(l, x)[i] = l[i]
    BY AppendElements
  <2> PICK m \in Seq(Result) : m = Results(l) /\ Len(m) = Len(l) /\ \A i \in DOMAIN l : m[i] = sample[l[i]]
    BY WaitingElements
  <2>2. /\ Append(m, r) \in Seq(Result)
        /\ DOMAIN m = 1 .. Len(l) /\ DOMAIN Append(m, r) = 1 .. Len(l) + 1
        /\ Append(m, r)[Len(l) + 1] = r
        /\ \A i \in DOMAIN m : Append(m, r)[i] = m[i]
    BY AppendElements
  <2>3. \A i \in 1 .. Len(l) + 1 : Append(m, r)[i] = sample[Append(l, x)[i]]
    <3> SUFFICES ASSUME NEW i \in 1 .. Len(l) + 1 PROVE Append(m, r)[i] = sample[Append(l, x)[i]]
      OBVIOUS
    <3>1. CASE i = Len(l) + 1
      BY <2>1, <2>2, <3>1
    <3>2. CASE i # Len(l) + 1
      <4>1. i \in DOMAIN l /\ i \in DOMAIN m
        BY <2>1, <2>2, <3>2
      <4> QED
        BY <2>1, <2>2, <4>1
    <3> QED
      BY <3>1, <3>2
  <2>4. Append(m, r) = [i \in 1 .. Len(l) + 1 |-> Append(m, r)[i]]
    BY <2>2, DOMAIN Append(m, r) = 1 .. Len(l) + 1, SeqDef, LenProperties
  <2>5. Results(Append(l, x)) = [i \in 1 .. Len(l) + 1 |-> sample[Append(l, x)[i]]]
    <3>1. DOMAIN Append(l, x) = 1 .. Len(l) + 1
      BY <2>1
    <3> QED
      BY <3>1 DEF Results
  <2>6. Results(Append(l, x)) = [i \in 1 .. Len(l) + 1 |-> Append(m, r)[i]]
    BY <2>3, <2>5
  <2> QED
    BY <2>4, <2>6
<1>3. waiting' = [waiting EXCEPT ![s] = Append(@, r)]
  <2>1. waiting' = [u \in Station |-> [i \in DOMAIN sample_list'[u] |-> sample[sample_list'[u][i]]]]
    BY <1>1 DEF waiting
  <2>2. \A u \in Station : waiting'[u] = Results(sample_list'[u])
    BY <2>1 DEF Results
  <2>3. waiting'[s] = Append(waiting[s], r)
    BY <1>1, <1>2, <2>2, WaitingElements DEF TypeOK
  <2>4. ASSUME NEW u \in Station, u # s PROVE waiting'[u] = waiting[u]
    <3>1. sample_list'[u] = sample_list[u]
      BY <1>1, <2>4 DEF TypeOK
    <3>2. waiting[u] = Results(sample_list[u])
      BY WaitingElements
    <3> QED
      BY <2>2, <3>1, <3>2
  <2>5. waiting' = [waiting EXCEPT ![s] = waiting'[s]]
    BY <2>4, OneStation
  <2> QED
    BY <2>3, <2>5
<1> QED
  BY <1>1, <1>3 DEF Line!Accept

(* Clearing a list empties the line of its station.                        *)
LEMMA LineClear ==
  ASSUME TypeOK, NEW s \in Station, clear_array(s)
  PROVE  Line!Clear(s)
<1>1. /\ UNCHANGED <<kick_mode, sample, passed, verdict, fifo>>
      /\ sample_list' = [sample_list EXCEPT ![s] = <<>>]
  BY DEF clear_array, trigVars, isrVars
<1>2. waiting' = [u \in Station |-> [i \in DOMAIN sample_list'[u] |-> sample[sample_list'[u][i]]]]
  BY <1>1 DEF waiting
<1>3. waiting'[s] = <<>>
  <2>1. sample_list'[s] = <<>>
    BY <1>1 DEF TypeOK
  <2>2. [i \in DOMAIN sample_list'[s] |-> sample[sample_list'[s][i]]] = <<>>
    BY <2>1
  <2> QED
    BY <1>2, <2>2
<1>4. ASSUME NEW u \in Station, u # s PROVE waiting'[u] = waiting[u]
  <2>1. sample_list'[u] = sample_list[u]
    BY <1>1, <1>4 DEF TypeOK
  <2> QED
    BY <1>2, <2>1 DEF waiting
<1>5. waiting' = [waiting EXCEPT ![s] = waiting'[s]]
  BY <1>4, OneStation
<1> QED
  BY <1>1, <1>3, <1>5 DEF Line!Clear

(* Writing the FIFO emits the verdict.                                     *)
LEMMA LineEmit ==
  ASSUME TypeOK, PassInv, NEW s \in Station, write_fifo(s)
  PROVE  Line!Emit(s)
<1>1. waiting' = waiting
  BY DEF write_fifo, waiting
<1>2. verdict[s] # -1
  BY DEF write_fifo, PassInv, TrigState
<1> QED
  BY <1>1, <1>2 DEF write_fifo, isrVars, Line!Emit

(* Latching a code is a passage that arrives.                              *)
LEMMA LineArrive ==
  ASSUME NEW s \in Station, NEW c \in Code, latch(s, c)
  PROVE  Line!Arrive(s)
<1>1. waiting' = waiting
  BY DEF latch, waiting
<1>2. c \in Word
  BY ArrayAssumption DEF Word
<1> QED
  BY <1>1, <1>2 DEF latch, trigVars, Line!Arrive

(* What a list is searched for is a word.                                  *)
LEMMA KeysAreWords ==
  ASSUME TypeOK, PassInv, NEW s \in Station, tpc[s] = "search", NEW key \in keys(s)
  PROVE  key \in Word
<1> SUFFICES key \in 0 .. WORD - 1
  BY DEF Word
<1>1. CASE s = 1 /\ kick_mode = 0
  <2>1. tmp + 1 \in Int /\ cur_count_kt1 \in 0 .. WORD - 1
    BY DEF TypeOK
  <2>2. counted \in 0 .. WORD - 1
    BY <2>1, u32Range DEF counted
  <2> QED
    BY <1>1, <2>1, <2>2 DEF keys
<1>2. CASE ~(s = 1 /\ kick_mode = 0)
  <2>1. read[s] \in own(s) .. Len(passed[s])
    BY <1>2 DEF PassInv, NeverOlder, Station
  <2>2. own(s) \in Nat \ {0}
    BY LenProperties DEF own, TypeOK
  <2>3. read[s] \in 1 .. Len(passed[s]) /\ passed[s] \in Seq(Code)
    BY <2>1, <2>2, LenProperties DEF TypeOK
  <2>4. passed[s][read[s]] \in Code
    BY <2>3, ElementOfSeq
  <2> QED
    BY <1>2, <2>4, ArrayAssumption DEF keys
<1> QED
  BY <1>1, <1>2

(* And it is what the line may compare the passage by, whose turn it is.   *)
LEMMA KeysAgree ==
  ASSUME TypeOK, PassInv, NEW s \in Station, tpc[s] = "search", NEW key \in keys(s)
  PROVE  key \in Line!Keys(s) /\ Len(fifo[s]) < Len(passed[s])
<1>1. Len(fifo[s]) < Len(passed[s])
  <2>1. Len(fifo[s]) \in Nat /\ mbx[s] \in Nat
    BY LenProperties DEF TypeOK
  <2>2. \E d \in {0, 1} : Len(passed[s]) = Len(fifo[s]) + 1 + mbx[s] + d
    BY DEF PassInv, VerdictPerPassage
  <2> QED
    BY <2>1, <2>2
<1>2. CASE s = 1 /\ kick_mode = 0
  <2>1. key \in Word
    BY KeysAreWords
  <2>2. Line!Keys(s) = Word
    BY <1>2 DEF Line!Keys
  <2> QED
    BY <1>1, <2>1, <2>2
<1>3. CASE ~(s = 1 /\ kick_mode = 0)
  <2>1. read[s] \in own(s) .. Len(passed[s])
    BY <1>3 DEF PassInv, NeverOlder, Station
  <2>2. key = passed[s][read[s]]
    BY <1>3 DEF keys
  <2> QED
    BY <1>3, <2>1, <2>2 DEF own, Line!Keys
<1> QED
  BY <1>1, <1>2, <1>3

(* Unlinking a node takes its result off the line.                         *)
LEMMA LineUnlink ==
  ASSUME TypeOK, NEW s \in Station, NEW n \in DOMAIN sample_list[s],
         UNCHANGED sample, sample_list' = [sample_list EXCEPT ![s] = list_del(@, n)]
  PROVE  waiting' = [waiting EXCEPT ![s] = Line!Without(@, n)]
<1> PICK l \in Seq(Buf) : l = sample_list[s] /\ n \in DOMAIN l
  BY DEF TypeOK
<1>1. waiting' = [u \in Station |-> [i \in DOMAIN sample_list'[u] |-> sample[sample_list'[u][i]]]]
  BY DEF waiting
<1>2. sample_list'[s] = list_del(l, n)
  BY DEF TypeOK
<1>3. /\ DOMAIN list_del(l, n) = 1 .. Len(l) - 1
      /\ \A j \in 1 .. Len(l) - 1 : list_del(l, n)[j] = IF j < n THEN l[j] ELSE l[j + 1]
  BY ListDelElements
<1>4. Len(waiting[s]) = Len(l) /\ \A i \in DOMAIN l : waiting[s][i] = sample[l[i]]
  BY WaitingElements
<1>5. \A j \in 1 .. Len(l) - 1 : j \in DOMAIN l /\ j + 1 \in DOMAIN l
  BY LenProperties
<1>6. \A j \in 1 .. Len(l) - 1 :
        sample[list_del(l, n)[j]] = IF j < n THEN waiting[s][j] ELSE waiting[s][j + 1]
  BY <1>3, <1>4, <1>5
<1>7. waiting'[s] = Line!Without(waiting[s], n)
  <2>1. waiting'[s] = [i \in 1 .. Len(l) - 1 |-> sample[list_del(l, n)[i]]]
    BY <1>1, <1>2, <1>3
  <2>2. Line!Without(waiting[s], n) = [j \in 1 .. Len(l) - 1 |-> IF j < n THEN waiting[s][j] ELSE waiting[s][j + 1]]
    BY <1>4 DEF Line!Without
  <2> QED
    BY <1>6, <2>1, <2>2
<1>8. ASSUME NEW u \in Station, u # s PROVE waiting'[u] = waiting[u]
  <2>1. sample_list'[u] = sample_list[u]
    BY <1>8 DEF TypeOK
  <2> QED
    BY <1>1, <2>1 DEF waiting
<1>9. waiting' = [waiting EXCEPT ![s] = waiting'[s]]
  BY <1>8, OneStation
<1> QED
  BY <1>7, <1>9

(* A search decides by the oldest result that hits, or dies unseen.        *)
LEMMA LineDecide ==
  ASSUME TypeOK, PassInv, NEW s \in Station, Deciding(s)
  PROVE  Line!Decide(s) \/ UNCHANGED Line!vars
<1>1. PICK key \in keys(s) : search(s, key)
  BY DEF Deciding
<1>2. /\ key \in Word /\ key \in Line!Keys(s)
      /\ verdict[s] = -1 /\ Len(fifo[s]) < Len(passed[s])
      /\ UNCHANGED <<kick_mode, sample, passed, fifo>>
  BY <1>1, KeysAreWords, KeysAgree DEF Deciding, search, isrVars, PassInv, TrigState
<1>3. /\ DOMAIN waiting[s] = DOMAIN sample_list[s]
      /\ \A i \in DOMAIN sample_list[s] :
           Line!Due(s, key, waiting[s][i]) <=> Hit(s, key, sample_list[s][i])
      /\ \A i \in DOMAIN sample_list[s] : 1 .. i - 1 \subseteq DOMAIN sample_list[s]
  <2>1. DOMAIN waiting[s] = DOMAIN sample_list[s]
        /\ \A i \in DOMAIN sample_list[s] : waiting[s][i] = sample[sample_list[s][i]]
    BY WaitingElements
  <2>2. \A i \in DOMAIN sample_list[s] : sample[sample_list[s][i]] \in Result
    BY ElementOfSeq DEF TypeOK
  <2>3. \A i \in DOMAIN sample_list[s] :
           Line!Due(s, key, waiting[s][i]) <=> Hit(s, key, sample_list[s][i])
    BY <1>2, <2>1, <2>2, DueHits DEF Hit
  <2>4. \A i \in DOMAIN sample_list[s] : 1 .. i - 1 \subseteq DOMAIN sample_list[s]
    BY LenProperties DEF TypeOK
  <2> QED
    BY <2>1, <2>3, <2>4
<1>4. CASE /\ \A i \in DOMAIN sample_list[s] : ~Hit(s, key, sample_list[s][i])
           /\ verdict' = [verdict EXCEPT ![s] = 0] /\ UNCHANGED sample_list
  <2>1. waiting' = waiting
    BY <1>2, <1>4 DEF waiting
  <2>2. Line!Pass(s, key)
    BY <1>3, <1>4, <2>1 DEF Line!Pass
  <2> QED
    BY <1>2, <2>2 DEF Line!Decide
<1>5. CASE UNCHANGED <<sample_list, verdict>>
  BY <1>2, <1>5, LineStutter
<1>6. ASSUME NEW i \in DOMAIN sample_list[s],
             Hit(s, key, sample_list[s][i]),
             \A j \in 1 .. i - 1 : ~Hit(s, key, sample_list[s][j]),
             sample_list' = [sample_list EXCEPT ![s] = list_del(@, i)],
             verdict' = [verdict EXCEPT ![s] = 1]
      PROVE  Line!Decide(s)
  <2>1. waiting' = [waiting EXCEPT ![s] = Line!Without(@, i)]
    BY <1>2, <1>6, LineUnlink
  <2>2. Line!Take(s, key)
    BY <1>3, <1>6, <2>1 DEF Line!Take
  <2> QED
    BY <1>2, <2>2 DEF Line!Decide
<1> QED
  BY <1>1, <1>4, <1>5, <1>6 DEF search

(* Every step of the array is a step of the line or stutters.              *)
LEMMA LineNext ==
  ASSUME IInv, TypeOK', [Next]_vars
  PROVE  [Line!Next]_(Line!vars)
<1> USE DEF IInv
<1>1. CASE UNCHANGED vars
  BY <1>1, LineStutter DEF vars, trigVars, isrVars
<1>2. ASSUME NEW r \in Result, write_array(r) PROVE UNCHANGED Line!vars
  BY <1>2, LineWrite
<1>3. CASE link
  BY <1>3, LineAccept, StationsAgree DEF Line!Next
<1>4. CASE set_owner \/ reset_count \/ reset_reply \/ load_count \/ store_count
  BY <1>4, LineStutter DEF set_owner, reset_count, reset_reply, load_count, store_count, trigVars, isrVars
<1>5. ASSUME NEW s \in Station, clear_array(s) PROVE Line!Next
  BY <1>5, LineClear, StationsAgree DEF Line!Next
<1>6. ASSUME NEW s \in Station, post(s) \/ pend(s) \/ deref(s) \/ buf_factory_recycle(s)
      PROVE  UNCHANGED Line!vars
  BY <1>6, LineStutter DEF post, pend, deref, buf_factory_recycle, trigVars, isrVars
<1>10. ASSUME NEW s \in Station, NEW c \in Code, latch(s, c) PROVE Line!Next
  BY <1>10, LineArrive, StationsAgree DEF Line!Next
<1>7. ASSUME NEW s \in Station, write_fifo(s) PROVE Line!Next
  BY <1>7, LineEmit, StationsAgree DEF Line!Next
<1>8. ASSUME NEW s \in Station, Deciding(s) PROVE [Line!Next]_(Line!vars)
  BY <1>8, LineDecide, StationsAgree DEF Line!Next
<1>9. CASE Next
  BY <1>2, <1>3, <1>4, <1>5, <1>6, <1>7, <1>8, <1>9, <1>10, NextSteps DEF Station
<1> QED
  BY <1>1, <1>9

(* Whatever buffers, mailboxes, interrupts and resets do, the array gives  *)
(* the machine what the reject line promises: each passage takes the       *)
(* oldest waiting result it hits, and writes one verdict that says whether *)
(* there was one (array.c:39-72).                                          *)
THEOREM Refinement == Spec => ImplementsRejectLine
<1>1. IInv /\ IInv' /\ [Next]_vars => [Line!Next]_(Line!vars)
  BY LineNext DEF IInv
<1> QED
  BY <1>1, LineInit, Invariance, PTL DEF Spec, Line!Spec, ImplementsRejectLine

----------------------------------------------------------------------------
(* Catching up, without fairness: what stands between a station and the    *)
(* verdicts it owes can only shrink, until the next sample passes.  The    *)
(* weights are the steps a passage in that place has before it.            *)
stage == [pend |-> 0, fifo |-> 1, recycle |-> 2, search |-> 3, deref |-> 4, store |-> 5, load |-> 6]
work(s) == stage[tpc[s]] + 7 * mbx[s] + (IF ipc[s] = "post" THEN 8 ELSE 0)

(* Every step of the station's interrupt thread and trig task brings the   *)
(* station nearer to its last verdict, unless it ends the process, and no  *)
(* step of any thread takes it back but the passage of another sample.     *)
NearerStep ==
  \A s \in Station :
    /\ post(s) \/ Trig(s) => work(s)' < work(s) \/ died' = "wild"
    /\ work(s)' > work(s) => \E c \in Code : latch(s, c)

(* No work is left exactly when every passage has its verdict; as long as  *)
(* some is left, a message is to be posted or taken, or the trig task is   *)
(* at work, which waits for nothing but a mutex.                           *)
WorkIsOwed ==
  \A s \in Station :
    /\ work(s) \in Nat
    /\ work(s) = 0 <=> Len(fifo[s]) = Len(passed[s])
    /\ work(s) > 0 => ipc[s] = "post" \/ mbx[s] > 0 \/ tpc[s] # "pend"

(* The stages, and the station's part of a state.                          *)
LEMMA WorkTerms ==
  ASSUME TypeOK, NEW s \in Station
  PROVE  /\ stage[tpc[s]] \in 0 .. 6 /\ (stage[tpc[s]] = 0 <=> tpc[s] = "pend")
         /\ mbx[s] \in Nat
<1>1. tpc[s] \in {"pend", "load", "store", "deref", "search", "recycle", "fifo"} /\ mbx[s] \in Nat
  BY DEF TypeOK
<1> QED
  BY <1>1 DEF stage

(* A step that leaves the station's three places alone.                    *)
LEMMA WorkSame ==
  ASSUME NEW s \in Station, tpc'[s] = tpc[s], mbx'[s] = mbx[s], ipc'[s] = ipc[s]
  PROVE  work(s)' = work(s)
BY DEF work

LEMMA WorkOwed == ASSUME IInv PROVE WorkIsOwed
<1> SUFFICES ASSUME NEW s \in Station
             PROVE  /\ work(s) \in Nat
                    /\ work(s) = 0 <=> Len(fifo[s]) = Len(passed[s])
                    /\ work(s) > 0 => ipc[s] = "post" \/ mbx[s] > 0 \/ tpc[s] # "pend"
  BY DEF WorkIsOwed
<1>1. /\ stage[tpc[s]] \in 0 .. 6 /\ (stage[tpc[s]] = 0 <=> tpc[s] = "pend")
      /\ mbx[s] \in Nat
  BY WorkTerms DEF IInv
<1>2. Len(fifo[s]) \in Nat /\ Len(passed[s]) \in Nat
  BY LenProperties DEF IInv, TypeOK
<1>3. PICK g \in 0 .. 6, a \in Nat, f \in Nat, p \in Nat :
        g = stage[tpc[s]] /\ a = mbx[s] /\ f = Len(fifo[s]) /\ p = Len(passed[s])
  BY <1>1, <1>2
<1>4. p = f + (IF tpc[s] = "pend" THEN 0 ELSE 1) + a + (IF ipc[s] = "post" THEN 1 ELSE 0)
  BY <1>3 DEF IInv, PassInv, VerdictPerPassage
<1>5. work(s) = g + 7 * a + (IF ipc[s] = "post" THEN 8 ELSE 0)
  BY <1>3 DEF work
<1>6. g = 0 <=> tpc[s] = "pend"
  BY <1>1, <1>3
<1>7. CASE ipc[s] = "post"
  <2>1. work(s) = g + 7 * a + 8 /\ p > f
    BY <1>4, <1>5, <1>7
  <2>2. work(s) \in Nat /\ work(s) # 0 /\ p # f
    BY <2>1
  <2> QED
    BY <1>3, <1>7, <2>2
<1>8. CASE ipc[s] # "post"
  <2>1. work(s) = g + 7 * a /\ p = f + a + (IF g = 0 THEN 0 ELSE 1)
    BY <1>4, <1>5, <1>6, <1>8
  <2>2. work(s) \in Nat /\ (work(s) = 0 <=> f = p) /\ (work(s) > 0 => a > 0 \/ g # 0)
    BY <2>1
  <2> QED
    BY <1>3, <1>6, <2>2
<1> QED
  BY <1>7, <1>8

(* The steps of a station's own two threads.                               *)
LEMMA WorkShrinks ==
  ASSUME IInv, NEW s \in Station, post(s) \/ Trig(s)
  PROVE  work(s)' < work(s) \/ (died' = "wild" /\ work(s)' = work(s))
<1> USE DEF IInv
<1>1. mbx[s] \in Nat /\ tpc \in [Station -> {"pend", "load", "store", "deref", "search", "recycle", "fifo"}]
      /\ mbx \in [Station -> Nat] /\ ipc \in [Station -> {"wait", "post"}]
  BY DEF TypeOK
<1>2. CASE post(s)
  <2>1. ipc[s] = "post" /\ ipc'[s] = "wait" /\ mbx'[s] = mbx[s] + 1 /\ tpc'[s] = tpc[s]
    BY <1>1, <1>2 DEF post, posted, trigVars
  <2>2. stage[tpc[s]] \in 0 .. 6
    BY WorkTerms
  <2> QED
    BY <1>1, <2>1, <2>2 DEF work
<1>3. CASE pend(s)
  <2>1. /\ tpc[s] = "pend" /\ tpc'[s] \in {"load", "deref"}
        /\ mbx'[s] = mbx[s] - 1 /\ ipc'[s] = ipc[s]
    BY <1>1, <1>3 DEF pend, isrVars
  <2> QED
    BY <1>1, <2>1 DEF work, stage
<1>4. ASSUME NEW x, NEW y, tpc[s] = x, tpc'[s] = y, stage[y] \in Int, stage[x] \in Int,
             stage[y] < stage[x], mbx'[s] = mbx[s], ipc'[s] = ipc[s]
      PROVE  work(s)' < work(s)
  BY <1>1, <1>4 DEF work
<1>5. CASE s = 1 /\ load_count
  <2>1. tpc[s] = "load" /\ tpc'[s] = "store" /\ mbx'[s] = mbx[s] /\ ipc'[s] = ipc[s]
    BY <1>1, <1>5 DEF load_count, isrVars
  <2> QED
    BY <1>4, <2>1 DEF stage
<1>6. CASE s = 1 /\ store_count
  <2>1. tpc[s] = "store" /\ tpc'[s] \in {"search", "deref"} /\ mbx'[s] = mbx[s] /\ ipc'[s] = ipc[s]
    BY <1>1, <1>6 DEF store_count, isrVars
  <2> QED
    BY <1>4, <2>1 DEF stage
<1>7. CASE deref(s)
  <2>1. tpc[s] = "deref" /\ tpc'[s] = "search" /\ mbx'[s] = mbx[s] /\ ipc'[s] = ipc[s]
    BY <1>1, <1>7 DEF deref, isrVars
  <2> QED
    BY <1>4, <2>1 DEF stage
<1>8. CASE write_fifo(s)
  <2>1. tpc[s] = "fifo" /\ tpc'[s] = "pend" /\ mbx'[s] = mbx[s] /\ ipc'[s] = ipc[s]
    BY <1>1, <1>8 DEF write_fifo, isrVars
  <2> QED
    BY <1>4, <2>1 DEF stage
<1>10. CASE buf_factory_recycle(s)
  <2>1. tpc[s] = "recycle" /\ tpc'[s] = "fifo" /\ mbx'[s] = mbx[s] /\ ipc'[s] = ipc[s]
    BY <1>1, <1>10 DEF buf_factory_recycle, isrVars
  <2> QED
    BY <1>4, <2>1 DEF stage
<1>9. CASE Deciding(s)
  <2>1. PICK key \in keys(s) : tpc[s] = "search" /\ search(s, key)
    BY <1>9 DEF Deciding
  <2>2. mbx' = mbx /\ ipc' = ipc
    BY <2>1 DEF search, isrVars
  <2>3. \/ \E p \in {"recycle", "fifo"} : tpc' = [tpc EXCEPT ![s] = p]
        \/ died' = "wild" /\ tpc' = tpc
    BY <2>1 DEF search
  <2>4. CASE \E p \in {"recycle", "fifo"} : tpc' = [tpc EXCEPT ![s] = p]
    <3>1. tpc[s] = "search" /\ tpc'[s] \in {"recycle", "fifo"} /\ mbx'[s] = mbx[s] /\ ipc'[s] = ipc[s]
      BY <1>1, <2>1, <2>2, <2>4
    <3> QED
      BY <1>4, <3>1 DEF stage
  <2>5. CASE died' = "wild" /\ tpc' = tpc
    BY <2>2, <2>5, WorkSame
  <2> QED
    BY <2>3, <2>4, <2>5
<1> QED
  BY <1>2, <1>3, <1>5, <1>6, <1>7, <1>8, <1>9, <1>10 DEF Trig, Deciding

(* The steps of local_recv_tsk and of the other station.                   *)
LEMMA WorkKept ==
  ASSUME IInv, Next, NEW s \in Station,
         ~(post(s) \/ Trig(s)), \A c \in Code : ~latch(s, c)
  PROVE  work(s)' = work(s)
<1>1. /\ tpc \in [Station -> {"pend", "load", "store", "deref", "search", "recycle", "fifo"}]
      /\ mbx \in [Station -> Nat] /\ ipc \in [Station -> {"wait", "post"}]
  BY DEF IInv, TypeOK
<1>2. ASSUME NEW r \in Result, write_array(r) PROVE UNCHANGED <<tpc, mbx, ipc>>
  BY <1>2 DEF write_array, isrVars, trigVars
<1>3. CASE reset_count \/ Recv
  <2>1. UNCHANGED <<tpc, mbx, ipc>>
    BY <1>3 DEF reset_count, Recv, link, set_owner, clear_array, reset_reply, isrVars, trigVars
  <2> QED
    BY <2>1, WorkSame
<1>4. ASSUME NEW u \in Station, (\E c \in Code : latch(u, c)) \/ post(u) \/ Trig(u)
      PROVE  tpc'[s] = tpc[s] /\ mbx'[s] = mbx[s] /\ ipc'[s] = ipc[s]
  <2>1. u # s
    BY <1>4
  <2>2. ASSUME NEW c \in Code, latch(u, c) PROVE tpc'[s] = tpc[s] /\ mbx'[s] = mbx[s] /\ ipc'[s] = ipc[s]
    BY <1>1, <2>1, <2>2 DEF latch, trigVars
  <2>3. CASE post(u)
    BY <1>1, <2>1, <2>3 DEF post, trigVars
  <2>4. CASE pend(u) \/ deref(u) \/ buf_factory_recycle(u) \/ write_fifo(u)
    BY <1>1, <2>1, <2>4 DEF pend, deref, buf_factory_recycle, write_fifo, isrVars
  <2>5. CASE u = 1 /\ (load_count \/ store_count)
    BY <1>1, <2>1, <2>5 DEF load_count, store_count, isrVars
  <2>6. CASE Deciding(u)
    BY <1>1, <2>1, <2>6 DEF Deciding, search, isrVars
  <2> QED
    BY <1>4, <2>2, <2>3, <2>4, <2>5, <2>6 DEF Trig, Deciding
<1> QED
  BY <1>2, <1>3, <1>4, WorkSame DEF Next

(* A station that owes verdicts comes nearer to the last of them with      *)
(* every step of its own, and nothing but another passage undoes that:     *)
(* resets, results and the other station do not (array.c:228-268,          *)
(* isr.c:79-92).                                                           *)
THEOREM CatchesUp == Spec => []WorkIsOwed /\ [][NearerStep]_vars
<1>1. IInv => WorkIsOwed
  BY WorkOwed
<1>2. IInv' => WorkIsOwed'
  BY <1>1, PTL
<1>3. IInv /\ IInv' /\ [Next]_vars => [NearerStep]_vars
  <2> SUFFICES ASSUME IInv, IInv', Next, NEW s \in Station
               PROVE  /\ post(s) \/ Trig(s) => work(s)' < work(s) \/ died' = "wild"
                      /\ work(s)' > work(s) => \E c \in Code : latch(s, c)
    BY DEF NearerStep
  <2>1. work(s) \in Nat
    BY WorkOwed DEF WorkIsOwed
  <2>2. work(s)' \in Nat
    BY <1>2 DEF WorkIsOwed
  <2>3. CASE post(s) \/ Trig(s)
    <3> PICK v, w : v = work(s)' /\ w = work(s)
      OBVIOUS
    <3>1. w \in Nat /\ (v < w \/ (died' = "wild" /\ v = w))
      BY <2>1, <2>3, WorkShrinks
    <3>2. v \in Nat
      BY <2>2
    <3> QED
      BY <3>1, <3>2
  <2>4. CASE ~(post(s) \/ Trig(s))
    BY <2>1, <2>4, WorkKept
  <2> QED
    BY <2>3, <2>4
<1> QED
  BY <1>1, <1>3, Invariance, PTL DEF Spec
============================================================================
