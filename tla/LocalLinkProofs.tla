-------------------------- MODULE LocalLinkProofs --------------------------
(***************************************************************************)
(* Proofs about LocalLink, for any commands, any lengths of commands and   *)
(* messages, and any number of connections.                                *)
(*                                                                         *)
(* Three parts, each using those before it.  Baton says which of the two   *)
(* threads holds the descriptor at every pair of program points.  Words    *)
(* and Reading say what the unread part of the stream looks like and where *)
(* in it the receiver is.  Writing relates the sender to the end of the    *)
(* stream it writes.                                                       *)
(***************************************************************************)
EXTENDS LocalLink, SequenceTheorems, TLAPS

Connected == connect_fd # 0 /\ sock[connect_fd] = "connected"

Baton ==
  /\ connect_fd \in {0, opened}
  /\ rpc # "wait" => cpc = "poll" /\ connect_status = 1 /\ gsem_link = 0
  /\ rpc = "down" => connect_fd # 0 /\ sock[connect_fd] = "closed"
  /\ cpc = "poll" /\ connect_status = 0 => gsem_link = 0 /\ (connect_fd # 0 => sock[connect_fd] = "closed")
  /\ cpc = "poll" /\ connect_status = 1 /\ rpc = "wait" => gsem_link = 1 /\ Connected
  /\ cpc \in {"connect", "status"} => connect_status = 0 /\ gsem_link = 0
  /\ cpc = "connect" /\ connect_fd # 0 => sock[connect_fd] = "new"
  /\ cpc = "status" => Connected
  /\ cpc = "post" => connect_status = 1 /\ gsem_link = 0 /\ Connected

ConnType ==
  /\ connect_fd \in 0 .. MAX_CONN /\ connect_status \in {0, 1} /\ gsem_link \in {0, 1}
  /\ opened \in 0 .. MAX_CONN /\ sock \in [Conn -> {"none", "new", "connected", "closed"}]
  /\ cpc \in {"poll", "connect", "status", "post"}
  /\ rpc \in {"wait", "header", "param", "analyze", "close", "down"}

ConnInv == ConnType /\ SessionOwned /\ NoLeak /\ Baton

----------------------------------------------------------------------------
(* Nobody but the two threads touches the connection.                      *)
LEMMA OtherConnInv ==
  ASSUME ConnInv, UNCHANGED connVars,
         rpc' = rpc \/ (rpc \in {"header", "param", "analyze"} /\ rpc' \in {"header", "param", "analyze", "close"})
  PROVE  ConnInv'
BY DEF ConnInv, ConnType, SessionOwned, NoLeak, Baton, Connected, connVars

(* Making a connection: no one else holds the descriptor.                  *)
LEMMA ConnectConnInv ==
  ASSUME ConnInv, Connect \/ accepted
  PROVE  ConnInv'
<1> USE LinkAssumption DEF ConnInv, ConnType, Baton, Connected, recvVars, Conn
<1>1. CASE make_socket
  <2>1. /\ rpc = "wait" /\ rpc' = "wait" /\ cpc' = "connect" /\ connect_status' = 0 /\ gsem_link' = 0
        /\ opened + 1 \in Conn /\ opened' = opened + 1
        /\ \A c \in 1 .. opened : sock[c] = "closed" /\ sock'[c] = "closed"
    BY <1>1 DEF make_socket, disconnected, NoLeak
  <2>2. CASE connect_fd' = opened + 1 /\ sock' = [sock EXCEPT ![opened + 1] = "new"]
    BY <2>1, <2>2 DEF SessionOwned, NoLeak
  <2>3. CASE connect_fd' = 0 /\ sock' = [sock EXCEPT ![opened + 1] = "closed"]
    BY <2>1, <2>3 DEF SessionOwned, NoLeak
  <2> QED
    BY <1>1, <2>2, <2>3 DEF make_socket
<1>2. CASE accepted
  BY <1>2 DEF accepted, SessionOwned, NoLeak
<1>3. CASE raise_status
  BY <1>3 DEF raise_status, SessionOwned, NoLeak
<1>4. CASE post_link
  BY <1>4 DEF post_link, posted, SessionOwned, NoLeak
<1> QED
  BY <1>1, <1>2, <1>3, <1>4 DEF Connect

(* Taking it over, closing it and giving it back.                          *)
LEMMA RecvConnInv ==
  ASSUME ConnInv, wait_link \/ close_link \/ lower_status
  PROVE  ConnInv'
<1> USE DEF ConnInv, ConnType, Baton, Connected
<1>1. CASE wait_link
  BY <1>1 DEF wait_link, SessionOwned, NoLeak
<1>2. CASE close_link
  BY <1>2 DEF close_link, hung_up, SessionOwned, NoLeak, Conn
<1>3. CASE lower_status
  BY <1>3 DEF lower_status, lowered, SessionOwned, NoLeak
<1> QED
  BY <1>1, <1>2, <1>3

LEMMA NextConnInv ==
  ASSUME ConnInv, [Next]_vars
  PROVE  ConnInv'
<1>1. CASE (\E c \in Cmd : host_send(c)) \/ host_close \/ (\E n \in Items : pend(n)) \/ write \/ UNCHANGED vars
  BY <1>1, OtherConnInv DEF host_send, host_close, pend, write, vars, recvVars
<1>2. CASE Connect \/ accepted
  BY <1>2, ConnectConnInv
<1>3. CASE wait_link \/ close_link \/ lower_status
  BY <1>3, RecvConnInv
<1>4. ASSUME NEW n \in 1 .. Len(rx), read_header(n) \/ read_param(n) PROVE ConnInv'
  BY <1>4, OtherConnInv DEF read_header, read_param
<1>5. CASE local_cmd_analyze \/ read_fails
  BY <1>5, OtherConnInv DEF local_cmd_analyze, read_fails
<1> QED
  BY <1>1, <1>2, <1>3, <1>4, <1>5 DEF Next, Recv

LEMMA InitConnInv == Init => ConnInv
BY LinkAssumption DEF Init, ConnInv, ConnType, SessionOwned, NoLeak, Baton, Connected, Conn
----------------------------------------------------------------------------
(* The stream the receiver reads.                                          *)
ReadType ==
  /\ peer \in {"open", "closed"} /\ sent \in Seq(Cmd) /\ rx \in Seq(Nat \X Nat)
  /\ nhas_recv \in Nat /\ length \in Nat /\ cmdword \in Cmd \cup {None}
  /\ param \in Seq(Nat \X Nat) /\ short \in BOOLEAN
  /\ executed \in Seq([cmdword : Cmd \cup {None}, param : Seq(Nat \X Nat), short : BOOLEAN])

(* The words of the k-th command.                                          *)
Size(k) == 2 + Params[sent[k]]

(* A stream of commands, of which the i-th word is the b[i]-th of command  *)
(* a[i]: a word is followed by the rest of its command and that by the     *)
(* next command or, after command K, by nothing.                           *)
Stream(a, b, size, N, K) ==
  \A i \in 1 .. N :
    /\ a[i] \in 1 .. K /\ b[i] \in 1 .. size[a[i]]
    /\ \A j \in 1 .. size[a[i]] - b[i] : i + j \in 1 .. N /\ a[i + j] = a[i] /\ b[i + j] = b[i] + j
    /\ LET j == i + size[a[i]] - b[i] + 1
       IN  IF j \in 1 .. N THEN a[j] = a[i] + 1 /\ b[j] = 1 ELSE a[i] = K

first == [i \in DOMAIN rx |-> rx[i][1]]
second == [i \in DOMAIN rx |-> rx[i][2]]
sizes == [k \in DOMAIN sent |-> Size(k)]
Words == Stream(first, second, sizes, Len(rx), Len(sent))

(* The next word to be read is the w-th of the k-th command.               *)
Expect(k, w) == IF rx = <<>> THEN k = Len(sent) + 1 /\ w = 1 ELSE rx[1] = <<k, w>>

current == Len(executed) + 1
Parameters(k, n) == [i \in 1 .. n |-> <<k, i + 2>>]

Reading ==
  /\ rpc = "wait" /\ Connected => executed = <<>> /\ Expect(1, 1)
  /\ rpc = "header" =>
       \/ nhas_recv = 0 /\ Expect(current, 1)
       \/ /\ nhas_recv = 1 /\ param = <<>>
          /\ current \in DOMAIN sent /\ Expect(current, 2) /\ length = Params[sent[current]]
  /\ rpc \in {"param", "analyze"} =>
       /\ current \in DOMAIN sent /\ length = Params[sent[current]]
       /\ short \/ cmdword = sent[current]
  /\ rpc = "param" =>
       /\ nhas_recv < length /\ Expect(current, nhas_recv + 3)
       /\ param = Parameters(current, nhas_recv)
  /\ rpc = "analyze" => Expect(current + 1, 1) /\ param = Parameters(current, length)

ReadInv == ReadType /\ Words /\ Reading /\ CommandAsSent

----------------------------------------------------------------------------
(* Reading n words takes them off the front of the stream.                 *)
LEMMA RxWithout ==
  ASSUME ReadType, NEW n \in 1 .. Len(rx), rx' = SubSeq(rx, n + 1, Len(rx))
  PROVE  /\ rx' \in Seq(Nat \X Nat)
         /\ DOMAIN rx = 1 .. Len(rx) /\ Len(rx) \in Nat
         /\ DOMAIN rx' = 1 .. Len(rx) - n
         /\ \A i \in DOMAIN rx' : rx'[i] = rx[i + n]
         /\ rx' = <<>> <=> n = Len(rx)
         /\ rx # <<>>
<1>1. PICK N \in Nat : N = Len(rx) /\ DOMAIN rx = 1 .. N /\ rx \in Seq(Nat \X Nat)
  BY LenProperties DEF ReadType
<1>2. \A i \in n + 1 .. N : rx[i] \in Nat \X Nat
  BY <1>1, ElementOfSeq
<1>3. PICK m : m = rx' /\ m = SubSeq(rx, n + 1, N)
  BY <1>1
<1>4. n \in 1 .. N /\ n + 1 \in Int
  BY <1>1
<1>5. /\ m \in Seq(Nat \X Nat)
      /\ Len(m) = IF n + 1 <= N THEN N - (n + 1) + 1 ELSE 0
      /\ \A i \in 1 .. N - (n + 1) + 1 : m[i] = rx[(n + 1) + i - 1]
  BY <1>2, <1>3, <1>4, SubSeqProperties
<1>6. Len(m) = N - n /\ \A i \in 1 .. N - n : m[i] = rx[i + n]
  <2>1. /\ N - (n + 1) + 1 = N - n
        /\ n + 1 <= N \/ N - n = 0
        /\ \A i \in 1 .. N - n : (n + 1) + i - 1 = i + n
    BY <1>4
  <2> QED
    BY <1>5, <2>1, Zenon
<1>7. DOMAIN m = 1 .. N - n
  BY <1>5, <1>6, LenProperties
<1>8. m = <<>> <=> n = N
  <2>1. m = <<>> <=> Len(m) = 0
    BY <1>5, EmptySeq
  <2> QED
    BY <1>4, <1>6, <2>1
<1>9. rx # <<>>
  <2>1. Len(<<>>) = 0
    BY EmptySeq
  <2>2. Len(rx) # 0
    BY <1>1, <1>4
  <2> QED
    BY <2>1, <2>2, Zenon
<1> QED
  BY <1>1, <1>3, <1>5, <1>6, <1>7, <1>8, <1>9

(* The sizes of the commands that were sent.                               *)
LEMMA SizeNat ==
  ASSUME ReadType, NEW k \in DOMAIN sent
  PROVE  /\ k \in Nat \ {0} /\ k <= Len(sent) /\ Len(sent) \in Nat
         /\ sent[k] \in Cmd /\ Params[sent[k]] \in Nat /\ Size(k) \in Nat \ {0, 1}
<1>1. k \in 1 .. Len(sent) /\ Len(sent) \in Nat
  BY LenProperties DEF ReadType
<1>2. sent[k] \in Cmd
  BY <1>1, ElementOfSeq DEF ReadType
<1>3. Params[sent[k]] \in Nat
  BY <1>2, LinkAssumption
<1> QED
  BY <1>1, <1>2, <1>3 DEF Size

(* What is left of a stream is a stream.                                   *)
LEMMA StreamShortened ==
  ASSUME NEW N \in Nat, NEW K \in Nat, NEW n \in 1 .. N, NEW a, NEW b, NEW size, NEW a2, NEW b2, NEW size2,
         Stream(a, b, size, N, K),
         \A k \in 1 .. K : size[k] \in Nat /\ size2[k] = size[k],
         \A i \in 1 .. N - n : a2[i] = a[i + n] /\ b2[i] = b[i + n]
  PROVE  Stream(a2, b2, size2, N - n, K)
<1> SUFFICES ASSUME NEW i \in 1 .. N - n
             PROVE  /\ a2[i] \in 1 .. K /\ b2[i] \in 1 .. size2[a2[i]]
                    /\ \A j \in 1 .. size2[a2[i]] - b2[i] :
                         i + j \in 1 .. N - n /\ a2[i + j] = a2[i] /\ b2[i + j] = b2[i] + j
                    /\ LET j == i + size2[a2[i]] - b2[i] + 1
                       IN  IF j \in 1 .. N - n THEN a2[j] = a2[i] + 1 /\ b2[j] = 1 ELSE a2[i] = K
  BY DEF Stream
<1>1. PICK k, w, S : k = a[i + n] /\ w = b[i + n] /\ S = size[k]
  OBVIOUS
<1>2. /\ k \in 1 .. K /\ w \in 1 .. S
      /\ \A j \in 1 .. S - w : i + n + j \in 1 .. N /\ a[i + n + j] = k /\ b[i + n + j] = w + j
      /\ LET j == i + n + S - w + 1 IN IF j \in 1 .. N THEN a[j] = k + 1 /\ b[j] = 1 ELSE k = K
  <2>1. i + n \in 1 .. N
    OBVIOUS
  <2> QED
    BY <1>1, <2>1 DEF Stream
<1>3. S \in Nat /\ a2[i] = k /\ b2[i] = w /\ size2[k] = S
  BY <1>1, <1>2
<1>4. \A j \in 1 .. S - w : i + j \in 1 .. N - n /\ a2[i + j] = k /\ b2[i + j] = w + j
  <2> SUFFICES ASSUME NEW j \in 1 .. S - w PROVE i + j \in 1 .. N - n /\ a2[i + j] = k /\ b2[i + j] = w + j
    OBVIOUS
  <2>1. i + n + j \in 1 .. N /\ a[i + n + j] = k /\ b[i + n + j] = w + j /\ i + n + j = (i + j) + n
    BY <1>2, <1>3
  <2>2. i + j \in 1 .. N - n
    BY <1>2, <1>3, <2>1
  <2> QED
    BY <2>1, <2>2
<1>5. PICK j : j = i + S - w + 1 /\ j \in Nat \ {0} /\ j + n = i + n + S - w + 1
  BY <1>2, <1>3
<1>6. IF j \in 1 .. N - n THEN a2[j] = k + 1 /\ b2[j] = 1 ELSE k = K
  <2>1. j \in 1 .. N - n <=> j + n \in 1 .. N
    BY <1>5
  <2>2. IF j + n \in 1 .. N THEN a[j + n] = k + 1 /\ b[j + n] = 1 ELSE k = K
    BY <1>2, <1>5
  <2> QED
    BY <2>1, <2>2
<1> QED
  BY <1>2, <1>3, <1>4, <1>5, <1>6

LEMMA WordsKept ==
  ASSUME ReadType, Words, NEW n \in 1 .. Len(rx), rx' = SubSeq(rx, n + 1, Len(rx)), sent' = sent
  PROVE  Words'
<1>1. PICK N \in Nat, K \in Nat :
        /\ n \in 1 .. N /\ N = Len(rx) /\ DOMAIN rx' = 1 .. N - n /\ DOMAIN rx = 1 .. N
        /\ K = Len(sent) /\ DOMAIN sent = 1 .. K
        /\ \A i \in DOMAIN rx' : rx'[i] = rx[i + n]
        /\ rx' \in Seq(Nat \X Nat)
  BY RxWithout, LenProperties DEF ReadType
<1>2. Len(rx') = N - n
  <2>1. Len(rx') \in Nat /\ DOMAIN rx' = 1 .. Len(rx')
    BY <1>1, LenProperties
  <2> QED
    BY <1>1, <2>1
<1>3. Stream(first, second, sizes, N, K)
  BY <1>1 DEF Words
<1>4. \A k \in 1 .. K : sizes[k] \in Nat /\ sizes'[k] = sizes[k]
  BY <1>1, SizeNat DEF sizes, Size
<1>5. \A i \in 1 .. N - n : first'[i] = first[i + n] /\ second'[i] = second[i + n]
  <2>1. \A i \in 1 .. N - n : i \in DOMAIN rx' /\ i + n \in DOMAIN rx /\ rx'[i] = rx[i + n]
    BY <1>1
  <2> QED
    BY <2>1 DEF first, second
<1>6. Stream(first', second', sizes', N - n, K)
  BY <1>1, <1>3, <1>4, <1>5, StreamShortened
<1> QED
  BY <1>1, <1>2, <1>6 DEF Words

LEMMA PairParts ==
  ASSUME NEW x, NEW y, NEW v, v = <<x, y>>
  PROVE  v[1] = x /\ v[2] = y
OBVIOUS

(* A word is its command and its place in it.                              *)
LEMMA Pairs ==
  ASSUME ReadType
  PROVE  \A i \in DOMAIN rx : rx[i] = <<first[i], second[i]>>
<1>1. \A i \in DOMAIN rx : rx[i] \in Nat \X Nat
  BY LenProperties, ElementOfSeq DEF ReadType
<1> QED
  BY <1>1 DEF first, second

(* Words read from the one expected are words of the command in their      *)
(* order, and the next one expected is where they end.                     *)
LEMMA WordsTaken ==
  ASSUME ReadType, Words, NEW k \in Nat, NEW w \in Nat, Expect(k, w),
         NEW n \in 1 .. Len(rx), n <= Size(k) - w + 1,
         rx' = SubSeq(rx, n + 1, Len(rx)), sent' = sent
  PROVE  /\ k \in DOMAIN sent /\ w \in 1 .. Size(k) /\ Size(k) \in Nat
         /\ \A i \in 1 .. n : rx[i] = <<k, w + i - 1>>
         /\ n = Size(k) - w + 1 => Expect(k + 1, 1)'
         /\ n # Size(k) - w + 1 => Expect(k, w + n)'
<1>1. PICK N \in Nat :
        /\ n \in 1 .. N
        /\ DOMAIN rx = 1 .. N /\ rx # <<>> /\ DOMAIN rx' = 1 .. N - n
        /\ \A i \in 1 .. N - n : rx'[i] = rx[i + n]
        /\ rx' = <<>> <=> n = N
  BY RxWithout
<1>2. rx # <<>> /\ 1 \in DOMAIN rx
  BY <1>1
<1>3. rx[1] = <<k, w>>
  BY <1>2 DEF Expect
<1>4. \A i \in 1 .. N : rx[i] = <<first[i], second[i]>>
  BY <1>1, Pairs
<1>5. PICK K \in Nat : K = Len(sent) /\ DOMAIN sent = 1 .. K
  BY LenProperties DEF ReadType
<1>6. first[1] = k /\ second[1] = w /\ 1 \in 1 .. N
  BY <1>1, <1>2, <1>3 DEF first, second
<1>7. k \in 1 .. K /\ w \in 1 .. sizes[k]
      /\ (\A j \in 1 .. sizes[k] - w : 1 + j \in 1 .. N /\ first[1 + j] = k /\ second[1 + j] = w + j)
      /\ LET j == 1 + sizes[k] - w + 1
         IN  IF j \in 1 .. N THEN first[j] = k + 1 /\ second[j] = 1 ELSE k = K
  <2>1. Stream(first, second, sizes, N, K)
    BY <1>1, <1>5 DEF Words
  <2>2. first[1] \in 1 .. K /\ second[1] \in 1 .. sizes[first[1]]
        /\ (\A j \in 1 .. sizes[first[1]] - second[1] :
              1 + j \in 1 .. N /\ first[1 + j] = first[1] /\ second[1 + j] = second[1] + j)
        /\ LET j == 1 + sizes[first[1]] - second[1] + 1
           IN  IF j \in 1 .. N THEN first[j] = first[1] + 1 /\ second[j] = 1 ELSE first[1] = K
    BY <1>6, <2>1, Zenon DEF Stream
  <2> QED
    BY <1>6, <2>2, Zenon
<1>8. PICK S \in Nat : S = Size(k) /\ S = sizes[k] /\ n <= S - w + 1
  BY <1>5, <1>7, SizeNat DEF sizes
<1>9. \A j \in 1 .. S - w : 1 + j \in 1 .. N /\ rx[1 + j] = <<k, w + j>>
  BY <1>4, <1>7, <1>8
<1>10. LET j == 1 + S - w + 1 IN IF j \in 1 .. N THEN rx[j] = <<k + 1, 1>> ELSE k = K
  BY <1>4, <1>7, <1>8
<1>11. w \in 1 .. S
  BY <1>7, <1>8
<1>12. \A i \in 1 .. n : rx[i] = <<k, w + i - 1>>
  <2> SUFFICES ASSUME NEW i \in 1 .. n PROVE rx[i] = <<k, w + i - 1>>
    OBVIOUS
  <2>1. CASE i = 1
    BY <1>3, <2>1
  <2>2. CASE i # 1
    <3>1. PICK j \in 1 .. S - w : i = 1 + j
      BY <1>8, <1>11, <2>2
    <3>2. rx[1 + j] = <<k, w + j>> /\ w + j = w + i - 1
      BY <1>9, <3>1
    <3> QED
      BY <3>1, <3>2
  <2> QED
    BY <2>1, <2>2
<1>13. ASSUME n = S - w + 1 PROVE Expect(k + 1, 1)'
  <2>1. n + 1 = 1 + S - w + 1
    BY <1>8, <1>13
  <2>2. IF n + 1 \in 1 .. N THEN rx[n + 1] = <<k + 1, 1>> ELSE k = K
    BY <1>10, <2>1
  <2>3. CASE n = N
    <3>1. rx' = <<>>
      BY <1>1, <2>3
    <3>2. k = Len(sent')
      BY <1>5, <2>2, <2>3
    <3> QED
      BY <3>1, <3>2 DEF Expect
  <2>4. CASE n # N
    <3>1. n + 1 \in 1 .. N /\ 1 \in 1 .. N - n /\ rx'[1] = rx[n + 1]
      BY <1>1, <2>4
    <3>2. rx' # <<>>
      BY <1>1, <2>4
    <3>3. rx'[1] = <<k + 1, 1>>
      BY <2>2, <3>1
    <3> QED
      BY <3>2, <3>3 DEF Expect
  <2> QED
    BY <2>3, <2>4
<1>14. ASSUME n # S - w + 1 PROVE Expect(k, w + n)'
  <2>1. n \in 1 .. S - w
    BY <1>1, <1>8, <1>11, <1>14
  <2>2. 1 + n \in 1 .. N /\ rx[1 + n] = <<k, w + n>>
    BY <1>9, <2>1
  <2>3. n # N /\ 1 \in 1 .. N - n
    BY <1>1, <2>2
  <2>4. rx' # <<>>
    BY <1>1, <2>3
  <2>5. rx'[1] = rx[1 + n]
    BY <1>1, <2>3
  <2> QED
    BY <2>2, <2>4, <2>5 DEF Expect
<1> QED
  BY <1>5, <1>7, <1>8, <1>11, <1>12, <1>13, <1>14

(* A command sent goes behind what waits.                                  *)
LEMMA SentWords ==
  ASSUME ReadType, NEW c \in Cmd, sent' = Append(sent, c), rx' = rx \o frame(Len(sent) + 1, c)
  PROVE  /\ sent' \in Seq(Cmd) /\ rx' \in Seq(Nat \X Nat)
         /\ Params[c] \in Nat
         /\ Len(sent) \in Nat /\ Len(sent') = Len(sent) + 1
         /\ DOMAIN sent = 1 .. Len(sent) /\ DOMAIN sent' = 1 .. Len(sent) + 1
         /\ sent'[Len(sent) + 1] = c /\ \A k \in DOMAIN sent : sent'[k] = sent[k]
         /\ Len(rx) \in Nat /\ DOMAIN rx = 1 .. Len(rx) /\ DOMAIN rx' = 1 .. Len(rx) + 2 + Params[c]
         /\ \A i \in 1 .. Len(rx) : rx'[i] = rx[i]
         /\ \A i \in 1 .. 2 + Params[c] : rx'[Len(rx) + i] = <<Len(sent) + 1, i>>
<1>1. Params[c] \in Nat
  BY LinkAssumption
<1>2. sent \in Seq(Cmd) /\ rx \in Seq(Nat \X Nat)
  BY DEF ReadType
<1>3. /\ sent' \in Seq(Cmd) /\ Len(sent') = Len(sent) + 1
      /\ sent'[Len(sent) + 1] = c /\ \A k \in 1 .. Len(sent) : sent'[k] = sent[k]
  BY <1>2, AppendProperties
<1> DEFINE f == frame(Len(sent) + 1, c)
<1>4. /\ f \in Seq(Nat \X Nat) /\ Len(f) = 2 + Params[c]
      /\ \A i \in 1 .. 2 + Params[c] : f[i] = <<Len(sent) + 1, i>>
  <2>1. Len(sent) \in Nat
    BY <1>2, LenProperties
  <2>2. DOMAIN f = 1 .. 2 + Params[c]
    BY DEF frame
  <2>3. \A i \in 1 .. 2 + Params[c] : f[i] = <<Len(sent) + 1, i>>
    BY DEF frame
  <2>4. f \in [1 .. 2 + Params[c] -> Nat \X Nat]
    BY <1>1, <2>1 DEF frame
  <2>5. f \in Seq(Nat \X Nat)
    <3>1. 2 + Params[c] \in Nat
      BY <1>1
    <3>2. \A S : \A m \in Nat : [1 .. m -> S] \subseteq Seq(S)
      BY SeqDef
    <3> HIDE DEF f
    <3> QED
      BY <2>4, <3>1, <3>2, Zenon
  <2>6. Len(f) = 2 + Params[c]
    <3>1. DOMAIN f = 1 .. Len(f) /\ Len(f) \in Nat
      BY <2>5, LenProperties
    <3> HIDE DEF f
    <3> QED
      BY <1>1, <2>2, <3>1
  <2> QED
    BY <2>3, <2>5, <2>6
<1> HIDE DEF f
<1>5. PICK g : g = rx' /\ g = rx \o f
  BY DEF f
<1>6. /\ rx' \in Seq(Nat \X Nat) /\ Len(rx') = Len(rx) + Len(f)
      /\ \A i \in 1 .. Len(rx) + Len(f) : rx'[i] = IF i <= Len(rx) THEN rx[i] ELSE f[i - Len(rx)]
  <2>1. /\ rx \o f \in Seq(Nat \X Nat) /\ Len(rx \o f) = Len(rx) + Len(f)
        /\ \A i \in 1 .. Len(rx) + Len(f) : (rx \o f)[i] = IF i <= Len(rx) THEN rx[i] ELSE f[i - Len(rx)]
    BY <1>2, <1>4, ConcatProperties, Zenon
  <2> QED
    BY <1>5, <2>1, Zenon
<1>7. Len(rx) \in Nat /\ DOMAIN rx = 1 .. Len(rx) /\ DOMAIN rx' = 1 .. Len(rx')
  BY <1>2, <1>6, LenProperties
<1>8. Len(sent) \in Nat /\ DOMAIN sent = 1 .. Len(sent) /\ DOMAIN sent' = 1 .. Len(sent')
  BY <1>2, <1>3, LenProperties
<1>9. \A i \in 1 .. Len(rx) : rx'[i] = rx[i]
  BY <1>1, <1>4, <1>6, <1>7
<1>10. \A i \in 1 .. 2 + Params[c] : rx'[Len(rx) + i] = <<Len(sent) + 1, i>>
  <2> SUFFICES ASSUME NEW i \in 1 .. 2 + Params[c] PROVE rx'[Len(rx) + i] = <<Len(sent) + 1, i>>
    OBVIOUS
  <2>1. Len(rx) + i \in 1 .. Len(rx) + Len(f) /\ ~(Len(rx) + i <= Len(rx)) /\ (Len(rx) + i) - Len(rx) = i
    <3>1. PICK R \in Nat, F \in Nat : R = Len(rx) /\ F = Len(f) /\ i \in 1 .. F
      <4>1. 2 + Params[c] \in Nat
        BY <1>1
      <4> QED
        BY <1>4, <1>7, <4>1, Zenon
    <3>2. R + i \in 1 .. R + F /\ ~(R + i <= R) /\ (R + i) - R = i
      BY <3>1
    <3> QED
      BY <3>1, <3>2, Zenon
  <2>2. rx'[Len(rx) + i] = f[i]
    BY <1>6, <2>1
  <2> QED
    BY <1>4, <2>2
<1>11. DOMAIN rx' = 1 .. Len(rx) + 2 + Params[c]
  <2>1. Len(rx) + Len(f) = Len(rx) + 2 + Params[c]
    BY <1>1, <1>4, <1>7
  <2> QED
    BY <1>6, <1>7, <2>1, Zenon
<1> QED
  BY <1>1, <1>3, <1>6, <1>7, <1>8, <1>9, <1>10, <1>11

(* A stream with one more command behind it is a stream.                   *)
LEMMA StreamExtended ==
  ASSUME NEW N \in Nat, NEW K \in Nat, NEW P \in Nat \ {0}, NEW a, NEW b, NEW size, NEW a2, NEW b2, NEW size2,
         Stream(a, b, size, N, K),
         \A k \in 1 .. K : size[k] \in Nat /\ size2[k] = size[k], size2[K + 1] = P,
         \A i \in 1 .. N : a2[i] = a[i] /\ b2[i] = b[i],
         \A i \in 1 .. P : a2[N + i] = K + 1 /\ b2[N + i] = i
  PROVE  Stream(a2, b2, size2, N + P, K + 1)
<1> SUFFICES ASSUME NEW i \in 1 .. N + P
             PROVE  /\ a2[i] \in 1 .. K + 1 /\ b2[i] \in 1 .. size2[a2[i]]
                    /\ \A j \in 1 .. size2[a2[i]] - b2[i] :
                         i + j \in 1 .. N + P /\ a2[i + j] = a2[i] /\ b2[i + j] = b2[i] + j
                    /\ LET j == i + size2[a2[i]] - b2[i] + 1
                       IN  IF j \in 1 .. N + P THEN a2[j] = a2[i] + 1 /\ b2[j] = 1 ELSE a2[i] = K + 1
  BY DEF Stream
<1>1. CASE i \in 1 .. N
  <2>1. PICK k, w, S : k = a[i] /\ w = b[i] /\ S = size[k]
    OBVIOUS
  <2>2. /\ k \in 1 .. K /\ w \in 1 .. S
        /\ \A j \in 1 .. S - w : i + j \in 1 .. N /\ a[i + j] = k /\ b[i + j] = w + j
        /\ LET j == i + S - w + 1 IN IF j \in 1 .. N THEN a[j] = k + 1 /\ b[j] = 1 ELSE k = K
    BY <1>1, <2>1 DEF Stream
  <2>3. S \in Nat /\ a2[i] = k /\ b2[i] = w /\ size2[k] = S
    BY <1>1, <2>1, <2>2
  <2>4. i + S - w \in 1 .. N
    <3>1. CASE w = S
      BY <1>1, <2>2, <2>3, <3>1
    <3>2. CASE w # S
      <4>1. S - w \in 1 .. S - w
        BY <2>2, <2>3, <3>2
      <4>2. i + (S - w) \in 1 .. N
        BY <2>2, <4>1
      <4> QED
        BY <2>2, <2>3, <4>2
    <3> QED
      BY <3>1, <3>2
  <2>5. \A j \in 1 .. S - w : i + j \in 1 .. N + P /\ a2[i + j] = k /\ b2[i + j] = w + j
    BY <2>2, <2>3
  <2>6. PICK j : j = i + S - w + 1 /\ j \in 1 .. N + 1
    BY <2>2, <2>3, <2>4
  <2>7. IF j \in 1 .. N + P THEN a2[j] = k + 1 /\ b2[j] = 1 ELSE k = K + 1
    <3>1. CASE j \in 1 .. N
      BY <2>2, <2>6, <3>1
    <3>2. CASE j = N + 1
      <4>1. k = K
        BY <2>2, <2>6, <3>2
      <4>2. a2[N + 1] = K + 1 /\ b2[N + 1] = 1
        OBVIOUS
      <4> QED
        BY <3>2, <4>1, <4>2
    <3> QED
      BY <2>6, <3>1, <3>2
  <2> QED
    BY <2>2, <2>3, <2>5, <2>6, <2>7
<1>2. CASE i \in N + 1 .. N + P
  <2>1. PICK w \in 1 .. P : i = N + w
    BY <1>2
  <2>2. a2[i] = K + 1 /\ b2[i] = w
    BY <2>1
  <2>3. \A j \in 1 .. P - w : i + j \in 1 .. N + P /\ a2[i + j] = K + 1 /\ b2[i + j] = w + j
    <3> SUFFICES ASSUME NEW j \in 1 .. P - w
                 PROVE  i + j \in 1 .. N + P /\ a2[i + j] = K + 1 /\ b2[i + j] = w + j
      OBVIOUS
    <3>1. w + j \in 1 .. P /\ i + j = N + (w + j)
      BY <2>1
    <3> QED
      BY <3>1
  <2>4. ~(i + P - w + 1 \in 1 .. N + P)
    BY <2>1
  <2> QED
    BY <2>2, <2>3, <2>4
<1> QED
  BY <1>1, <1>2

LEMMA WordsSent ==
  ASSUME ReadType, Words, NEW c \in Cmd, sent' = Append(sent, c), rx' = rx \o frame(Len(sent) + 1, c)
  PROVE  Words'
<1>1. PICK N \in Nat, K \in Nat : N = Len(rx) /\ K = Len(sent)
  BY SentWords
<1>2. PICK P \in Nat \ {0} : P = 2 + Params[c] /\ \A m \in Nat : m + P = m + 2 + Params[c]
  <2>1. PICK p \in Nat : p = Params[c]
    BY LinkAssumption
  <2>2. 2 + p \in Nat \ {0} /\ \A m \in Nat : m + (2 + p) = m + 2 + p
    OBVIOUS
  <2> QED
    BY <2>1, <2>2, Zenon
<1>3. /\ DOMAIN sent = 1 .. K /\ DOMAIN sent' = 1 .. K + 1
      /\ sent'[K + 1] = c /\ \A k \in 1 .. K : sent'[k] = sent[k]
  BY <1>1, SentWords
<1>4. /\ DOMAIN rx = 1 .. N
      /\ \A i \in 1 .. N : rx'[i] = rx[i]
  BY <1>1, SentWords
<1>5. DOMAIN rx' = 1 .. N + P
  <2>1. DOMAIN rx' = 1 .. Len(rx) + 2 + Params[c]
    BY SentWords
  <2> QED
    BY <1>1, <1>2, <2>1, Zenon
<1>6. \A i \in 1 .. P : rx'[N + i] = <<K + 1, i>>
  BY <1>1, <1>2, SentWords, Zenon
<1>7. sent' \in Seq(Cmd) /\ rx' \in Seq(Nat \X Nat)
  BY SentWords
<1>8. \A k \in 1 .. K : sizes[k] \in Nat /\ sizes'[k] = sizes[k]
  <2>1. \A k \in 1 .. K : Size(k) \in Nat
    BY <1>3, SizeNat
  <2> QED
    BY <1>3, <2>1 DEF sizes, Size
<1>9. Stream(first, second, sizes, N, K)
  BY <1>1 DEF Words
<1>10. Len(rx') = N + P /\ Len(sent') = K + 1
  <2>1. /\ Len(rx') \in Nat /\ DOMAIN rx' = 1 .. Len(rx')
        /\ Len(sent') \in Nat /\ DOMAIN sent' = 1 .. Len(sent')
    BY <1>7, LenProperties
  <2>2. \A m, l \in Nat : 1 .. m = 1 .. l => m = l
    OBVIOUS
  <2>3. N + P \in Nat /\ K + 1 \in Nat
    OBVIOUS
  <2> QED
    BY <1>3, <1>5, <2>1, <2>2, <2>3, Zenon
<1>11. sizes'[K + 1] = P
  <2>1. K + 1 \in DOMAIN sent'
    BY <1>3
  <2> QED
    BY <1>2, <1>3, <2>1, Zenon DEF sizes, Size
<1>12. \A i \in 1 .. N : first'[i] = first[i] /\ second'[i] = second[i]
  BY <1>4, <1>5 DEF first, second
<1>13. \A i \in 1 .. P : first'[N + i] = K + 1 /\ second'[N + i] = i
  <2>1. \A i \in 1 .. P : N + i \in DOMAIN rx'
    BY <1>5
  <2> SUFFICES ASSUME NEW i \in 1 .. P PROVE first'[N + i] = K + 1 /\ second'[N + i] = i
    OBVIOUS
  <2>2. PICK v : v = rx'[N + i]
    OBVIOUS
  <2>3. v = <<K + 1, i>>
    BY <1>6, <2>2, Zenon
  <2>4. v[1] = K + 1 /\ v[2] = i
    BY <2>3, PairParts
  <2> QED
    BY <2>1, <2>2, <2>4, Zenon DEF first, second
<1>14. Stream(first', second', sizes', N + P, K + 1)
  BY <1>8, <1>9, <1>11, <1>12, <1>13, StreamExtended
<1> QED
  BY <1>10, <1>14 DEF Words

(* And the next word expected is the same.                                 *)
LEMMA ExpectSent ==
  ASSUME ReadType, NEW c \in Cmd, sent' = Append(sent, c), rx' = rx \o frame(Len(sent) + 1, c),
         NEW k, NEW w, Expect(k, w)
  PROVE  Expect(k, w)'
<1>1. /\ Len(sent) \in Nat /\ Params[c] \in Nat
      /\ Len(rx) \in Nat /\ DOMAIN rx' = 1 .. Len(rx) + 2 + Params[c]
      /\ \A i \in 1 .. Len(rx) : rx'[i] = rx[i]
      /\ \A i \in 1 .. 2 + Params[c] : rx'[Len(rx) + i] = <<Len(sent) + 1, i>>
      /\ rx' \in Seq(Nat \X Nat) /\ rx \in Seq(Nat \X Nat)
  BY SentWords DEF ReadType
<1>2. rx' # <<>>
  <2>1. Len(rx') # 0
    <3>1. DOMAIN rx' = 1 .. Len(rx') /\ Len(rx') \in Nat
      BY <1>1, LenProperties
    <3>2. 1 \in DOMAIN rx'
      BY <1>1
    <3> QED
      BY <3>1, <3>2
  <2>2. Len(<<>>) = 0
    BY EmptySeq
  <2> QED
    BY <2>1, <2>2, Zenon
<1>3. CASE rx = <<>>
  <2>1. Len(rx) = 0
    BY <1>3, EmptySeq
  <2>2. 1 \in 1 .. 2 + Params[c]
    BY <1>1
  <2>3. rx'[Len(rx) + 1] = <<Len(sent) + 1, 1>> /\ Len(rx) + 1 = 1
    BY <1>1, <2>1, <2>2
  <2> QED
    BY <1>2, <1>3, <2>3 DEF Expect
<1>4. CASE rx # <<>>
  <2>1. Len(rx) # 0
    BY <1>1, <1>4, EmptySeq
  <2>2. 1 \in 1 .. Len(rx)
    BY <1>1, <2>1
  <2>3. rx'[1] = rx[1]
    BY <1>1, <2>2
  <2> QED
    BY <1>2, <1>4, <2>3 DEF Expect
<1> QED
  BY <1>3, <1>4
----------------------------------------------------------------------------
(* A step that leaves the stream and what was read of it alone.            *)
LEMMA StreamUntouched ==
  ASSUME ReadInv, peer' \in {"open", "closed"},
         UNCHANGED <<sent, rx, nhas_recv, length, cmdword, param, short, executed>>,
         rpc' \in {"header", "param", "analyze"} => rpc' = rpc,
         rpc' = "wait" /\ Connected' => rpc = "wait" /\ Connected
  PROVE  ReadInv'
<1>1. ReadType' /\ CommandAsSent'
  BY DEF ReadInv, ReadType, CommandAsSent
<1>2. Words'
  BY DEF ReadInv, Words, first, second, sizes, Size
<1>3. Reading'
  BY DEF ReadInv, Reading, Expect, current, Parameters
<1> QED
  BY <1>1, <1>2, <1>3 DEF ReadInv

LEMMA HostReadInv ==
  ASSUME ReadInv, NEW c \in Cmd, host_send(c)
  PROVE  ReadInv'
<1> USE DEF ReadInv
<1>1. /\ sent' = Append(sent, c) /\ rx' = rx \o frame(Len(sent) + 1, c)
      /\ UNCHANGED <<peer, rpc, nhas_recv, length, cmdword, param, short, executed, connect_fd, sock>>
  BY DEF host_send, recvVars, connVars
<1>2. Words'
  BY <1>1, WordsSent
<1>3. /\ \A k \in DOMAIN sent : k \in DOMAIN sent' /\ sent'[k] = sent[k]
      /\ sent' \in Seq(Cmd) /\ rx' \in Seq(Nat \X Nat)
  <2>1. /\ DOMAIN sent = 1 .. Len(sent) /\ DOMAIN sent' = 1 .. Len(sent) + 1 /\ Len(sent) \in Nat
        /\ \A k \in DOMAIN sent : sent'[k] = sent[k]
        /\ sent' \in Seq(Cmd) /\ rx' \in Seq(Nat \X Nat)
    BY <1>1, SentWords, Zenon
  <2>2. \A N \in Nat : 1 .. N \subseteq 1 .. N + 1
    OBVIOUS
  <2> QED
    BY <2>1, <2>2, Zenon
<1>4. ReadType'
  BY <1>1, <1>3 DEF ReadType
<1>5. \A k, w : Expect(k, w) => Expect(k, w)'
  BY <1>1, ExpectSent, Zenon
<1>6. Reading'
  <2>1. current' = current /\ Connected' = Connected
    BY <1>1 DEF current, Connected
  <2>2. \A n : Parameters(current, n)' = Parameters(current, n)
    BY <2>1 DEF Parameters
  <2> QED
    BY <1>1, <1>3, <1>5, <2>1, <2>2, Zenon DEF Reading
<1>7. CommandAsSent'
  BY <1>1, <1>3, Zenon DEF CommandAsSent
<1> QED
  BY <1>2, <1>4, <1>6, <1>7

(* A new connection: nothing sent and nothing executed.                    *)
LEMMA AcceptedReadInv ==
  ASSUME ConnInv, ReadInv, accepted
  PROVE  ReadInv'
<1>1. /\ peer' = "open" /\ sent' = <<>> /\ rx' = <<>> /\ executed' = <<>>
      /\ UNCHANGED <<rpc, nhas_recv, length, cmdword, param, short>>
  BY DEF accepted
<1>2. rpc' = "wait"
  BY DEF accepted, ConnInv, ConnType, Baton
<1>3. ReadType'
  BY <1>1 DEF ReadInv, ReadType
<1>4. Len(rx') = 0 /\ Len(sent') = 0 /\ DOMAIN executed' = {}
  BY <1>1, EmptySeq
<1>5. Words'
  BY <1>4 DEF Words, Stream
<1>6. Reading'
  BY <1>1, <1>2, <1>4 DEF Reading, Expect
<1>7. CommandAsSent'
  BY <1>4 DEF CommandAsSent
<1> QED
  BY <1>3, <1>5, <1>6, <1>7 DEF ReadInv

LEMMA WaitReadInv ==
  ASSUME ConnInv, ReadInv, wait_link
  PROVE  ReadInv'
<1>1. /\ rpc = "wait" /\ rpc' = "header" /\ nhas_recv' = 0
      /\ UNCHANGED <<peer, sent, rx, length, cmdword, param, short, executed>>
  BY DEF wait_link, hostVars
<1>2. Connected
  BY DEF wait_link, ConnInv, ConnType, Baton
<1>3. executed = <<>> /\ Expect(1, 1)
  BY <1>1, <1>2 DEF ReadInv, Reading
<1>4. current = 1
  BY <1>3, EmptySeq DEF current
<1>5. Expect(current, 1)'
  BY <1>1, <1>3, <1>4 DEF Expect, current
<1>6. ReadType' /\ CommandAsSent'
  BY <1>1 DEF ReadInv, ReadType, CommandAsSent
<1>7. Words'
  BY <1>1 DEF ReadInv, Words, first, second, sizes, Size
<1>8. Reading'
  BY <1>1, <1>5 DEF Reading
<1> QED
  BY <1>6, <1>7, <1>8 DEF ReadInv

(* The header of the command that is due, in one read or in two.           *)
LEMMA HeaderReadInv ==
  ASSUME ReadInv, NEW n \in 1 .. Len(rx), read_header(n)
  PROVE  ReadInv'
<1>1. /\ rpc = "header" /\ n <= 2 - nhas_recv
      /\ rx' = SubSeq(rx, n + 1, Len(rx)) /\ param' = <<>> /\ short' = (n = 1)
      /\ UNCHANGED <<peer, sent, executed>>
      /\ ReadType /\ Words
  BY DEF read_header, ReadInv
<1>2. PICK k \in Nat, h \in {0, 1} : k = current /\ h = nhas_recv
  BY <1>1, LenProperties DEF ReadInv, ReadType, Reading, current
<1>3. /\ Expect(k, h + 1)
      /\ h = 1 => length = Params[sent[k]]
  BY <1>1, <1>2 DEF ReadInv, Reading
<1>4. /\ 1 \in 1 .. Len(rx) /\ DOMAIN rx = 1 .. Len(rx) /\ rx # <<>>
      /\ DOMAIN sent = 1 .. Len(sent)
  BY <1>1, RxWithout, LenProperties DEF ReadType
<1>5. rx[1] = <<k, h + 1>>
  BY <1>3, <1>4 DEF Expect
<1>6. rx[1][1] = k
  BY <1>5, PairParts
<1>7. k \in DOMAIN sent
  <2>1. first[1] = k
    BY <1>4, <1>6 DEF first
  <2> QED
    BY <1>1, <1>4, <2>1 DEF Words, Stream
<1>8. PICK P \in Nat : P = Params[sent[k]] /\ Size(k) = 2 + P /\ sent[k] \in Cmd
  BY <1>1, <1>7, SizeNat DEF Size
<1>9. /\ n \in Nat \ {0} /\ n <= 2 - h
      /\ n = 2 + P - (h + 1) + 1 => Expect(k + 1, 1)'
      /\ n # 2 + P - (h + 1) + 1 => Expect(k, h + 1 + n)'
  <2>1. n <= Size(k) - (h + 1) + 1 /\ h + 1 \in Nat
    BY <1>1, <1>2, <1>8
  <2>2. /\ n = Size(k) - (h + 1) + 1 => Expect(k + 1, 1)'
        /\ n # Size(k) - (h + 1) + 1 => Expect(k, h + 1 + n)'
    BY <1>1, <1>3, <2>1, WordsTaken, Zenon
  <2>3. Size(k) - (h + 1) + 1 = 2 + P - (h + 1) + 1
    BY <1>8
  <2>4. n \in Nat \ {0} /\ n <= 2 - h
    BY <1>1, <1>2
  <2> QED
    BY <2>2, <2>3, <2>4, Zenon
<1>10. length' = P
  BY <1>2, <1>3, <1>6, <1>8 DEF read_header
<1>11. cmdword' \in Cmd \cup {None} /\ (n = 2 => cmdword' = sent[k])
  <2>1. cmdword \in Cmd \cup {None}
    BY <1>1 DEF ReadType
  <2>2. n = 2 => h = 0
    BY <1>9
  <2> QED
    BY <1>2, <1>6, <1>8, <2>1, <2>2 DEF read_header, stored
<1>12. current' = k /\ sent' = sent
  BY <1>1, <1>2 DEF current
<1>13. nhas_recv' \in {0, 1}
  BY <1>2, <1>9 DEF read_header
<1>14. ReadType'
  <2>1. rx' \in Seq(Nat \X Nat) /\ param' \in Seq(Nat \X Nat)
    BY <1>1, RxWithout, EmptySeq
  <2> QED
    BY <1>1, <1>10, <1>11, <1>13, <2>1 DEF ReadType
<1>15. Words'
  BY <1>1, WordsKept
<1>16. CommandAsSent'
  BY <1>1 DEF ReadInv, CommandAsSent
<1>17. k \in DOMAIN sent' /\ length' = Params[sent'[k]]
  BY <1>7, <1>8, <1>10, <1>12
<1>18. Reading'
  <2>1. CASE h + n < 2
    <3>1. rpc' = "header" /\ h = 0 /\ n = 1 /\ nhas_recv' = 1
      BY <1>1, <1>2, <1>9, <2>1 DEF read_header
    <3>2. Expect(k, 2)'
      BY <1>8, <1>9, <3>1
    <3> QED
      BY <1>1, <1>12, <1>17, <3>1, <3>2, Zenon DEF Reading
  <2>2. CASE ~(h + n < 2)
    <3>1. h + n = 2 /\ nhas_recv' = 0 /\ rpc' = IF P = 0 THEN "analyze" ELSE "param"
      BY <1>1, <1>2, <1>9, <1>10, <2>2 DEF read_header
    <3>2. short' \/ cmdword' = sent'[k]
      <4>1. n = 1 \/ n = 2
        BY <1>9
      <4> QED
        BY <1>1, <1>11, <1>12, <4>1
    <3>3. param' = Parameters(k, 0)
      BY <1>1 DEF Parameters
    <3>4. CASE P = 0
      <4>1. Expect(k + 1, 1)'
        BY <1>8, <1>9, <3>1, <3>4
      <4>2. rpc' = "analyze" /\ length' = 0
        BY <1>10, <3>1, <3>4
      <4> QED
        BY <1>12, <1>17, <3>2, <3>3, <4>1, <4>2 DEF Reading, Parameters
    <3>5. CASE P # 0
      <4>1. Expect(k, 3)'
        <5>1. n # 2 + P - (h + 1) + 1 /\ h + 1 + n = 3
          BY <1>9, <3>1, <3>5
        <5> QED
          BY <1>9, <5>1
      <4>2. nhas_recv' < length' /\ nhas_recv' + 3 = 3 /\ rpc' = "param"
        BY <1>10, <3>1, <3>5
      <4> QED
        BY <1>12, <1>17, <3>1, <3>2, <3>3, <4>1, <4>2 DEF Reading, Parameters
    <3> QED
      BY <3>4, <3>5
  <2> QED
    BY <2>1, <2>2
<1> QED
  BY <1>14, <1>15, <1>16, <1>18 DEF ReadInv

(* Its parameters, or some of them.                                        *)
LEMMA ParamReadInv ==
  ASSUME ReadInv, NEW n \in 1 .. Len(rx), read_param(n)
  PROVE  ReadInv'
<1>1. /\ rpc = "param" /\ n <= length - nhas_recv
      /\ nhas_recv' = nhas_recv + n
      /\ rpc' = IF nhas_recv + n < length THEN "param" ELSE "analyze"
      /\ rx' = SubSeq(rx, n + 1, Len(rx)) /\ param' = param \o SubSeq(rx, 1, n)
      /\ UNCHANGED <<peer, sent, length, cmdword, short, executed>>
      /\ ReadType /\ Words
  BY DEF read_param, wanted, ReadInv
<1>2. PICK k \in Nat, h \in Nat, L \in Nat : k = current /\ h = nhas_recv /\ L = length
  BY <1>1, LenProperties DEF ReadType, current
<1>3. /\ k \in DOMAIN sent /\ L = Params[sent[k]] /\ (short \/ cmdword = sent[k])
      /\ Expect(k, h + 3) /\ param = Parameters(k, h)
  BY <1>1, <1>2 DEF ReadInv, Reading
<1>4. Size(k) = 2 + L /\ n <= L - h
  BY <1>1, <1>2, <1>3 DEF Size
<1>5. PICK N \in Nat : N = Len(rx) /\ rx \in Seq(Nat \X Nat) /\ n \in 1 .. N /\ DOMAIN rx = 1 .. N
  BY <1>1, LenProperties DEF ReadType
<1>6. /\ \A i \in 1 .. n : rx[i] = <<k, h + 3 + i - 1>>
      /\ h + n = L => Expect(k + 1, 1)'
      /\ h + n # L => Expect(k, h + 3 + n)'
  <2>1. n <= Size(k) - (h + 3) + 1 /\ h + 3 \in Nat
        /\ (h + n = L <=> n = Size(k) - (h + 3) + 1)
    BY <1>4, <1>5
  <2>2. /\ \A i \in 1 .. n : rx[i] = <<k, h + 3 + i - 1>>
        /\ n = Size(k) - (h + 3) + 1 => Expect(k + 1, 1)'
        /\ n # Size(k) - (h + 3) + 1 => Expect(k, h + 3 + n)'
    BY <1>1, <1>3, <2>1, WordsTaken, Zenon
  <2> QED
    BY <2>1, <2>2, Zenon
<1>7. param' = Parameters(k, h + n) /\ param' \in Seq(Nat \X Nat)
  <2>1. PICK q \in Seq(Nat \X Nat) : q = SubSeq(rx, 1, n) /\ Len(q) = n /\ \A i \in 1 .. n : q[i] = rx[i]
    <3>1. \A i \in 1 .. n : rx[i] \in Nat \X Nat
      BY <1>5, ElementOfSeq
    <3>2. PICK m : m = SubSeq(rx, 1, n)
      OBVIOUS
    <3>3. /\ m \in Seq(Nat \X Nat)
          /\ Len(m) = IF 1 <= n THEN n - 1 + 1 ELSE 0
          /\ \A i \in 1 .. n - 1 + 1 : m[i] = rx[1 + i - 1]
      BY <1>5, <3>1, <3>2, SubSeqProperties
    <3>4. Len(m) = n /\ \A i \in 1 .. n : m[i] = rx[i]
      BY <1>5, <3>3
    <3> QED
      BY <3>2, <3>3, <3>4
  <2>2. PICK r \in Seq(Nat \X Nat) : r = param /\ Len(r) = h /\ \A i \in 1 .. h : r[i] = <<k, i + 2>>
    <3>1. param \in Seq(Nat \X Nat)
      BY <1>1 DEF ReadType
    <3>2. DOMAIN param = 1 .. h /\ \A i \in 1 .. h : param[i] = <<k, i + 2>>
      BY <1>3 DEF Parameters
    <3>3. DOMAIN param = 1 .. Len(param) /\ Len(param) \in Nat
      BY <3>1, LenProperties
    <3>4. Len(param) = h
      BY <3>2, <3>3
    <3> QED
      BY <3>1, <3>2, <3>4
  <2>3. /\ r \o q \in Seq(Nat \X Nat)
        /\ Len(r \o q) = Len(r) + Len(q)
        /\ \A i \in 1 .. Len(r) + Len(q) : (r \o q)[i] = IF i <= Len(r) THEN r[i] ELSE q[i - Len(r)]
    BY ConcatProperties, Zenon
  <2>4. PICK p \in Seq(Nat \X Nat) : p = param' /\ p = r \o q
    BY <1>1, <2>1, <2>2, <2>3, Zenon
  <2>5. Len(p) = h + n /\ \A i \in 1 .. h + n : p[i] = IF i <= h THEN r[i] ELSE q[i - h]
    BY <2>1, <2>2, <2>3, <2>4, Zenon
  <2>6. \A i \in 1 .. h + n : p[i] = <<k, i + 2>>
    <3> SUFFICES ASSUME NEW i \in 1 .. h + n PROVE p[i] = <<k, i + 2>>
      OBVIOUS
    <3>1. CASE i <= h
      <4>1. i \in 1 .. h
        BY <3>1
      <4> QED
        BY <2>2, <2>5, <3>1, <4>1, Zenon
    <3>2. CASE ~(i <= h)
      <4>1. PICK j \in 1 .. n : j = i - h /\ h + 3 + j - 1 = i + 2
        BY <1>5, <3>2
      <4> QED
        BY <1>6, <2>1, <2>5, <3>2, <4>1, Zenon
    <3> QED
      BY <3>1, <3>2
  <2>7. p = Parameters(k, h + n)
    <3>1. DOMAIN p = 1 .. h + n
      BY <2>5, LenProperties
    <3>2. p = [i \in 1 .. h + n |-> p[i]]
      BY <2>4, <3>1, LenProperties
    <3> QED
      BY <2>6, <3>2, Zenon DEF Parameters
  <2> QED
    BY <2>4, <2>7
<1>8. current' = k /\ length' = L /\ nhas_recv' = h + n /\ sent' = sent
  BY <1>1, <1>2 DEF current
<1>9. ReadType'
  <2>1. rx' \in Seq(Nat \X Nat)
    BY <1>1, RxWithout
  <2>2. nhas_recv' \in Nat
    BY <1>5, <1>8
  <2> QED
    BY <1>1, <1>7, <2>1, <2>2, Zenon DEF ReadType
<1>10. Words'
  BY <1>1, WordsKept
<1>11. CommandAsSent'
  BY <1>1 DEF ReadInv, CommandAsSent
<1>12. Reading'
  <2>1. k \in DOMAIN sent' /\ length' = Params[sent'[k]] /\ (short' \/ cmdword' = sent'[k])
    BY <1>1, <1>3, <1>8
  <2>2. CASE h + n < L
    <3>1. rpc' = "param" /\ nhas_recv' < length' /\ nhas_recv' + 3 = h + 3 + n
      BY <1>1, <1>2, <1>5, <1>8, <2>2
    <3>2. Expect(k, h + 3 + n)'
      BY <1>5, <1>6, <2>2
    <3> QED
      BY <1>7, <1>8, <2>1, <3>1, <3>2 DEF Reading, Parameters
  <2>3. CASE ~(h + n < L)
    <3>1. rpc' = "analyze" /\ h + n = L
      BY <1>1, <1>2, <1>4, <1>5, <2>3
    <3>2. Expect(k + 1, 1)'
      BY <1>6, <3>1
    <3> QED
      BY <1>7, <1>8, <2>1, <3>1, <3>2 DEF Reading, Parameters
  <2> QED
    BY <2>2, <2>3
<1> QED
  BY <1>9, <1>10, <1>11, <1>12 DEF ReadInv

(* Executing it.                                                           *)
LEMMA AnalyzeReadInv ==
  ASSUME ReadInv, local_cmd_analyze
  PROVE  ReadInv'
<1>1. /\ rpc = "analyze" /\ rpc' = "header" /\ nhas_recv' = 0 /\ ReadType
      /\ executed' = Append(executed, [cmdword |-> cmdword, param |-> param, short |-> short])
      /\ UNCHANGED <<peer, sent, rx, length, cmdword, param, short>>
  BY DEF local_cmd_analyze, hostVars, ReadInv
<1>2. /\ current \in DOMAIN sent /\ length = Params[sent[current]] /\ (short \/ cmdword = sent[current])
      /\ Expect(current + 1, 1) /\ param = Parameters(current, length)
  BY <1>1 DEF ReadInv, Reading
<1> DEFINE Entry == [cmdword : Cmd \cup {None}, param : Seq(Nat \X Nat), short : BOOLEAN]
           e == [cmdword |-> cmdword, param |-> param, short |-> short]
<1>3. e \in Entry /\ executed \in Seq(Entry)
  BY <1>1 DEF ReadType
<1>4. e.param = Parameters(current, length) /\ (e.short \/ e.cmdword = sent[current])
  BY <1>2
<1> HIDE DEF e, Entry
<1>5. /\ executed' \in Seq(Entry) /\ Len(executed') = current /\ executed'[current] = e
      /\ \A i \in 1 .. Len(executed) : executed'[i] = executed[i]
      /\ Len(executed) \in Nat /\ DOMAIN executed = 1 .. Len(executed) /\ DOMAIN executed' = 1 .. current
  <2>1. executed' = Append(executed, e)
    BY <1>1 DEF e
  <2> QED
    BY <1>3, <2>1, AppendProperties, LenProperties DEF current
<1>6. current' = current + 1
  BY <1>5 DEF current
<1>7. ReadType'
  BY <1>1, <1>5 DEF ReadType, Entry
<1>8. Words'
  BY <1>1 DEF ReadInv, Words, first, second, sizes, Size
<1>9. Reading'
  BY <1>1, <1>2, <1>6 DEF Reading, Expect
<1>10. CommandAsSent'
  <2> SUFFICES ASSUME NEW i \in 1 .. current
               PROVE  /\ i \in DOMAIN sent
                      /\ executed'[i].param = Parameters(i, Params[sent[i]])
                      /\ executed'[i].short \/ executed'[i].cmdword = sent[i]
    BY <1>1, <1>5 DEF CommandAsSent, Parameters
  <2>1. CASE i = current
    BY <1>2, <1>4, <1>5, <2>1
  <2>2. CASE i # current
    <3>1. i \in 1 .. Len(executed)
      BY <1>5, <2>2 DEF current
    <3> QED
      BY <1>5, <3>1 DEF ReadInv, CommandAsSent, Parameters
  <2> QED
    BY <2>1, <2>2
<1> QED
  BY <1>7, <1>8, <1>9, <1>10 DEF ReadInv

LEMMA NextReadInv ==
  ASSUME ConnInv, ReadInv, [Next]_vars
  PROVE  ReadInv'
<1>1. ASSUME NEW c \in Cmd, host_send(c) PROVE ReadInv'
  BY <1>1, HostReadInv
<1>2. CASE accepted
  BY <1>2, AcceptedReadInv
<1>3. CASE wait_link
  BY <1>3, WaitReadInv
<1>4. ASSUME NEW n \in 1 .. Len(rx), read_header(n) PROVE ReadInv'
  BY <1>4, HeaderReadInv
<1>5. ASSUME NEW n \in 1 .. Len(rx), read_param(n) PROVE ReadInv'
  BY <1>5, ParamReadInv
<1>6. CASE local_cmd_analyze
  BY <1>6, AnalyzeReadInv
<1>7. peer \in {"open", "closed"}
  BY DEF ReadInv, ReadType
<1>8. CASE make_socket
  <2>1. ~Connected'
    BY <1>8, LinkAssumption DEF make_socket, Connected, ConnInv, ConnType, Conn
  <2> QED
    BY <1>7, <1>8, <2>1, StreamUntouched DEF make_socket, hostVars, recvVars
<1>9. CASE close_link
  BY <1>7, <1>9, StreamUntouched DEF close_link, hostVars
<1>10. CASE lower_status
  <2>1. ~Connected'
    BY <1>10 DEF lower_status, Connected, ConnInv, Baton
  <2> QED
    BY <1>7, <1>10, <2>1, StreamUntouched DEF lower_status, hostVars
<1>11. CASE read_fails
  BY <1>7, <1>11, StreamUntouched DEF read_fails, hostVars
<1>12. CASE host_close
  BY <1>12, StreamUntouched DEF host_close, connVars, recvVars, Connected
<1>13. CASE raise_status \/ post_link
  BY <1>7, <1>13, StreamUntouched DEF raise_status, post_link, hostVars, recvVars, Connected
<1>14. CASE (\E n \in Items : pend(n)) \/ write \/ UNCHANGED vars
  BY <1>7, <1>14, StreamUntouched DEF pend, write, vars, connVars, hostVars, recvVars, Connected
<1> QED
  BY <1>1, <1>2, <1>3, <1>4, <1>5, <1>6, <1>8, <1>9, <1>10, <1>11, <1>12, <1>13, <1>14 DEF Next, Connect, Recv

LEMMA InitReadInv == Init => ReadInv
<1> SUFFICES ASSUME Init PROVE ReadInv
  OBVIOUS
<1>1. Len(<<>>) = 0 /\ DOMAIN <<>> = {}
  BY EmptySeq
<1>2. ReadType /\ CommandAsSent
  <2>1. \A S : <<>> \in Seq(S)
    BY EmptySeq
  <2> QED
    BY <1>1, <2>1, Zenon DEF Init, ReadType, CommandAsSent
<1>3. Words
  BY <1>1 DEF Init, Words, Stream
<1>4. Reading
  BY DEF Init, Reading, Connected
<1> QED
  BY <1>2, <1>3, <1>4 DEF ReadInv
----------------------------------------------------------------------------
(* The streams the sender writes.                                          *)
Payload == [msg : Nat, item : Nat, num : Nat]

SendType ==
  /\ msgs \in 0 .. MAX_MSG /\ item \in Nat /\ num \in Nat /\ item <= num
  /\ tx \in [Conn -> Seq(Payload)]

(* Nothing was written to a socket that is not connected yet.              *)
Fresh ==
  \A c \in Conn :
    /\ c > opened => sock[c] = "none"
    /\ sock[c] \in {"none", "new"} => tx[c] = <<>>

(* Where the connection that takes writes ends, the sender goes on.        *)
Follows(last) ==
  /\ item <= 1 => last.item = last.num
  /\ item = 1 => last.msg < msgs
  /\ item > 1 => last = [msg |-> msgs, item |-> item - 1, num |-> num]

Writing ==
  /\ \A c \in Conn : \A i \in DOMAIN tx[c] : tx[c][i].msg <= msgs
  /\ write_succeeds /\ tx[connect_fd] # <<>> => Follows(tx[connect_fd][Len(tx[connect_fd])])
  /\ item > 1 => \E d \in Conn : /\ d <= opened
                                 /\ \E j \in DOMAIN tx[d] : tx[d][j] = [msg |-> msgs, item |-> item - 1, num |-> num]

SendInv == SendType /\ Fresh /\ Writing /\ StreamShape /\ NoHole

(* A step that writes nothing, and after which no old connection takes     *)
(* writes again.                                                           *)
LEMMA SendUntouched ==
  ASSUME SendInv, UNCHANGED sendVars, opened' = opened \/ opened' = opened + 1, opened \in Nat,
         write_succeeds' => connect_fd' \in Conn /\ ((write_succeeds /\ connect_fd' = connect_fd) \/ tx[connect_fd'] = <<>>),
         Fresh'
  PROVE  SendInv'
<1>1. SendType' /\ StreamShape' /\ NoHole'
  BY DEF SendInv, sendVars, SendType, StreamShape, NoHole
<1>2. Writing'
  <2>1. msgs' = msgs /\ item' = item /\ num' = num /\ tx' = tx
    BY DEF sendVars
  <2>2. \A c \in Conn : \A i \in DOMAIN tx'[c] : tx'[c][i].msg <= msgs'
    BY <2>1 DEF SendInv, Writing
  <2>3. (write_succeeds /\ tx[connect_fd] # <<>> => Follows(tx[connect_fd][Len(tx[connect_fd])]))'
    BY <2>1 DEF SendInv, Writing, Follows
  <2>4. \A d \in Conn : d <= opened => d <= opened'
    BY DEF Conn
  <2> QED
    BY <2>1, <2>2, <2>3, <2>4 DEF SendInv, Writing
<1> QED
  BY <1>1, <1>2 DEF SendInv

(* Making and closing connections.                                         *)
LEMMA ConnSendInv ==
  ASSUME ConnInv, SendInv, ReadType,
         make_socket \/ accepted \/ raise_status \/ post_link \/ wait_link \/ close_link \/ lower_status
  PROVE  SendInv'
<1> USE LinkAssumption
<1>1. opened \in Nat /\ opened <= MAX_CONN /\ connect_fd \in 0 .. MAX_CONN
      /\ sock \in [Conn -> {"none", "new", "connected", "closed"}]
  BY DEF ConnInv, ConnType
<1>2. CASE make_socket
  <2>1. ~write_succeeds'
    BY <1>1, <1>2 DEF make_socket, write_succeeds, Conn
  <2>2. Fresh'
    <3> SUFFICES ASSUME NEW c \in Conn
                 PROVE  /\ c > opened' => sock'[c] = "none"
                        /\ sock'[c] \in {"none", "new"} => tx[c] = <<>>
      BY <1>2 DEF make_socket, sendVars, Fresh
    <3>1. opened' = opened + 1 /\ (sock'[c] = sock[c] \/ c = opened + 1)
      BY <1>1, <1>2 DEF make_socket
    <3>2. CASE c = opened + 1
      BY <1>1, <3>1, <3>2 DEF SendInv, Fresh
    <3>3. CASE c # opened + 1
      BY <1>1, <3>1, <3>3 DEF SendInv, Fresh, Conn
    <3> QED
      BY <3>2, <3>3
  <2> QED
    BY <1>1, <1>2, <2>1, <2>2, SendUntouched DEF make_socket
<1>3. CASE accepted
  <2>1. connect_fd \in Conn /\ sock[connect_fd] = "new" /\ connect_fd <= opened
    BY <1>1, <1>3 DEF accepted, ConnInv, Baton, Conn
  <2>2. tx[connect_fd] = <<>>
    BY <2>1 DEF SendInv, Fresh
  <2>3. Fresh'
    BY <1>1, <1>3, <2>1 DEF accepted, sendVars, SendInv, Fresh, Conn
  <2> QED
    BY <1>1, <1>3, <2>1, <2>2, <2>3, SendUntouched DEF accepted
<1>4. CASE close_link
  <2>1. connect_fd \in Conn /\ sock[connect_fd] = "connected" /\ connect_fd <= opened
    BY <1>1, <1>4 DEF close_link, ConnInv, SessionOwned, Baton, Conn
  <2>2. ~write_succeeds' /\ Fresh'
    BY <1>1, <1>4, <2>1 DEF close_link, hung_up, write_succeeds, sendVars, SendInv, Fresh, Conn
  <2> QED
    BY <1>1, <1>4, <2>2, SendUntouched DEF close_link
<1>5. CASE raise_status \/ post_link \/ wait_link \/ lower_status
  <2>1. UNCHANGED <<connect_fd, opened, sock, peer, sendVars>>
    BY <1>5 DEF raise_status, post_link, wait_link, lower_status, hostVars
  <2>2. write_succeeds' => connect_fd' \in Conn /\ write_succeeds /\ connect_fd' = connect_fd
    BY <1>1, <2>1 DEF write_succeeds, Conn
  <2>3. Fresh'
    BY <2>1 DEF SendInv, Fresh, sendVars
  <2> QED
    BY <1>1, <2>1, <2>2, <2>3, SendUntouched
<1> QED
  BY <1>2, <1>3, <1>4, <1>5

LEMMA StreamUnchanged ==
  ASSUME StreamShape, NoHole, tx' = tx
  PROVE  StreamShape' /\ NoHole'
<1>1. StreamShape'
  BY SMT DEF StreamShape
<1>2. NoHole'
  BY SMT DEF NoHole
<1> QED
  BY <1>1, <1>2

(* Receiving a message.                                                    *)
LEMMA PendSendInv ==
  ASSUME ConnInv, SendInv, NEW n \in Items, pend(n)
  PROVE  SendInv'
<1>1. msgs \in 0 .. MAX_MSG - 1 /\ msgs' = msgs + 1 /\ item = 0 /\ tx' = tx /\ UNCHANGED <<connVars, hostVars>>
      /\ item' \in {0, 1} /\ item' <= num' /\ num' \in Nat
  BY LinkAssumption DEF pend, SendInv, SendType
<1>2. SendType'
  BY <1>1, LinkAssumption DEF SendInv, SendType
<1>3. Fresh' /\ StreamShape' /\ NoHole'
  <2>1. Fresh'
    BY <1>1 DEF SendInv, Fresh, connVars
  <2>2. StreamShape' /\ NoHole'
    BY <1>1, StreamUnchanged DEF SendInv
  <2> QED
    BY <2>1, <2>2
<1>4. \A c \in Conn : \A i \in DOMAIN tx[c] : tx[c][i] \in Payload /\ tx[c][i].msg <= msgs
  <2>1. \A c \in Conn : \A i \in DOMAIN tx[c] : tx[c][i] \in Payload
    BY LenProperties, ElementOfSeq DEF SendInv, SendType
  <2> QED
    BY <2>1 DEF SendInv, Writing
<1>5. Writing'
  <2>1. \A c \in Conn : \A i \in DOMAIN tx'[c] : tx'[c][i].msg <= msgs'
    BY <1>1, <1>4 DEF Payload
  <2>2. ASSUME write_succeeds', tx'[connect_fd'] # <<>>
        PROVE  Follows(tx[connect_fd][Len(tx[connect_fd])])'
    <3>1. write_succeeds /\ tx[connect_fd] # <<>> /\ connect_fd \in Conn /\ connect_fd' = connect_fd
      BY <1>1, <2>2 DEF write_succeeds, connVars, hostVars, ConnInv, ConnType, Conn
    <3>2. PICK last : last = tx[connect_fd][Len(tx[connect_fd])]
      OBVIOUS
    <3>3. Follows(last)
      BY <3>1, <3>2 DEF SendInv, Writing
    <3>4. last.msg <= msgs /\ last \in Payload
      BY <1>4, <3>1, <3>2, LenProperties, EmptySeq DEF SendInv, SendType
    <3>5. Follows(last)'
      BY <1>1, <3>3, <3>4 DEF Follows, Payload
    <3>6. tx'[connect_fd'][Len(tx'[connect_fd'])] = last
      BY <1>1, <3>1, <3>2
    <3> QED
      BY <3>5, <3>6 DEF Follows
  <2> QED
    BY <1>1, <2>1, <2>2 DEF Writing
<1> QED
  BY <1>2, <1>3, <1>5 DEF SendInv

(* Writing a payload.                                                      *)
LEMMA WriteSendInv ==
  ASSUME ConnInv, SendInv, write
  PROVE  SendInv'
<1>1. item \in Nat \ {0} /\ num \in Nat /\ item <= num /\ msgs \in Nat
      /\ UNCHANGED <<msgs, num, connect_fd, opened, sock, peer>>
  BY LinkAssumption DEF write, SendInv, SendType, connVars, hostVars
<1>2. CASE write_succeeds /\ tx' = [tx EXCEPT ![connect_fd] = Append(@, [msg |-> msgs, item |-> item, num |-> num])]
                          /\ item' = next_item
  <2>1. PICK f \in Conn : f = connect_fd /\ f = opened
    BY <1>2 DEF write_succeeds, ConnInv, ConnType, Baton, Conn
  <2>2. PICK s : s = tx[f]
    OBVIOUS
  <2>3. PICK e \in Payload : e = [msg |-> msgs, item |-> item, num |-> num]
    BY <1>1 DEF Payload
  <2>4. PICK L \in Nat : L = Len(s) /\ s \in Seq(Payload) /\ DOMAIN s = 1 .. L /\ \A i \in 1 .. L : s[i] \in Payload
    BY <2>1, <2>2, LenProperties, ElementOfSeq DEF SendInv, SendType
  <2>5. PICK s2 : /\ s2 = Append(s, e) /\ s2 \in Seq(Payload) /\ Len(s2) = L + 1 /\ s2 # <<>>
                  /\ \A i \in 1 .. L : s2[i] = s[i]
                  /\ s2[L + 1] = e
    <3>1. /\ Append(s, e) \in Seq(Payload) /\ Append(s, e) # <<>>
          /\ Len(Append(s, e)) = Len(s) + 1
          /\ \A i \in 1 .. Len(s) : Append(s, e)[i] = s[i]
          /\ Append(s, e)[Len(s) + 1] = e
      BY <2>3, <2>4, AppendProperties
    <3> QED
      BY <2>4, <3>1, Zenon
  <2>6. DOMAIN s2 = 1 .. L + 1
    BY <2>5, LenProperties
  <2>7. tx' = [tx EXCEPT ![f] = s2] /\ tx \in [Conn -> Seq(Payload)]
    BY <1>2, <2>1, <2>2, <2>3, <2>5 DEF SendInv, SendType
  <2>8. tx' \in [Conn -> Seq(Payload)] /\ tx'[f] = s2 /\ \A c \in Conn : c # f => tx'[c] = tx[c]
    BY <2>5, <2>7
  <2>9. item' = IF item < num THEN item + 1 ELSE 0
    BY <1>2 DEF next_item
  <2>10. SendType'
    BY <1>1, <2>8, <2>9 DEF SendInv, SendType
  <2>11. Fresh'
    BY <1>1, <1>2, <2>1, <2>8 DEF SendInv, Fresh, write_succeeds
  <2>12. Writing'
    <3>1. \A c \in Conn : \A i \in DOMAIN tx'[c] : tx'[c][i].msg <= msgs'
      <4> SUFFICES ASSUME NEW c \in Conn, NEW i \in DOMAIN tx'[c] PROVE tx'[c][i].msg <= msgs
        BY <1>1
      <4>1. CASE c # f
        BY <2>8, <4>1 DEF SendInv, Writing
      <4>2. CASE c = f /\ i \in 1 .. L
        BY <2>1, <2>2, <2>4, <2>5, <2>8, <4>2 DEF SendInv, Writing
      <4>3. CASE c = f /\ i = L + 1
        BY <1>1, <2>3, <2>5, <2>8, <4>3
      <4> QED
        BY <2>4, <2>6, <2>8, <4>1, <4>2, <4>3
    <3>2. Follows(e)'
      BY <1>1, <2>3, <2>9 DEF Follows
    <3>3. tx'[connect_fd'][Len(tx'[connect_fd'])] = e
      BY <1>1, <2>1, <2>5, <2>8
    <3>4. item' > 1 => \E d \in Conn : /\ d <= opened'
                                       /\ \E j \in DOMAIN tx'[d] : tx'[d][j] = [msg |-> msgs', item |-> item' - 1, num |-> num']
      <4>1. L + 1 \in DOMAIN tx'[f] /\ tx'[f][L + 1] = e
        BY <2>4, <2>5, <2>6, <2>8
      <4>2. item' > 1 => e = [msg |-> msgs', item |-> item' - 1, num |-> num']
        BY <1>1, <2>3, <2>9
      <4>3. f <= opened'
        BY <1>1, <2>1 DEF Conn
      <4> QED
        BY <4>1, <4>2, <4>3
    <3> QED
      BY <3>1, <3>2, <3>3, <3>4 DEF Writing, Follows
  <2>13. StreamShape'
    <3> SUFFICES ASSUME NEW c \in Conn, NEW i \in 1 .. Len(tx'[c]) - 1
                 PROVE  LET a == tx'[c][i]  b == tx'[c][i + 1]
                        IN  IF a.item < a.num THEN b = [a EXCEPT !.item = @ + 1]
                            ELSE b.item = 1 /\ b.msg > a.msg
      BY DEF StreamShape
    <3>1. CASE c # f
      BY <2>8, <3>1 DEF SendInv, StreamShape
    <3>2. CASE c = f /\ i < L
      <4>1. i \in 1 .. Len(tx[f]) - 1 /\ tx'[c][i] = s[i] /\ tx'[c][i + 1] = s[i + 1]
        <5>1. i \in 1 .. L /\ i + 1 \in 1 .. L /\ i \in 1 .. L - 1
          BY <2>4, <3>2
        <5>2. tx'[c] = s2 /\ s2[i] = s[i] /\ s2[i + 1] = s[i + 1]
          BY <2>5, <2>8, <3>2, <5>1, Zenon
        <5> QED
          BY <2>2, <2>4, <5>1, <5>2, Zenon
      <4> QED
        BY <2>2, <3>2, <4>1 DEF SendInv, StreamShape
    <3>3. CASE c = f /\ i = L
      <4>1. L # 0 /\ s # <<>> /\ tx'[c][i] = s[L] /\ tx'[c][i + 1] = e
        BY <2>4, <2>5, <2>8, <3>3, EmptySeq
      <4>2. Follows(s[L]) /\ s[L] \in Payload
        BY <1>2, <2>1, <2>2, <2>4, <4>1 DEF SendInv, Writing
      <4>3. IF s[L].item < s[L].num THEN e = [s[L] EXCEPT !.item = @ + 1] ELSE e.item = 1 /\ e.msg > s[L].msg
        <5>1. CASE item = 1
          BY <2>3, <4>2, <5>1 DEF Follows, Payload
        <5>2. CASE item > 1
          <6>1. s[L] = [msg |-> msgs, item |-> item - 1, num |-> num]
            BY <4>2, <5>2 DEF Follows
          <6>2. s[L].item < s[L].num /\ [s[L] EXCEPT !.item = @ + 1] = e
            BY <1>1, <2>3, <6>1
          <6> QED
            BY <6>2
        <5> QED
          BY <1>1, <5>1, <5>2
      <4> QED
        BY <4>1, <4>3, Zenon
    <3> QED
      BY <2>4, <2>5, <2>8, <3>1, <3>2, <3>3
  <2>14. NoHole'
    <3> SUFFICES ASSUME NEW c \in Conn, NEW i \in DOMAIN tx'[c], tx'[c][i].item > 1
                 PROVE  \E d \in 1 .. c : \E j \in DOMAIN tx'[d] : tx'[d][j] = [tx'[c][i] EXCEPT !.item = @ - 1]
      BY DEF NoHole
    <3>1. \A d \in Conn : \A j \in DOMAIN tx[d] : j \in DOMAIN tx'[d] /\ tx'[d][j] = tx[d][j]
      <4> SUFFICES ASSUME NEW d \in Conn, NEW j \in DOMAIN tx[d] PROVE j \in DOMAIN tx'[d] /\ tx'[d][j] = tx[d][j]
        OBVIOUS
      <4>1. CASE d # f
        BY <2>8, <4>1, Zenon
      <4>2. CASE d = f
        <5>1. j \in 1 .. L /\ j \in 1 .. L + 1
          BY <2>2, <2>4, <4>2
        <5> QED
          BY <2>2, <2>5, <2>6, <2>8, <4>2, <5>1, Zenon
      <4> QED
        BY <4>1, <4>2
    <3>2. CASE c # f \/ i \in 1 .. L
      <4>1. i \in DOMAIN tx[c] /\ tx'[c][i] = tx[c][i]
        BY <2>2, <2>4, <2>5, <2>8, <3>2
      <4>2. PICK d \in 1 .. c : \E j \in DOMAIN tx[d] : tx[d][j] = [tx[c][i] EXCEPT !.item = @ - 1]
        BY <4>1 DEF SendInv, NoHole
      <4>3. d \in Conn
        BY LinkAssumption DEF Conn
      <4> QED
        BY <3>1, <4>1, <4>2, <4>3
    <3>3. CASE c = f /\ i = L + 1
      <4>1. tx'[c][i] = e /\ item > 1 /\ [e EXCEPT !.item = @ - 1] = [msg |-> msgs, item |-> item - 1, num |-> num]
        BY <2>3, <2>5, <2>8, <3>3
      <4>2. PICK d \in Conn : /\ d <= opened
                              /\ \E j \in DOMAIN tx[d] : tx[d][j] = [msg |-> msgs, item |-> item - 1, num |-> num]
        BY <4>1 DEF SendInv, Writing
      <4>3. d \in 1 .. c
        BY <2>1, <3>3, <4>2 DEF Conn
      <4> QED
        BY <3>1, <4>1, <4>2, <4>3
    <3>4. c = f => i \in 1 .. L + 1
      BY <2>6, <2>8, Zenon
    <3>5. c = f => i \in 1 .. L \/ i = L + 1
      BY <2>4, <3>4
    <3> QED
      BY <3>2, <3>3, <3>5
  <2> QED
    BY <2>10, <2>11, <2>12, <2>13, <2>14 DEF SendInv
<1>3. CASE ~write_succeeds /\ item' = after_failure /\ tx' = tx
  <2>1. item' = 0 /\ write_succeeds' = write_succeeds
    BY <1>1, <1>3 DEF after_failure, write_succeeds
  <2>2. SendType' /\ Fresh'
    BY <1>1, <1>3, <2>1 DEF SendInv, SendType, Fresh
  <2>3. StreamShape' /\ NoHole'
    BY <1>3, StreamUnchanged DEF SendInv
  <2>4. Writing'
    BY <1>1, <1>3, <2>1 DEF SendInv, Writing
  <2> QED
    BY <2>2, <2>3, <2>4 DEF SendInv
<1> QED
  BY <1>2, <1>3 DEF write

(* The host and the receiver: all they do is to end a connection.          *)
LEMMA OtherSendInv ==
  ASSUME ConnInv, SendInv, UNCHANGED <<connVars, sendVars>>, peer' = peer \/ peer' = "closed"
  PROVE  SendInv'
<1>1. UNCHANGED <<connect_fd, opened, sock, sendVars>>
  BY DEF connVars
<1>2. write_succeeds' => connect_fd' \in Conn /\ write_succeeds /\ connect_fd' = connect_fd
  BY <1>1 DEF write_succeeds, ConnInv, ConnType, Conn
<1>3. Fresh'
  BY <1>1 DEF SendInv, Fresh, sendVars
<1> QED
  BY <1>1, <1>2, <1>3, SendUntouched, LinkAssumption DEF ConnInv, ConnType

LEMMA NextSendInv ==
  ASSUME ConnInv, ReadType, SendInv, [Next]_vars
  PROVE  SendInv'
<1>1. CASE Connect \/ accepted \/ wait_link \/ close_link \/ lower_status
  BY <1>1, ConnSendInv DEF Connect
<1>2. ASSUME NEW n \in Items, pend(n) PROVE SendInv'
  BY <1>2, PendSendInv
<1>3. CASE write
  BY <1>3, WriteSendInv
<1>4. CASE (\E c \in Cmd : host_send(c)) \/ host_close \/ local_cmd_analyze \/ read_fails \/ UNCHANGED vars
  BY <1>4, OtherSendInv DEF host_send, host_close, local_cmd_analyze, read_fails, vars, hostVars
<1>5. ASSUME NEW n \in 1 .. Len(rx), read_header(n) \/ read_param(n) PROVE SendInv'
  BY <1>5, OtherSendInv DEF read_header, read_param
<1> QED
  BY <1>1, <1>2, <1>3, <1>4, <1>5 DEF Next, Recv

LEMMA InitSendInv == Init => SendInv
<1> SUFFICES ASSUME Init PROVE SendInv
  OBVIOUS
<1>1. Len(<<>>) = 0 /\ DOMAIN <<>> = {}
  BY EmptySeq
<1>2. \A c \in Conn : tx[c] = <<>> /\ sock[c] = "none"
  BY DEF Init
<1>3. SendType
  <2>1. <<>> \in Seq(Payload)
    BY EmptySeq
  <2> QED
    BY <2>1, LinkAssumption DEF Init, SendType
<1>4. StreamShape
  BY <1>1, <1>2 DEF StreamShape
<1>5. Fresh /\ Writing /\ NoHole
  BY <1>1, <1>2 DEF Init, Fresh, Writing, NoHole, write_succeeds
<1> QED
  BY <1>3, <1>4, <1>5 DEF SendInv
----------------------------------------------------------------------------
(* The theorems.                                                           *)
Inv == ConnInv /\ ReadInv /\ SendInv

THEOREM Invariance == Spec => []Inv
<1>1. Init => Inv
  BY InitConnInv, InitReadInv, InitSendInv DEF Inv
<1>2. Inv /\ [Next]_vars => Inv'
  BY NextConnInv, NextReadInv, NextSendInv DEF Inv, ReadInv
<1> QED
  BY <1>1, <1>2, PTL DEF Spec

(* Every variable keeps to its type.                                       *)
THEOREM TypeCorrect == Spec => []TypeOK
<1>1. Inv => TypeOK
  BY DEF Inv, ConnInv, ReadInv, SendInv, ConnType, ReadType, SendType, Payload, TypeOK
<1> QED
  BY <1>1, Invariance, PTL

(* The receiver reads from and closes a connected socket that the thread   *)
(* that makes connections will not replace, and no socket but the current  *)
(* one is ever left open.                                                  *)
THEOREM SessionOwnership == Spec => []SocketsOwned
<1>1. Inv => SocketsOwned
  BY DEF Inv, ConnInv, SocketsOwned
<1> QED
  BY <1>1, Invariance, PTL

(* Commands are executed in the order they were sent, each with its own    *)
(* parameters, however many words each read returns.                       *)
THEOREM CommandsInOrder == Spec => []CommandAsSent
<1>1. Inv => CommandAsSent
  BY DEF Inv, ReadInv
<1> QED
  BY <1>1, Invariance, PTL

(* On a connection the payloads of a message follow each other, the        *)
(* messages are whole but for the first and the last, and what is missing  *)
(* of the first was written to an earlier connection.                      *)
THEOREM StreamWellShaped == Spec => []StreamWhole
<1>1. Inv => StreamWhole
  BY DEF Inv, SendInv, StreamWhole
<1> QED
  BY <1>1, Invariance, PTL

----------------------------------------------------------------------------
(* Serving the host *)

(* While the host keeps its end open, the connection stands and has not    *)
(* been given up.                                                          *)
Standing == peer = "open" => Connected /\ cpc # "connect" /\ rpc \notin {"close", "down"}

(* How far the two threads are from the next connection: each connection   *)
(* goes through these stages, and words to be read hold it up.             *)
stage ==
  CASE cpc = "status" -> 8
    [] cpc = "post" -> 7
    [] cpc = "connect" -> 1
    [] cpc = "poll" ->
         CASE rpc = "wait" -> IF connect_status = 0 THEN 2 ELSE 6
           [] rpc = "analyze" -> 6
           [] rpc \in {"header", "param"} -> 5
           [] rpc = "close" -> 4
           [] rpc = "down" -> 3

work == 2 * Len(rx) + stage

(* One of the two threads can run.                                         *)
CanRun ==
  \/ cpc \in {"status", "post"}
  \/ cpc = "connect" /\ connect_fd # 0
  \/ cpc = "poll" /\ connect_status = 0 /\ opened < MAX_CONN
  \/ rpc = "wait" /\ gsem_link > 0
  \/ rpc = "header" /\ (rx # <<>> \/ peer = "closed")
  \/ rpc = "param" /\ ((rx # <<>> /\ nhas_recv < length) \/ peer = "closed")
  \/ rpc \in {"analyze", "close", "down"}

(* They do not both wait for each other: while a command has not been      *)
(* executed, or the host has hung up, one of them can run, but for a       *)
(* socket() that failed and the bound.                                     *)
NoStandstill ==
  \/ CanRun \/ Stuck
  \/ opened = MAX_CONN /\ peer = "closed"
  \/ peer = "open" /\ Len(executed) = Len(sent)

(* Their steps bring them nearer, and only a command or a new connection   *)
(* takes that back.                                                        *)
NearerStep ==
  /\ Connect \/ Recv => work' < work
  /\ work' > work => accepted \/ \E c \in Cmd : host_send(c)

LEMMA StandingInvariance == Spec => []Standing
<1>1. Init => Standing
  BY DEF Init, Standing
<1>2. ConnInv /\ Standing /\ [Next]_vars => Standing'
  <2> SUFFICES ASSUME ConnInv, Standing, [Next]_vars PROVE Standing'
    OBVIOUS
  <2>1. connect_fd \in {0, opened} /\ opened \in Nat /\ MAX_CONN \in Nat /\ connect_fd \in 0 .. MAX_CONN
    BY LinkAssumption DEF ConnInv, ConnType, Baton
  <2>2. ASSUME UNCHANGED connVars, UNCHANGED rpc, peer' = peer \/ peer' = "closed" PROVE Standing'
    BY <2>2 DEF connVars, Standing, Connected
  <2>3. CASE make_socket
    <3>1. peer # "open"
      BY <2>3 DEF make_socket, disconnected, Standing, Connected, ConnInv, Baton
    <3> QED
      BY <2>3, <3>1 DEF make_socket, hostVars, Standing
  <2>4. CASE accepted
    <3>1. rpc = "wait" /\ connect_fd \in Conn
      BY <2>1, <2>4 DEF accepted, ConnInv, Baton, Conn
    <3> QED
      BY <2>4, <3>1 DEF accepted, Standing, Connected, ConnInv, ConnType
  <2>5. CASE raise_status \/ post_link
    BY <2>5 DEF raise_status, post_link, hostVars, recvVars, Standing, Connected
  <2>6. CASE Recv
    <3>1. CASE close_link \/ lower_status
      BY <3>1 DEF close_link, lower_status, hostVars, Standing
    <3>2. CASE read_fails
      BY <3>2 DEF read_fails, hostVars, Standing
    <3>3. CASE wait_link \/ local_cmd_analyze
      BY <3>3 DEF wait_link, local_cmd_analyze, connVars, hostVars, Standing, Connected
    <3>4. ASSUME NEW n \in 1 .. Len(rx), read_header(n) \/ read_param(n) PROVE Standing'
      <4>1. UNCHANGED connVars /\ peer' = peer /\ rpc' \in {"header", "param", "analyze"}
        BY <3>4 DEF read_header, read_param
      <4>2. rpc \in {"header", "param"}
        BY <3>4 DEF read_header, read_param
      <4> QED
        BY <4>1, <4>2 DEF connVars, Standing, Connected
    <3> QED
      BY <2>6, <3>1, <3>2, <3>3, <3>4 DEF Recv
  <2>7. (\E c \in Cmd : host_send(c)) \/ host_close \/ (\E n \in Items : pend(n)) \/ write \/ UNCHANGED vars =>
          UNCHANGED connVars /\ UNCHANGED rpc /\ (peer' = peer \/ peer' = "closed")
    BY DEF host_send, host_close, pend, write, vars, recvVars, hostVars
  <2> QED
    BY <2>2, <2>3, <2>4, <2>5, <2>6, <2>7 DEF Next, Connect
<1>3. Inv => ConnInv
  BY DEF Inv
<1> QED
  BY <1>1, <1>2, <1>3, Invariance, PTL DEF Spec

LEMMA OneCanRun == ASSUME Inv, Standing PROVE NoStandstill
<1>1. ConnType /\ Baton /\ ReadType /\ Reading
  BY DEF Inv, ConnInv, ReadInv
<1>2. CASE cpc # "poll"
  BY <1>1, <1>2 DEF ConnType, CanRun, Stuck, NoStandstill
<1>3. CASE cpc = "poll" /\ rpc = "wait" /\ connect_status = 0
  <2>1. peer = "closed"
    BY <1>1, <1>3 DEF Baton, Standing, Connected, ReadType
  <2> QED
    BY <1>1, <1>3, <2>1, LinkAssumption DEF ConnType, CanRun, NoStandstill
<1>4. CASE cpc = "poll" /\ rpc = "wait" /\ connect_status = 1
  BY <1>1, <1>4 DEF Baton, CanRun, NoStandstill
<1>5. CASE rpc = "header"
  <2>1. CASE rx # <<>> \/ peer = "closed"
    BY <1>5, <2>1 DEF CanRun, NoStandstill
  <2>2. CASE rx = <<>> /\ peer = "open"
    <3>1. Expect(current, 1)
      BY <1>1, <1>5, <2>2 DEF Reading, Expect
    <3>2. Len(executed) + 1 = Len(sent) + 1 /\ Len(executed) \in Nat /\ Len(sent) \in Nat
      BY <1>1, <2>2, <3>1 DEF Expect, current, ReadType
    <3> QED
      BY <2>2, <3>2 DEF NoStandstill
  <2> QED
    BY <1>1, <2>1, <2>2 DEF ReadType
<1>6. CASE rpc = "param"
  <2>1. nhas_recv < length /\ Expect(current, nhas_recv + 3) /\ nhas_recv \in Nat
    BY <1>1, <1>6 DEF Reading, ReadType
  <2>2. rx # <<>>
    BY <2>1 DEF Expect
  <2> QED
    BY <1>6, <2>1, <2>2 DEF CanRun, NoStandstill
<1>7. CASE rpc \in {"analyze", "close", "down"}
  BY <1>7 DEF CanRun, NoStandstill
<1> QED
  BY <1>1, <1>2, <1>3, <1>4, <1>5, <1>6, <1>7 DEF ConnType

(* A read shortens the rest of the stream and leads to a stage one higher  *)
(* at most.                                                                *)
LEMMA ReadsShorten ==
  ASSUME Inv, NEW n \in 1 .. Len(rx), read_header(n) \/ read_param(n)
  PROVE  work' < work
<1>1. ConnType /\ Baton /\ ReadType
  BY DEF Inv, ConnInv, ReadInv
<1>2. n \in Nat /\ n >= 1 /\ n <= Len(rx) /\ Len(rx) \in Nat
  BY <1>1 DEF ReadType
<1>3. rx' = SubSeq(rx, n + 1, Len(rx))
  BY DEF read_header, read_param
<1>4. Len(rx') = Len(rx) - n
  BY <1>1, <1>2, <1>3 DEF ReadType
<1>5. cpc = "poll" /\ cpc' = "poll"
  BY <1>1 DEF read_header, read_param, connVars, Baton
<1>6. stage = 5
  BY <1>5 DEF read_header, read_param, stage
<1>7. stage' = 5 \/ stage' = 6
  <2>1. rpc' \in {"header", "param", "analyze"}
    BY DEF read_header, read_param
  <2> QED
    BY <1>5, <2>1 DEF stage
<1> QED
  BY <1>2, <1>4, <1>6, <1>7 DEF work

LEMMA WorkShrinks == ASSUME Inv, Connect \/ Recv PROVE work' < work
<1>1. ConnType /\ Baton /\ ReadType
  BY DEF Inv, ConnInv, ReadInv
<1>2. Len(rx) \in Nat
  BY <1>1 DEF ReadType
<1>3. ASSUME rx' = rx, stage \in Nat, stage' \in Nat, stage' < stage PROVE work' < work
  BY <1>2, <1>3 DEF work
<1>4. CASE make_socket
  <2>1. rpc = "wait" /\ rpc' = rpc /\ connect_status' = connect_status /\ rx' = rx
    BY <1>1, <1>4 DEF make_socket, disconnected, hostVars, recvVars, Baton
  <2>2. stage = 2 /\ stage' = 1
    BY <1>4, <2>1 DEF make_socket, disconnected, stage
  <2> QED
    BY <1>3, <2>1, <2>2
<1>5. CASE raise_status
  <2>1. stage = 8 /\ stage' = 7 /\ rx' = rx
    BY <1>5 DEF raise_status, hostVars, stage
  <2> QED
    BY <1>3, <2>1
<1>6. CASE post_link
  <2>1. rpc = "wait" /\ rpc' = rpc /\ connect_status = 1 /\ connect_status' = 1 /\ rx' = rx
    BY <1>1, <1>6 DEF post_link, hostVars, recvVars, Baton
  <2>2. stage = 7 /\ stage' = 6
    BY <1>6, <2>1 DEF post_link, stage
  <2> QED
    BY <1>3, <2>1, <2>2
<1>7. CASE wait_link
  <2>1. CASE cpc = "poll"
    <3>1. connect_status = 1
      BY <1>1, <1>7, <2>1 DEF wait_link, Baton, ConnType
    <3>2. stage = 6 /\ stage' = 5 /\ rx' = rx
      BY <1>7, <2>1, <3>1 DEF wait_link, hostVars, stage
    <3> QED
      BY <1>3, <3>2
  <2>2. CASE cpc # "poll"
    BY <1>1, <1>7, <2>2 DEF wait_link, Baton, ConnType
  <2> QED
    BY <2>1, <2>2
<1>8. CASE local_cmd_analyze
  <2>1. cpc = "poll" /\ cpc' = "poll" /\ rx' = rx
    BY <1>1, <1>8 DEF local_cmd_analyze, connVars, hostVars, Baton
  <2>2. stage = 6 /\ stage' = 5
    BY <1>8, <2>1 DEF local_cmd_analyze, stage
  <2> QED
    BY <1>3, <2>1, <2>2
<1>9. CASE read_fails
  <2>1. cpc = "poll" /\ cpc' = "poll" /\ rx' = rx
    BY <1>1, <1>9 DEF read_fails, connVars, hostVars, Baton
  <2>2. stage = 5 /\ stage' = 4
    BY <1>9, <2>1 DEF read_fails, stage
  <2> QED
    BY <1>3, <2>1, <2>2
<1>10. CASE close_link
  <2>1. cpc = "poll" /\ cpc' = "poll" /\ rx' = rx
    BY <1>1, <1>10 DEF close_link, hostVars, Baton
  <2>2. stage = 4 /\ stage' = 3
    BY <1>10, <2>1 DEF close_link, stage
  <2> QED
    BY <1>3, <2>1, <2>2
<1>11. CASE lower_status
  <2>1. cpc = "poll" /\ cpc' = "poll" /\ rx' = rx
    BY <1>1, <1>11 DEF lower_status, hostVars, Baton
  <2>2. stage = 3 /\ stage' = 2
    BY <1>11, <2>1 DEF lower_status, lowered, stage
  <2> QED
    BY <1>3, <2>1, <2>2
<1> QED
  BY <1>4, <1>5, <1>6, <1>7, <1>8, <1>9, <1>10, <1>11, ReadsShorten DEF Connect, Recv

(* The host is served, in two halves that fairness puts together           *)
(* (HostServed): the connecting and the receiving thread are never both    *)
(* stuck while there is something to do, and whatever the host sends or    *)
(* leaves unsent and whenever it hangs up, they have finitely much to do   *)
(* before the next connection (local_socket.c:44-72, 126-160).             *)
THEOREM ServesHost == Spec => []NoStandstill /\ [][NearerStep]_vars
<1>1. Inv /\ Standing => NoStandstill
  BY OneCanRun
<1>2. Inv /\ [Next]_vars => [NearerStep]_vars
  <2> SUFFICES ASSUME Inv, Next PROVE NearerStep
    OBVIOUS
  <2>1. work \in Int /\ work' \in Int
    <3>1. ConnType /\ ReadType /\ ConnType' /\ ReadType'
      <4>1. ConnInv' /\ ReadInv'
        BY NextConnInv, NextReadInv DEF Inv, ReadInv
      <4> QED
        BY <4>1 DEF Inv, ConnInv, ReadInv
    <3>2. stage \in Nat
      BY <3>1 DEF ConnType, stage
    <3>3. stage' \in Nat
      BY <3>1 DEF ConnType, stage
    <3>4. Len(rx) \in Nat /\ Len(rx') \in Nat
      BY <3>1 DEF ReadType
    <3> QED
      BY <3>2, <3>3, <3>4 DEF work
  <2>2. CASE Connect \/ Recv
    <3>1. work' < work
      BY <2>2, WorkShrinks
    <3> QED
      BY <2>1, <3>1 DEF NearerStep
  <2>3. CASE ~(Connect \/ Recv) /\ ~accepted /\ ~\E c \in Cmd : host_send(c)
    <3>1. UNCHANGED <<cpc, rpc, connect_status, rx>>
      BY <2>3 DEF Next, host_close, pend, write, connVars, recvVars, hostVars
    <3>2. work' = work
      BY <3>1 DEF work, stage
    <3> QED
      BY <2>1, <2>3, <3>2 DEF NearerStep
  <2>4. CASE ~(Connect \/ Recv) /\ (accepted \/ \E c \in Cmd : host_send(c))
    BY <2>4 DEF NearerStep
  <2> QED
    BY <2>2, <2>3, <2>4
<1> QED
  BY <1>1, <1>2, Invariance, StandingInvariance, PTL DEF Spec
============================================================================
