-------------------------- MODULE LinkedListProofs -------------------------
(***************************************************************************)
(* Proofs about LinkedList, for any set of nodes.                          *)
(*                                                                         *)
(* The line is history; the argument is about the places of the ring,      *)
(* at(0) .. at(Len(line) + 1), whose first and last are the head.  Forward *)
(* every place points to the next (Fwd).  Backward every place but those   *)
(* named by Gap does (Back), and Hands says what a thread between two      *)
(* writes has in its locals and has written already.  Places says where    *)
(* the buffers are, and how far a reset has got, before and after it has   *)
(* given back the buffer it stands on.                                     *)
(***************************************************************************)
EXTENDS LinkedList, TLAPS

Adding == {"next_prev", "new_next", "new_prev", "prev_next"}
Removing == {"walk", "del_prev", "del_next", "clear"}

linked(n) == \E i \in 1 .. Len(line) : line[i] = n
removed(n) == n = entry /\ dpc \in {"clear", "unlock", "recycle"}
handed(n) == n = new \/ removed(n)

Owner ==
  /\ mutex = "adder" <=> apc \in Adding \cup {"unlock", "clear", "clear_next", "init"}
  /\ mutex = "remover" <=> dpc \in Removing \/ dpc = (IF user = "search" THEN "recycle" ELSE "unlock")
                                            \/ dpc = "unlock"
  /\ user = "distance" => apc \notin {"clear", "clear_next", "init"} /\ dpc # "walk"
  /\ user = "search" => dpc \notin {"pick", "lock"}

Unique == \A i, j \in 1 .. Len(line) : line[i] = line[j] => i = j
Fwd == \A i \in 0 .. Len(line) : next[at(i)] = at(i + 1)

Gap(i) ==
  \/ apc \in {"new_next", "new_prev", "prev_next"} /\ i = Len(line)
  \/ dpc = "del_next" /\ i \in 1 .. Len(line) /\ at(i) = entry
  \/ apc = "init"
Back == \A i \in 0 .. Len(line) : ~Gap(i) => prev[at(i + 1)] = at(i)

Hands ==
  /\ new # Null <=> apc \in Adding \cup {"lock"}
  /\ apc \in {"new_next", "new_prev", "prev_next"} => tail = at(Len(line)) /\ prev[head] = new
  /\ apc \in {"new_prev", "prev_next"} => next[new] = head
  /\ apc = "prev_next" => prev[new] = tail
  /\ apc = "init" => Len(line) = 0
  /\ dpc = "pick" => Len(line) > 0
  /\ dpc \in {"lock", "del_prev", "del_next"} => \E i \in 1 .. Len(line) : line[i] = entry
  /\ dpc \in {"lock", "del_prev", "del_next"} /\ user = "distance" => line[1] = entry
  /\ dpc = "walk" => \E i \in 1 .. Len(line) + 1 : at(i) = entry
  /\ dpc = "del_next" => \A i \in 1 .. Len(line) : line[i] = entry => prev[at(i + 1)] = at(i - 1)
  /\ dpc \in {"clear", "recycle"} \/ (dpc = "unlock" /\ user = "distance") => entry \in Node
  /\ dpc = "unlock" /\ user = "search" => entry = Null

Places ==
  /\ \A n \in Node : n \in free \/ linked(n) \/ handed(n)
  /\ \A n \in Node : handed(n) => n \notin free /\ ~linked(n) /\ ~(n = new /\ removed(n))
  /\ apc \notin {"clear", "clear_next"} => \A i \in 1 .. Len(line) : line[i] \notin free
  /\ apc = "clear" => \E i \in 1 .. Len(line) + 1 :
       at(i) = cur /\ \A j \in 1 .. Len(line) : line[j] \in free <=> j < i
  /\ apc = "clear_next" => \E i \in 1 .. Len(line) :
       at(i) = cur /\ \A j \in 1 .. Len(line) : line[j] \in free <=> j < i + 1

IInv == TypeOK /\ Owner /\ Unique /\ Fwd /\ Back /\ Hands /\ Places

----------------------------------------------------------------------------
(* The places of the ring are different from one another.                  *)
LEMMA At ==
  ASSUME TypeOK, Unique
  PROVE  /\ Len(line) \in Nat /\ at(0) = head /\ at(Len(line) + 1) = head
         /\ \A i \in 1 .. Len(line) : at(i) = line[i] /\ at(i) \in Node /\ at(i) # head /\ at(i) # Null
         /\ \A i : at(i) \in Node \cup {head}
         /\ \A i, j \in 0 .. Len(line) : at(i) = at(j) => i = j
         /\ \A i, j \in 1 .. Len(line) + 1 : at(i) = at(j) => i = j
<1>1. Len(line) \in Nat /\ \A i \in 1 .. Len(line) : line[i] \in Node
  BY DEF TypeOK
<1>2. at(0) = head /\ at(Len(line) + 1) = head
  BY <1>1 DEF at
<1>3. \A i \in 1 .. Len(line) : at(i) = line[i] /\ at(i) \in Node /\ at(i) # head /\ at(i) # Null
  BY <1>1, ListAssumption DEF at
<1>4. \A i \in 0 .. Len(line) + 1 : i \in 1 .. Len(line) \/ i = 0 \/ i = Len(line) + 1
  BY <1>1
<1>5. \A i, j \in 0 .. Len(line) : at(i) = at(j) => i = j
  BY <1>1, <1>2, <1>3, <1>4 DEF Unique
<1>6. \A i, j \in 1 .. Len(line) + 1 : at(i) = at(j) => i = j
  BY <1>1, <1>2, <1>3, <1>4 DEF Unique
<1>7. \A i : at(i) \in Node \cup {head}
  BY <1>1 DEF at
<1> QED
  BY <1>1, <1>2, <1>3, <1>5, <1>6, <1>7

(* A place keeps its node while the line stays as it is.                   *)
LEMMA SamePlaces == line' = line => (Len(line))' = Len(line) /\ \A i : at(i)' = at(i)
BY DEF at

(* Type correctness of the removal.                                        *)
LEMMA WithoutType ==
  ASSUME TypeOK, NEW k \in 1 .. Len(line)
  PROVE  /\ Line!Without(line, k) \in Seq(Node)
         /\ Len(Line!Without(line, k)) = Len(line) - 1
         /\ \A i \in 1 .. Len(line) - 1 : Line!Without(line, k)[i] = IF i < k THEN line[i] ELSE line[i + 1]
<1>1. Len(line) \in Nat /\ \A i \in 1 .. Len(line) : line[i] \in Node
  BY DEF TypeOK
<1>2. \A i \in 1 .. Len(line) - 1 : (IF i < k THEN line[i] ELSE line[i + 1]) \in Node
  BY <1>1
<1>3. Len(line) - 1 \in Nat
  BY <1>1
<1>4. Line!Without(line, k) = [i \in 1 .. Len(line) - 1 |-> IF i < k THEN line[i] ELSE line[i + 1]]
  BY DEF Line!Without
<1>5. Line!Without(line, k) \in Seq(Node) /\ Len(Line!Without(line, k)) = Len(line) - 1
  BY <1>2, <1>3, <1>4
<1> QED
  BY <1>4, <1>5

(* The invariant holds initially.                                          *)
LEMMA InitIInv == Init => IInv
<1> SUFFICES ASSUME Init PROVE IInv
  OBVIOUS
<1>0. line = <<>> /\ Len(line) = 0
  BY DEF Init
<1>1. TypeOK
  BY <1>0 DEF Init, TypeOK, Pointer
<1>2. Owner /\ Unique
  BY <1>0 DEF Init, Owner, Unique, Adding, Removing
<1>3. at(0) = head /\ at(1) = head /\ next[head] = head /\ prev[head] = head
  BY <1>0 DEF Init, at
<1>4. Fwd /\ Back
  BY <1>0, <1>3 DEF Fwd, Back
<1>5. Hands
  BY <1>0 DEF Init, Hands, Adding
<1>6. Places
  BY <1>0, ListAssumption DEF Init, Places, handed, removed, linked
<1> QED
  BY <1>1, <1>2, <1>4, <1>5, <1>6 DEF IInv

----------------------------------------------------------------------------
(* Every variable keeps its type, and only the mutex's owner is inside.    *)
LEMMA TypeStep == IInv /\ Next => TypeOK' /\ Owner'
<1> SUFFICES ASSUME IInv, Next PROVE TypeOK' /\ Owner'
  OBVIOUS
<1> USE DEF adder, remover
<1>0. TypeOK /\ Owner /\ Unique /\ Hands
  BY DEF IInv
<1>1. CASE Add
  <2>1. CASE produce \/ lock_add \/ unlock_add
    BY <1>0, <2>1 DEF produce, lock_add, unlock_add, TypeOK, Owner, Adding, Removing
  <2>2. CASE next_prev
    BY <1>0, <2>2 DEF next_prev, last, TypeOK, Owner, Hands, Adding, Removing, Pointer
  <2>3. CASE new_next
    BY <1>0, <2>3 DEF new_next, TypeOK, Owner, Hands, Adding, Removing, Pointer
  <2>4. CASE new_prev
    BY <1>0, <2>4 DEF new_prev, TypeOK, Owner, Hands, Adding, Removing, Pointer
  <2>5. CASE prev_next
    <3>1. new \in Node
      BY <1>0, <2>5 DEF prev_next, Hands, TypeOK, Adding
    <3>2. line' \in Seq(Node) /\ next' \in [Node \cup {head} -> Pointer]
      <4>1. line \in Seq(Node) /\ line' = Append(line, new)
        BY <1>0, <2>5 DEF prev_next, TypeOK
      <4>2. line' \in Seq(Node)
        BY <3>1, <4>1
      <4>3. next' \in [Node \cup {head} -> Pointer]
        BY <1>0, <2>5, <3>1 DEF prev_next, TypeOK, Pointer
      <4> QED
        BY <4>2, <4>3
    <3> QED
      BY <1>0, <2>5, <3>2 DEF prev_next, TypeOK, Owner, Adding, Removing, Pointer
  <2> QED
    BY <1>1, <2>1, <2>2, <2>3, <2>4, <2>5 DEF Add
<1>2. CASE Reset
  <2>1. CASE lock_clear
    BY <1>0, <2>1 DEF lock_clear, TypeOK, Owner, Adding, Removing
  <2>2. CASE clear_node
    <3>1. cur \in Node
      <4>1. PICK i \in 1 .. Len(line) + 1 : at(i) = cur
        BY <2>2 DEF clear_node, IInv, Places
      <4>2. Len(line) \in Nat /\ i # Len(line) + 1
        BY <1>0, <2>2, <4>1, At DEF clear_node
      <4>3. i \in 1 .. Len(line)
        BY <4>2
      <4> QED
        BY <1>0, <4>1, <4>3, At
    <3> QED
      BY <1>0, <2>2, <3>1 DEF clear_node, recycled, TypeOK, Owner, Adding, Removing
  <2>5. CASE clear_next
    <3>1. cur \in Node
      BY <1>0, <2>5, At DEF clear_next, IInv, Places
    <3> QED
      BY <1>0, <2>5, <3>1 DEF clear_next, TypeOK, Owner, Adding, Removing
  <2>3. CASE init_next
    <3>1. line' \in Seq(Node)
      BY <2>3 DEF init_next
    <3> QED
      BY <1>0, <2>3, <3>1 DEF init_next, TypeOK, Owner, Adding, Removing, Pointer
  <2>4. CASE init_prev
    BY <1>0, <2>4 DEF init_prev, TypeOK, Owner, Adding, Removing, Pointer
  <2> QED
    BY <1>2, <2>1, <2>2, <2>3, <2>4, <2>5 DEF Reset
<1>3. CASE Find
  <2>1. CASE list_empty \/ pick \/ lock_del \/ lock_search \/ search_fails
    BY <1>0, <2>1 DEF list_empty, pick, lock_del, lock_search, search_fails, TypeOK, Owner, Adding, Removing, Pointer
  <2>2. CASE walk
    <3>1. entry \in Node
      <4>1. PICK i \in 1 .. Len(line) + 1 : at(i) = entry
        BY <1>0, <2>2 DEF walk, Hands
      <4>2. Len(line) \in Nat /\ i # Len(line) + 1
        BY <1>0, <2>2, <4>1, At DEF walk
      <4>3. i \in 1 .. Len(line)
        BY <4>2
      <4> QED
        BY <1>0, <4>1, <4>3, At
    <3> QED
      BY <1>0, <2>2, <3>1 DEF walk, TypeOK, Owner, Adding, Removing
  <2> QED
    BY <1>3, <2>1, <2>2 DEF Find
<1>4. CASE Del
  <2>0. dpc \in {"del_prev", "del_next"} => entry \in Node
    BY <1>0 DEF Hands, TypeOK
  <2>1. CASE del_prev
    BY <1>0, <2>0, <2>1 DEF del_prev, unlinked_prev, TypeOK, Owner, Adding, Removing
  <2>2. CASE del_next
    <3>1. line' \in Seq(Node)
      BY <1>0, <2>2, WithoutType DEF del_next, TypeOK
    <3>2. next' \in [Node \cup {head} -> Pointer]
      BY <1>0, <2>0, <2>2 DEF del_next, TypeOK
    <3> QED
      BY <1>0, <2>2, <3>1, <3>2 DEF del_next, TypeOK, Owner, Adding, Removing
  <2>3. CASE del_clear
    BY <1>0, <2>3 DEF del_clear, TypeOK, Owner, Adding, Removing, Pointer
  <2>4. CASE unlock_del
    BY <1>0, <2>4 DEF unlock_del, TypeOK, Owner, Adding, Removing
  <2>5. CASE buf_factory_recycle
    BY <1>0, <2>5 DEF buf_factory_recycle, recycled, TypeOK, Owner, Hands, Adding, Removing, Pointer
  <2> QED
    BY <1>4, <2>1, <2>2, <2>3, <2>4, <2>5 DEF Del
<1> QED
  BY <1>1, <1>2, <1>3, <1>4 DEF Next

RInv == Unique /\ Fwd /\ Back /\ Hands /\ Places

(* The steps that write no pointer: the ring stays as it is.               *)
LEMMA StillStep ==
  ASSUME IInv, UNCHANGED <<next, prev, line>>
  PROVE  /\ Unique' /\ Fwd'
         /\ (\A i \in 0 .. Len(line) : Gap(i) => Gap(i)') => Back'
<1>1. (Len(line))' = Len(line) /\ \A i : at(i)' = at(i)
  BY SamePlaces
<1>2. Unique'
  BY DEF IInv, Unique
<1>3. Fwd'
  BY <1>1 DEF IInv, Fwd
<1>4. (\A i \in 0 .. Len(line) : Gap(i) => Gap(i)') => Back'
  BY <1>1 DEF IInv, Back
<1> QED
  BY <1>2, <1>3, <1>4

LEMMA AddStillStep ==
  ASSUME IInv, produce \/ lock_add \/ unlock_add
  PROVE  RInv'
<1> USE DEF IInv, adder, remover
<1>0. UNCHANGED <<next, prev, line, dpc, entry, user>> /\ Len(line)' = Len(line) /\ \A i : at(i)' = at(i)
  BY SamePlaces DEF produce, lock_add, unlock_add
<1>1. Unique' /\ Fwd' /\ Back'
  <2>1. \A i \in 0 .. Len(line) : Gap(i) => Gap(i)'
    BY <1>0 DEF produce, lock_add, unlock_add, Gap
  <2> QED
    BY <1>0, <2>1, StillStep
<1>2. Hands'
  BY <1>0, ListAssumption DEF produce, lock_add, unlock_add, Hands, Adding, TypeOK
<1>3. Places'
  <2>1. \A n : linked(n)' = linked(n)
    BY <1>0 DEF linked
  <2>2. CASE produce
    <3>1. PICK b \in free : new' = b /\ free' = free \ {b}
      BY <2>2 DEF produce
    <3>2. b \in Node /\ ~linked(b) /\ ~handed(b) /\ new = Null
      BY <2>2, <3>1 DEF produce, TypeOK, Places, linked, Hands, Adding
    <3>3. \A n \in Node : handed(n)' <=> n = b \/ handed(n)
      BY <1>0, <3>1, <3>2, ListAssumption DEF handed, removed
    <3>5. ~removed(b) /\ \A n \in Node : removed(n)' = removed(n)
      BY <1>0, <3>2 DEF handed, removed
    <3>6. apc = "idle" /\ apc' = "lock"
      BY <2>2 DEF produce
    <3>7. \A n \in Node : n \in free' \/ linked(n)' \/ handed(n)'
      BY <2>1, <3>1, <3>3 DEF Places
    <3>8. ASSUME NEW n \in Node, handed(n)'
          PROVE  n \notin free' /\ ~linked(n)' /\ ~(n = new' /\ removed(n)')
      <4>1. CASE n = b
        BY <2>1, <3>1, <3>2, <3>5, <4>1
      <4>2. CASE n # b
        BY <2>1, <3>1, <3>3, <3>5, <3>8, <4>2 DEF Places
      <4> QED
        BY <4>1, <4>2
    <3>9. \A i \in 1 .. Len(line)' : line'[i] \notin free'
      BY <1>0, <3>1, <3>6 DEF Places
    <3> QED
      BY <3>6, <3>7, <3>8, <3>9 DEF Places
  <2>3. CASE lock_add \/ unlock_add
    BY <1>0, <2>1, <2>3 DEF lock_add, unlock_add, Places, handed, removed
  <2> QED
    BY <2>2, <2>3
<1> QED
  BY <1>1, <1>2, <1>3 DEF RInv

LEMMA ResetStillStep ==
  ASSUME IInv, lock_clear \/ clear_node \/ clear_next
  PROVE  RInv'
<1> USE DEF IInv, adder, remover
<1>0. /\ UNCHANGED <<next, prev, line, dpc, entry, user, new, tail>> /\ Len(line)' = Len(line)
      /\ \A i : at(i)' = at(i)
  BY SamePlaces DEF lock_clear, clear_node, clear_next
<1>1. Unique' /\ Fwd' /\ Back'
  <2>1. \A i \in 0 .. Len(line) : Gap(i) => Gap(i)'
    BY <1>0 DEF lock_clear, clear_node, clear_next, Gap
  <2> QED
    BY <1>0, <2>1, StillStep
<1>2. Hands'
  BY <1>0 DEF lock_clear, clear_node, clear_next, Hands, Adding
<1>3. Places'
  <2>1. \A n : linked(n)' = linked(n) /\ handed(n)' = handed(n) /\ removed(n)' = removed(n)
    BY <1>0 DEF linked, handed, removed
  <2>2. CASE lock_clear
    <3>1. apc \notin {"clear", "clear_next"} /\ apc' = "clear" /\ free' = free /\ cur' = next[head]
      BY <2>2 DEF lock_clear
    <3>2. cur' = at(1) /\ Len(line) \in Nat /\ 1 \in 1 .. Len(line) + 1
      BY <3>1, At DEF Fwd
    <3>3. \A j \in 1 .. Len(line) : line[j] \in free <=> j < 1
      BY <3>1, <3>2 DEF Places
    <3> QED
      BY <1>0, <2>1, <3>1, <3>2, <3>3 DEF Places
  <2>3. CASE clear_node
    <3>1. apc = "clear" /\ apc' = "clear_next" /\ free' = free \cup {cur} /\ cur' = cur /\ cur # head
      BY <2>3 DEF clear_node, recycled
    <3>2. PICK i \in 1 .. Len(line) + 1 :
            at(i) = cur /\ \A j \in 1 .. Len(line) : line[j] \in free <=> j < i
      BY <3>1 DEF Places
    <3>3. Len(line) \in Nat /\ i \in 1 .. Len(line) /\ line[i] = cur
      BY <3>1, <3>2, At
    <3>4. \A j \in 1 .. Len(line) : line[j] \in free' <=> j < i + 1
      BY <3>1, <3>2, <3>3 DEF Unique
    <3>5. linked(cur)
      BY <3>3 DEF linked
    <3>6. \A n \in Node : handed(n) => n # cur
      BY <3>5 DEF Places
    <3> QED
      BY <1>0, <2>1, <3>1, <3>2, <3>3, <3>4, <3>6 DEF Places
  <2>4. CASE clear_next
    <3>1. apc = "clear_next" /\ apc' = "clear" /\ free' = free /\ cur' = next[cur]
      BY <2>4 DEF clear_next
    <3>2. PICK i \in 1 .. Len(line) :
            at(i) = cur /\ \A j \in 1 .. Len(line) : line[j] \in free <=> j < i + 1
      BY <3>1 DEF Places
    <3>3. cur' = at(i + 1) /\ i + 1 \in 1 .. Len(line) + 1
      BY <3>1, <3>2, At DEF Fwd
    <3> QED
      BY <1>0, <2>1, <3>1, <3>2, <3>3 DEF Places
  <2> QED
    BY <2>2, <2>3, <2>4
<1> QED
  BY <1>1, <1>2, <1>3 DEF RInv

LEMMA FindStep ==
  ASSUME IInv, Find
  PROVE  RInv'
<1> USE DEF IInv, adder, remover
<1>0. /\ UNCHANGED <<next, prev, line, free, apc, new, tail, cur, user>> /\ Len(line)' = Len(line)
      /\ \A i : at(i)' = at(i)
  BY SamePlaces DEF Find, list_empty, pick, lock_del, lock_search, walk, search_fails
<1>00. /\ Len(line) \in Nat /\ at(1) = next[head] /\ 1 \in 1 .. Len(line) + 1
       /\ (Len(line) = 0 => at(1) = head) /\ (Len(line) > 0 => at(1) = line[1] /\ at(1) # head)
  <2>1. Len(line) \in Nat /\ at(0) = head /\ at(Len(line) + 1) = head
    BY At
  <2>2. 0 \in 0 .. Len(line) /\ at(0 + 1) = at(1)
    BY <2>1
  <2>3. next[head] = at(1)
    BY <2>1, <2>2 DEF Fwd
  <2>4. Len(line) > 0 => 1 \in 1 .. Len(line)
    BY <2>1
  <2> QED
    BY <2>1, <2>3, <2>4, At
<1>1. Unique' /\ Fwd' /\ Back'
  <2>1. \A i \in 0 .. Len(line) : Gap(i) => Gap(i)'
    BY <1>0 DEF Find, list_empty, pick, lock_del, lock_search, walk, search_fails, Gap
  <2> QED
    BY <1>0, <2>1, StillStep
<1>2. Hands'
  <2>1. CASE list_empty
    BY <1>0, <1>00, <2>1 DEF list_empty, Hands, Adding
  <2>2. CASE pick
    <3>1. entry' = line[1] /\ 1 \in 1 .. Len(line)
      BY <1>00, <2>2 DEF pick, Hands
    <3> QED
      BY <1>0, <2>2, <3>1 DEF pick, Hands, Adding
  <2>3. CASE lock_del
    BY <1>0, <2>3 DEF lock_del, Hands, Adding
  <2>4. CASE lock_search
    BY <1>0, <1>00, <2>4 DEF lock_search, Hands, Adding
  <2>5. CASE walk
    <3>1. PICK i \in 1 .. Len(line) + 1 : at(i) = entry
      BY <2>5 DEF walk, Hands
    <3>2. i \in 1 .. Len(line) /\ line[i] = entry /\ i + 1 \in 1 .. Len(line) + 1 /\ next[entry] = at(i + 1)
      BY <1>00, <2>5, <3>1, At DEF walk, Fwd
    <3>3. user = "search"
      BY <2>5 DEF walk, Owner, TypeOK
    <3> QED
      BY <1>0, <2>5, <3>2, <3>3 DEF walk, Hands, Adding
  <2>6. CASE search_fails
    BY <1>0, <2>6 DEF search_fails, Hands, Adding
  <2> QED
    BY <2>1, <2>2, <2>3, <2>4, <2>5, <2>6 DEF Find
<1>3. Places'
  <2>1. \A n : linked(n)' = linked(n)
    BY <1>0 DEF linked
  <2>2. \A n : removed(n)' = removed(n) /\ handed(n)' = handed(n)
    BY <1>0 DEF Find, list_empty, pick, lock_del, lock_search, walk, search_fails, handed, removed
  <2> QED
    BY <1>0, <2>1, <2>2 DEF Places
<1> QED
  BY <1>1, <1>2, <1>3 DEF RInv

LEMMA RecycleStep ==
  ASSUME IInv, unlock_del \/ buf_factory_recycle
  PROVE  RInv'
<1> USE DEF IInv, adder, remover
<1>0. /\ UNCHANGED <<next, prev, line, apc, new, tail, cur, user>> /\ Len(line)' = Len(line)
      /\ \A i : at(i)' = at(i)
  BY SamePlaces DEF unlock_del, buf_factory_recycle
<1>1. Unique' /\ Fwd' /\ Back'
  <2>1. \A i \in 0 .. Len(line) : Gap(i) => Gap(i)'
    BY <1>0 DEF unlock_del, buf_factory_recycle, Gap
  <2> QED
    BY <1>0, <2>1, StillStep
<1>2. Hands'
  BY <1>0 DEF unlock_del, buf_factory_recycle, Hands, Adding, TypeOK
<1>3. Places'
  <2>1. \A n : linked(n)' = linked(n)
    BY <1>0 DEF linked
  <2>2. CASE unlock_del
    <3>1. \A n \in Node : removed(n)' = removed(n)
      BY <1>0, <2>2, ListAssumption DEF unlock_del, removed, Hands, TypeOK
    <3>2. \A n \in Node : handed(n)' = handed(n)
      BY <1>0, <3>1 DEF handed
    <3> QED
      BY <1>0, <2>1, <2>2, <3>1, <3>2 DEF unlock_del, Places
  <2>3. CASE buf_factory_recycle
    <3>1. entry \in Node /\ removed(entry) /\ free' = free \cup {entry} /\ entry' = Null
      BY <2>3 DEF buf_factory_recycle, recycled, Hands, removed
    <3>2. entry \notin free /\ ~linked(entry) /\ entry # new
      BY <3>1 DEF Places, handed
    <3>3. \A n \in Node : ~removed(n)' /\ (handed(n)' <=> n = new)
      BY <1>0, <3>1, ListAssumption DEF handed, removed
    <3>4. \A n \in Node : handed(n) => n = entry \/ n = new
      BY DEF handed, removed
    <3>5. \A i \in 1 .. Len(line) : line[i] # entry
      BY <3>2 DEF linked
    <3>6. apc \notin {"clear", "clear_next"}
      BY <2>3 DEF buf_factory_recycle, Owner, TypeOK
    <3>7. \A n \in Node : n = new => n \notin free /\ ~linked(n)
      BY DEF Places, handed
    <3> QED
      BY <1>0, <2>1, <3>1, <3>2, <3>3, <3>4, <3>5, <3>6, <3>7 DEF Places
  <2> QED
    BY <2>2, <2>3
<1> QED
  BY <1>1, <1>2, <1>3 DEF RInv

(* Three of the four writes of _list_add leave the forward ring alone.     *)
LEMMA NextPrevStep ==
  ASSUME IInv, next_prev
  PROVE  RInv'
<1> USE DEF IInv, adder, remover
<1>0. /\ UNCHANGED <<next, line, new, cur, dpc, entry, user, free>> /\ Len(line)' = Len(line)
      /\ \A i : at(i)' = at(i)
      /\ tail' = prev[head] /\ prev' = [prev EXCEPT ![head] = new] /\ apc = "next_prev" /\ apc' = "new_next"
  BY SamePlaces DEF next_prev, last
<1>1. dpc \notin Removing
  BY <1>0 DEF Owner, Adding, Removing, TypeOK
<1>2. /\ Len(line) \in Nat /\ at(Len(line) + 1) = head /\ Len(line) \in 0 .. Len(line)
      /\ \A i \in 0 .. Len(line) : i # Len(line) => at(i + 1) # head
  <2>1. Len(line) \in Nat
    BY At
  <2>2. \A i \in 0 .. Len(line) : i # Len(line) => i + 1 \in 1 .. Len(line)
    BY <2>1
  <2> QED
    BY <2>1, <2>2, At
<1>3. prev'[head] = new /\ \A x \in Node \cup {head} : x # head => prev'[x] = prev[x]
  BY <1>0 DEF TypeOK
<1>4. \A i \in 0 .. Len(line) : at(i + 1) \in Node \cup {head}
  <2>1. \A i \in 0 .. Len(line) : i + 1 \in 1 .. Len(line) \/ i = Len(line)
    BY <1>2
  <2> QED
    BY <1>2, <2>1, At
<1>5. \A i \in 0 .. Len(line) : ~Gap(i)
  BY <1>0, <1>1 DEF Gap, Removing
<1>6. prev[head] = at(Len(line))
  BY <1>2, <1>5 DEF Back
<1>7. Unique' /\ Fwd'
  BY <1>0 DEF Unique, Fwd
<1>8. Back'
  <2> SUFFICES ASSUME NEW i \in 0 .. Len(line), ~Gap(i)' PROVE prev'[at(i + 1)] = at(i)
    BY <1>0 DEF Back
  <2>1. i # Len(line)
    BY <1>0 DEF Gap
  <2> QED
    BY <2>1, <1>2, <1>3, <1>4, <1>5 DEF Back
<1>9. Hands'
  BY <1>0, <1>1, <1>3, <1>6 DEF Hands, Adding, Removing
<1>10. Places'
  BY <1>0 DEF Places, linked, handed, removed
<1> QED
  BY <1>7, <1>8, <1>9, <1>10 DEF RInv

(* The new node is not yet a place of the ring.                            *)
LEMMA NewOutside ==
  ASSUME IInv, apc \in Adding
  PROVE  /\ new \in Node /\ new # head /\ ~linked(new) /\ dpc \notin Removing
         /\ \A i \in 0 .. Len(line) + 1 : at(i) # new
         /\ Len(line) \in Nat
<1>1. new \in Node /\ new # head
  BY ListAssumption DEF IInv, Hands, Adding, TypeOK
<1>2. ~linked(new)
  BY <1>1 DEF IInv, Places, handed
<1>3. \A i \in 0 .. Len(line) + 1 : at(i) # new
  BY <1>1, <1>2 DEF at, linked
<1>4. dpc \notin Removing
  BY DEF IInv, Owner, Adding, Removing, TypeOK
<1>5. Len(line) \in Nat
  BY At DEF IInv
<1> QED
  BY <1>1, <1>2, <1>3, <1>4, <1>5

LEMMA NewNodeStep ==
  ASSUME IInv, new_next \/ new_prev
  PROVE  RInv'
<1> USE DEF IInv, adder, remover
<1>0. /\ UNCHANGED <<line, new, tail, cur, dpc, entry, user, free>> /\ Len(line)' = Len(line)
      /\ \A i : at(i)' = at(i)
      /\ \/ apc = "new_next" /\ apc' = "new_prev" /\ next' = [next EXCEPT ![new] = head] /\ prev' = prev
         \/ apc = "new_prev" /\ apc' = "prev_next" /\ prev' = [prev EXCEPT ![new] = tail] /\ next' = next
  BY SamePlaces DEF new_next, new_prev
<1>1. /\ new \in Node /\ new # head /\ ~linked(new) /\ dpc \notin Removing
      /\ \A i \in 0 .. Len(line) + 1 : at(i) # new
      /\ Len(line) \in Nat
  BY <1>0, NewOutside DEF Adding
<1>2. \A i \in 0 .. Len(line) : next'[at(i)] = next[at(i)] /\ prev'[at(i + 1)] = prev[at(i + 1)]
  <2>1. \A i \in 0 .. Len(line) : i \in 0 .. Len(line) + 1 /\ i + 1 \in 0 .. Len(line) + 1
    BY <1>1
  <2>2. \A x \in Node \cup {head} : x # new => next'[x] = next[x] /\ prev'[x] = prev[x]
    BY <1>0, <1>1 DEF TypeOK
  <2>3. \A i \in 0 .. Len(line) + 1 : at(i) \in Node \cup {head} /\ at(i) # new
    BY <1>1, At
  <2> QED
    BY <2>1, <2>2, <2>3
<1>3. Unique' /\ Fwd'
  BY <1>0, <1>2 DEF Unique, Fwd
<1>4. Back'
  <2>1. \A i \in 0 .. Len(line) : Gap(i) => Gap(i)'
    BY <1>0 DEF Gap
  <2> QED
    BY <1>0, <1>2, <2>1 DEF Back
<1>5. prev'[head] = prev[head] /\ (apc = "new_next" => next'[new] = head) /\ (apc = "new_prev" => prev'[new] = tail)
  BY <1>0, <1>1 DEF TypeOK
<1>6. Hands'
  BY <1>0, <1>1, <1>5 DEF Hands, Adding, Removing
<1>7. Places'
  BY <1>0 DEF Places, linked, handed, removed
<1> QED
  BY <1>3, <1>4, <1>6, <1>7 DEF RInv

(* The fourth write makes the new node the last place of the ring.         *)
LEMMA PrevNextStep ==
  ASSUME IInv, prev_next
  PROVE  RInv'
<1> USE DEF IInv, adder, remover
<1> DEFINE N == Len(line)
<1>0. /\ UNCHANGED <<prev, cur, dpc, entry, user, free>>
      /\ apc = "prev_next" /\ apc' = "unlock" /\ new' = Null /\ tail' = Null
      /\ next' = [next EXCEPT ![tail] = new] /\ line' = Append(line, new)
  BY DEF prev_next
<1>1. /\ new \in Node /\ new # head /\ ~linked(new) /\ dpc \notin Removing
      /\ \A i \in 0 .. N + 1 : at(i) # new
      /\ N \in Nat
  BY <1>0, NewOutside DEF Adding
<1>2. Len(line') = N + 1 /\ line'[N + 1] = new /\ \A i \in 1 .. N : line'[i] = line[i]
  BY <1>0, <1>1 DEF TypeOK
<1>3. \A i : /\ i = N + 1 => at(i)' = new
             /\ i = N + 2 => at(i)' = head
             /\ i \in 0 .. N => at(i)' = at(i)
  <2>1. \A i \in Nat : at(i)' = IF i \in 1 .. N + 1 THEN line'[i] ELSE head
    BY <1>2 DEF at
  <2>2. \A i \in 0 .. N : i \in Nat /\ (i \in 1 .. N + 1 <=> i \in 1 .. N)
    BY <1>1
  <2>3. N + 1 \in Nat /\ N + 2 \in Nat /\ N + 1 \in 1 .. N + 1 /\ N + 2 \notin 1 .. N + 1
    BY <1>1
  <2> QED
    BY <1>2, <2>1, <2>2, <2>3 DEF at
<1>4. tail = at(N) /\ prev[head] = new /\ next[new] = head /\ prev[new] = at(N)
  BY <1>0 DEF Hands
<1>40. N \in 0 .. N /\ at(N) \in Node \cup {head} /\ at(N) # new
  <2>1. N \in 0 .. N + 1 /\ (N = 0 \/ N \in 1 .. N)
    BY <1>1
  <2> QED
    BY <1>1, <2>1, At
<1>5. \A i \in 0 .. N : i # N => next'[at(i)] = next[at(i)]
  BY <1>0, <1>1, <1>4, <1>40, At DEF TypeOK
<1>6. next'[at(N)] = new /\ next'[new] = head
  BY <1>0, <1>4, <1>40, <1>1 DEF TypeOK
<1> HIDE DEF N
<1>7. Unique'
  <2> SUFFICES ASSUME NEW i \in 1 .. N + 1, NEW j \in 1 .. N + 1, line'[i] = line'[j] PROVE i = j
    BY <1>2 DEF Unique
  <2>1. (i \in 1 .. N \/ i = N + 1) /\ (j \in 1 .. N \/ j = N + 1)
    BY <1>1
  <2>2. \A k \in 1 .. N : line[k] # new
    BY <1>1 DEF linked, N
  <2> QED
    BY <1>2, <2>1, <2>2 DEF Unique, N
<1>8. Fwd'
  <2> SUFFICES ASSUME NEW i \in 0 .. N + 1 PROVE next'[at(i)'] = at(i + 1)'
    BY <1>2 DEF Fwd
  <2>1. CASE i = N + 1
    BY <1>1, <1>3, <1>6, <2>1
  <2>2. CASE i = N
    BY <1>3, <1>6, <1>40, <2>2
  <2>3. CASE i \in 0 .. N /\ i # N
    <3>1. i + 1 \in 0 .. N /\ at(i)' = at(i) /\ at(i + 1)' = at(i + 1)
      BY <1>1, <1>3, <2>3
    <3> QED
      BY <1>5, <2>3, <3>1 DEF Fwd, N
  <2> QED
    BY <1>1, <2>1, <2>2, <2>3
<1>9. Back'
  <2> SUFFICES ASSUME NEW i \in 0 .. N + 1 PROVE prev[at(i + 1)'] = at(i)'
    BY <1>0, <1>2 DEF Back
  <2>1. CASE i = N + 1
    BY <1>1, <1>3, <1>4, <2>1
  <2>2. CASE i = N
    BY <1>3, <1>4, <1>40, <2>2
  <2>3. CASE i \in 0 .. N /\ i # N
    <3>1. i + 1 \in 0 .. N /\ at(i)' = at(i) /\ at(i + 1)' = at(i + 1)
      BY <1>1, <1>3, <2>3
    <3>2. ~Gap(i)
      BY <1>0, <1>1, <2>3 DEF Gap, Removing, N
    <3> QED
      BY <2>3, <3>1, <3>2 DEF Back, N
  <2> QED
    BY <1>1, <2>1, <2>2, <2>3
<1>10. Hands'
  <2>1. /\ dpc = "pick" => Len(line') > 0
        /\ dpc = "lock" => \E i \in 1 .. Len(line') : line'[i] = entry
        /\ dpc = "lock" /\ user = "distance" => line'[1] = entry
    <3>1. dpc = "lock" => \E i \in 1 .. N : line[i] = entry
      BY DEF Hands, N
    <3>2. dpc = "lock" /\ user = "distance" => line[1] = entry
      BY DEF Hands
    <3>3. dpc = "lock" => 1 \in 1 .. N
      BY <1>1, <3>1
    <3>4. \A i \in 1 .. N : i \in 1 .. Len(line')
      BY <1>1, <1>2
    <3>5. Len(line') > 0
      BY <1>1, <1>2
    <3> QED
      BY <1>2, <3>1, <3>2, <3>3, <3>4, <3>5
  <2> QED
    BY <1>0, <1>1, <2>1 DEF Hands, Adding, Removing
<1>11. Places'
  <2>1. \A n : linked(n)' <=> linked(n) \/ n = new
    <3>1. \A n : n = new => linked(n)'
      BY <1>1, <1>2 DEF linked
    <3>2. \A n : linked(n) => linked(n)'
      <4>1. \A i \in 1 .. N : i \in 1 .. Len(line')
        BY <1>1, <1>2
      <4> QED
        BY <1>2, <4>1 DEF linked, N
    <3>3. ASSUME NEW n, linked(n)' PROVE linked(n) \/ n = new
      <4>1. PICK i \in 1 .. N + 1 : line'[i] = n
        BY <1>2, <3>3 DEF linked
      <4>2. i \in 1 .. N \/ i = N + 1
        BY <1>1, <4>1
      <4> QED
        BY <1>2, <4>1, <4>2 DEF linked, N
    <3> QED
      BY <3>1, <3>2, <3>3
  <2>2. \A n \in Node : (removed(n)' <=> removed(n)) /\ (handed(n)' <=> removed(n))
    BY <1>0, ListAssumption DEF removed, handed
  <2>3. \A n \in Node : handed(n) <=> removed(n) \/ n = new
    BY DEF handed
  <2>4. ~removed(new) /\ new \notin free
    BY <1>1 DEF Places, handed
  <2>5. \A i \in 1 .. N + 1 : line'[i] \notin free
    <3>1. \A i \in 1 .. N : line[i] \notin free
      BY <1>0 DEF Places, N
    <3>2. \A i \in 1 .. N + 1 : i \in 1 .. N \/ i = N + 1
      BY <1>1
    <3> QED
      BY <1>2, <2>4, <3>1, <3>2
  <2>6. ASSUME NEW n \in Node, handed(n)' PROVE n \notin free' /\ ~linked(n)' /\ ~(n = new' /\ removed(n)')
    <3>1. removed(n) /\ n # new
      BY <2>2, <2>4, <2>6
    <3> QED
      BY <1>0, <2>1, <2>3, <3>1, ListAssumption DEF Places
  <2>7. \A n \in Node : n \in free' \/ linked(n)' \/ handed(n)'
    BY <1>0, <2>1, <2>2, <2>3 DEF Places
  <2> QED
    BY <1>0, <1>2, <2>5, <2>6, <2>7 DEF Places
<1> QED
  BY <1>7, <1>8, <1>9, <1>10, <1>11 DEF RInv

(* A reset: every node of the line is in the factory by the time the head  *)
(* is initialised.                                                         *)
LEMMA InitNextStep ==
  ASSUME IInv, init_next
  PROVE  RInv'
<1> USE DEF IInv, adder, remover
<1>0. /\ UNCHANGED <<prev, new, tail, dpc, entry, user, free>>
      /\ apc = "clear" /\ cur = head /\ apc' = "init" /\ cur' = Null
      /\ next' = [next EXCEPT ![head] = head] /\ line' = <<>>
  BY DEF init_next
<1>1. Len(line') = 0 /\ Len(line) \in Nat /\ next'[head] = head /\ \A i : at(i)' = head
  BY <1>0, At DEF TypeOK, at
<1>2. dpc = "idle"
  BY <1>0 DEF Owner, TypeOK, Adding, Removing
<1>3. Unique' /\ Fwd' /\ Back'
  BY <1>0, <1>1 DEF Unique, Fwd, Back, Gap
<1>4. Hands'
  BY <1>0, <1>1, <1>2 DEF Hands, Adding
<1>5. Places'
  <2>1. \A j \in 1 .. Len(line) : line[j] \in free
    <3>1. PICK i \in 1 .. Len(line) + 1 : at(i) = cur /\ \A j \in 1 .. Len(line) : line[j] \in free <=> j < i
      BY <1>0 DEF Places
    <3>2. i = Len(line) + 1
      <4>1. i \in 1 .. Len(line) \/ i = Len(line) + 1
        BY <1>1
      <4> QED
        BY <1>0, <3>1, <4>1, At
    <3> QED
      BY <1>1, <3>1, <3>2
  <2>2. \A n : ~linked(n)'
    BY <1>1 DEF linked
  <2>3. \A n : linked(n) => n \in free
    BY <2>1 DEF linked
  <2>4. \A n : handed(n)' = handed(n) /\ removed(n)' = removed(n)
    BY <1>0 DEF handed, removed
  <2> QED
    BY <1>0, <1>1, <2>2, <2>3, <2>4 DEF Places
<1> QED
  BY <1>3, <1>4, <1>5 DEF RInv

LEMMA InitPrevStep ==
  ASSUME IInv, init_prev
  PROVE  RInv'
<1> USE DEF IInv, adder, remover
<1>0. /\ UNCHANGED <<next, new, tail, cur, dpc, entry, user, free, line>>
      /\ apc = "init" /\ apc' = "unlock" /\ prev' = [prev EXCEPT ![head] = head]
      /\ Len(line)' = Len(line) /\ \A i : at(i)' = at(i)
  BY SamePlaces DEF init_prev
<1>1. Len(line) = 0 /\ prev'[head] = head
  BY <1>0 DEF Hands, TypeOK
<1>2. dpc = "idle"
  BY <1>0 DEF Owner, TypeOK, Adding, Removing
<1>3. Unique' /\ Fwd'
  BY <1>0 DEF Unique, Fwd
<1>4. Back'
  <2>1. \A i \in 0 .. Len(line) : i = 0 /\ at(i) = head /\ at(i + 1) = head
    BY <1>1, At
  <2> QED
    BY <1>0, <1>1, <2>1 DEF Back
<1>5. Hands'
  BY <1>0, <1>1, <1>2 DEF Hands, Adding
<1>6. Places'
  BY <1>0 DEF Places, linked, handed, removed
<1> QED
  BY <1>3, <1>4, <1>5, <1>6 DEF RInv

----------------------------------------------------------------------------
(* The two writes of _list_del, for an entry anywhere in the line.         *)
LEMMA EntryPlace ==
  ASSUME IInv, dpc \in {"del_prev", "del_next"}
  PROVE  \E k \in 1 .. Len(line) :
           /\ line[k] = entry /\ at(k) = entry /\ entry \in Node
           /\ \A i \in 1 .. Len(line) : line[i] = entry => i = k
           /\ next[entry] = at(k + 1) /\ prev[entry] = at(k - 1)
           /\ \A i \in 0 .. Len(line) : i # k => prev[at(i + 1)] = at(i)
           /\ apc \notin Adding \cup {"unlock", "clear", "clear_next", "init"}
<1> USE DEF IInv
<1>1. PICK k \in 1 .. Len(line) : line[k] = entry
  BY DEF Hands
<1>2. at(k) = entry /\ entry \in Node /\ \A i \in 1 .. Len(line) : line[i] = entry => i = k
  BY <1>1, At DEF Unique
<1>3. apc \notin Adding \cup {"unlock", "clear", "clear_next", "init"}
  BY DEF Owner, Removing
<1>4. \A i \in 0 .. Len(line) : i # k => ~Gap(i)
  BY <1>2, <1>3, At DEF Gap, Adding
<1>5. next[entry] = at(k + 1)
  <2>1. k \in 0 .. Len(line)
    BY At
  <2> QED
    BY <1>2, <2>1 DEF Fwd
<1>6. prev[entry] = at(k - 1)
  <2>1. k - 1 \in 0 .. Len(line) /\ k - 1 # k /\ (k - 1) + 1 = k
    BY At
  <2> QED
    BY <1>2, <1>4, <2>1 DEF Back
<1>7. \A i \in 0 .. Len(line) : i # k => prev[at(i + 1)] = at(i)
  BY <1>4 DEF Back
<1> QED
  BY <1>1, <1>2, <1>3, <1>5, <1>6, <1>7

LEMMA DelPrevStep ==
  ASSUME IInv, del_prev
  PROVE  RInv'
<1> USE DEF IInv, adder, remover
<1>0. /\ UNCHANGED <<next, apc, new, tail, cur, entry, user, free, line>>
      /\ dpc = "del_prev" /\ dpc' = "del_next" /\ prev' = [prev EXCEPT ![next[entry]] = prev[entry]]
      /\ Len(line)' = Len(line) /\ \A i : at(i)' = at(i)
  BY SamePlaces DEF del_prev, unlinked_prev
<1>1. PICK k \in 1 .. Len(line) :
           /\ line[k] = entry /\ at(k) = entry /\ entry \in Node
           /\ \A i \in 1 .. Len(line) : line[i] = entry => i = k
           /\ next[entry] = at(k + 1) /\ prev[entry] = at(k - 1)
           /\ \A i \in 0 .. Len(line) : i # k => prev[at(i + 1)] = at(i)
           /\ apc \notin Adding \cup {"unlock", "clear", "clear_next", "init"}
  BY <1>0, EntryPlace
<1>2. Len(line) \in Nat /\ k \in 0 .. Len(line)
  BY At
<1>3. \A i \in 0 .. Len(line) : i # k => at(i + 1) # at(k + 1)
  <2>1. \A i \in 0 .. Len(line) : i + 1 \in 1 .. Len(line) + 1
    BY <1>2
  <2> QED
    BY <1>2, <2>1, At
<1>4. prev'[at(k + 1)] = at(k - 1) /\ \A i \in 0 .. Len(line) : i # k => prev'[at(i + 1)] = prev[at(i + 1)]
  <2>1. \A i : at(i) \in Node \cup {head}
    BY At
  <2> QED
    BY <1>0, <1>1, <1>3, <2>1 DEF TypeOK
<1>5. Unique' /\ Fwd'
  BY <1>0 DEF Unique, Fwd
<1>6. Back'
  <2>1. \A i \in 0 .. Len(line) : ~Gap(i)' => i # k
    BY <1>0, <1>1 DEF Gap
  <2> QED
    BY <1>0, <1>1, <1>4, <2>1 DEF Back
<1>7. Hands'
  BY <1>0, <1>1, <1>4 DEF Hands, Adding
<1>8. Places'
  BY <1>0 DEF Places, linked, handed, removed
<1> QED
  BY <1>5, <1>6, <1>7, <1>8 DEF RInv

LEMMA DelNextStep ==
  ASSUME IInv, del_next
  PROVE  RInv'
<1> USE DEF IInv, adder, remover
<1> DEFINE N == Len(line)
<1>1. PICK k \in 1 .. N :
           /\ line[k] = entry /\ at(k) = entry /\ entry \in Node
           /\ \A i \in 1 .. N : line[i] = entry => i = k
           /\ next[entry] = at(k + 1) /\ prev[entry] = at(k - 1)
           /\ \A i \in 0 .. N : i # k => prev[at(i + 1)] = at(i)
           /\ apc \notin Adding \cup {"unlock", "clear", "clear_next", "init"}
  BY EntryPlace DEF del_next
<1>2. N \in Nat /\ k - 1 \in 0 .. N /\ k \in 0 .. N
  BY At
<1>0. /\ UNCHANGED <<prev, apc, new, tail, cur, entry, user, free>>
      /\ dpc = "del_next" /\ dpc' = "clear" /\ next' = [next EXCEPT ![at(k - 1)] = at(k + 1)]
      /\ line' = Line!Without(line, k)
  BY <1>1 DEF del_next
<1>3. Len(line') = N - 1 /\ \A i \in 1 .. N - 1 : line'[i] = IF i < k THEN line[i] ELSE line[i + 1]
  BY <1>0, WithoutType
<1>4. \A i \in 0 .. N : at(i)' = IF i < k THEN at(i) ELSE at(i + 1)
  <2>0. at(0) = head /\ at(N + 1) = head /\ \A i \in 1 .. N : at(i) = line[i]
    BY At
  <2> SUFFICES ASSUME NEW i \in 0 .. N PROVE at(i)' = IF i < k THEN at(i) ELSE at(i + 1)
    OBVIOUS
  <2>1. at(i)' = IF i \in 1 .. N - 1 THEN line'[i] ELSE head
    BY <1>3 DEF at
  <2>2. CASE i = 0
    BY <1>2, <2>0, <2>1, <2>2
  <2>3. CASE i = N
    BY <1>2, <2>0, <2>1, <2>3
  <2>4. CASE i \in 1 .. N - 1
    <3>1. i \in 1 .. N /\ i + 1 \in 1 .. N
      BY <1>2, <2>4
    <3> QED
      BY <1>3, <2>0, <2>1, <2>4, <3>1
  <2> QED
    BY <1>2, <2>2, <2>3, <2>4
<1>5. /\ next'[at(k - 1)] = at(k + 1)
      /\ \A i \in 0 .. N : i # k - 1 => next'[at(i)] = next[at(i)]
  <2>1. \A i : at(i) \in Node \cup {head}
    BY At
  <2>2. \A i \in 0 .. N : i # k - 1 => at(i) # at(k - 1)
    BY <1>2, At
  <2> QED
    BY <1>0, <2>1, <2>2 DEF TypeOK
<1>6. \A i \in 0 .. N : next[at(i)] = at(i + 1)
  BY DEF Fwd
<1>60. prev[at(k + 1)] = at(k - 1)
  BY <1>0, <1>1 DEF Hands
<1>61. k \in Nat /\ k >= 1 /\ k <= N
  BY <1>2
<1> HIDE DEF N
<1>7. Fwd'
  <2> SUFFICES ASSUME NEW i \in 0 .. N - 1 PROVE next'[at(i)'] = at(i + 1)'
    BY <1>3 DEF Fwd
  <2>0. i \in 0 .. N /\ i + 1 \in 0 .. N
    BY <1>2
  <2>1. CASE i < k - 1
    BY <1>4, <1>5, <1>6, <1>61, <2>0, <2>1
  <2>2. CASE i = k - 1
    BY <1>4, <1>5, <1>61, <2>0, <2>2
  <2>3. CASE i >= k
    BY <1>4, <1>5, <1>6, <1>61, <2>0, <2>3
  <2> QED
    BY <1>61, <2>1, <2>2, <2>3
<1>8. Back'
  <2> SUFFICES ASSUME NEW i \in 0 .. N - 1 PROVE prev[at(i + 1)'] = at(i)'
    BY <1>0, <1>3 DEF Back
  <2>0. i \in 0 .. N /\ i + 1 \in 0 .. N
    BY <1>2
  <2>1. CASE i < k - 1
    BY <1>1, <1>4, <1>61, <2>0, <2>1 DEF N
  <2>2. CASE i = k - 1
    BY <1>4, <1>60, <1>61, <2>0, <2>2
  <2>3. CASE i >= k
    <3>1. i + 1 # k /\ at(i)' = at(i + 1) /\ at(i + 1)' = at((i + 1) + 1)
      BY <1>4, <1>61, <2>0, <2>3
    <3> QED
      BY <1>1, <2>0, <3>1 DEF N
  <2> QED
    BY <1>61, <2>1, <2>2, <2>3
<1>9. Unique'
  <2> SUFFICES ASSUME NEW i \in 1 .. N - 1, NEW j \in 1 .. N - 1, line'[i] = line'[j] PROVE i = j
    BY <1>3 DEF Unique
  <2> DEFINE f(x) == IF x < k THEN x ELSE x + 1
  <2>1. f(i) \in 1 .. N /\ f(j) \in 1 .. N /\ line'[i] = line[f(i)] /\ line'[j] = line[f(j)]
    BY <1>2, <1>3, <1>61
  <2>2. f(i) = f(j)
    BY <2>1 DEF Unique, N
  <2> QED
    BY <1>61, <2>2
<1>10. \A n : linked(n)' <=> linked(n) /\ n # entry
  <2>1. ASSUME NEW n, linked(n)' PROVE linked(n) /\ n # entry
    <3>1. PICK i \in 1 .. N - 1 : line'[i] = n
      BY <1>3, <2>1 DEF linked
    <3>2. CASE i < k
      <4>1. i \in 1 .. N /\ i # k /\ line[i] = n
        BY <1>3, <1>61, <1>2, <3>1, <3>2
      <4> QED
        BY <1>1, <4>1 DEF linked, N
    <3>3. CASE i >= k
      <4>1. i + 1 \in 1 .. N /\ i + 1 # k /\ line[i + 1] = n
        BY <1>3, <1>61, <1>2, <3>1, <3>3
      <4> QED
        BY <1>1, <4>1 DEF linked, N
    <3> QED
      BY <1>61, <3>2, <3>3
  <2>2. ASSUME NEW n, linked(n), n # entry PROVE linked(n)'
    <3>1. PICK i \in 1 .. N : line[i] = n
      BY <2>2 DEF linked, N
    <3>2. i # k
      BY <1>1, <2>2, <3>1
    <3>3. CASE i < k
      <4>1. i \in 1 .. N - 1 /\ line'[i] = n
        BY <1>3, <1>61, <1>2, <3>1, <3>3
      <4> QED
        BY <1>3, <4>1 DEF linked
    <3>4. CASE i > k
      <4>1. i - 1 \in 1 .. N - 1 /\ line'[i - 1] = n
        <5>1. i - 1 \in 1 .. N - 1 /\ ~(i - 1 < k) /\ (i - 1) + 1 = i
          BY <1>61, <1>2, <3>4
        <5> QED
          BY <1>3, <3>1, <5>1
      <4> QED
        BY <1>3, <4>1 DEF linked
    <3> QED
      BY <1>61, <3>2, <3>3, <3>4
  <2> QED
    BY <2>1, <2>2
<1>11. Hands'
  BY <1>0, <1>1 DEF Hands, Adding
<1>12. Places'
  <2>1. \A n \in Node : (removed(n)' <=> n = entry) /\ (handed(n)' <=> n = new \/ n = entry)
    BY <1>0 DEF removed, handed
  <2>2. \A n \in Node : ~removed(n) /\ (handed(n) <=> n = new)
    BY <1>0 DEF removed, handed
  <2>3. linked(entry) /\ apc \notin {"clear", "clear_next"}
    BY <1>1 DEF linked, N
  <2>4. entry \notin free
    BY <1>1, <2>3 DEF Places, N
  <2>5. entry # new
    BY <1>1, <2>2, <2>3 DEF Places
  <2>6. \A n : linked(n)' => n \notin free
    BY <1>10, <2>3 DEF Places, linked
  <2>7. \A i \in 1 .. Len(line') : line'[i] \notin free'
    BY <1>0, <2>6 DEF linked
  <2>8. \A n \in Node : n \in free' \/ linked(n)' \/ handed(n)'
    BY <1>0, <1>10, <2>1, <2>2 DEF Places
  <2>9. \A n \in Node : handed(n)' => n \notin free' /\ ~linked(n)' /\ ~(n = new' /\ removed(n)')
    BY <1>0, <1>10, <2>1, <2>2, <2>4, <2>5 DEF Places
  <2> QED
    BY <1>0, <2>3, <2>7, <2>8, <2>9 DEF Places
<1> QED
  BY <1>7, <1>8, <1>9, <1>11, <1>12 DEF RInv

LEMMA DelClearStep ==
  ASSUME IInv, del_clear
  PROVE  RInv'
<1> USE DEF IInv, adder, remover
<1>0. /\ UNCHANGED <<apc, new, tail, cur, entry, user, free, line>>
      /\ dpc = "clear" /\ dpc' = (IF user = "distance" THEN "unlock" ELSE "recycle")
      /\ next' = [next EXCEPT ![entry] = Null] /\ prev' = [prev EXCEPT ![entry] = Null]
      /\ Len(line)' = Len(line) /\ \A i : at(i)' = at(i)
  BY SamePlaces DEF del_clear
<1>1. entry \in Node /\ entry # head /\ ~linked(entry)
  BY <1>0, ListAssumption DEF Hands, Places, handed, removed
<1>2. \A i : at(i) # entry
  BY <1>1 DEF at, linked
<1>3. \A i : next'[at(i)] = next[at(i)] /\ prev'[at(i)] = prev[at(i)]
  BY <1>0, <1>2, At DEF TypeOK
<1>4. Unique' /\ Fwd'
  BY <1>0, <1>3 DEF Unique, Fwd
<1>5. apc \notin Adding \cup {"unlock", "clear", "clear_next", "init"}
  BY <1>0 DEF Owner, Removing
<1>6. Back'
  <2>1. \A i \in 0 .. Len(line) : ~Gap(i)
    BY <1>0, <1>5 DEF Gap, Adding
  <2> QED
    BY <1>0, <1>3, <2>1 DEF Back
<1>7. Hands'
  BY <1>0, <1>1, <1>5 DEF Hands, Adding
<1>8. Places'
  <2>1. \A n \in Node : removed(n)' = removed(n) /\ handed(n)' = handed(n) /\ linked(n)' = linked(n)
    BY <1>0 DEF linked, handed, removed
  <2> QED
    BY <1>0, <2>1 DEF Places
<1> QED
  BY <1>4, <1>6, <1>7, <1>8 DEF RInv

(* The invariant is inductive.                                             *)
THEOREM Invariance == Spec => []IInv
<1>1. IInv /\ [Next]_vars => IInv'
  <2> SUFFICES ASSUME IInv, [Next]_vars PROVE IInv'
    OBVIOUS
  <2>1. CASE Next
    <3>1. TypeOK' /\ Owner'
      BY <2>1, TypeStep
    <3>2. RInv'
      <4>1. CASE Add
        BY <4>1, AddStillStep, NextPrevStep, NewNodeStep, PrevNextStep DEF Add
      <4>2. CASE Reset
        BY <4>2, ResetStillStep, InitNextStep, InitPrevStep DEF Reset
      <4>3. CASE Find
        BY <4>3, FindStep
      <4>4. CASE Del
        BY <4>4, DelPrevStep, DelNextStep, DelClearStep, RecycleStep DEF Del
      <4> QED
        BY <2>1, <4>1, <4>2, <4>3, <4>4 DEF Next
    <3> QED
      BY <3>1, <3>2 DEF IInv, RInv
  <2>2. CASE UNCHANGED vars
    BY <2>2 DEF vars, adder, remover, IInv, TypeOK, Owner, Unique, Fwd, Back, Gap, Hands, Places, linked, handed,
                removed, at
  <2> QED
    BY <2>1, <2>2
<1> QED
  BY <1>1, InitIInv, PTL DEF Spec

(* Pointers and program counters keep their types, for any set of nodes.   *)
THEOREM TypeCorrect == Spec => []TypeOK
<1>1. IInv => TypeOK
  BY DEF IInv
<1> QED
  BY <1>1, Invariance, PTL

(* After every single write the pointers spell the line, and the node that *)
(* the distance task read without the mutex is still its first when it has *)
(* the mutex (list.c:12-34, position.c:77-90).                             *)
THEOREM RingAlways == Spec => []Ring
<1>1. IInv => Ring
  <2> SUFFICES ASSUME IInv PROVE Ring
    OBVIOUS
  <2>1. \A i \in 0 .. Len(line) : next[at(i)] = at(i + 1)
    BY DEF IInv, Fwd
  <2>2. mutex = "free" => \A i \in 0 .. Len(line) : prev[at(i + 1)] = at(i)
    <3>1. mutex = "free" => \A i : ~Gap(i)
      BY DEF IInv, Owner, Gap, Adding, Removing
    <3> QED
      BY <3>1 DEF IInv, Back
  <2>3. \A i, j \in 1 .. Len(line) : line[i] = line[j] => i = j
    BY DEF IInv, Unique
  <2>4. /\ dpc \in {"lock", "del_prev", "del_next"} => \E i \in 1 .. Len(line) : line[i] = entry
        /\ dpc \in {"lock", "del_prev", "del_next"} /\ user = "distance" => line[1] = entry
        /\ dpc = "walk" => \E i \in 1 .. Len(line) + 1 : at(i) = entry
    BY DEF IInv, Hands
  <2> QED
    BY <2>1, <2>2, <2>3, <2>4 DEF Ring
<1> QED
  BY <1>1, Invariance, PTL

(* No buffer is lost or in two places.  A reset walks through the buffers  *)
(* it gives back: the one it stands on may be free and linked, and it      *)
(* still reads its successor from it (array.c:199-225).                    *)
THEOREM EachInOnePlace == Spec => []OnePlace
<1>1. IInv => OnePlace
  <2> SUFFICES ASSUME IInv, NEW n \in Node
               PROVE  /\ n \in free \/ linked(n) \/ n = new \/ removed(n)
                      /\ n = new \/ removed(n) => n \notin free /\ ~linked(n) /\ ~(n = new /\ removed(n))
                      /\ n \in free /\ linked(n) =>
                           /\ apc \in {"clear", "clear_next"}
                           /\ \A i \in 1 .. Len(line) + 1 : at(i) = cur =>
                                \E j \in 1 .. i : line[j] = n /\ (j = i => apc = "clear_next")
                      /\ apc = "clear_next" /\ n = cur =>
                           n \in free /\ linked(n) /\ next[n] \in (Node \ free) \cup {head}
    BY DEF OnePlace, linked, removed
  <2>1. n \in free \/ linked(n) \/ n = new \/ removed(n)
    BY DEF IInv, Places, handed
  <2>2. n = new \/ removed(n) => n \notin free /\ ~linked(n) /\ ~(n = new /\ removed(n))
    BY DEF IInv, Places, handed
  <2>3. n \in free /\ linked(n) => apc \in {"clear", "clear_next"}
    BY DEF IInv, Places, linked
  <2>4. ASSUME n \in free, linked(n), NEW i \in 1 .. Len(line) + 1, at(i) = cur
        PROVE  \E j \in 1 .. i : line[j] = n /\ (j = i => apc = "clear_next")
    <3>1. PICK j \in 1 .. Len(line) : line[j] = n
      BY <2>4 DEF linked
    <3>2. CASE apc = "clear"
      <4>1. PICK k \in 1 .. Len(line) + 1 : at(k) = cur /\ \A l \in 1 .. Len(line) : line[l] \in free <=> l < k
        BY <3>2 DEF IInv, Places
      <4>2. k = i
        BY <2>4, <4>1, At DEF IInv
      <4>3. j < i /\ j \in 1 .. i
        BY <2>4, <3>1, <4>1, <4>2
      <4> QED
        BY <3>1, <4>3
    <3>3. CASE apc = "clear_next"
      <4>1. PICK k \in 1 .. Len(line) : at(k) = cur /\ \A l \in 1 .. Len(line) : line[l] \in free <=> l < k + 1
        BY <3>3 DEF IInv, Places
      <4>2. k = i
        BY <2>4, <4>1, At DEF IInv
      <4>3. j \in 1 .. i
        BY <2>4, <3>1, <4>1, <4>2
      <4> QED
        BY <3>1, <3>3, <4>3
    <3> QED
      BY <2>3, <2>4, <3>2, <3>3
  <2>5. ASSUME apc = "clear_next", n = cur
        PROVE  n \in free /\ linked(n) /\ next[n] \in (Node \ free) \cup {head}
    <3>1. PICK k \in 1 .. Len(line) : at(k) = cur /\ \A l \in 1 .. Len(line) : line[l] \in free <=> l < k + 1
      BY <2>5 DEF IInv, Places
    <3>2. Len(line) \in Nat /\ at(Len(line) + 1) = head /\ line[k] = n
      BY <2>5, <3>1, At DEF IInv
    <3>3. n \in free /\ linked(n)
      BY <3>1, <3>2 DEF linked
    <3>4. next[n] = at(k + 1)
      BY <2>5, <3>1, <3>2 DEF IInv, Fwd
    <3>5. CASE k = Len(line)
      BY <3>2, <3>3, <3>4, <3>5
    <3>6. CASE k # Len(line)
      <4>1. k + 1 \in 1 .. Len(line)
        BY <3>2, <3>6
      <4>2. at(k + 1) = line[k + 1] /\ at(k + 1) \in Node
        BY <4>1, At DEF IInv
      <4>3. line[k + 1] \notin free
        BY <3>1, <4>1
      <4> QED
        BY <3>3, <3>4, <4>2, <4>3
    <3> QED
      BY <3>5, <3>6
  <2> QED
    BY <2>1, <2>2, <2>3, <2>4, <2>5
<1> QED
  BY <1>1, Invariance, PTL

----------------------------------------------------------------------------
(* The pointer list implements the line of nodes the other models use: a   *)
(* node joins its end, the distance task takes its first, a search any.    *)
THEOREM Refinement == Spec => ImplementsNodeLine
<1>1. Init => Line!Init
  BY DEF Init, Line!Init
<1>2. IInv /\ [Next]_vars => [Line!Next]_<<user, line>>
  <2> SUFFICES ASSUME IInv, [Next]_vars PROVE [Line!Next]_<<user, line>>
    OBVIOUS
  <2> USE DEF adder, remover
  <2>1. CASE prev_next
    <3>1. apc \in Adding /\ user' = user /\ line' = Append(line, new)
      BY <2>1 DEF prev_next, Adding
    <3>2. new \in Node /\ \A i \in 1 .. Len(line) : line[i] # new
      BY <3>1, NewOutside DEF linked
    <3> QED
      BY <3>1, <3>2 DEF Line!Next, Line!Join
  <2>2. CASE init_next
    <3>1. user = "search"
      BY <2>2 DEF init_next, IInv, Owner, TypeOK
    <3> QED
      BY <2>2, <3>1 DEF init_next, Line!Next, Line!Clear
  <2>3. CASE del_next
    <3>1. PICK k \in 1 .. Len(line) : line[k] = entry /\ \A i \in 1 .. Len(line) : line[i] = entry => i = k
      BY <2>3, EntryPlace DEF del_next
    <3>2. line' = Line!Without(line, k) /\ user' = user
      BY <2>3, <3>1 DEF del_next
    <3>3. user = "distance" => k = 1
      <4>1. 1 \in 1 .. Len(line)
        BY <3>1, At DEF IInv
      <4> QED
        BY <2>3, <3>1, <4>1 DEF del_next, IInv, Hands
    <3> QED
      BY <3>2, <3>3 DEF Line!Next, Line!Leave
  <2>4. CASE UNCHANGED <<user, line>>
    BY <2>4
  <2>5. Next => prev_next \/ init_next \/ del_next \/ UNCHANGED <<user, line>>
    BY DEF Next, Add, Reset, Find, Del, produce, lock_add, next_prev, new_next, new_prev, unlock_add, lock_clear,
           clear_node, clear_next, init_prev, list_empty, pick, lock_del, lock_search, walk, search_fails, del_prev, del_clear,
           unlock_del, buf_factory_recycle
  <2> QED
    BY <2>1, <2>2, <2>3, <2>4, <2>5 DEF vars
<1> QED
  BY <1>1, <1>2, Invariance, PTL DEF Spec, Line!Spec, ImplementsNodeLine
============================================================================
