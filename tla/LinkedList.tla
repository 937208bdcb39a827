----------------------------- MODULE LinkedList ----------------------------
(***************************************************************************)
(* One list of tool/list.c, pointer by pointer, with the two threads that  *)
(* use it: one that adds buffers (write_array and clear_array of           *)
(* sample/array.c, or the writer of a position test) and one that removes  *)
(* them (a search of sample/array.c, or a distance task of                 *)
(* sample/position.c).                                                     *)
(*                                                                         *)
(* The mutex is taken around additions, removals, walks and resets.  The   *)
(* distance task however asks list_empty() and reads head.next with no     *)
(* mutex, while list_add_tail is between two of its writes.  So each write *)
(* to a pointer is a step.  The program is compiled without optimisation   *)
(* and runs on one processor: writes happen in the order they are written. *)
(*                                                                         *)
(* A node is identified with the buffer it is part of.                     *)
(***************************************************************************)
EXTENDS Naturals, Sequences

CONSTANTS Node, head, Null

ASSUME ListAssumption == head \notin Node /\ Null \notin Node \cup {head}

VARIABLES
  user,        \* "distance" or "search": which code removes nodes
  next, prev,  \* the pointers of head and nodes
  mutex,       \* "free", or who has it
  free,        \* the buffers in the factory
  apc, new, tail, cur,  \* the adding thread: its buffer, `prev' of _list_add,
                        \* `p' of clear_array
  dpc, entry,  \* the removing thread: `plist' or `p'
  line         \* history: the nodes that have been added and not removed

adder == <<apc, new, tail, cur>>
remover == <<dpc, entry>>
vars == <<user, next, prev, mutex, free, adder, remover, line>>

Line == INSTANCE NodeLine

Pointer == Node \cup {head, Null}

Init ==
  /\ user \in {"distance", "search"}
  /\ next = [x \in Node \cup {head} |-> IF x = head THEN head ELSE Null]  \* init_list_head
  /\ prev = [x \in Node \cup {head} |-> IF x = head THEN head ELSE Null]
  /\ mutex = "free" /\ free = Node
  /\ apc = "idle" /\ new = Null /\ tail = Null /\ cur = Null
  /\ dpc = "idle" /\ entry = Null
  /\ line = <<>>

----------------------------------------------------------------------------
(* The adding thread *)

(* buf_factory_produce.                                                    *)
produce ==
  /\ apc = "idle"
  /\ \E n \in free : new' = n /\ free' = free \ {n}
  /\ apc' = "lock"
  /\ UNCHANGED <<user, next, prev, mutex, tail, cur, remover, line>>

lock_add ==
  /\ apc = "lock" /\ mutex = "free"
  /\ mutex' = "adder" /\ apc' = "next_prev"
  /\ UNCHANGED <<user, next, prev, free, new, tail, cur, remover, line>>

(* Mutant: list_add, which adds a node at the head of the list.            *)
M_last == head
(* _list_add(new, head->prev, head): the node to add behind.               *)
last == prev[head]

(* The four writes of _list_add.                                           *)
next_prev ==  \* next->prev = new
  /\ apc = "next_prev"
  /\ tail' = last
  /\ prev' = [prev EXCEPT ![head] = new]
  /\ apc' = "new_next"
  /\ UNCHANGED <<user, next, mutex, free, new, cur, remover, line>>

new_next ==   \* new->next = next
  /\ apc = "new_next"
  /\ next' = [next EXCEPT ![new] = head]
  /\ apc' = "new_prev"
  /\ UNCHANGED <<user, prev, mutex, free, new, tail, cur, remover, line>>

new_prev ==   \* new->prev = prev
  /\ apc = "new_prev"
  /\ prev' = [prev EXCEPT ![new] = tail]
  /\ apc' = "prev_next"
  /\ UNCHANGED <<user, next, mutex, free, new, tail, cur, remover, line>>

prev_next ==  \* prev->next = new
  /\ apc = "prev_next"
  /\ next' = [next EXCEPT ![tail] = new]
  /\ line' = Append(line, new)
  /\ apc' = "unlock" /\ new' = Null /\ tail' = Null
  /\ UNCHANGED <<user, prev, mutex, free, cur, remover>>

unlock_add ==
  /\ apc = "unlock"
  /\ mutex' = "free" /\ apc' = "idle"
  /\ UNCHANGED <<user, next, prev, free, new, tail, cur, remover, line>>

(* clear_array: only the lists that are searched are ever cleared.         *)
lock_clear ==
  /\ user = "search" /\ apc = "idle" /\ mutex = "free"
  /\ mutex' = "adder" /\ apc' = "clear"
  /\ cur' = next[head]
  /\ UNCHANGED <<user, next, prev, free, new, tail, remover, line>>

recycled(x) == free \cup {x}

(* Mutant: p is advanced before its buffer is given back.                  *)
M_clear_node ==
  /\ apc = "clear" /\ cur # head
  /\ free' = recycled(next[cur])
  /\ apc' = "clear_next"
  /\ UNCHANGED <<user, next, prev, mutex, new, tail, cur, remover, line>>

(* The reset gives a buffer back while it is still linked.  The factory    *)
(* links it by a node of its own (buf->node), so `next' is not written.    *)
clear_node ==
  /\ apc = "clear" /\ cur # head
  /\ free' = recycled(cur)
  /\ apc' = "clear_next"
  /\ UNCHANGED <<user, next, prev, mutex, new, tail, cur, remover, line>>

(* p = p->next, read from a buffer that is in the factory by now.          *)
clear_next ==
  /\ apc = "clear_next"
  /\ cur' = next[cur]
  /\ apc' = "clear"
  /\ UNCHANGED <<user, next, prev, mutex, free, new, tail, remover, line>>

(* The two writes of init_list_head.                                       *)
init_next ==
  /\ apc = "clear" /\ cur = head
  /\ next' = [next EXCEPT ![head] = head]
  /\ line' = <<>>
  /\ apc' = "init" /\ cur' = Null
  /\ UNCHANGED <<user, prev, mutex, free, new, tail, remover>>

init_prev ==
  /\ apc = "init"
  /\ prev' = [prev EXCEPT ![head] = head]
  /\ apc' = "unlock"
  /\ UNCHANGED <<user, next, mutex, free, new, tail, cur, remover, line>>

Add == produce \/ lock_add \/ next_prev \/ new_next \/ new_prev \/ prev_next \/ unlock_add
Reset == lock_clear \/ clear_node \/ clear_next \/ init_next \/ init_prev

----------------------------------------------------------------------------
(* The removing thread *)

(* A distance task: list_empty() and head.next, both without the mutex.    *)
list_empty ==
  /\ user = "distance" /\ dpc = "idle"
  /\ next[head] # head
  /\ dpc' = "pick"
  /\ UNCHANGED <<user, next, prev, mutex, free, adder, entry, line>>

pick ==
  /\ dpc = "pick"
  /\ entry' = next[head]
  /\ dpc' = "lock"
  /\ UNCHANGED <<user, next, prev, mutex, free, adder, line>>

lock_del ==
  /\ dpc = "lock" /\ mutex = "free"
  /\ mutex' = "remover" /\ dpc' = "del_prev"
  /\ UNCHANGED <<user, next, prev, free, adder, entry, line>>

(* A search: from head.next, under the mutex, until a node hits.           *)
lock_search ==
  /\ user = "search" /\ dpc = "idle" /\ mutex = "free"
  /\ mutex' = "remover" /\ dpc' = "walk"
  /\ entry' = next[head]
  /\ UNCHANGED <<user, next, prev, free, adder, line>>

walk ==
  /\ dpc = "walk" /\ entry # head
  /\ \/ entry' = next[entry] /\ UNCHANGED dpc
     \/ dpc' = "del_prev" /\ UNCHANGED entry
  /\ UNCHANGED <<user, next, prev, mutex, free, adder, line>>

search_fails ==
  /\ dpc = "walk" /\ entry = head
  /\ mutex' = "free" /\ dpc' = "idle" /\ entry' = Null
  /\ UNCHANGED <<user, next, prev, free, adder, line>>

(* Mutant: the back pointer of the following node is not set.              *)
M_unlinked_prev == prev
unlinked_prev == [prev EXCEPT ![next[entry]] = prev[entry]]

(* The two writes of _list_del; then list_del clears the entry.            *)
del_prev ==  \* next->prev = prev
  /\ dpc = "del_prev"
  /\ prev' = unlinked_prev
  /\ dpc' = "del_next"
  /\ UNCHANGED <<user, next, mutex, free, adder, entry, line>>

del_next ==  \* prev->next = next
  /\ dpc = "del_next"
  /\ next' = [next EXCEPT ![prev[entry]] = next[entry]]
  /\ \/ \E k \in 1 .. Len(line) : line[k] = entry /\ line' = Line!Without(line, k)
     \/ (\A k \in 1 .. Len(line) : line[k] # entry) /\ UNCHANGED line
  /\ dpc' = "clear"
  /\ UNCHANGED <<user, prev, mutex, free, adder, entry>>

del_clear ==
  /\ dpc = "clear"
  /\ next' = [next EXCEPT ![entry] = Null]
  /\ prev' = [prev EXCEPT ![entry] = Null]
  /\ dpc' = IF user = "distance" THEN "unlock" ELSE "recycle"
  /\ UNCHANGED <<user, mutex, free, adder, entry, line>>

(* A distance task gives the buffer back after it has released the mutex,  *)
(* a search before.                                                        *)
unlock_del ==
  /\ dpc = "unlock"
  /\ mutex' = "free"
  /\ dpc' = IF user = "distance" THEN "recycle" ELSE "idle"
  /\ UNCHANGED <<user, next, prev, free, adder, entry, line>>

buf_factory_recycle ==
  /\ dpc = "recycle"
  /\ free' = recycled(entry)
  /\ dpc' = (IF user = "distance" THEN "idle" ELSE "unlock") /\ entry' = Null
  /\ UNCHANGED <<user, next, prev, mutex, adder, line>>

Find == list_empty \/ pick \/ lock_del \/ lock_search \/ walk \/ search_fails
Del == del_prev \/ del_next \/ del_clear \/ unlock_del \/ buf_factory_recycle

Next == Add \/ Reset \/ Find \/ Del

Spec == Init /\ [][Next]_vars

----------------------------------------------------------------------------
(* Properties *)

(* Type invariant.                                                         *)
TypeOK ==
  /\ user \in {"distance", "search"}
  /\ next \in [Node \cup {head} -> Pointer] /\ prev \in [Node \cup {head} -> Pointer]
  /\ mutex \in {"free", "adder", "remover"} /\ free \subseteq Node
  /\ apc \in {"idle", "lock", "next_prev", "new_next", "new_prev", "prev_next", "unlock",
             "clear", "clear_next", "init"}
  /\ new \in Node \cup {Null} /\ tail \in Pointer /\ cur \in Pointer
  /\ dpc \in {"idle", "pick", "lock", "walk", "del_prev", "del_next", "clear", "unlock", "recycle"}
  /\ entry \in Pointer
  /\ line \in Seq(Node)

(* The i-th place of the ring: 0 and Len(line) + 1 are the list's head.    *)
at(i) == IF i \in 1 .. Len(line) THEN line[i] ELSE head

(* Followed forward, the ring spells the line after every single write,    *)
(* for that is how the distance task looks at it; backward it does while   *)
(* nobody is between two writes (list.c:12-34).  No node is on it twice.   *)
(* The node a thread has its hand on is one it may use: on the line for a  *)
(* search, the first of the line for a distance task, although it read the *)
(* pointer without the mutex (position.c:77-83).                           *)
Ring ==
  /\ \A i \in 0 .. Len(line) : next[at(i)] = at(i + 1)
  /\ mutex = "free" => \A i \in 0 .. Len(line) : prev[at(i + 1)] = at(i)
  /\ \A i, j \in 1 .. Len(line) : line[i] = line[j] => i = j
  /\ dpc \in {"lock", "del_prev", "del_next"} => \E i \in 1 .. Len(line) : line[i] = entry
  /\ dpc \in {"lock", "del_prev", "del_next"} /\ user = "distance" => line[1] = entry
  /\ dpc = "walk" => \E i \in 1 .. Len(line) + 1 : at(i) = entry

(* Every buffer is in one place: the factory, a thread's hands, the line.  *)
(* Only during a reset is a node on the line as well as in the factory,    *)
(* and then it is one that the reset has passed, or the one it stands on   *)
(* and has just given back.  The successor it then reads from that node is *)
(* a buffer not yet given back, or the head (array.c:206-212).             *)
OnePlace ==
  \A n \in Node :
    LET linked == \E i \in 1 .. Len(line) : line[i] = n
        added == n = new
        removed == n = entry /\ dpc \in {"clear", "unlock", "recycle"}
    IN  /\ n \in free \/ linked \/ added \/ removed
        /\ added \/ removed => n \notin free /\ ~linked /\ ~(added /\ removed)
        /\ n \in free /\ linked =>
             /\ apc \in {"clear", "clear_next"}
             /\ \A i \in 1 .. Len(line) + 1 : at(i) = cur =>
                  \E j \in 1 .. i : line[j] = n /\ (j = i => apc = "clear_next")
        /\ apc = "clear_next" /\ n = cur => n \in free /\ linked /\ next[n] \in (Node \ free) \cup {head}

(* The pointers, the mutex and the two threads implement the line of nodes *)
(* that the models of the lists' users are built on.                       *)
ImplementsNodeLine == Line!Spec
============================================================================
