------------------------------ MODULE MailLine -----------------------------
(***************************************************************************)
(* What the pool and its mailboxes promise the tasks: a message is a value *)
(* of its own.  A mailbox is a line of frames, each as its sender made it; *)
(* a receiver walks the frame it took from the line, never beyond its end; *)
(* and the tasks share a number of messages.  A frame is what its sender   *)
(* put on it, pointers included: what those lead to is another matter      *)
(* (RejectArray, PositionReport).  There are no free lists, struct copies  *)
(* or shared payload arrays.                                               *)
(***************************************************************************)
EXTENDS Naturals, Sequences

CONSTANTS Thread, Mailbox, Reader, Writers, Frame, None, SIZE

VARIABLES
  spare,    \* how many messages can still be taken
  writing,  \* writing[t]: the mailbox t has taken a message for, or None
  mail,     \* mail[q]: the frames in mailbox q, oldest first
  reading   \* reading[t]: the frame t received and how much of it t has read

lineVars == <<spare, writing, mail, reading>>

Init ==
  /\ spare = SIZE
  /\ writing = [t \in Thread |-> None]
  /\ mail = [q \in Mailbox |-> <<>>]
  /\ reading = [t \in Thread |-> None]

Take(t, q) ==
  /\ t \in Writers[q]
  /\ spare > 0 /\ writing[t] = None /\ reading[t] = None
  /\ spare' = spare - 1
  /\ writing' = [writing EXCEPT ![t] = q]
  /\ UNCHANGED <<mail, reading>>

Send(t, q, f) ==
  /\ writing[t] = q
  /\ mail' = [mail EXCEPT ![q] = Append(@, f)]
  /\ writing' = [writing EXCEPT ![t] = None]
  /\ UNCHANGED <<spare, reading>>

Receive(t, q) ==
  /\ t = Reader[q]
  /\ mail[q] # <<>> /\ writing[t] = None /\ reading[t] = None
  /\ reading' = [reading EXCEPT ![t] = [frame |-> Head(mail[q]), taken |-> 0]]
  /\ mail' = [mail EXCEPT ![q] = Tail(@)]
  /\ UNCHANGED <<spare, writing>>

ReadOne(t) ==
  /\ reading[t] # None /\ reading[t].taken < Len(reading[t].frame)
  /\ reading' = [reading EXCEPT ![t].taken = @ + 1]
  /\ UNCHANGED <<spare, writing, mail>>

Return(t) ==
  /\ reading[t] # None
  /\ reading' = [reading EXCEPT ![t] = None]
  /\ spare' = spare + 1
  /\ UNCHANGED <<writing, mail>>

Next ==
  \E t \in Thread :
    \/ \E q \in Mailbox : Take(t, q) \/ Receive(t, q) \/ \E f \in Frame[q] : Send(t, q, f)
    \/ ReadOne(t) \/ Return(t)

Spec == Init /\ [][Next]_lineVars
============================================================================
