----------------------------- MODULE RejectLine -----------------------------
(***************************************************************************)
(* What the reject array promises to the machine: per station a line of    *)
(* results waiting for their sample, oldest first, and a line of passages  *)
(* waiting for their verdict.  A passage takes at most one result off the  *)
(* line, the oldest whose sample is due where the encoder stood at this    *)
(* passage or a later one, and writes exactly one verdict to the station's *)
(* FIFO: 1 when it took one, 0 when none is due.  Buffers, mailboxes,      *)
(* locks, counters and the widths of C's integers are gone.                *)
(***************************************************************************)
EXTENDS SampleWindow, Sequences

CONSTANTS
  g_sys_config,
  Result,  \* the sample results the camera host may send
  Key      \* counts and wheel codes

VARIABLES
  mode,     \* 0: station 1 compares counts; otherwise wheel codes
  line,     \* line[s]: the results waiting at station s
  passed,   \* passed[s]: the encoder at each passage so far
  verdict,  \* verdict[s]: decided and not yet written, or -1
  fifo      \* fifo[s]: the verdicts written so far

vars == <<mode, line, passed, verdict, fifo>>

Init ==
  /\ mode \in {0, 1}
  /\ line = [s \in Station |-> <<>>]
  /\ passed = [s \in Station |-> <<>>]
  /\ verdict = [s \in Station |-> -1]
  /\ fifo = [s \in Station |-> <<>>]

(* A result for station s joins the line.                                  *)
Accept(s) ==
  /\ \E r \in Result : r.pos = s /\ line' = [line EXCEPT ![s] = Append(@, r)]
  /\ UNCHANGED <<mode, passed, verdict, fifo>>

(* A sample passes station s.                                              *)
Arrive(s) ==
  /\ \E code \in Key : passed' = [passed EXCEPT ![s] = Append(@, code)]
  /\ UNCHANGED <<mode, line, verdict, fifo>>

(* What the passage whose turn it is may be compared by.  The counter,     *)
(* which a reset changes at any time, is not part of the promise.          *)
Keys(s) == IF mode = 0 /\ s = 1 THEN Key
           ELSE {passed[s][i] : i \in Len(fifo[s]) + 1 .. Len(passed[s])}

(* The sample of result r is the one that passes: it is the key-th, or it  *)
(* is due where the encoder stands.                                        *)
Due(s, key, r) == IF mode = 0 /\ s = 1 THEN r.count = key
                  ELSE InWindow(g_sys_config, s, key, r.wheel_code)

Without(l, i) == [j \in 1 .. Len(l) - 1 |-> IF j < i THEN l[j] ELSE l[j + 1]]

(* The i-th result of the line is due and none before it.                  *)
Take(s, key) ==
  \E i \in DOMAIN line[s] :
    /\ Due(s, key, line[s][i])
    /\ \A j \in 1 .. i - 1 : ~Due(s, key, line[s][j])
    /\ line' = [line EXCEPT ![s] = Without(@, i)]
    /\ verdict' = [verdict EXCEPT ![s] = 1]

(* No result is due.                                                       *)
Pass(s, key) ==
  /\ \A i \in DOMAIN line[s] : ~Due(s, key, line[s][i])
  /\ verdict' = [verdict EXCEPT ![s] = 0]
  /\ UNCHANGED line

Decide(s) ==
  /\ verdict[s] = -1
  /\ Len(fifo[s]) < Len(passed[s])
  /\ \E key \in Keys(s) : Take(s, key) \/ Pass(s, key)
  /\ UNCHANGED <<mode, passed, fifo>>

Emit(s) ==
  /\ verdict[s] # -1
  /\ fifo' = [fifo EXCEPT ![s] = Append(@, verdict[s])]
  /\ verdict' = [verdict EXCEPT ![s] = -1]
  /\ UNCHANGED <<mode, line, passed>>

(* A reset empties one station's line at a time.                           *)
Clear(s) ==
  /\ line' = [line EXCEPT ![s] = <<>>]
  /\ UNCHANGED <<mode, passed, verdict, fifo>>

Next == \E s \in Station : Accept(s) \/ Arrive(s) \/ Decide(s) \/ Emit(s) \/ Clear(s)

Spec == Init /\ [][Next]_vars
=============================================================================
