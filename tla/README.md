# reject_process: a TLA+ model of the reject line's control process

`reject_process` runs on the CPU beside an FPGA. A camera host sends one *result* per sample to be
rejected; a *sample sensor* in front of each of two reject stations interrupts when any sample passes;
the process decides for each passage whether it belongs to a result and writes a verdict, 1 or 0, to
the station's FIFO in the FPGA, which fires the kicker. Everything else in the program serves that
decision or measures the distances it depends on.

The project has eight parts: the message pool every thread communicates through, the linked list under
it, the reject array that takes the decision, the wheel code and the arithmetic of its comparison, the
interrupt handlers with the command that reprograms their masks, the link to the host, the position
tests, and the start, end and restart of the process. File and line references are
relative to `src/`.

## 1. Inventory

| Component | State | Operations | Interacts with |
|---|---|---|---|
| **Message pool and mailboxes** `tool/msg_factory.c`, `message.c`, `mailbox.c` | one free list of `MSG_NUM_MAX` messages under `list_mutex`; per mailbox a POSIX queue of message *structs*; per message an array of payload pointers | produce, set_data, post, pend, get_data, recycle | every thread |
| **Reject array** `sample/array.c`, `tool/buf_factory.c` | two lists of waiting results, each under a mutex; a factory of 128 buffers; `cur_count_kt1`, unprotected | write_array, search_count_array, search_wheelcode_array, clear_array, two trig tasks | local protocol (writes, resets), interrupt handlers (messages), FPGA FIFOs |
| **Linked list** `tool/list.c` | `next`, `prev`, `owner` per node; no lock of its own | list_add_tail, list_del, list_empty, init_list_head | pool, array, position tests; each user brings its own mutex, and the distance tasks read without it |
| **Interrupt handlers** `fpga/isr.c` | the FPGA's status and clear registers, per station a static wheel code | one endless task per station: wait, read status, pulse the clear register, post | array, position tests (messages), local protocol (`pos_test_item`, the clear registers) |
| **Local protocol** `communication/local_protocol.c` | `pos_test_item` | handshake, reset, sample result, position test | array, FPGA registers, position lists, pool |
| **Local socket** `communication/local_socket.c` | `connect_fd`, `connect_status`, a semaphore, none under a mutex | connect, send, receive tasks | pool, local protocol, the host |
| **Position tests** `sample/position.c` | four lists of reference events with a buffer factory each | two write tasks, four distance tasks | interrupt handlers, local protocol, local socket |
| **FPGA access** `fpga/fpga.c` | the mapping, `kick_fd` | set up, read the 64-bit wheel code | handlers |
| **Threads** `tool/thread.c` | - | create a thread on CPU 0 with a priority attribute; a creation that fails is not noticed | all |
| **Configuration** `app/sys_conf.c`, `tool/key_file.c` | `g_sys_config` | read once, before any thread exists | array |
| **Startup** `app/main.c`, `tool/debug.h` | what main() has made so far; the named queues in the kernel, which outlive the process | creates the components in order, while the threads of the first ones run; `ERROR()` ends the process | all |

### What is hard about it, and what makes it correct

* *Message pool.* The reader of a mailbox works on a copy of the struct that shares the payload array
  with the pool's original. Correct when no message is lost or in two places, the copy agrees with
  the original until it is recycled, no sender ever blocks on a full queue, and every reader gives
  its message back. `produce` does not reset a message, `get_data` returns a NULL no reader checks.
* *Reject array.* Five threads. `node.owner` is set after the mutex is released; `cur_count_kt1++`
  and the reset's `cur_count_kt1 = 0` are unprotected; the message of a passage carries a pointer
  to a static the next passage overwrites; a search unlinks a buffer and recycles it in two calls, and
  `write_array`, which takes only the factory's mutex, may come between them and find the factory empty; the
  verdict is written after the unlock; the reset clears
  two lists one after the other under different mutexes while both are searched. Correct when no buffer
  is lost or doubled, every passage gets exactly one verdict, the verdict follows from the results that
  wait at that moment, and a reset leaves nothing behind.
* *Linked list.* Four writes add a node and two remove one; a distance task looks at the list between them
  without the mutex. Correct when the ring, followed
  forward, is a whole list after every single write, and no thread uses a node another one has. (A reset
  recycles a buffer and then reads `next` in it, which is harmless: the factory links buffers by a node of their
  own, and only the resetting thread takes buffers from it.)
* *Wheel code and comparison.* A 64-bit counter read as four half-words while it runs; unsigned 32- and
  64-bit differences passed through `abs(int)`.
* *Interrupt handlers.* A read-modify-write of a register by two threads without a lock;
  acknowledgement in two writes; one non-queueing notification for several bits. Correct when each
  latched passage is forwarded exactly once and the handler never sleeps on a bit.
* *Local socket.* Three threads share a descriptor and a flag without a lock; short reads and writes;
  reconnection. Correct when the receiver closes only its own connection, no socket leaks, commands
  arrive whole and in order however many words each read returns, messages are whole but for the
  first and last of a connection, and a lost connection is made again.
* *Position tests.* Events of two sources are paired by order of arrival, across a list whose head is read
  without its mutex; times, codes and results are passed as pointers to statics. Correct when
  each reference is used for one event, in order, and each event gets one report that never goes back.

* *Startup.* The interrupt threads run before the mailboxes they post to have ids, and the receiver of
  commands before the lists it uses. `mailbox_create` opens a queue that exists and nothing unlinks one: a
  restarted process receives structs whose pointers belong to a dead one. `add_new_thread` misses a
  creation that failed. Correct when a start that nobody disturbs is safe, and what a dead life left does
  its harm at once or never.

The complete list, each at its line, is under `hazards` in `PROJECT.json`.

## 2. Modules

| Module | Models | State to code |
|---|---|---|
| `MessagePool` | pool and mailboxes | `list` is `g_msg_factory->list`; `queue[q]` the POSIX queue; `built[t]` a message between produce and post, private to its thread; `got[t]` the reader's local struct. `produce` and `recycle` are one step each: both hold `list_mutex` throughout. Instantiates `MailLine`. |
| `MailLine` | the promise of the pool and its mailboxes | a mailbox is a line of frames, a message a value of its own, the free messages a number. No struct copies, payload arrays or lists. |
| `SampleWindow` | when a sample is due at a station, in encoder counts | pure operators, no C arithmetic; `WORD` stands for 2^32 |
| `RejectLine` | the promise of the reject array | per station a line of results and a line of passages; a passage takes the oldest result that is due where the encoder stood at this passage or a later one. No buffers, locks, mailboxes, counters, integer widths. |
| `WheelMatch` | the C arithmetic of `search_wheelcode_array` | pure operators: `u32`, `u64`, `int`, `abs` are what C does |
| `WheelWindow` | a sample shot under some configuration, the encoder running on | states that `WheelMatch` decides what `SampleWindow` says |
| `RejectArray` | array, buffers, trig tasks, the results and resets of `local_recv_tsk`, the latching of the code by the interrupt threads | `tpc`, `rpc`, `ipc` are program counters; a step is one critical section or one unprotected access, and a critical section inside another is a step of its own: `search` unlinks, `hit[s]` is the buffer then in the trig task's hands, with its list locked (`locked`), `buf_factory_recycle` gives it back. Instantiates `RejectLine` under the mapping that reads every list node's buffer. |
| `KickIsr` | the two interrupt tasks, `recv_pos_test_cmd`, the FPGA's status and clear registers | `state`, `clr` are registers as bit sets, `ipc` and `cpc` the two program counters, one register access per step |
| `LocalLink` | the connecting, receiving and sending threads with sockets, host, commands and messages | `connect_fd`, `connect_status`, `gsem_link` keep their names; a stream is a sequence of words, so that a header (length, command) can arrive in two reads; a step is one call or one unprotected access |
| `PositionReport` | the position tests: `position.c`, what `recv_sample_result` and the interrupt threads feed them, the sending of the reports | one behaviour is one test, `item`; `kp` is `kp1_time`, `kft` is `kt1_wheel_code` or `kft1_time`, `list` and `free` the test's list and factory, `wpc`, `dpc`, `ipc` the program counters |
| `NodeLine` | the promise of a linked list | the sequence of nodes; join at the end, leave, clear. This is the list as the other modules have it. |
| `LinkedList` | one list of `tool/list.c` with the thread that adds and the thread that removes | one write to a pointer per step, and in a reset one step for each buffer recycled (`clear_node`) and one for each `p->next` read after that (`clear_next`); `apc`, `dpc` the two program counters, `user` whether a search or a distance task removes; `line` is history. Instantiates `NodeLine`. |
| `WheelCode` | `fpga_get_current_code` | `enc` the encoder, `half` the half-words read; one register per step, in every order C allows |
| `Startup` | `main()`, the threads it starts, the mailboxes, a crash and another life | `main` counts the calls that have returned; `queue[m]` holds for each struct the life that posted it; `did(x)` is what a thread may find made |
| `MessagePoolProofs`, `LinkedListProofs`, `StartupProofs`, `WheelProofs`, `RejectArrayProofs`, `KickIsrProofs`, `LocalLinkProofs`, `PositionReportProofs` | proofs | |
| `MC...` | instances for TLC | |

How they compose: `LinkedList` implements `NodeLine`, which is why the other modules may treat a list as a
sequence and an addition, a removal or a reset as one step; `list_empty` and `head.next` outside the mutex are
covered too, with the node still first when the distance task has the mutex. `RejectArray` extends
`WheelMatch`, so that it computes as the program does, and implements `RejectLine`, which extends only
`SampleWindow`: the refinement includes the arithmetic. `MessagePool` implements `MailLine`, which is why the
other modules may treat a message as a value that nobody else changes. A mailbox of the reject array is a
counter there (all messages of a station carry the same pointer), and `PositionReport` counts messages for
the same reason. `KickIsr`
stands in front of `RejectArray`: its `posted` is what `latch` and `post` produce.

### Choices a reader should know

* **Scheduling.** `thread.c:31-50` sets SCHED_FIFO attributes but not `PTHREAD_EXPLICIT_SCHED`, so
  threads inherit the default policy. No module relies on priorities: any runnable thread may step.
* **`ERROR()`** is `perror` and `exit(-1)`: in each model it ends everything.
* **Wild pointer.** A search that meets a node whose `owner` was never set follows a wild pointer;
  in memory fresh from the kernel it is NULL and the process dies. The model lets it die.
* **`pos`** is 1 or 2. `write_array` drops 0 at once; any other value would take a buffer and link it
  nowhere, and no sender of one is in the repository.
* **The compiler's freedom.** `search_count_array(cur_count_kt1)` may use the value just stored or read
  the variable again; the model allows both (`keys`).
* **Wheel code.** In `WheelMatch` only the low word of a code matters: `abs(int)` discards the high one. In
  `RejectArray` it is an arbitrary input. `WheelCode` says what that input is worth if the FPGA does not latch
  its registers, which the code does not show: a carry between two reads puts the code off by one half-word,
  65536 counts, more than half a sample length (500 by default), so that the passage of that moment misses.
* **List writes.** The makefiles build with `-O0` and all threads run on CPU 0, so pointer writes happen
  in program order and are seen in it. With a reordered `_list_add` the forward ring would break.
* **Three mailboxes** stand for the nine in `Startup`: one made before its users, one made after its writer
  runs, one used only in a position test. The other six are like one of these.
* **A struct of a dead life** has pointers `ops`, `payload` and `node` into memory of the dead process. What the
  reader does through them depends on addresses; the model ends that life (`wild`) at once.
  The mode `0x0666` of `mq_open` (meant octal) gives the owner no read permission unless the process
  runs as root, which the model assumes it does, since it opens the FPGA.
* **Failures that main() survives.** Opening `/dev/kick_dev` only prints when it fails, and `mmap` is not
  checked; then no passage comes, or the first register access faults: `boot` without `passage`, and `crash`.
  Without the connecting thread no command comes, which is a behaviour of the model as well.
* **One station in `KickIsr`.** The stations share nothing but `pos_test_item`; a behaviour is what
  station `station` sees, for both values.
* **The FPGA** is inferred from its use: a bit that is 1 in the clear register clears the status bit and
  masks the event, and the interrupt line is the OR of the status bits, which need not notify again
  while one is set. This is the weakest assumption under which the handler can work. The clear
  register's initial content is whatever an earlier run left, except bit 0.
* **Words.** In `LocalLink` a read returns whole words, and a command's parameters fit the 1024 bytes of
  `SrvCmd_str.param` (`LinkAssumption`; the code does not check the length, nor that it is at least 4). A first
  read of one to three bytes would leave the length half stored; that is the fault `HeaderReceived` shows
  (`local_socket.c:134`), in the other word.
* **The link.** The socket is a blocking AF_UNIX stream and the host reads what it is sent, so a `write` takes
  the whole buffer or fails when the host has hung up. (A short write would send the beginning of the data
  again, `local_socket.c:106`; it takes a signal handler or a hang-up, after which the next write fails.) The
  second `read` of a header stores out of bounds (`local_socket.c:134`); in the model the word it should have
  stored is lost. After a failed `socket()` the thread tries `connect(-1)` for ever (`Stuck`), and the
  liveness properties exempt it.
* **Position tests.** The four tests are the same algorithm twice over: for two (items 2 and 4) the
  references come from the host's results and the writer is `local_recv_tsk`; for two (3 and 5) from
  kicks and a writer of its own. They share no list, buffer or mailbox, hence one behaviour per test;
  switching to another test is `testing = FALSE`. A time is copied in one step where the code copies its two
  words; the interrupt writes them in two (`kick`, `kick_usec`), so a mix of two times is seen, and the
  properties are about each word. A number stands for the code or time latched at the
  n-th reference or event; the subtraction of the two is left out, and properties are about *which* two
  values it is given. All threads run on CPU 0 (`thread.c`), so memory is sequentially consistent.
* **Unlatched passages.** A passage that comes while its status bit is set or cleared coalesces with it
  or is not latched. That is the FPGA's business: `raised` counts what was latched.

## 3. Runs

| Run | Question | Bounds, and why they are enough |
|---|---|---|
| `MessagePool` | Is a message ever lost, doubled, altered under its reader, or kept? Does a sender block? Are messages values (`MailLine`)? | 3 messages; a thread that only sends, one that relays, one that only receives, and a rival sender: every kind the program has. 3 messages let one be in each of the three places while the list is empty, so the pool also runs dry. |
| `RejectArray` | Buffers, count, verdicts, deaths, the refinement of `RejectLine`; does each station catch up with its passages? | both kick modes, 2 buffers, 3 results (two of them at station 1 so that a middle node can be unlinked) that the passages hit at either edge of the window or miss, 2 + 1 passages, unbounded results and resets. Two buffers let one be in a trig task's hands while the other waits and the next result finds the factory empty. Two passages are needed for one to overwrite the other's code, a third adds no new overlap because a trig task holds one at a time. |
| `RejectArrayOwnCode` | *violated*: is a passage decided by its own wheel code? | as `RejectArray` |
| `WheelMatch` | Is the C comparison a window of half a sample length? How far is a code from the encoder it was read from? | a word of 6 values; every distance to the station and every length, the delays beyond it at their extremes, four codes at the ends of the range, the encoder through all 36 double-word values, so every wrap and every sign happens. For the reading, half-words of 4 values from every start of the encoder, up to 3 counts between the first and last read: every carry, at every place between two reads, for counts below a half-word |
| `LinkedList` | Is the list whole after every write, and what is a node's place? | 4 interchangeable nodes: one being added, one being removed, one before it and one behind it; both kinds of remover, any number of additions, removals and resets, so that a reset is seen standing on a node it has recycled, with recycled ones passed and others to come |
| `Startup` | What do passages, commands, failed creations, crashes and the mailboxes of a dead process do to a start? | 2 lives, since a third meets what the second met; 2 messages, so that a mailbox can hold one of each life and be full; passages and commands without bound, at every point of main() |
| `KickIsr` | Wake-ups, exactly-once forwarding, masking | 2 passages and 1 event of each other kind, unbounded commands of each kind |
| `KickIsrOwnInterrupt` | *violated*: can the command switch off the passages? | as `KickIsr` |
| `LocalLink` | Who owns the descriptor, do commands and messages stay whole and in order, is a lost link made again? | 3 sockets, so that a leak and a mistaken close have a target; per connection 2 commands, with and without parameters, read in portions of any number of words; 2 messages of 3 payloads (head, item, value), so that a tear can be before, inside and after the middle one. Hanging up and failing `socket()` at any time. |
| `LocalLinkHeader` | *violated*: is the command of a header the one that was sent? | as `LocalLink` |
| `PositionReport` | Pairing, reports, deaths, an answer to every event | one distance and one delay test, 2 buffers, 3 references, 3 events: the list is empty, full, and its head taken while the writer is between linking and owner; a third reference reuses a buffer and runs the factory dry; a third event overtakes two unread messages |
| `PositionReportStale` | *violated*: is a report a distance measured for its event, or since? | as `PositionReport` |

Deadlock checking is off: with its bounded passages used up and the host silent, or after `ERROR()`,
the system may stop.

### What the four violations show

* `OwnCode` (`isr.c:91`, `188`): two samples in quick succession are both decided by the second one's
  wheel code, because the message carries a pointer to a static. `NeverOlder`, which holds, bounds the damage:
  the code is the passage's own or a later one.
* `OwnInterruptOn` (`local_protocol.c:79-80` against `isr.c:82-84`): the command reads the clear register
  during the handler's pulse and writes bit 0 back as 1. No code clears it again until the next pulse,
  which cannot come since bit 0 is masked. The comment beside the code says that interrupt
  must not be switched off. `EachPassageOnce`, `PassageForwarded` and the first half
  of `InterruptsOn` hold as long as this read did not happen (`torn`), its second half as long as the
  opposite overlap did not (`crossed`).
* `HeaderReceived` (`local_socket.c:134`): a second read of a header goes to `&SrvCmd_str+nhas_recv`, which
  counts structures and not bytes, so the command executed is the previous one. `CommandAsSent` exempts
  exactly those command words (`short`); the parameters are always the right ones.
* `ReportMeasured` (`position.c:77-80`): when no reference waits, the event is answered all the same, with
  the static `dis` of an earlier measurement. `ReportsInOrder` bounds what the host sees: exactly one
  report per event, never older than the report before it.

### How the reject line ends

`Deaths`: the process ends for want of a buffer (`buf_factory.c:81`) or in a search that met a node without
owner (`array.c:190-195`), and for nothing else. When it runs dry, each buffer holds a result that waits, or is
one that a trig task has unlinked and not yet recycled (`hit`): `write_array` takes the factory's mutex only, so
it may come between `list_del` and `buf_factory_recycle` (`array.c:61-62`) and end the process although a
buffer is about to be free.

### Fairness

`MessagePool`: readers loop from pend to recycle without a condition on their way, and the default policy
runs every runnable thread, hence weak fairness of pend, recycle and the relays' produce and post. No
thread is obliged to send. `RejectArray`: weak fairness of `local_recv_tsk` once it is in a command and
of each interrupt and trig task; none of the host or the samples. `KickIsr`: weak fairness of the
handler only; the command may stop half-way. `LocalLink`: weak fairness of the connecting and the receiving
thread, and of the host accepting a connection it is asked for; none of the host's commands or hanging up.
`PositionReport`: weak fairness of the rest of an interrupt, the writer once it has begun, the distance task
and the sender; none of references, events or commands. `Startup`: weak fairness of main() and of every thread
once it has begun; none of passages, commands, crashes or a new start. `LinkedList`, `WheelCode`: none needed.

Several properties are conjunctions of two named halves (`InOnePlace`, `MessageIntact`, `SendersServed`, `BufInOnePlace`,
`Deaths`, `InterruptsOn`, `SocketsOwned`, `StreamWhole`, `HostServed`, `StaleInFront`): one question, two
sides, each defined with its own comment just above.

### What the starts show

`StartupDeaths` says what a start is exposed to and what it is not. A passage before `array_buf_init` has run
ends the process (`mq_send` on id 0), a result before it dereferences NULL; both need a moving line or a
sending host during main(). A life that is left alone until main() is through dies of neither. The structs of
a dead life lie in front of all others: the first the reader gets is one of them, and `StaleInFront` says that
a reader which got past them (there were none) never meets one, and that nobody waits in `mq_send` but behind
them. `PostReturns` exempts one case, a reader whose `pthread_create` failed: its senders wait or run the pool
dry, and nothing reports why.

## 4. Proofs

All are for every value of the constants, under the modules' assumptions: sizes are
naturals, `None` is not a message or buffer, results and codes are words, a word has an even number of
values, and the encoder counts less than a half-word while a code is read.

* **`LinkedListProofs`.** The invariant is about the places of the ring, 0 to `Len(line) + 1`, whose first and
  last are the head. `Fwd`: each points to the next, always. `Back`: each points back, but for the places
  `Gap` names, where a thread is between two writes. `Hands`: what that thread has in its locals and has
  already written. `Places`: where the buffers are, and how far a reset has got, on either side of
  `clear_node`. With it `Ring`, `OnePlace`,
  and the refinement of `NodeLine`: only `prev_next`, `del_next` and `init_next` change the line. `Fwd` alone
  is not inductive: the two writes of `_list_del` go through `entry->prev`, which only `Back` and the mutex
  (`Owner`) vouch for.
* **`StartupProofs`.** `Order`: a mailbox is the structs of dead lives, then those of this one. `Balance`:
  every message of a living process is on the free list, in a mailbox or in one thread's hands. `Early`: what
  a thread does before main() is through began with a passage or command that came too early.
  `OnlyStaleBlocks` is the counting argument: a mailbox full of fresh messages would hold them all, and the
  sender has one in hand. `WaitersMeetReader` draws the consequence: whoever waits in `mq_send` finds the
  reader of that mailbox at `mq_receive`, so that no chain of threads can wait for each other.
* **`MessagePoolProofs`.** The inductive invariant adds to the checked conjuncts that a message on
  the free list is clear, a message being built is clear and addressed, and a bound on the entries of a
  mailbox: an injection from queue positions to messages that avoids the sender's own (`NoTwin`), which
  turns into `PostNeverBlocks` by counting. Lemmas say what Append and Tail do to the elements of a
  sequence. The refinement of `MailLine` needs one more invariant, `Unread` (a struct in a queue has not been
  walked), and is `NoTwin` at work: a post or a recycle writes to the payload array of one message, and every
  other frame is that of another message.
* **`WheelProofs`.** For the reading of a code, the invariant records what was read from each register as the
  half-word of a value the encoder had at that time; the lemmas on quotients and remainders say that a number
  is put together from its half-words, that quotients keep the order, and that two numbers less than a
  half-word apart have quotients at most one apart. Of the order of the four reads only that the low word
  precedes the high one is used. For the comparison, `InsideIsWindow` says for every word size, configuration and code
  that the unsigned differences passed through `abs(int)` are at most half a sample length exactly when the
  passage is in the window; `SignedWord` is the step from a remainder to the `int` it becomes.
* **`RejectArrayProofs`.** `IInv == TypeOK /\ BufInv /\ PassInv`. `BufInv` is about buffers: `BufNoLoss`,
  `BufNoTwin`, `OwnerWindow`, where each list's samples belong, and what a reset has achieved at each of its
  program points (`Cleared`: its list is empty and no trig task holds a buffer of it, which the mutex of the list
  guarantees, `locked`). `PassInv` is about passages: the balance of interrupts, mailbox, task and FIFO, the
  count relative to the last reset, and which passage was read. The two halves are inductive
  independently of each other given `TypeOK`, so each action is examined only for what it disturbs.
  `Refinement` is `Spec => Line!Spec`: each step of the five threads is a step of the abstract line or a
  stutter. It puts the other theorems together: a search hits what is due (`InsideIsWindow`), the code it
  compares with is the passage's own or a later one's (`NeverOlder`), there is a passage to decide
  (`VerdictPerPassage`), and `write_array`, which overwrites a buffer, leaves the line alone because a free
  buffer is on no list (`BufNoTwin`).
* **`KickIsrProofs`.** The invariant adds `Locals` (what the handler's register copy may contain at each
  program point), `Seen` and `Kept` (what an overlap of the two read-modify-writes leaves behind).
* **`LocalLinkProofs`.** `Baton` (of the proof module) says which of the connecting and the receiving thread
  may touch the descriptor at each pair of program points, although the flag that passes it is not locked;
  `Words`, `Stream` and `Reading` relate what was sent, what waits in the socket and what the receiver has of
  the current command; `Writing` and `Fresh` do the same for messages. From them follow the safety properties
  of the run.
* **`PositionReportProofs`.** Four layers: `CountInv` accounts for every reference, event and report between its
  source and its end; `BufInv` puts every buffer in exactly one place; `RefInv` says that the i-th waiting node
  holds the i-th reference not yet used, and how far the interrupt thread has got with the static it is writing;
  `PairInv` adds that `dis` is the last measured event and below the one being handled, from which
  the order of pairs and reports follows. The layers are needed in that order: a reference's place in the list is
  its number only because no buffer is on it twice and counts are exact.

* **Progress without fairness.** Five of the liveness properties have their safety half proved. `CatchesUp`
  (`EveryPassageDecided`), `GetsDone` (`PassageForwarded`), `AnswersAll` (`EventReported`) and `ServesHost`
  (`HostServed`) each define a number, `work`, from where the threads and messages are, and prove of every step
  that the threads whose fairness is assumed make it smaller, that nothing makes it larger but a new passage,
  event, command or connection, and that as long as something is owed, a thread can run or a mailbox is not
  empty. `WaitersMeetReader` is that last part for `PostReturns`. What is left to fairness is only that a
  thread which can run does. The invariants these need are those of the same module, plus, for `ServesHost`,
  that the connection stands while the host keeps its end open (`Standing`), and for `AnswersAll` the equality of
  what is owed with what is under way (`Accounts`).

Only model-checked: the six liveness properties themselves, `Returns`, `EveryPassageDecided`,
`PassageForwarded`, `HostServed`, `EventReported`, `PostReturns`, because leads-to under fairness needs ENABLED,
which is outside the prover. Every other property of the passing runs is a theorem.

## 5. Not modelled

* **Configuration parser** (`tool/key_file.c`): reads a text file once, before any thread exists. Its results
  are constants of the models, its failure to open the file is in `Startup`.
* **Device set-up** (`fpga.c:34-55`): `open`, `fcntl` and `mmap`. What fails there ends the process or leaves
  it without interrupts, both of which the models allow.
* **Thread attributes** (`thread.c:23-73`): that one is refused ends the process (`Startup`); their meaning
  for the scheduler is under *Choices*.
* **Functions without a caller**: `mailbox_timedpend`, `mailbox_timedpost`, `msg_set_queue`, `msg_set_prio`,
  `list_add`, and the release callbacks of a message.
* **The verdict in the FPGA**, the kicker, and the host: inputs and outputs.
* **Makefiles and project files**: generated by the IDE.

What could still be added: the composition of `KickIsr` with `RejectArray` in one instance, which now rests
on `EachPassageOnce` on one side and the counting of `latch` and `post` on the other.
