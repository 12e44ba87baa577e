# SPUDlib in TLA+

SPUDlib is a C library for SPUD tubes: bidirectional, optionally named flows of
datagrams between two UDP endpoints. This directory holds TLA+ models of its core,
the TLC runs that check them and TLAPS proofs about them. Paths below are relative
to the repository; `PROJECT.json` maps each definition to the lines it models.

## 1. Inventory

| Component | State | Operations | Correct when |
|---|---|---|---|
| Tube manager (`src/tube_manager.c`) | `tubes` (a hash table from ID to tube), `policy`, `keep_going`, sockets | open, add, remove, set policy, stop, destroy, the receive loop's four commands | a tube exists only because someone opened it; an opener is RUNNING only after its peer accepted; a late packet does not revive a tube; the ends agree once packets have arrived; nothing is freed twice |
| Event loop (`src/tube_manager.c`, `src/ls_timer.c`) | `timer_q` (a heap), `last` (the loop's "now"), the self-pipe, `sig_contexts` | wait, pending_timers, schedule, cancel, interrupt, signal, stop | every timer is taken, and its own callback runs; select covers every timer, up to the age of `last`; a signal and a stop are never lost |
| Tube (`src/tube.c`) | `state`, `peer`, `sock`, `id` | send, data, close, set_* | no transition outside UNKNOWN / OPENING / RUNNING |
| Eventing (`src/ls_eventing.c`) | events, their binding lists, the queue of moments, `running`, `destroy_pending` | create_event, bind, unbind, trigger, destroy | a moment calls exactly the callbacks bound when it begins; no freed node is followed; deferred unbinds and destruction happen |
| Manager life (`src/tube_manager.c`, `src/tube_stream.c`) | the structure and its parts, pipe, sockets, `max_fd` | create, socket, signal registration, destroy | a failed create leaves no memory behind; `select` watches every descriptor |
| Datagrams (`src/tube.c`, `src/spud.c`, `src/ls_pktinfo.c`, `src/ls_sockaddr.c`) | header, flags, CBOR body, local and peer address | send, sendmsg, recvmsg, parse | an answer leaves from the address the OPEN came to |
| Hash table (`src/ls_htable.c`) | buckets, `bcount`, `count` | put, get, remove, clear, walk, iterate, rebuild | behaves as a map; each value is cleaned once; a walk visits everything once |
| Queue (`src/ls_queue.c`) | a linked list with `head` and `tail` | enq, deq, destroy | FIFO |
| Memory pools (`src/ls_mem.c`) | pages, cleaners, `size` | create, malloc, calloc, add_cleaner, destroy | pieces never overlap; nothing leaks whatever fails; a cleaner finds the memory its argument points to |
| Tube streams (`src/tube_stream.c`) | a tube manager with three more events | create, destroy; the rest are stubs (`LS_ERR_NO_IMPL`) | as the manager |
| Logging (`src/ls_log.c`) | the stack of nested contexts | push, pop | a pop ends its own context and no outer one |
| Errors, strings | none | formatting, conversion | - |

How they interact: an application calls the tube manager's API before the loop, from
callbacks of the loop (timers, signals, events), and - for schedule, cancel, interrupt
and stop, which take the lock or only write to the pipe - from other threads. The
loop waits in `select` for packets, the self-pipe and the next timer; a packet is
looked up in `tubes` and handled by command, which triggers events through the
dispatcher; a callback that triggers further events has them queued. The managers of
two programs interact through UDP only: packets may be lost, duplicated and
reordered, and nothing in the library retransmits.

An application's callback may call the manager that is in the middle of handling a
packet; tubes live in the hash table, whose walk runs callbacks too; CBOR maps are
built in pools, and the log context is pushed and popped around every callback.

What is hard here: the order of OPEN, ACK, CLOSE and their copies; the failure paths
after a tube has entered the table; re-entrancy of the dispatcher; time, kept as
`mgr->last` and refreshed in two places only; the races between the loop and other
threads; and the points at which an allocation or a system call may fail half way. `PROJECT.json` lists each hazard at its line, with the properties that
cover it.

## 2. Modules

| Module | Models | Composition |
|---|---|---|
| `TubeSession` | what the two ends of a tube promise: the abstract specification | refined by `TubeManager` |
| `TubeManager` | any number of managers, their tubes and the network between them | instantiates `TubeSession` |
| `TubeManager_proofs` | its safety, that it implements `TubeSession`, that an OPEN is accepted once, that the ends of a tube agree, where a destroyed tube can be used | extends `TubeManager` |
| `Eventing` | one dispatcher, single-threaded but re-entrant | |
| `Eventing_proofs` | theorems about it | extends `Eventing` |
| `EventLoop` | one manager's loop, its timers, pipe and signals, and other threads | |
| `EventLoop_proofs` | theorems about it | extends `EventLoop` |
| `TubeEvents` | one manager and its dispatcher: calls of the manager from callbacks of its own events | the tube operations of `TubeManager` with the delivery of `Eventing`, both reduced to what re-entrancy needs |
| `TubeEvents_proofs` | theorems about it | extends `TubeEvents` |
| `ManagerLife` | creating managers, opening sockets, destroying, each failing anywhere | |
| `Datagram` | what a tube puts into a packet, and what the other end's loop reads | two ends and the network between them |
| `TableMap`, `Fifo` | what a table and a queue promise | refined by `Htable`, `Queue` |
| `Htable` | the hash table with its cleaners, rebuilds and walks | instantiates `TableMap` |
| `Queue` | the linked list | instantiates `Fifo` |
| `Pool` | pages, direct allocations and cleaners, every allocation may fail | |
| `LogContext` | the stack of log contexts | |
| `Htable_proofs` | theorems about the hash table | extends `Htable` |
| `Pool_proofs` | theorems about pools | extends `Pool` |
| `Library_proofs` | theorems about manager life, datagrams, log contexts and the queue, and about the composition of all in `MC_Library` | extends `MC_Library`, `Htable_proofs`, `Pool_proofs`, `TubeEvents_proofs` |
| `Recursion` | induction on the natural numbers and recursive functions, stated for sets and functions | extended by the proofs that need it |
| `MC_*` | the TLC instances | `MC_Library` extends `Htable`, `Queue`, `Pool`, `TubeEvents`, `ManagerLife`, `Datagram`, `LogContext` |

### TubeManager

`st[m][id]` is the entry of `mgr->tubes`, `peer` and `policy` are the fields of those
names, `phase[m]` is where the owning program is (before, in or after
`tube_manager_loop`, in `_tube_manager_finalize`, gone, or past undefined behaviour).
`chan[m]` holds the packets on their way to `m`; a packet is its command, ID and
sender. `owner`, `accepted` and `abandoned` are history variables that no guard of
the code's own steps reads, except that an ID is opened once (IDs are random 64-bit
numbers). One action stands for one API call, or for one pass of the receive loop:
`Receive` takes a packet and `Handle` splits as the source does into unknown ID
(`Accept`, `Ignore`) and the switch over the command (`HandleData`, `HandleOpen`,
`HandleAck`, `HandleClose`). `Env` selects what may go wrong: loss, duplication,
reordering, failing sends, failing allocations, failing system calls of the loop itself
(`LoopFails`: the lock, `select`, `recvmsg`, `gettimeofday`, the last also after the packet was
taken from the socket; `tube_manager_loop` returns false and may be entered again); and
whether the application changes the policy, stops and destroys. A failed call that changes nothing is not a step.
An allocation that fails *after* a change is: e.g. `tube_manager_add` returning
false with the tube in the table.

Application calls happen between packets of the loop (from timer callbacks, or
outside it), not inside the handling of one packet.

### Eventing

`binds[e]` is the list of bindings with their `unbound` and `normal_bound` flags,
`queue` the moments from `next_moment` on, each with the list head it captured when
it was triggered. `_handle_trigger_int` is split at every point where it calls the
application: `StartMoment`, `Fetch`, `CallbackReturns`, `ReportResult`, `EndMoment`;
in between the application may call anything (`AppRuns`). `fault` records the use of
a freed or absent node. `called`, `atStart` and `wanted` are history.

### EventLoop

The loop's thread is split wherever another thread, the clock or a callback can get in
between: the check of `keep_going`, `pending_timers` under the lock (`PeekPending`,
`PopDue`), `ls_timer_exec` after it (`Exec`), `timersub` (`Arm`), `select`, the pipe, `recvmsg`.
Times are relative to `mgr->last`: `lag` is how far the clock is ahead of it. Of the
heap only the first slot is followed, which is all the loop reads; while a cancelled
timer is not yet sifted, any timer may come up. The two sockets are one. `gettimeofday`
directly follows the `select` that timed out and is one step with it. Timers are
scheduled by callbacks (the "loopstart" event's among them) and, if `Other` says so, by
other threads, as are cancel and stop. A `recvmsg` that a signal interrupts starts the loop
over (`RecvInterrupted`). `LoopFails` is every error exit: the lock of `pending_timers`,
`select`, `recvmsg`, `gettimeofday` after a timeout or after a packet without a timestamp, and
the handling of a packet; the loop then is at "failed", or at "error" when `select` refused a
negative timeout, which only a racing cancel produces. `late` is history: how far `mgr->last`
was behind the clock when `select` was entered.

### TubeEvents

`ts[t]` is the state of the tube structure, `moments` the events waiting, the running
one first, and `frame` the one call of the manager that waits for `ls_event_trigger` to
return: a trigger outside a callback delivers its event and everything the callbacks
trigger before it returns, a trigger in a callback only queues. `FrameReturns` is what the
call does then: send the OPEN or the ACK, become RUNNING, remove the tube. `Deliver` hands
the callback its tube; `efault` records that the tube was freed by then. Each event has
one callback, and memory does not run out (`Eventing` has several callbacks,
`TubeManager` the failures).

### ManagerLife

`InitStep` lists, in order, what `_tube_manager_init` and the functions around it do;
`Create(m, kind, k)` fails at step `k`. `memory[m]` is what was allocated and not freed,
`fd` the descriptor table of the process: the kernel gives the lowest free descriptor and
the program opens and closes files of its own, so the descriptors of a manager come in
any order. `Socket` is both halves of `tube_manager_socket` with their failures, and may be
called again after one. `Finalize` closes no descriptor, as in the code. `Signal` is
`tube_manager_signal`: its `sig_context` is memory of the manager that no function frees.

### Datagram

`tubeAt[e][id]` has the fields of `tube`, `info` is the one `ls_pktinfo` of the responder's
loop. The kernel is external: it fills in `from` and `to`, honours the local address of the
control message if it is of the socket's family, may not report the destination of an
arriving packet, and cuts a datagram that is longer than the buffer. The CBOR library is
external too: it refuses a body that does not fit, and does not decode one that was cut
(`Decodes`); no property depends on the latter. Of a body only the size is followed. The flags byte is put together and taken apart as numbers, as in `spud.h`.

### Htable, Queue, Pool, LogContext

`tab` is the table with its chains per bucket; hash and comparison are computed from the
characters, folded to lower case, so that keys collide, and two spellings are one key, as in
the code. Values put with the cleaner are `Owned`. A walk is split at its calls of `func`
(`WalkStart`, `WalkStep`, `FuncReturns`), in which the application may do anything to the
table. `Queue` has nodes with addresses that are used again after they are freed; the cleaner
of `ls_queue_destroy` is given the queue and may enqueue and dequeue while the loop holds the
node it was called for (`held`). `Pool`
computes with size_t modulo `SizeMod`; its allocating functions return the set of their
possible outcomes, one per point of failure. `LogContext` counts contexts by the id the
push gave them, so that a stale depth can be told from a fresh one.

## 3. Runs

| Run | Bounds | Shows |
|---|---|---|
| `tubes_faulty` | 2 managers, 1 ID, every fault, failing loops among them, 2 packets per queue | `TypeOK`, `Provenance`, `PacketsGenuine`; `Refinement`: the managers implement `TubeSession` |
| `tubes_reliable` | 2 managers, 1 ID, in-order and lossless, 3 packets per queue, policy changes, stop, destroy, fair loops | `Agreement` of the ends when nothing is in flight; `AcceptedOnce`; `OpenIsAnswered`, `CloseTakesEffect` |
| `tubes_open_failure` | sends may fail | **violated** `NoUseAfterDestroy` |
| `events` | 2 events, 2 callbacks, 3 moments, fair dispatching | `TypeOK`, `WalkIsSafe`, `CallsEachOnce`, `BindingsMatchApi`, `DestroyHappens`, `EventEnds` |
| `events_unbind` | 1 event, 2 callbacks | **violated** `UnbindIsHarmless` |
| `events_stale` | 1 event, 2 callbacks | **violated** `QueuedMomentsAreSound` |
| `loop_live` | 2 timers, delays 0 and 1, 1 signal or interrupt, stop from another thread, failing system calls | `TypeOK`, `SleepCoversTimers`, `TimersAreTaken`, `SignalIsServed` |
| `loop_threads` | 2 timers, other threads schedule, cancel and stop | `StopIsHonoured` |
| `loop_fire` | 2 timers | **violated** `FiresOnExpiry` |
| `loop_schedule` | 1 timer, scheduled by another thread | **violated** `TimersAreTaken` |
| `pool_cleaners` | pages of 4 bytes or none, 2 requests, 1 cleaner | **violated** `CleanersComeFirst` |
| `library` | see below | the parts around the loop, each by itself |

`library` explores one component per behaviour (`subject`), the others staying where they
start, so the state space is the sum of the seven and not their product:

| Component | Bounds | Shows |
|---|---|---|
| `Htable` | 4 keys, two of them the same but for case and the others in the same buckets; 3 values, 2 of them with a cleaner; from 1 bucket over 3 to 7 | `TableSound`: every node is in the chain of its hash and the load limit is kept; `IterationCovers`; `BehavesAsMap`: implements `TableMap`, each value released once; `KeysLive`; `WalkFaults`, `WalkCovers`: what callbacks may do during a walk |
| `Queue` | 2 items, 3 nodes | `ListSound`, `KeepsOrder`: implements `Fifo` |
| `Pool` | pages of 4 bytes or none, requests of 0, 1, 3, 4 and 5, products that wrap at 16, 3 requests, 2 cleaners | `PiecesDisjoint`, `CleanersSeeMemory`, `NothingLeaks` |
| `TubeEvents` | 3 tubes, 3 events waiting | `ToldOfAll`, `EventsInOrder`, `FreedOnlyByCallback` |
| `ManagerLife` | 1 manager, created again and again, 6 descriptors | `AllOrNothing`, `SelectWatchesAll` |
| `Datagram` | 2 interchangeable IDs, a responder with 2 addresses of each family, bodies that fit with and without the header, 1 datagram on its way | `AnswersFromWhereAsked` |
| `LogContext` | 4 contexts | `PopEndsOwnContext` |

Why the bounds are enough. A tube has two ends and the code never relates two tubes,
so one ID shows every interleaving of one tube's packets. Two packets per queue let a
duplicate overtake and outlive the original; the reliable run has three, so that OPEN,
DATA and CLOSE can be under way together, with an answer besides (`MaxWaiting`). Two callbacks give a first and a
last binding, one that runs and one that it binds or unbinds, and three moments a running
one, one behind it and one that a callback adds; the four safety properties of `events` are
proved for any number of either. Two timers give a due timer and the one that follows it. `MaxChan` stops
only the application's own sends, `MaxWaiting` only the handling of an OPEN whose
ACK has no room. `AcceptCap` saturates a history counter, `MaxQueue` bounds moments,
`MaxLag` the clock (later, every timer is due), `MaxWakes` signals and interrupts,
`PipeCap` the pipe. In `library`, a table that starts with one bucket is rebuilt twice
before it has 7; three tubes give a callback's own tube, one it opens and one it
closes; six descriptors are the manager's four and two of the program. Two IDs share the
responder's `info`, and what was addressed for one must not reach the other; one datagram
on its way is enough for that, because an ACK is sent besides it (`MaxNet` stops only the
application's sends) and a received datagram may stay on its way as a copy. Whatever
`MaxNet` is, `Answers` (section 4) holds.

Two bounds hide a real effect. With unbounded wake-ups through the pipe, which do
not refresh `mgr->last`, timers starve; and with `PipeCap = 1` a callback that calls
`tube_manager_stop` while the pipe is full spins for ever, as it is the pipe's only
reader. Both are listed as hazards.

Deadlock is not checked: a program may have stopped, or have nothing to do.

Fairness. `TubeManager`: a program that created a manager enters its loop, and the
loop handles what has arrived; no fairness on the application's calls or on the
network. `Eventing`: the dispatching code goes on and callbacks return; they may go on
triggering for ever, which keeps the caller of the first trigger in the loop of
`_dispatch_trigger`, so `EventEnds` claims that a trigger returns only if they stop. `EventLoop`:
the loop's thread is scheduled, its callbacks return, the clock moves, and another
thread that began a call finishes it.

`library` states no fairness and no liveness: its components run to the end of a call.

### What the violations show

- `tube_manager_open_tube` destroys the tube twice when the OPEN cannot be sent.
- `ls_event_unbind` in a running event runs off the list for a callback that is not bound.
- A queued moment is fired on bindings freed since the trigger.
- `pending_timers` pops the due timer and calls whatever the first slot holds then.
- A timer scheduled from another thread does not wake `select`.
- `ls_pool_destroy` frees memory before it has called the cleaners: a page or a direct
  allocation taken after a cleaner was added goes first. `include/ls_mem.h:206` says that
  cleaners are "invoked before any memory is freed".

### What the passing runs say of the code's limits

Some properties hold because they name the case in which the code does not keep them.

- A callback that calls `tube_manager_remove` leads to the use of a freed tube: its
  "remove" event is delivered after the tube is gone, and if the tube is the one the loop
  is handling ("close", or "add" of an accepted tube) the loop goes on with it.
  `FreedOnlyByCallback` shows that nothing else does.
- A tube that the loop accepts and that a callback closes before `tube_manager_add` returns,
  in its own "add" or in an event queued behind that, becomes RUNNING afterwards, and its
  ACK follows its CLOSE. `TubeEvents` has these steps; no property forbids them.
- `select` may sleep past a timer: its timeout is computed from `mgr->last`, and so is the time
  of a timer scheduled by a late callback, although `include/tube_manager.h:310` says "from
  now". `SleepCoversTimers` bounds the delay by the age of `mgr->last` at that moment.
- `StopIsHonoured` counts an end of the loop by an error as an end.
- A put that rebuilds the table during a walk may make the walk skip or repeat entries
  (`WalkCovers` excludes it); a callback that removes another entry than the one it was
  called for may make the walk use a freed node (`WalkFaults`).
- `include/ls_mem.h:22` says that cleaners run in the order they were registered. They run
  in the reverse order, on which `CleanersSeeMemory` depends: in the order of the comment a
  page would be freed before the cleaners whose arguments lie in it. The property is exact:
  of the pool's memory a cleaner finds what was there when it was added, and no more.
- A sender takes a body of 1500 bytes and adds the header; a receiver reads 1500 bytes.
  The largest packets are dropped by the receiver although `tube_data` succeeded.
- `ls_pool_calloc` may wrap and return less than the "num*size" of `include/ls_mem.h:266`.
  `PiecesDisjoint` measures blocks by the wrapped length, so it does not say so.
- No descriptor is ever closed: also a failed create leaves its pipe open. A signal registered
  with `tube_manager_signal` keeps its context, with the address of the manager, after that
  was destroyed, although `include/tube_manager.h:127` says of the destroy "All associated data
  structures are freed." `AllOrNothing` says that the contexts are all the memory that stays.

## 4. Proofs

The theorems hold for every value of the constants: any managers, IDs, faults (`Env`)
and bounds, any events and callbacks, timers, delays, signals and pipe size, any sizes of
pages, requests, headers and buffers. The only assumptions are the named ones of the
modules (`TubeManagerAssumption`, `EventLoopAssumption`, `LogAssumption` and so on), which
say that bounds are natural numbers and the like, and those named in a theorem.

**`Safety`**, **`TypeCorrect`**, **`Genuine`** (`TubeManager_proofs`):
`Spec => [](TypeOK /\ Provenance /\ PacketsGenuine)`, and the two parts by themselves.
`Provenance` alone is not inductive: `Accept` and `HandleAck` believe the packet they are
handed, so the invariant also has to say of every packet in flight that it could only
have been sent by the manager it names (`PacketsGenuine`): an OPEN by the ID's owner, an
ACK by a manager that accepted the tube. The lemmas say what a queue of packets contains
after one is added, received, lost or sent again; then there is one lemma per group of
actions, and `Receive` is split by command.

**`Implementation`** (`TubeManager_proofs`): `Spec => Refinement`. From the same
invariant, each step maps to a step of `TubeSession` or a stutter: `OpenTube` to `Request`
or `Finish`, `Accept` to `Accept`, `HandleAck` to `Establish` (here `PacketsGenuine` is
needed: the ACK shows that the peer accepted), closing and cleaning to `Finish`.

**`Once`** (`TubeManager_proofs`): `"dup" \notin Env` implies `Spec => []AcceptedOnce`. With
`OneOpen` (at most one OPEN of an ID is in flight, in all queues together) and
`OpensAreFresh` (none of an ID already accepted) the property is inductive. The
assumption cannot be dropped: a late copy of an OPEN creates a second tube after the
first was closed. Loss, reordering and failing sends are allowed.

**`EndsAgree`** (`TubeManager_proofs`): `Env \subseteq {"policy", "stop"}` implies
`Spec => []Agreement`. `Agreement` speaks of the states in which no packet is on its way,
so the invariant has to say what the packets that are on their way stand for. `Sync(o, d, id)`
does, of a tube that `o` opened at `d`: only these two hold it or are sent packets of it; if
`d` is RUNNING then `o` is, or is OPENING with the ACK on its way, or has a CLOSE on its way to
`d`, or abandoned the tube; if `o` is RUNNING, or about to be by an ACK, then `d` is RUNNING or
its CLOSE is on its way to `o`; an end with a CLOSE on its way has closed. Order matters in one
place: an OPEN that its sender no longer waits for has the CLOSE *behind* it (`Followed`), so
that the tube it creates does not stay. `OpensAreFresh` of the theorem before is needed too: a
tube that was closed is not accepted again. The assumption cannot be dropped: with a lost
CLOSE, or with a CLOSE that overtakes its OPEN, one end stays RUNNING alone.

**`SafeUnlessFailing`**, **`Responders`**, **`Handlers`** (`TubeManager_proofs`) delimit what
`tubes_open_failure` shows. `Env` without `"sendfail"` and `"alloc"` implies
`Spec => []NoUseAfterDestroy`; whatever may fail, `Spec => []OnlyOpenersAtRisk` (only a program
that itself called `tube_manager_open_tube` holds or uses a destroyed tube) and
`Spec => HandlersNeverFault` (it uses it in that call or in `tube_manager_destroy`, never in a
handler of the loop). The handlers look a tube up by the packet's ID and use what they find,
so the invariant needs `FreedUnheardOf`: the ID of a destroyed tube that stayed in the table
was never sent, hence no packet names it and no other manager has it.

**`TypeCorrect`** (`EventLoop_proofs`): `Spec => []TypeOK`, with any calls of other threads.
It needs that a waiting packet's stamp is not ahead of the clock, that the first slot of a
queue that is not empty holds one of its timers, that the timer `select` is about to wait
for is not yet due, and that the pipe was not emptied since `select` reported it.

**`Sleep`** (`EventLoop_proofs`): `Other \subseteq {"stop"}` implies
`Spec => []SleepCoversTimers`. The invariant adds that the heap is in order (`TopFirst`; an
`Advance` of `mgr->last` is monotone, so it stays so) and that between `pending_timers` and
`select` `term` is the first timer, not due and not cancelled (`TermOK`). Times are relative to
`mgr->last`, the timeout is not, so the bound has the history `late`: while `select` sleeps,
`remain` and the clock's `lag` add up to no more than `term`'s time plus `late`. That nobody
else schedules or cancels is essential, as `loop_schedule` shows.

**`NoLostWakeUp`** (`EventLoop_proofs`): `Spec => [](StopSeen /\ SignalSeen)`, with any calls of
other threads. A stop sets `keep_going` and writes to the pipe in two steps, the loop reads
`keep_going` and enters `select` in several: `StopSeen` says that a loop past its check finds a
byte in the pipe or the stopping thread has yet to write it; that a callback cannot return
between the two (`StopperWaits`) makes it inductive. `SignalSeen` says that a signal whose
callback is owed has its number in the pipe. TLC's `StopIsHonoured` and `SignalIsServed` add
that the loop then gets there.

**`Callbacks`** (`EventLoop_proofs`): `Spec => []CallbacksOfScheduled`: the wrong callback that
`loop_fire` shows is always that of a timer that was scheduled. **`SelectSucceeds`**:
`"cancel" \notin Other` implies `Spec => []NoSelectError`: the timer `select`'s timeout is
computed from is not cancelled in between (`TermLives`), since callbacks do not run there.

**`Told`**, **`Order`** (`TubeEvents_proofs`): `TubeEventsSpec => []ToldOfAll` and
`TubeEventsSpec => EventsInOrder`, from one invariant, `HistoryInv`. What an application was
told says nothing of a tube whose events still wait, so the invariant follows the waiting
events: until it is told of a tube its "add" is to come (`AddToCome`), of a tube that is gone
or going "remove" was told or is to come, and nothing else after it (`RemoveToCome`,
`RemoveLast`); "add" waits once (`AddOnce`); what the loop itself triggers is at the head
and fits the tube's state (`HeadFits`). There is one lemma for all triggers of the manager
(`QuietTrigger`), one for those of callbacks (`CallbackTrigger`), and one for each of the
other steps. That nothing is told twice needs that a tube removed by a callback is freed at
once (`FreedAtOnce`): only of such a tube may a second "remove" come. After a use of a freed tube nothing is claimed.

**`Freed`** (`TubeEvents_proofs`): `TubeEventsSpec => []FreedOnlyByCallback`. The invariant
`NoneFreed` says that without a remove in a callback neither a waiting event nor the
waiting call has a freed tube: a tube is then freed only when nothing waits.

**`TypeCorrect`**, **`Walk`**, **`Calls`**, **`Match`** (`Eventing_proofs`): `Spec => []` of
`TypeOK`, `WalkIsSafe`, `CallsEachOnce` and `BindingsMatchApi`, from one invariant, `IInv`. It
says that a callback has one node in a list (`Distinct`); that the node a queued moment
captured, unless freed, is still the first of its list (`HeadsFirst`); that the callbacks
bound when the moment began still have their nodes, at their places, and are the ones
marked `normal_bound` (`Snapshot`); and that the walk stands at one node of the list and
has called exactly what comes before it (`Progress`). A callback may bind, unbind and
trigger; such calls leave every node in place and add unmarked ones at the end (`Grown`),
and one lemma shows that this is safe under the walk. `Without`, which removes the nodes
of deferred unbinds, is a recursive function: what it returns (`Remains`) is shown by
induction on the length of the list.

**`DestroyIsNotLost`** (`Eventing_proofs`): `Spec => []DestroyIsSeen /\ NothingStarted`. While a
destroy waits, `_dispatch_trigger` is on the stack and has yet to look at it, and no further
event is started; outside a trigger no moment is left in the queue. What TLC's
`DestroyHappens` adds is that the running callbacks return.

**`UnbindIsSafe`**, **`WaitingIsSafe`** (`Eventing_proofs`) say what an application has to keep to,
so that the faults of `events_unbind` and `events_stale` cannot happen. Both are implications
between temporal formulas: `Spec /\ UnbindsWhatIsBound => []UnbindIsHarmless` rests on
`BindingsMatchApi` (what is wanted has a node until the running event is done);
`Spec /\ []HeadsAreWanted => []QueuedMomentsAreSound` shows by `NoneStale` that only the node
that was first when the event was triggered matters, and that both ways of freeing nodes,
at once and at the end of the running event, spare it as long as it is wanted.

**`Sorted`**, **`NoKeyDies`** (`Htable_proofs`): `HtableSpec => []` of `TableSound` and
`KeysLive`. `Tidy` says of a table that every chain holds only nodes at home in it, no two of
them with the same key, and that `count` is the number of keys and within the load limit.
Two nodes with one key would have one hash and so one chain, hence keys are apart in the whole
table (`AllApart`). `Nodes`, the sequence of all nodes, is a recursive function over the
buckets: `LayoutExists` shows by induction that each chain has its place in it. Each way of
changing a chain (a push in front, a replacement, a removal) keeps `Tidy`, and so does
`Resize`, by induction over the nodes it moves (`ResizeSteps`, `ResizeTidy`). The load limit is
inductive only because a table that must grow at least doubles (`Room`).

**`FreedOnlyByOthers`**, **`TypesHold`** (`Htable_proofs`): `HtableSpec => []` of `WalkFaults` and
`HtableTypeOK`. `WalkSafe`: the pointer the walk goes on with (`Pointer`) leads into the table
unless it is marked stale, and is marked only by a removal that was not of the callback's own
node; the next node's key is never that of the node in the callback.

**`IterationComplete`** (`Htable_proofs`): `HtableSpec => []IterationCovers`, from `Tidy` and the
layout: between the end of a chain and the next head there are only empty chains (`Gap`).

**`WalkComplete`** (`Htable_proofs`): `HtableSpec => []WalkCovers`. `Ahead` says of a key that the
walk, going on from its bucket and pointer, still comes by its node. `OnTrack` says that,
while the table has not been rebuilt and the pointer is not stale, the keys still to be
visited are ahead and those visited are not. Removing nodes keeps the order of what is left
(`ThinnedAhead`), putting over a key changes only its spelling (`AlikeAhead`), and a new node
is put in front of its chain.

**`IsMap`** (`Htable_proofs`): `HtableSpec => BehavesAsMap`. `Content` is what `ls_htable_get`
finds; in a tidy table that is the value of the one node with the key (`ContentIs`). Each
action then maps to `Put`, `Drop` or a stutter of `TableMap` with the values it releases, and a
rebuild to a stutter, since it moves nodes and no more.

**`Lists`**, **`InsAndOuts`** (`Library_proofs`): `QueueSpec => []ListSound` and
`QueueSpec => KeepsOrder`. The invariant says that *some* sequence of different addresses,
those of the allocated nodes, is what the pointers link from `head` to `tail`, each with a
value (`Linked`). By induction the recursive `Path` follows the pointers along just that
sequence (`PathIs`), which is no longer than there are addresses because they differ.
Enqueueing appends to it, dequeueing takes its first element, and so do they with
the values `Fifo` has, also when the cleaner calls them: the node whose value it was given
(`held`) has left the list before, and its address is not used again until it returns.

**`Disjoint`**, **`Seen`**, **`Leaks`** (`Pool_proofs`): `PoolSpec => []` of `PiecesDisjoint`,
`CleanersSeeMemory` and `NothingLeaks`. `Owns` says that the cleaners together free exactly
what is allocated besides the pool, no two of them the same, and that what a cleaner may
look at is freed by itself or by one that runs later; `Carved` that every piece lies in the
used part of its page and no two overlap. Each of the steps the allocating functions are
made of has a lemma for its success and its failure. `Seen` is where the order of the
cleaners matters: the list is that of the registrations reversed, so what is left when a
cleaner's turn comes is exactly what there was when it was added. Run in the order of
registration, as the header's comment has it, cleaners would not keep `Owns`.

**`Complete`**, **`Watched`** (`Library_proofs`): `LifeSpec => []` of `AllOrNothing` and
`SelectWatchesAll`. `Sound` says of each manager that its descriptors are in the table under
its name and not above its `max_fd`; the descriptors of others, and those it leaks when a
socket cannot be opened, do not disturb that, since the kernel gives only closed ones. The
contexts of signals are followed by the history `signalled`; no step frees them.

**`Answers`** (`Library_proofs`): `DatagramSpec => []AnswersFromWhereAsked`. The invariant follows every datagram on its way (`Traced`: it is between
the two ends of its tube, in one family, and bears its command) and every tube
(`Addressed`: its packet information is the address its OPEN came to, or none). A tube whose OPEN
came without the kernel's report of its destination answers from any address of the
host, and if it is accepted again *with* a report the earlier answers may still be on
their way: so the property excepts the IDs of `unreported`.

**`Pops`** (`Library_proofs`): `LogSpec => PopEndsOwnContext`. A handle is a depth only, and
the context at that depth may by then be another one. `HandlesFit` says what remains true of
an old handle: its context, if still there, is at its depth, and everything there or above
was pushed no earlier.

**`PartsAlone`**, **`LibraryTypes`**, **`LibraryCorrect`** (`Library_proofs`): the specification of
the `library` run lets one of the components move at a time, so its behaviours are
behaviours of each component alone, the other steps being stutters (`LibraryStep`). With that
every theorem about a component holds of the composition, and `LibraryTypeOK` is the
conjunction of the components' type invariants.

Induction. A library theorem with an operator parameter cannot be used by the provers at
hand; `Recursion` states induction for a *set* of natural numbers and recursion for
functions, both from the well-foundedness of `<`, and the proofs above use those.

Not proved: liveness (`OpenIsAnswered`, `CloseTakesEffect`, `DestroyHappens`, `EventEnds`,
`TimersAreTaken`, `SignalIsServed`, `StopIsHonoured`) is out of the prover's reach and stays
with TLC. Every other property that a passing run checks has a theorem.

## 5. Not modelled

The keys and values inside CBOR maps and path declarations; malformed packets (the loop
drops them before any state changes) and the magic number; socket options one by one (they
are one point of failure of `Socket`); log levels and formatting; error codes, strings,
parsing and printing of addresses; `ls_data_realloc` and the replaceable memory and socket
functions; the stubs of tube streams; the vendored heap's internals; sample programs. Of the
failures of the loop, a mutex that cannot be unlocked, and an `ls_pktinfo_create` that
fails before the loop has begun, which changes nothing.
Of small leaks two are left out: `tube_manager_loop` skips `spud_unparse` when it ends
with an error while it holds a decoded packet, and a failed initialisation destroys a mutex
that may not have been initialised.

## 6. Plan

Done: `TubeSession`, `TubeManager` with its refinement and safety proofs; `Eventing`;
`EventLoop` with the proof of how far `select` may oversleep; the composition of the manager with
its events; the life of a manager; datagrams; the containers with their abstract
specifications; pools; log contexts; a theorem for every safety property that a passing run
checks, for the safety half of the liveness properties of the loop and the dispatcher, and for
the conditions under which three of the violations cannot happen. Left: `TableMap` and `Fifo`
could also say what a get and a dequeue return to the caller.
