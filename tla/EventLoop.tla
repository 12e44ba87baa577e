----------------------------- MODULE EventLoop -----------------------------
(***************************************************************************)
(* The loop of one tube manager: tube_manager_loop, tube_manager_wait and  *)
(* pending_timers (src/src/tube_manager.c) with the timer queue, the self- *)
(* pipe, signals, and the other threads that call tube_manager_stop,       *)
(* _schedule, _cancel_timer and _interrupt.                                *)
(*                                                                         *)
(* Times are kept relative to mgr->last, the loop's idea of "now": lag is  *)
(* how far the clock has moved on since, and rel[t] is a timer's time      *)
(* minus mgr->last.  Past MaxLag the clock is not followed further: every  *)
(* timer is due by then.                                                   *)
(***************************************************************************)
EXTENDS Integers, Sequences, FiniteSets

CONSTANTS
    Timer,      \* timer structures; each is scheduled at most once
    None,       \* NULL
    Delay,      \* the delays (ms) callers ask for
    MaxLag,     \* bound: see above
    PipeCap,    \* bound: bytes the self-pipe holds
    Contexts,   \* callbacks registered for the signal (sig_contexts)
    MaxWakes,   \* bound: signals and interrupts in a behaviour
    Other       \* what other threads call: "schedule", "cancel", "stop"

ASSUME EventLoopAssumption ==
    /\ None \notin Timer
    /\ MaxLag \in Nat /\ Delay \subseteq 0 .. MaxLag
    /\ PipeCap \in Nat /\ Contexts \in Nat /\ MaxWakes \in Nat
    /\ Other \subseteq {"schedule", "cancel", "stop"}

VARIABLES
    pc,         \* where the loop's thread is
    keep_going, \* mgr->keep_going
    stopping,   \* who has yet to write to the pipe in tube_manager_stop
    pipe,       \* bytes in the self-pipe
    sock,       \* a packet waits on a socket
    stamp,      \* the clock minus mgr->last when that packet arrived
    sockSet,    \* FD_ISSET(sock, &reads) when select returned
    eintr,      \* a signal handler ran during select or recvmsg
    lag,        \* the clock minus mgr->last
    timers,     \* the timers in timer_q
    rel,        \* rel[t]: t's time minus mgr->last
    cancelled,  \* timers whose time is the epoch
    unsorted,   \* cancelled timers gheap_make_heap has not yet moved
    top,        \* the timer in the queue's first slot
    term,       \* the timer whose time the coming select is based on
    remain,     \* what is left of select's timeout
    late,       \* history: lag when select was entered
    wakes,      \* signals and interrupts so far
    owed,       \* history: a signal has arrived and its callback has not run
    taken,      \* history: timers that pending_timers popped
    fired       \* history: timers whose callback was called

callVars == <<keep_going, stopping>>
socketVars == <<sock, stamp, sockSet>>
timerVars == <<timers, rel, cancelled, unsorted, top>>
waitVars == <<term, remain, late>>
historyVars == <<owed, taken, fired>>
vars == <<pc, callVars, pipe, socketVars, eintr, lag, timerVars, waitVars, wakes, historyVars>>

(***************************************************************************)
(* "wait": the while of tube_manager_wait.  "peek": the while of           *)
(* pending_timers.  "exec": its ls_timer_exec.  "arm": before select.      *)
(* "select": in it.  "ready": after it, something to read.  "startcb",     *)
(* "timercb", "sigcb", "packetcb": in an application's callback.           *)
(* How the loop ended: "returned", "error" (select refuses the timeout it  *)
(* is given), "failed" (any other error), "crashed".                       *)
(***************************************************************************)
PC == {"wait", "peek", "exec", "arm", "select", "ready", "recv",
       "startcb", "timercb", "sigcb", "packetcb", "returned", "error", "failed",
       "crashed"}

TypeOK ==
    /\ pc \in PC
    /\ keep_going \in BOOLEAN /\ stopping \in {"nobody", "callback", "thread"}
    /\ pipe \in Seq({"signal", "nudge"}) /\ Len(pipe) =< PipeCap
    /\ sock \in BOOLEAN /\ sockSet \in BOOLEAN /\ eintr \in BOOLEAN /\ owed \in BOOLEAN
    /\ lag \in 0 .. MaxLag /\ stamp \in 0 .. MaxLag
    /\ timers \in SUBSET Timer
    /\ rel \in [Timer -> -MaxLag .. MaxLag]
    /\ cancelled \in SUBSET Timer
    /\ unsorted \in SUBSET timers
    /\ top \in Timer \cup {None}
    /\ term \in Timer \cup {None}
    /\ remain \in 0 .. MaxLag /\ late \in 0 .. MaxLag
    /\ wakes \in 0 .. MaxWakes
    /\ taken \in SUBSET Timer
    /\ fired \in SUBSET Timer

\* _tube_manager_init; tube_manager_loop triggers the "loopstart" event.
Init ==
    /\ pc = "startcb"
    /\ keep_going = TRUE /\ stopping = "nobody"
    /\ pipe = <<>>
    /\ sock = FALSE /\ sockSet = FALSE /\ eintr = FALSE
    /\ lag = 0 /\ stamp = 0
    /\ timers = {}
    /\ rel = [t \in Timer |-> 0]
    /\ cancelled = {} /\ unsorted = {}
    /\ top = None
    /\ term = None /\ remain = 0 /\ late = 0
    /\ wakes = 0 /\ owed = FALSE
    /\ taken = {} /\ fired = {}

InCallback == pc \in {"startcb", "timercb", "sigcb", "packetcb"}
Over == pc \in {"returned", "error", "failed", "crashed"}

------------------------------------------------------------------------------
(***************************************************************************)
(* The timer queue: a heap ordered by time, the epoch first.  Only its     *)
(* first slot is kept track of.  As long as a cancelled timer has not been *)
(* moved to its place the heap is out of order and any timer may come up.  *)
(***************************************************************************)
Key(r, c, t) == IF t \in c THEN -MaxLag - 1 ELSE r[t]

\* The timers that may be first of those in q.
Firsts(q, r, c, u) ==
    IF q = {} THEN {top}        \* the slot keeps what it held
    ELSE IF u # {} THEN q
    ELSE {t \in q : \A x \in q : Key(r, c, t) =< Key(r, c, x)}

\* Mutant of Push: the new timer is not moved to its place in the heap.
PushLast(t, d) ==
    /\ t \notin timers \cup taken
    /\ rel' = [rel EXCEPT ![t] = d]
    /\ timers' = timers \cup {t}
    /\ top' = IF timers = {} THEN t ELSE top
    /\ UNCHANGED <<cancelled, unsorted>>

\* gpriority_queue_push of t, due d after mgr->last: ls_timer_create_ms and
\* tube_manager_schedule_timer.
Push(t, d) ==
    /\ t \notin timers \cup taken
    /\ rel' = [rel EXCEPT ![t] = d]
    /\ timers' = timers \cup {t}
    /\ top' \in Firsts(timers', rel', cancelled, unsorted)
    /\ timers # {} /\ unsorted = {} =>
        top' = IF d < Key(rel, cancelled, top) THEN t ELSE top
    /\ UNCHANGED <<cancelled, unsorted>>

\* gheap_make_heap
MakeHeap(c, us) ==
    /\ unsorted' = us
    /\ top' \in Firsts(timers, rel, c, us)
    /\ UNCHANGED <<timers, rel>>

------------------------------------------------------------------------------
(***************************************************************************)
(* The loop's thread.                                                      *)
(***************************************************************************)

\* while (mgr->keep_going), of tube_manager_loop, _wait and pending_timers
CheckKeepGoing ==
    /\ pc = "wait" \/ (pc = "peek" /\ ~keep_going)
    /\ pc' = IF keep_going THEN "peek" ELSE "returned"
    /\ UNCHANGED <<callVars, pipe, socketVars, eintr, lag, timerVars, waitVars, wakes,
                   historyVars>>

\* pending_timers with the lock held, nothing due.
PeekPending ==
    /\ pc = "peek" /\ keep_going
    /\ timers # {} => Key(rel, cancelled, top) > 0
    /\ term' = IF timers = {} THEN None ELSE top
    /\ pc' = "arm"
    /\ UNCHANGED <<callVars, pipe, socketVars, eintr, lag, timerVars, remain, late, wakes,
                   historyVars>>

\* pending_timers with the lock held, a timer due: it is popped, and with that
\* destroyed.
PopDue ==
    /\ pc = "peek" /\ keep_going
    /\ timers # {}
    /\ Key(rel, cancelled, top) =< 0
    /\ timers' = timers \ {top}
    /\ unsorted' = unsorted \ {top}
    /\ top' \in Firsts(timers', rel, cancelled, unsorted')
    /\ rel' = [rel EXCEPT ![top] = 0]
    /\ cancelled' = cancelled \ {top}
    /\ taken' = taken \cup {top}
    /\ pc' = "exec"
    /\ UNCHANGED <<callVars, pipe, socketVars, eintr, lag, waitVars, wakes, owed,
                   fired>>

\* ls_timer_exec(*tim): tim points to the first slot of the queue.  When the
\* queue is empty the slot still has the destroyed timer, which may or may
\* not be usable.
Exec ==
    /\ pc = "exec"
    /\ \/ pc' = "timercb" /\ fired' = fired \cup {top}
       \/ timers = {} /\ pc' = "crashed" /\ UNCHANGED fired
    /\ UNCHANGED <<callVars, pipe, socketVars, eintr, lag, timerVars, waitVars, wakes,
                   owed, taken>>

\* Mutant of Arm: the operands of timersub are swapped.
ArmSwapped ==
    /\ pc = "arm"
    /\ pc' = "select"
    /\ remain' = IF term = None THEN 0 ELSE -rel[term]
    /\ late' = lag
    /\ eintr' = FALSE
    /\ UNCHANGED <<callVars, pipe, socketVars, lag, timerVars, term, wakes,
                   historyVars>>

\* timersub, with no lock, and select: a timer cancelled since then makes the
\* timeout negative and select fail; one cancelled between ls_timer_greater_tv
\* and ls_timer_get_time has no time at all, and NULL is dereferenced.
Arm ==
    /\ pc = "arm"
    /\ IF term # None /\ term \in cancelled
       THEN pc' \in {"error", "crashed"} /\ UNCHANGED <<remain, late>>
       ELSE /\ pc' = "select"
            /\ remain' = IF term = None THEN 0 ELSE rel[term]
            /\ late' = lag
    /\ eintr' = FALSE
    /\ UNCHANGED <<callVars, pipe, socketVars, lag, timerVars, term, wakes,
                   historyVars>>

\* mgr->last moves forward by d.
Advance(d) ==
    /\ lag' = lag - d
    /\ rel' = [t \in Timer |-> IF t \notin timers THEN rel[t]
                               ELSE IF rel[t] - d < -MaxLag THEN -MaxLag ELSE rel[t] - d]

TimedOut == pc = "select" /\ term # None /\ remain = 0 /\ pipe = <<>> /\ ~sock /\ ~eintr

\* Mutant of SelectTimesOut: mgr->last is not refreshed.
SelectTimesOutStale ==
    /\ TimedOut
    /\ pc' = "wait"
    /\ UNCHANGED <<callVars, pipe, socketVars, eintr, lag, timerVars, waitVars, wakes,
                   historyVars>>

\* select returns 0, and gettimeofday sets mgr->last.
SelectTimesOut ==
    /\ TimedOut
    /\ Advance(lag)
    /\ pc' = "wait"
    /\ UNCHANGED <<callVars, pipe, socketVars, eintr, timers, cancelled, unsorted, top,
                   waitVars, wakes, historyVars>>

\* select returns -1, EINTR.
SelectInterrupted ==
    /\ pc = "select"
    /\ eintr
    /\ pc' = "wait"
    /\ UNCHANGED <<callVars, pipe, socketVars, eintr, lag, timerVars, waitVars, wakes,
                   historyVars>>

SelectReady ==
    /\ pc = "select"
    /\ pipe # <<>> \/ sock
    /\ sockSet' = sock
    /\ eintr' = FALSE
    /\ pc' = IF pipe # <<>> THEN "ready" ELSE "recv"
    /\ UNCHANGED <<callVars, pipe, sock, stamp, lag, timerVars, waitVars, wakes,
                   historyVars>>

AfterPipe == IF sockSet THEN "recv" ELSE "wait"

\* One byte of the pipe; a signal's number runs the callbacks registered for it.
ReadPipe ==
    /\ pc = "ready"
    /\ pipe' = Tail(pipe)
    /\ IF Head(pipe) = "signal"
       THEN pc' = "sigcb" /\ owed' = FALSE
       ELSE pc' = AfterPipe /\ UNCHANGED owed
    /\ UNCHANGED <<callVars, socketVars, eintr, lag, timerVars, waitVars, wakes, taken,
                   fired>>

\* recvmsg, and mgr->last is the packet's time stamp, or the clock's.
Recv ==
    /\ pc = "recv"
    /\ sock' = FALSE
    /\ \E d \in {stamp, lag} : Advance(d)
    /\ stamp' = 0
    /\ pc' = "packetcb"
    /\ UNCHANGED <<callVars, pipe, sockSet, eintr, timers, cancelled, unsorted, top,
                   waitVars, wakes, historyVars>>

\* recvmsg returns -1, EINTR.
RecvInterrupted ==
    /\ pc = "recv"
    /\ eintr
    /\ pc' = "wait"
    /\ UNCHANGED <<callVars, pipe, socketVars, eintr, lag, timerVars, waitVars, wakes,
                   historyVars>>

CallbackReturns ==
    /\ InCallback /\ stopping # "callback"
    /\ pc' = CASE pc = "timercb" -> "peek"
               [] pc = "sigcb" -> AfterPipe
               [] pc \in {"startcb", "packetcb"} -> "wait"
    /\ UNCHANGED <<callVars, pipe, socketVars, eintr, lag, timerVars, waitVars, wakes,
                   historyVars>>

\* tube_manager_loop returns false: the lock cannot be taken, select or recvmsg
\* fails, gettimeofday fails after the timeout of select or after recvmsg, which
\* has taken the packet, or an event cannot be triggered or a packet handled for
\* want of memory.
LoopFails ==
    /\ \/ /\ \/ pc = "peek" /\ keep_going
             \/ pc \in {"arm", "recv"} \/ TimedOut
             \/ pc \in {"startcb", "packetcb"} /\ stopping # "callback"
          /\ UNCHANGED <<sock, stamp>>
       \/ pc = "recv" /\ sock' = FALSE /\ stamp' = 0
    /\ pc' = "failed"
    /\ UNCHANGED <<callVars, pipe, sockSet, eintr, lag, timerVars, waitVars, wakes,
                   historyVars>>

LoopStep == \/ CheckKeepGoing \/ PeekPending \/ PopDue \/ Exec \/ Arm \/ SelectTimesOut
            \/ SelectInterrupted \/ SelectReady \/ ReadPipe \/ Recv \/ RecvInterrupted
            \/ CallbackReturns \/ LoopFails

------------------------------------------------------------------------------
(***************************************************************************)
(* Calls of the application, by a callback or by another thread.           *)
(***************************************************************************)
MayCall(what) == ~Over /\ (InCallback \/ what \in Other)

\* tube_manager_schedule_ms and tube_manager_schedule
Schedule(t, d) ==
    /\ MayCall("schedule")
    /\ Push(t, d)
    /\ UNCHANGED <<pc, callVars, pipe, socketVars, eintr, lag, waitVars, wakes,
                   historyVars>>

\* tube_manager_cancel_timer in a callback: ls_timer_cancel, then the heap.
Cancel(t) ==
    /\ InCallback
    /\ t \in timers \ cancelled
    /\ cancelled' = cancelled \cup {t}
    /\ MakeHeap(cancelled', {})
    /\ UNCHANGED <<pc, callVars, pipe, socketVars, eintr, lag, waitVars, wakes,
                   historyVars>>

\* The same by another thread: the time is set before the lock is taken.
CancelMark(t) ==
    /\ "cancel" \in Other /\ ~Over
    /\ t \in timers \ cancelled
    /\ cancelled' = cancelled \cup {t}
    /\ unsorted' = unsorted \cup {t}
    /\ UNCHANGED <<pc, callVars, pipe, socketVars, eintr, lag, timers, rel, top,
                   waitVars, wakes, historyVars>>

CancelSort(t) ==
    /\ t \in unsorted /\ ~Over
    /\ MakeHeap(cancelled, unsorted \ {t})
    /\ UNCHANGED <<pc, callVars, pipe, socketVars, eintr, lag, cancelled, waitVars,
                   wakes, historyVars>>

\* tube_manager_stop: keep_going, then a byte into the pipe.  Its caller is
\* held up as long as the pipe is full.
Stop ==
    /\ MayCall("stop")
    /\ keep_going
    /\ keep_going' = FALSE
    /\ \/ InCallback /\ stopping' = "callback"
       \/ "stop" \in Other /\ stopping' = "thread"
    /\ UNCHANGED <<pc, pipe, socketVars, eintr, lag, timerVars, waitVars, wakes,
                   historyVars>>

\* Mutant of StopWake: tube_manager_stop only clears keep_going.
StopWakeNot ==
    /\ stopping # "nobody"
    /\ stopping' = "nobody"
    /\ UNCHANGED <<pc, keep_going, pipe, socketVars, eintr, lag, timerVars, waitVars,
                   wakes, historyVars>>

StopWake ==
    /\ stopping # "nobody"
    /\ Len(pipe) < PipeCap
    /\ stopping' = "nobody"
    /\ pipe' = Append(pipe, "nudge")
    /\ UNCHANGED <<pc, keep_going, socketVars, eintr, lag, timerVars, waitVars, wakes,
                   historyVars>>

\* tube_manager_interrupt
Interrupt ==
    /\ ~Over
    /\ wakes < MaxWakes /\ Len(pipe) < PipeCap
    /\ wakes' = wakes + 1
    /\ pipe' = Append(pipe, "nudge")
    /\ UNCHANGED <<pc, callVars, socketVars, eintr, lag, timerVars, waitVars,
                   historyVars>>

\* Mutant of Signal: the byte written is not the signal's number.
SignalMislabelled ==
    /\ ~Over
    /\ wakes < MaxWakes /\ Len(pipe) + Contexts =< PipeCap
    /\ wakes' = wakes + 1
    /\ pipe' = pipe \o [i \in 1 .. Contexts |-> "nudge"]
    /\ owed' = (Contexts > 0)
    /\ eintr' = (pc \in {"select", "recv"})
    /\ UNCHANGED <<pc, callVars, socketVars, lag, timerVars, waitVars, taken, fired>>

\* A signal: _tm_signal writes one byte for each context registered for it.
Signal ==
    /\ ~Over
    /\ wakes < MaxWakes /\ Len(pipe) + Contexts =< PipeCap
    /\ wakes' = wakes + 1
    /\ pipe' = pipe \o [i \in 1 .. Contexts |-> "signal"]
    /\ owed' = (Contexts > 0)
    /\ eintr' = (pc \in {"select", "recv"})
    /\ UNCHANGED <<pc, callVars, socketVars, lag, timerVars, waitVars, taken, fired>>

\* A packet arrives; the kernel stamps it (SO_TIMESTAMP).
Packet ==
    /\ ~Over /\ ~sock
    /\ sock' = TRUE
    /\ stamp' = lag
    /\ UNCHANGED <<pc, callVars, pipe, sockSet, eintr, lag, timerVars, waitVars, wakes,
                   historyVars>>

\* The clock moves.
Tick ==
    /\ ~Over
    /\ lag' = IF lag < MaxLag THEN lag + 1 ELSE lag
    /\ remain' = IF pc = "select" /\ remain > 0 THEN remain - 1 ELSE remain
    /\ UNCHANGED <<pc, callVars, pipe, socketVars, eintr, timerVars, term, late, wakes,
                   historyVars>>

Next ==
    \/ LoopStep
    \/ \E t \in Timer : \/ \E d \in Delay : Schedule(t, d)
                        \/ Cancel(t) \/ CancelMark(t) \/ CancelSort(t)
    \/ Stop \/ StopWake \/ Interrupt \/ Signal \/ Packet \/ Tick

Spec == Init /\ [][Next]_vars

(***************************************************************************)
(* The thread of the loop is scheduled, its callbacks return, a thread     *)
(* that began a call goes on with it, and time passes.                     *)
(***************************************************************************)
FairSpec ==
    /\ Spec
    /\ WF_vars(LoopStep)
    /\ WF_vars(Tick)
    /\ WF_vars(StopWake)
    /\ \A t \in Timer : WF_vars(CancelSort(t))

------------------------------------------------------------------------------
\* While select sleeps no cancelled timer is in the queue, and select ends no
\* later after a timer's time than mgr->last was behind the clock when select
\* was entered: what pending_timers saw covers everything callbacks have
\* scheduled and cancelled, and all that select oversleeps is the age of the
\* loop's idea of "now".
SleepCoversTimers ==
    pc = "select" => \A t \in timers :
        t \notin cancelled /\ term # None /\ (remain > 0 => remain =< rel[t] - lag + late)

\* A timer's callback is called when the timer has expired: pending_timers
\* calls the callback of the timer it takes out of the queue.
FiresOnExpiry == fired \subseteq taken

\* tube_manager_stop ends the loop, from whatever thread it is called and
\* whatever the loop is doing: the wake-up cannot fall between the check of
\* keep_going and select.
StopIsHonoured == ~keep_going ~> Over

\* A scheduled timer does not stay in the queue for ever while the loop runs.
TimersAreTaken == \A t \in Timer : (t \in timers) ~> (t \notin timers \/ Over)

\* A signal reaches the callback registered for it, unless the loop is stopped.
SignalIsServed == owed ~> (~owed \/ ~keep_going \/ Over)
=============================================================================
