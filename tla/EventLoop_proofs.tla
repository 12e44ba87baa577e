-------------------------- MODULE EventLoop_proofs --------------------------
(***************************************************************************)
(* Proofs about EventLoop, for every set of timers and delays, any number  *)
(* of signals and any size of the pipe.                                    *)
(***************************************************************************)
EXTENDS EventLoop, SequenceTheorems, TLAPS

\* A waiting packet was stamped since mgr->last.
StampOK == stamp =< lag /\ (~sock => stamp = 0)

\* The first slot of a queue that is not empty holds one of its timers, and
\* after a pop there still is one in it.
TopOK == (timers # {} => top \in timers) /\ (pc = "exec" => top \in Timer)

\* The timer select is about to wait for is in the queue, and not yet due.
ArmOK == pc = "arm" /\ term # None => term \in timers /\ 0 < rel[term]

\* select reported the pipe only if there is something in it.
ReadyOK == pc = "ready" => pipe # <<>>

IInv == TypeOK /\ StampOK /\ TopOK /\ ArmOK /\ ReadyOK

\* A loop that has just been entered.
LEMMA InitIInv == Init => IInv
<1> SUFFICES ASSUME Init PROVE IInv
  OBVIOUS
<1>1. pipe \in Seq({"signal", "nudge"}) /\ Len(pipe) = 0
  BY EmptySeq DEF Init
<1>2. rel \in [Timer -> -MaxLag .. MaxLag]
  BY EventLoopAssumption DEF Init
<1>3. TypeOK
  <2>1. Len(pipe) =< PipeCap /\ 0 \in 0 .. MaxLag /\ 0 \in 0 .. MaxWakes
    BY <1>1, EventLoopAssumption
  <2>2. /\ pc \in PC /\ keep_going \in BOOLEAN /\ stopping \in {"nobody", "callback", "thread"}
        /\ sock \in BOOLEAN /\ sockSet \in BOOLEAN /\ eintr \in BOOLEAN /\ owed \in BOOLEAN
    BY DEF Init, PC
  <2>3. /\ timers \in SUBSET Timer /\ cancelled \in SUBSET Timer /\ unsorted \in SUBSET timers
        /\ top \in Timer \cup {None} /\ term \in Timer \cup {None}
        /\ taken \in SUBSET Timer /\ fired \in SUBSET Timer
    BY DEF Init
  <2>4. /\ lag \in 0 .. MaxLag /\ stamp \in 0 .. MaxLag
        /\ remain \in 0 .. MaxLag /\ late \in 0 .. MaxLag /\ wakes \in 0 .. MaxWakes
    BY <2>1 DEF Init
  <2> QED  BY <1>1, <1>2, <2>1, <2>2, <2>3, <2>4 DEF TypeOK
<1> QED  BY <1>3 DEF Init, IInv, StampOK, TopOK, ArmOK, ReadyOK

\* The first slot after a step of the queue.
LEMMA FirstsIn ==
    ASSUME TypeOK, NEW q \in SUBSET Timer, NEW r, NEW c, NEW u, NEW t \in Firsts(q, r, c, u)
    PROVE  t \in Timer \cup {None} /\ (q # {} => t \in q)
  BY DEF Firsts, TypeOK

\* mgr->last moves to a time between its own and the clock's.
LEMMA AdvanceTypes ==
    ASSUME TypeOK, NEW d \in 0 .. lag, Advance(d)
    PROVE  lag' \in 0 .. MaxLag /\ lag' = lag - d /\ rel' \in [Timer -> -MaxLag .. MaxLag]
<1>1. MaxLag \in Nat /\ lag \in 0 .. MaxLag /\ rel \in [Timer -> -MaxLag .. MaxLag]
  BY EventLoopAssumption DEF TypeOK
<1>2. lag' = lag - d /\ lag' \in 0 .. MaxLag
  BY <1>1 DEF Advance
<1>3. ASSUME NEW t \in Timer
      PROVE  (IF t \notin timers THEN rel[t]
              ELSE IF rel[t] - d < -MaxLag THEN -MaxLag ELSE rel[t] - d)
                  \in -MaxLag .. MaxLag
  <2>1. rel[t] \in -MaxLag .. MaxLag /\ d \in Nat
    BY <1>1
  <2> QED  BY <1>1, <2>1
<1> QED  BY <1>2, <1>3 DEF Advance

\* Steps of the loop that leave the queue and the clock alone.
LEMMA PlainSteps ==
    ASSUME IInv, CheckKeepGoing \/ PeekPending \/ Exec \/ Arm \/ SelectInterrupted
                    \/ SelectReady \/ RecvInterrupted \/ CallbackReturns \/ LoopFails
    PROVE  IInv'
<1> USE EventLoopAssumption
<1>1. CASE CheckKeepGoing
  BY <1>1 DEF CheckKeepGoing, IInv, TypeOK, PC, StampOK, TopOK, ArmOK, ReadyOK,
              callVars, socketVars, timerVars, waitVars, historyVars
<1>2. CASE PeekPending
  <2>1. timers # {} => top \in timers /\ 0 < rel[top]
    <3>1. ASSUME timers # {} PROVE top \in timers /\ Key(rel, cancelled, top) > 0
      BY <1>2, <3>1 DEF PeekPending, IInv, TopOK
    <3>2. ASSUME timers # {} PROVE 0 < rel[top]
      <4>1. MaxLag \in Nat /\ top \in Timer /\ rel[top] \in -MaxLag .. MaxLag
        BY <3>1, <3>2 DEF IInv, TypeOK
      <4> QED  BY <3>1, <3>2, <4>1 DEF Key
    <3> QED  BY <3>1, <3>2
  <2> QED  BY <1>2, <2>1 DEF PeekPending, IInv, TypeOK, PC, StampOK, TopOK, ArmOK, ReadyOK,
              callVars, socketVars, timerVars, historyVars
<1>3. CASE Exec
  <2>1. fired' \in SUBSET Timer
    BY <1>3 DEF Exec, IInv, TypeOK, TopOK
  <2> QED  BY <1>3, <2>1 DEF Exec, IInv, TypeOK, PC, StampOK, TopOK, ArmOK, ReadyOK,
              callVars, socketVars, timerVars, waitVars
<1>4. CASE Arm
  <2>1. remain' \in 0 .. MaxLag /\ late' \in 0 .. MaxLag
    BY <1>4 DEF Arm, IInv, TypeOK, ArmOK
  <2> QED  BY <1>4, <2>1 DEF Arm, IInv, TypeOK, PC, StampOK, TopOK, ArmOK, ReadyOK,
              callVars, socketVars, timerVars, historyVars
<1>5. CASE SelectInterrupted
  BY <1>5 DEF SelectInterrupted, IInv, TypeOK, PC, StampOK, TopOK, ArmOK, ReadyOK,
              callVars, socketVars, timerVars, waitVars, historyVars
<1>6. CASE SelectReady
  BY <1>6 DEF SelectReady, IInv, TypeOK, PC, StampOK, TopOK, ArmOK, ReadyOK,
              callVars, timerVars, waitVars, historyVars
<1>7. CASE CallbackReturns
  BY <1>7 DEF CallbackReturns, InCallback, AfterPipe, IInv, TypeOK, PC, StampOK, TopOK, ArmOK,
              ReadyOK, callVars, socketVars, timerVars, waitVars, historyVars
<1>8. CASE RecvInterrupted
  BY <1>8 DEF RecvInterrupted, IInv, TypeOK, PC, StampOK, TopOK, ArmOK, ReadyOK,
              callVars, socketVars, timerVars, waitVars, historyVars
<1>9. CASE LoopFails
  <2>1. /\ \/ UNCHANGED <<sock, stamp>>
           \/ sock' = FALSE /\ stamp' = 0
        /\ pc' = "failed"
        /\ UNCHANGED <<callVars, pipe, sockSet, eintr, lag, timerVars, waitVars, wakes,
                       historyVars>>
    BY <1>9 DEF LoopFails
  <2>2. sock' \in BOOLEAN /\ stamp' \in 0 .. MaxLag /\ StampOK'
    <3>1. /\ sock \in BOOLEAN /\ stamp \in 0 .. MaxLag /\ lag \in 0 .. MaxLag /\ lag' = lag
          /\ stamp =< lag /\ (~sock => stamp = 0)
      BY <2>1 DEF IInv, TypeOK, StampOK
    <3>2. CASE UNCHANGED <<sock, stamp>>
      <4>1. sock' = sock /\ stamp' = stamp
        BY <3>2
      <4> QED  BY <3>1, <4>1, Zenon DEF StampOK
    <3>3. CASE sock' = FALSE /\ stamp' = 0
      <4>1. 0 \in 0 .. MaxLag /\ 0 =< lag
        BY <3>1
      <4> QED  BY <3>1, <3>3, <4>1, Zenon DEF StampOK
    <3> QED  BY <2>1, <3>2, <3>3
  <2> QED  BY <2>1, <2>2 DEF IInv, TypeOK, PC, TopOK, ArmOK, ReadyOK,
              callVars, timerVars, waitVars, historyVars
<1> QED  BY <1>1, <1>2, <1>3, <1>4, <1>5, <1>6, <1>7, <1>8, <1>9

\* Steps of the loop that pop a timer, move mgr->last or read the pipe.
LEMMA QueueSteps ==
    ASSUME IInv, PopDue \/ SelectTimesOut \/ ReadPipe \/ Recv
    PROVE  IInv'
<1> USE EventLoopAssumption
<1>1. CASE PopDue
  <2>1. top \in timers /\ top \in Timer
    BY <1>1 DEF PopDue, IInv, TypeOK, TopOK
  <2>2. top' \in Timer /\ (timers' # {} => top' \in timers')
    <3>1. timers' \in SUBSET Timer
      BY <1>1 DEF PopDue, IInv, TypeOK
    <3>2. CASE timers' = {}
      BY <1>1, <2>1, <3>2 DEF PopDue, Firsts
    <3>3. CASE timers' # {}
      BY <1>1, <3>1, <3>3, FirstsIn DEF PopDue, IInv
    <3> QED  BY <3>2, <3>3
  <2>3. rel' \in [Timer -> -MaxLag .. MaxLag]
    <3>1. rel \in [Timer -> -MaxLag .. MaxLag] /\ rel' = [rel EXCEPT ![top] = 0]
      BY <1>1 DEF PopDue, IInv, TypeOK
    <3>2. 0 \in -MaxLag .. MaxLag
      OBVIOUS
    <3> QED  BY <3>1, <3>2
  <2>4. /\ timers' \in SUBSET Timer /\ unsorted' \in SUBSET timers'
        /\ cancelled' \in SUBSET Timer /\ taken' \in SUBSET Timer
    <3>1. /\ timers' = timers \ {top} /\ unsorted' = unsorted \ {top}
          /\ cancelled' = cancelled \ {top} /\ taken' = taken \cup {top}
          /\ timers \in SUBSET Timer /\ unsorted \in SUBSET timers
          /\ cancelled \in SUBSET Timer /\ taken \in SUBSET Timer
      BY <1>1 DEF PopDue, IInv, TypeOK
    <3> QED  BY <2>1, <3>1
  <2>5. TypeOK'
    BY <1>1, <2>2, <2>3, <2>4 DEF PopDue, IInv, TypeOK, PC, callVars, socketVars, waitVars
  <2> QED  BY <1>1, <2>2, <2>5 DEF PopDue, IInv, StampOK, TopOK, ArmOK, ReadyOK, socketVars
<1>2. CASE SelectTimesOut
  <2>1. lag \in 0 .. lag
    BY DEF IInv, TypeOK
  <2>2. lag' \in 0 .. MaxLag /\ lag' = 0 /\ rel' \in [Timer -> -MaxLag .. MaxLag]
    <3>1. lag' \in 0 .. MaxLag /\ lag' = lag - lag /\ rel' \in [Timer -> -MaxLag .. MaxLag]
      BY <1>2, <2>1, AdvanceTypes DEF SelectTimesOut, TimedOut, IInv
    <3> QED  BY <3>1 DEF IInv, TypeOK
  <2> QED  BY <1>2, <2>2 DEF SelectTimesOut, TimedOut, IInv, TypeOK, PC, StampOK, TopOK, ArmOK, ReadyOK,
              callVars, socketVars, waitVars, historyVars
<1>3. CASE ReadPipe
  <2>1. /\ pipe # <<>> /\ pipe \in Seq({"signal", "nudge"})
        /\ Len(pipe) =< PipeCap /\ Len(pipe) \in Nat
    BY <1>3, LenProperties DEF ReadPipe, IInv, TypeOK, ReadyOK
  <2>2. pipe' \in Seq({"signal", "nudge"}) /\ Len(pipe') = Len(pipe) - 1
    BY <1>3, <2>1, HeadTailProperties DEF ReadPipe
  <2>3. Len(pipe') =< PipeCap
    BY <2>1, <2>2
  <2> QED  BY <1>3, <2>2, <2>3 DEF ReadPipe, AfterPipe, IInv, TypeOK, PC, StampOK, TopOK,
              ArmOK, ReadyOK, callVars, socketVars, timerVars, waitVars
<1>4. CASE Recv
  <2>1. PICK d \in {stamp, lag} : Advance(d)
    BY <1>4 DEF Recv
  <2>2. d \in 0 .. lag
    BY DEF IInv, TypeOK, StampOK
  <2>3. lag' \in 0 .. MaxLag /\ rel' \in [Timer -> -MaxLag .. MaxLag]
    BY <2>1, <2>2, AdvanceTypes DEF IInv
  <2>4. stamp' = 0 /\ sock' = FALSE /\ pc' = "packetcb" /\ UNCHANGED <<timers, top>>
    BY <1>4 DEF Recv
  <2>5. stamp' \in 0 .. MaxLag /\ stamp' =< lag'
    BY <2>3, <2>4
  <2>6. TypeOK'
    BY <1>4, <2>3, <2>4, <2>5 DEF Recv, IInv, TypeOK, PC, callVars, waitVars, historyVars
  <2> QED  BY <2>4, <2>5, <2>6 DEF IInv, StampOK, TopOK, ArmOK, ReadyOK
<1> QED  BY <1>1, <1>2, <1>3, <1>4

\* tube_manager_schedule: the queue has the new timer, the others are as before.
LEMMA PushTypes ==
    ASSUME IInv, NEW t \in Timer, NEW d \in Delay, Push(t, d)
    PROVE  /\ rel' \in [Timer -> -MaxLag .. MaxLag]
           /\ timers' \in SUBSET Timer /\ timers \subseteq timers'
           /\ top' \in timers' /\ top' \in Timer
           /\ \A x \in timers : rel'[x] = rel[x]
<1>1. d \in -MaxLag .. MaxLag
  BY EventLoopAssumption
<1>2. /\ rel' = [rel EXCEPT ![t] = d] /\ timers' = timers \cup {t} /\ t \notin timers
      /\ top' \in Firsts(timers', rel', cancelled, unsorted)
  BY DEF Push
<1>3. timers' \in SUBSET Timer /\ timers' # {}
  BY <1>2 DEF IInv, TypeOK
<1>4. top' \in timers'
  BY <1>2, <1>3, FirstsIn DEF IInv
<1> QED  BY <1>1, <1>2, <1>3, <1>4 DEF IInv, TypeOK

\* Calls of the application.
LEMMA CallSteps ==
    ASSUME IInv, NEW t \in Timer,
           (\E d \in Delay : Schedule(t, d)) \/ Cancel(t) \/ CancelMark(t) \/ CancelSort(t)
    PROVE  IInv'
<1>1. ASSUME NEW d \in Delay, Schedule(t, d) PROVE IInv'
  <2>1. Push(t, d)
    BY <1>1 DEF Schedule
  <2>2. /\ rel' \in [Timer -> -MaxLag .. MaxLag]
        /\ timers' \in SUBSET Timer /\ timers \subseteq timers'
        /\ top' \in timers' /\ top' \in Timer
        /\ \A x \in timers : rel'[x] = rel[x]
    BY <2>1, PushTypes
  <2>3. UNCHANGED <<cancelled, unsorted>>
    BY <2>1 DEF Push
  <2> QED  BY <1>1, <2>2, <2>3 DEF Schedule, IInv, TypeOK, PC, StampOK, TopOK, ArmOK, ReadyOK,
              callVars, socketVars, waitVars, historyVars
<1>2. ASSUME NEW c, NEW u, MakeHeap(c, u)
      PROVE  /\ UNCHANGED <<timers, rel>> /\ unsorted' = u
             /\ top' \in Timer \cup {None} /\ (timers # {} => top' \in timers)
             /\ (timers = {} => top' = top)
  <2>1. top' \in Firsts(timers, rel, c, u) /\ UNCHANGED <<timers, rel>> /\ unsorted' = u
    BY <1>2 DEF MakeHeap
  <2>2. timers \in SUBSET Timer
    BY DEF IInv, TypeOK
  <2>3. top' \in Timer \cup {None} /\ (timers # {} => top' \in timers)
    BY <2>1, <2>2, FirstsIn DEF IInv
  <2>4. timers = {} => top' = top
    BY <2>1 DEF Firsts
  <2> QED  BY <2>1, <2>3, <2>4
<1>3. CASE Cancel(t)
  <2>1. /\ UNCHANGED <<timers, rel>> /\ unsorted' = {}
        /\ top' \in Timer \cup {None} /\ (timers # {} => top' \in timers)
        /\ (timers = {} => top' = top)
    BY <1>2, <1>3 DEF Cancel
  <2> QED  BY <1>3, <2>1 DEF Cancel, IInv, TypeOK, PC, StampOK, TopOK, ArmOK, ReadyOK,
              callVars, socketVars, waitVars, historyVars
<1>4. CASE CancelMark(t)
  BY <1>4 DEF CancelMark, IInv, TypeOK, PC, StampOK, TopOK, ArmOK, ReadyOK,
              callVars, socketVars, waitVars, historyVars
<1>5. CASE CancelSort(t)
  <2>1. /\ UNCHANGED <<timers, rel>> /\ unsorted' = unsorted \ {t}
        /\ top' \in Timer \cup {None} /\ (timers # {} => top' \in timers)
        /\ (timers = {} => top' = top)
    BY <1>2, <1>5 DEF CancelSort
  <2> QED  BY <1>5, <2>1 DEF CancelSort, IInv, TypeOK, PC, StampOK, TopOK, ArmOK, ReadyOK,
              callVars, socketVars, waitVars, historyVars
<1> QED  BY <1>1, <1>3, <1>4, <1>5

\* A byte written to the pipe.
LEMMA PipeAppend ==
    ASSUME TypeOK, NEW b \in {"signal", "nudge"}, Len(pipe) < PipeCap,
           pipe' = Append(pipe, b)
    PROVE  pipe' \in Seq({"signal", "nudge"}) /\ Len(pipe') =< PipeCap /\ pipe' # <<>>
<1>1. pipe \in Seq({"signal", "nudge"}) /\ Len(pipe) \in Nat /\ PipeCap \in Nat
  BY LenProperties, EventLoopAssumption DEF TypeOK
<1>2. pipe' \in Seq({"signal", "nudge"}) /\ Len(pipe') = Len(pipe) + 1
  BY <1>1, AppendProperties
<1> QED  BY <1>1, <1>2, EmptySeq

\* Wake-ups, packets and the clock.
LEMMA WorldSteps ==
    ASSUME IInv, Stop \/ StopWake \/ Interrupt \/ Signal \/ Packet \/ Tick
    PROVE  IInv'
<1> USE EventLoopAssumption
<1>1. CASE Stop
  <2>1. keep_going' \in BOOLEAN /\ stopping' \in {"nobody", "callback", "thread"}
    BY <1>1 DEF Stop
  <2>2. UNCHANGED <<pc, pipe, socketVars, eintr, lag, timerVars, waitVars, wakes, historyVars>>
    BY <1>1 DEF Stop
  <2> QED  BY <2>1, <2>2 DEF IInv, TypeOK, PC, StampOK, TopOK, ArmOK, ReadyOK,
              socketVars, timerVars, waitVars, historyVars
<1>2. CASE StopWake
  <2>1. pipe' \in Seq({"signal", "nudge"}) /\ Len(pipe') =< PipeCap /\ pipe' # <<>>
    BY <1>2, PipeAppend DEF StopWake, IInv
  <2> QED  BY <1>2, <2>1 DEF StopWake, IInv, TypeOK, PC, StampOK, TopOK, ArmOK, ReadyOK,
              socketVars, timerVars, waitVars, historyVars
<1>3. CASE Interrupt
  <2>1. pipe' \in Seq({"signal", "nudge"}) /\ Len(pipe') =< PipeCap /\ pipe' # <<>>
    BY <1>3, PipeAppend DEF Interrupt, IInv
  <2> QED  BY <1>3, <2>1 DEF Interrupt, IInv, TypeOK, PC, StampOK, TopOK, ArmOK, ReadyOK,
              callVars, socketVars, timerVars, waitVars, historyVars
<1>4. CASE Signal
  <2> DEFINE bytes == [i \in 1 .. Contexts |-> "signal"]
  <2>1. bytes \in Seq({"signal", "nudge"}) /\ Len(bytes) = Contexts
    <3>1. \A i \in 1 .. Contexts : "signal" \in {"signal", "nudge"}
      OBVIOUS
    <3> QED  BY <3>1, IsASeq
  <2>2. pipe \in Seq({"signal", "nudge"}) /\ Len(pipe) \in Nat
    BY LenProperties DEF IInv, TypeOK
  <2>3. pipe' = pipe \o bytes /\ Len(pipe) + Contexts =< PipeCap
    BY <1>4 DEF Signal
  <2> HIDE DEF bytes
  <2>4. pipe' \in Seq({"signal", "nudge"}) /\ Len(pipe') = Len(pipe) + Contexts
    BY <2>1, <2>2, <2>3, ConcatProperties
  <2>5. Len(pipe') =< PipeCap /\ (pipe # <<>> => pipe' # <<>>)
    BY <2>2, <2>3, <2>4, EmptySeq
  <2> QED  BY <1>4, <2>4, <2>5 DEF Signal, IInv, TypeOK, PC, StampOK, TopOK, ArmOK, ReadyOK,
              callVars, socketVars, timerVars, waitVars
<1>5. CASE Packet
  BY <1>5 DEF Packet, IInv, TypeOK, PC, StampOK, TopOK, ArmOK, ReadyOK,
              callVars, timerVars, waitVars, historyVars
<1>6. CASE Tick
  BY <1>6 DEF Tick, IInv, TypeOK, PC, StampOK, TopOK, ArmOK, ReadyOK,
              callVars, socketVars, timerVars, historyVars
<1> QED  BY <1>1, <1>2, <1>3, <1>4, <1>5, <1>6

\* Every step keeps the invariant.
LEMMA NextIInv == IInv /\ [Next]_vars => IInv'
<1> SUFFICES ASSUME IInv, [Next]_vars PROVE IInv'
  OBVIOUS
<1>1. CASE UNCHANGED vars
  BY <1>1 DEF vars, callVars, socketVars, timerVars, waitVars, historyVars,
              IInv, TypeOK, PC, StampOK, TopOK, ArmOK, ReadyOK
<1>2. CASE Next
  BY <1>2, PlainSteps, QueueSteps, CallSteps, WorldSteps DEF Next, LoopStep
<1> QED  BY <1>1, <1>2

\* Type correctness: among others, the timeout handed to select is never
\* negative and the pipe never overfull, with any calls of other threads.
THEOREM TypeCorrect == Spec => []TypeOK
<1>1. IInv => TypeOK
  BY DEF IInv
<1> QED  BY InitIInv, NextIInv, <1>1, PTL DEF Spec

------------------------------------------------------------------------------
(***************************************************************************)
(* What the loop relies on as long as only callbacks schedule and cancel   *)
(* timers: the queue is in order, and nothing changes it between           *)
(* pending_timers and the end of select.                                   *)
(***************************************************************************)
TopFirst == \A t \in timers : Key(rel, cancelled, top) =< Key(rel, cancelled, t)

\* Between pending_timers and select term is the timer due first.
TermOK ==
    pc = "arm" => IF timers = {} THEN term = None
                  ELSE term = top /\ 0 < Key(rel, cancelled, top)

SInv == IInv /\ unsorted = {} /\ TopFirst /\ TermOK /\ SleepCoversTimers

\* The order of the queue is a number's.
LEMMA KeyTypes ==
    ASSUME TypeOK, NEW t \in Timer
    PROVE  /\ MaxLag \in Nat /\ rel[t] \in Int /\ -MaxLag =< rel[t]
           /\ Key(rel, cancelled, t) \in Int
           /\ 0 < Key(rel, cancelled, t) => t \notin cancelled
<1>1. MaxLag \in Nat /\ rel[t] \in -MaxLag .. MaxLag
  BY EventLoopAssumption DEF TypeOK
<1> QED  BY <1>1 DEF Key

\* mgr->last moving on leaves the queue in order.
LEMMA AdvanceOrder ==
    ASSUME SInv, NEW d \in 0 .. lag, Advance(d), UNCHANGED <<timers, cancelled, top>>
    PROVE  TopFirst'
<1> SUFFICES ASSUME NEW t \in timers
             PROVE  Key(rel', cancelled, top) =< Key(rel', cancelled, t)
  BY DEF TopFirst
<1>1. t \in Timer /\ top \in timers /\ top \in Timer /\ d \in Nat
  BY EventLoopAssumption DEF SInv, IInv, TypeOK, TopOK
<1>2. Key(rel, cancelled, top) =< Key(rel, cancelled, t)
  BY DEF SInv, TopFirst
<1>3. /\ rel'[t] = IF rel[t] - d < -MaxLag THEN -MaxLag ELSE rel[t] - d
      /\ rel'[top] = IF rel[top] - d < -MaxLag THEN -MaxLag ELSE rel[top] - d
  BY <1>1 DEF Advance
<1>4. /\ MaxLag \in Nat /\ rel[t] \in Int /\ -MaxLag =< rel[t]
      /\ rel[top] \in Int /\ -MaxLag =< rel[top]
  BY <1>1, KeyTypes DEF SInv, IInv
<1> QED  BY <1>1, <1>2, <1>3, <1>4 DEF Key

\* The loop's own steps.
LEMMA LoopSleep ==
    ASSUME SInv, LoopStep
    PROVE  unsorted' = {} /\ TopFirst' /\ TermOK' /\ SleepCoversTimers'
<1>1. CASE CheckKeepGoing
  BY <1>1 DEF CheckKeepGoing, SInv, TopFirst, TermOK, SleepCoversTimers, timerVars
<1>2. CASE PeekPending
  <2>1. UNCHANGED <<timers, rel, cancelled, unsorted, top>> /\ pc' = "arm"
    BY <1>2 DEF PeekPending, timerVars
  <2>2. IF timers = {} THEN term' = None ELSE term' = top /\ Key(rel, cancelled, top) > 0
    BY <1>2 DEF PeekPending
  <2>3. timers # {} => 0 < Key(rel, cancelled, top)
    <3>1. timers # {} => top \in Timer
      BY DEF SInv, IInv, TypeOK, TopOK
    <3> QED  BY <2>2, <3>1, KeyTypes DEF SInv, IInv
  <2> QED  BY <2>1, <2>2, <2>3 DEF SInv, TopFirst, TermOK, SleepCoversTimers
<1>3. CASE PopDue
  <2>1. /\ timers' = timers \ {top} /\ cancelled' = cancelled \ {top}
        /\ rel' = [rel EXCEPT ![top] = 0] /\ unsorted' = {} /\ pc' = "exec"
        /\ top' \in Firsts(timers', rel, cancelled, {})
    BY <1>3 DEF PopDue, SInv
  <2>2. \A x \in timers' : x \in Timer /\ x # top
    BY <2>1 DEF SInv, IInv, TypeOK
  <2>3. \A x \in timers' : Key(rel', cancelled', x) = Key(rel, cancelled, x)
    BY <2>1, <2>2 DEF Key, SInv, IInv, TypeOK
  <2>4. timers' # {} =>
            /\ top' \in timers'
            /\ \A x \in timers' : Key(rel, cancelled, top') =< Key(rel, cancelled, x)
    BY <2>1 DEF Firsts
  <2>5. TopFirst'
    BY <2>3, <2>4 DEF TopFirst
  <2> QED  BY <2>1, <2>5 DEF TermOK, SleepCoversTimers
<1>4. CASE Exec
  BY <1>4 DEF Exec, SInv, TopFirst, TermOK, SleepCoversTimers, timerVars
<1>5. CASE Arm
  <2>1. UNCHANGED <<timers, rel, cancelled, unsorted, top, term>> /\ pc = "arm" /\ pc' # "arm"
    BY <1>5 DEF Arm, timerVars
  <2>2. ASSUME pc' = "select", NEW t \in timers
        PROVE  t \notin cancelled /\ term # None /\ remain' =< rel[t] - lag + late'
    <3>1. term = top /\ 0 < Key(rel, cancelled, top) /\ top \in Timer /\ t \in Timer
      BY <2>1, <2>2 DEF SInv, IInv, TypeOK, TopOK, TermOK
    <3>2. Key(rel, cancelled, top) =< Key(rel, cancelled, t)
      BY <2>2 DEF SInv, TopFirst
    <3>3. 0 < Key(rel, cancelled, t)
      BY <3>1, <3>2, KeyTypes DEF SInv, IInv
    <3>4. t \notin cancelled /\ top \notin cancelled /\ term # None
      BY <3>1, <3>3, KeyTypes, EventLoopAssumption DEF SInv, IInv
    <3>5. remain' = rel[top] /\ late' = lag
      BY <1>5, <2>2, <3>1, <3>4 DEF Arm
    <3>6. remain' =< rel[t]
      BY <3>2, <3>4, <3>5 DEF Key
    <3>7. rel[t] \in Int /\ lag \in Int
      BY <3>1, KeyTypes DEF SInv, IInv, TypeOK
    <3> QED  BY <3>4, <3>5, <3>6, <3>7
  <2>3. lag' = lag
    BY <1>5 DEF Arm
  <2> QED  BY <2>1, <2>2, <2>3 DEF SInv, TopFirst, TermOK, SleepCoversTimers
<1>6. CASE SelectTimesOut
  <2>1. lag \in 0 .. lag
    BY EventLoopAssumption DEF SInv, IInv, TypeOK
  <2>2. /\ Advance(lag) /\ UNCHANGED <<timers, cancelled, top>> /\ UNCHANGED unsorted
        /\ pc' = "wait"
    BY <1>6 DEF SelectTimesOut, TimedOut
  <2>3. TopFirst'
    BY <2>1, <2>2, AdvanceOrder
  <2> QED  BY <2>2, <2>3 DEF SInv, TermOK, SleepCoversTimers
<1>7. CASE SelectInterrupted
  BY <1>7 DEF SelectInterrupted, SInv, TopFirst, TermOK, SleepCoversTimers, timerVars
<1>8. CASE SelectReady
  BY <1>8 DEF SelectReady, SInv, TopFirst, TermOK, SleepCoversTimers, timerVars
<1>9. CASE ReadPipe
  BY <1>9 DEF ReadPipe, AfterPipe, SInv, TopFirst, TermOK, SleepCoversTimers, timerVars
<1>10. CASE Recv
  <2>1. PICK d \in {stamp, lag} : Advance(d)
    BY <1>10 DEF Recv
  <2>2. d \in 0 .. lag
    BY EventLoopAssumption DEF SInv, IInv, TypeOK, StampOK
  <2>3. UNCHANGED <<timers, cancelled, top>> /\ UNCHANGED unsorted /\ pc' = "packetcb"
    BY <1>10 DEF Recv
  <2>4. TopFirst'
    BY <2>1, <2>2, <2>3, AdvanceOrder
  <2> QED  BY <2>3, <2>4 DEF SInv, TermOK, SleepCoversTimers
<1>11. CASE CallbackReturns
  BY <1>11 DEF CallbackReturns, InCallback, AfterPipe, SInv, TopFirst, TermOK,
               SleepCoversTimers, timerVars
<1>12. CASE RecvInterrupted
  BY <1>12 DEF RecvInterrupted, SInv, TopFirst, TermOK, SleepCoversTimers, timerVars
<1>13. CASE LoopFails
  BY <1>13 DEF LoopFails, SInv, TopFirst, TermOK, SleepCoversTimers, timerVars
<1> QED  BY <1>1, <1>2, <1>3, <1>4, <1>5, <1>6, <1>7, <1>8, <1>9, <1>10, <1>11, <1>12, <1>13
         DEF LoopStep

\* Calls and the world, when other threads call nothing but tube_manager_stop.
LEMMA OtherSleep ==
    ASSUME Other \subseteq {"stop"}, SInv, Next, ~LoopStep
    PROVE  unsorted' = {} /\ TopFirst' /\ TermOK' /\ SleepCoversTimers'
<1>1. ASSUME NEW t \in Timer, NEW d \in Delay, Schedule(t, d)
      PROVE  unsorted' = {} /\ TopFirst' /\ TermOK' /\ SleepCoversTimers'
  <2>1. InCallback /\ UNCHANGED pc
    BY <1>1 DEF Schedule, MayCall
  <2>2. /\ unsorted' = {} /\ UNCHANGED cancelled /\ timers' # {}
        /\ top' \in Firsts(timers', rel', cancelled, {})
    BY <1>1 DEF Schedule, Push, SInv
  <2>3. TopFirst'
    BY <2>2 DEF TopFirst, Firsts
  <2> QED  BY <2>1, <2>2, <2>3 DEF InCallback, TermOK, SleepCoversTimers
<1>2. ASSUME NEW t \in Timer, Cancel(t)
      PROVE  unsorted' = {} /\ TopFirst' /\ TermOK' /\ SleepCoversTimers'
  <2>1. InCallback /\ UNCHANGED pc
    BY <1>2 DEF Cancel
  <2>2. /\ unsorted' = {} /\ UNCHANGED <<timers, rel>>
        /\ top' \in Firsts(timers, rel, cancelled', {})
    BY <1>2 DEF Cancel, MakeHeap
  <2>3. TopFirst'
    BY <2>2 DEF TopFirst, Firsts
  <2> QED  BY <2>1, <2>2, <2>3 DEF InCallback, TermOK, SleepCoversTimers
<1>3. ASSUME NEW t \in Timer PROVE ~CancelMark(t) /\ ~CancelSort(t)
  BY DEF CancelMark, CancelSort, SInv
<1>4. CASE Stop
  BY <1>4 DEF Stop, SInv, TopFirst, TermOK, SleepCoversTimers, timerVars, waitVars
<1>5. CASE StopWake
  BY <1>5 DEF StopWake, SInv, TopFirst, TermOK, SleepCoversTimers, timerVars, waitVars
<1>6. CASE Interrupt
  BY <1>6 DEF Interrupt, SInv, TopFirst, TermOK, SleepCoversTimers, timerVars, waitVars
<1>7. CASE Signal
  BY <1>7 DEF Signal, SInv, TopFirst, TermOK, SleepCoversTimers, timerVars, waitVars
<1>8. CASE Packet
  BY <1>8 DEF Packet, SInv, TopFirst, TermOK, SleepCoversTimers, timerVars, waitVars
<1>9. CASE Tick
  <2>1. UNCHANGED <<pc, timers, rel, cancelled, unsorted, top, term>>
    BY <1>9 DEF Tick, timerVars
  <2>2. /\ remain \in Nat /\ lag \in Nat /\ late \in Nat /\ late' = late
        /\ lag' = lag \/ lag' = lag + 1
        /\ pc = "select" /\ remain > 0 => remain' = remain - 1
        /\ pc = "select" /\ ~(remain > 0) => remain' = remain
    BY <1>9, EventLoopAssumption DEF Tick, SInv, IInv, TypeOK
  <2>3. ASSUME pc = "select", NEW t \in timers
        PROVE  /\ t \notin cancelled /\ term # None
               /\ remain' > 0 => remain' =< rel[t] - lag' + late'
    <3>1. /\ t \notin cancelled /\ term # None /\ t \in Timer
          /\ remain > 0 => remain =< rel[t] - lag + late
      BY <2>3 DEF SInv, IInv, TypeOK, SleepCoversTimers
    <3>2. rel[t] \in Int
      BY <3>1, KeyTypes DEF SInv, IInv
    <3> QED  BY <2>2, <2>3, <3>1, <3>2
  <2> QED  BY <2>1, <2>3 DEF SInv, TopFirst, TermOK, SleepCoversTimers
<1> QED  BY <1>1, <1>2, <1>3, <1>4, <1>5, <1>6, <1>7, <1>8, <1>9 DEF Next

\* As long as other threads call nothing but tube_manager_stop, select sleeps
\* past a timer by no more than mgr->last was behind the clock when select was
\* entered, and no cancelled timer is left in the queue, however callbacks
\* schedule and cancel.
THEOREM Sleep ==
    ASSUME Other \subseteq {"stop"}
    PROVE  Spec => []SleepCoversTimers
<1>1. Init => SInv
  BY InitIInv DEF Init, SInv, TopFirst, TermOK, SleepCoversTimers
<1>2. SInv /\ [Next]_vars => SInv'
  <2> SUFFICES ASSUME SInv, [Next]_vars PROVE SInv'
    OBVIOUS
  <2>1. IInv'
    BY NextIInv DEF SInv
  <2>2. CASE LoopStep
    BY <2>1, <2>2, LoopSleep DEF SInv
  <2>3. CASE Next /\ ~LoopStep
    BY <2>1, <2>3, OtherSleep DEF SInv
  <2>4. CASE UNCHANGED vars
    BY <2>1, <2>4 DEF SInv, TopFirst, TermOK, SleepCoversTimers, vars, timerVars, waitVars
  <2> QED  BY <2>2, <2>3, <2>4
<1>3. SInv => SleepCoversTimers
  BY DEF SInv
<1> QED  BY <1>1, <1>2, <1>3, PTL DEF Spec
------------------------------------------------------------------------------
(***************************************************************************)
(* What StopIsHonoured and SignalIsServed rest on: a wake-up is in the     *)
(* pipe before the loop can sleep through it.                              *)
(***************************************************************************)

\* A callback that called tube_manager_stop does not return before its write.
StopperWaits == stopping = "callback" => InCallback

\* Once keep_going is false, a loop that is past its last look at it finds a
\* byte in the pipe, or the thread that called tube_manager_stop is about to
\* write one.
StopSeen ==
    ~keep_going /\ pc \in {"arm", "select", "ready"} => stopping = "thread" \/ pipe # <<>>

\* As long as a signal's callback is owed, the signal's number is in the pipe.
SignalSeen == owed => \E i \in 1 .. Len(pipe) : pipe[i] = "signal"

\* The callbacks called are those of timers that were scheduled: the slot that
\* ls_timer_exec is given holds a timer of the queue, or, when the queue is
\* empty, the one just popped.
CallbacksOfScheduled ==
    /\ fired \subseteq taken \cup timers
    /\ pc = "exec" => top \in timers \/ (timers = {} /\ top \in taken)

WInv == IInv /\ StopperWaits /\ StopSeen /\ SignalSeen /\ CallbacksOfScheduled

\* What is left in the pipe, and what is added to it, keeps a signal's number.
LEMMA SignalStays ==
    ASSUME NEW B, NEW p \in Seq(B), NEW q \in Seq(B), NEW i \in 1 .. Len(p),
           \/ Len(q) >= Len(p) /\ \A j \in 1 .. Len(p) : q[j] = p[j]
           \/ 1 < i /\ Len(q) = Len(p) - 1 /\ \A j \in 1 .. Len(q) : q[j] = p[j + 1]
    PROVE  \E j \in 1 .. Len(q) : q[j] = p[i]
<1>1. Len(p) \in Nat /\ Len(q) \in Nat
  BY LenProperties
<1>2. CASE Len(q) >= Len(p) /\ \A j \in 1 .. Len(p) : q[j] = p[j]
  <2>1. i \in 1 .. Len(q)
    BY <1>1, <1>2
  <2> QED  BY <1>2, <2>1
<1>3. CASE 1 < i /\ Len(q) = Len(p) - 1 /\ \A j \in 1 .. Len(q) : q[j] = p[j + 1]
  <2>1. PICK j \in Nat : j = i - 1
    BY <1>3
  <2>2. j \in 1 .. Len(q) /\ j + 1 = i
    BY <1>1, <1>3, <2>1
  <2> QED  BY <1>3, <2>2
<1> QED  BY <1>2, <1>3

\* Steps that leave the pipe, owed, the timers taken and those fired alone.
LEMMA WakePlain ==
    ASSUME WInv, IInv', UNCHANGED <<pipe, owed, stopping, keep_going>>, UNCHANGED <<taken, fired>>,
           timers \subseteq timers',
           stopping = "callback" => InCallback',
           pc' \in {"arm", "select", "ready"} => pc \in {"arm", "select", "ready"} \/ keep_going,
           pc' = "exec" => pc = "exec" /\ (top' \in timers' \/ (UNCHANGED <<timers, top>>))
    PROVE  WInv'
<1>1. StopperWaits'
  BY DEF StopperWaits
<1>2. StopSeen'
  BY DEF WInv, StopSeen
<1>3. SignalSeen'
  BY DEF WInv, SignalSeen
<1>4. CallbacksOfScheduled'
  BY DEF WInv, CallbacksOfScheduled
<1> QED  BY <1>1, <1>2, <1>3, <1>4 DEF WInv

\* The steps of the loop.
LEMMA LoopWake ==
    ASSUME WInv, IInv', LoopStep
    PROVE  WInv'
<1> USE DEF InCallback
<1>1. CASE CheckKeepGoing
  BY <1>1, WakePlain DEF CheckKeepGoing, WInv, StopperWaits, callVars, timerVars, historyVars
<1>2. CASE PeekPending
  BY <1>2, WakePlain DEF PeekPending, WInv, StopperWaits, callVars, timerVars, historyVars
<1>3. CASE PopDue
  <2>1. /\ top \in timers /\ pc = "peek" /\ pc' = "exec" /\ taken' = taken \cup {top}
        /\ timers' = timers \ {top} /\ UNCHANGED <<pipe, owed, stopping, keep_going, fired>>
        /\ top' \in Firsts(timers', rel, cancelled, unsorted')
    BY <1>3 DEF PopDue, WInv, IInv, TopOK, callVars
  <2>2. top' \in timers' \/ (timers' = {} /\ top' \in taken')
    BY <2>1 DEF Firsts
  <2>3. CallbacksOfScheduled'
    BY <2>1, <2>2 DEF WInv, CallbacksOfScheduled
  <2>4. StopperWaits' /\ StopSeen' /\ SignalSeen'
    BY <2>1 DEF WInv, StopperWaits, StopSeen, SignalSeen
  <2> QED  BY <2>3, <2>4 DEF WInv
<1>4. CASE Exec
  <2>1. /\ pc = "exec" /\ pc' \in {"timercb", "crashed"} /\ fired' \subseteq fired \cup {top}
        /\ UNCHANGED <<pipe, owed, stopping, keep_going, taken, timers, top>>
    BY <1>4 DEF Exec, callVars, timerVars
  <2>2. CallbacksOfScheduled'
    BY <2>1 DEF WInv, CallbacksOfScheduled
  <2>3. StopperWaits' /\ StopSeen' /\ SignalSeen'
    BY <2>1 DEF WInv, StopperWaits, StopSeen, SignalSeen
  <2> QED  BY <2>2, <2>3 DEF WInv
<1>5. CASE Arm
  BY <1>5, WakePlain DEF Arm, WInv, StopperWaits, callVars, timerVars, historyVars
<1>6. CASE SelectTimesOut
  BY <1>6, WakePlain DEF SelectTimesOut, TimedOut, WInv, StopperWaits, callVars, historyVars
<1>7. CASE SelectInterrupted
  BY <1>7, WakePlain DEF SelectInterrupted, WInv, StopperWaits, callVars, timerVars, historyVars
<1>8. CASE SelectReady
  BY <1>8, WakePlain DEF SelectReady, WInv, StopperWaits, callVars, timerVars, historyVars
<1>9. CASE ReadPipe
  <2>1. /\ pc = "ready" /\ pc' \in {"sigcb", "recv", "wait"} /\ pipe' = Tail(pipe)
        /\ IF Head(pipe) = "signal" THEN owed' = FALSE ELSE owed' = owed
        /\ UNCHANGED <<stopping, keep_going, taken, fired, timers, top>>
    BY <1>9 DEF ReadPipe, AfterPipe, callVars, timerVars
  <2>2. /\ pipe \in Seq({"signal", "nudge"}) /\ pipe # <<>> /\ Len(pipe) \in Nat
    BY <2>1, LenProperties DEF WInv, IInv, TypeOK, ReadyOK
  <2>3. /\ pipe' \in Seq({"signal", "nudge"}) /\ Len(pipe') = Len(pipe) - 1
        /\ \A j \in 1 .. Len(pipe') : pipe'[j] = pipe[j + 1]
        /\ Head(pipe) = pipe[1]
    BY <2>1, <2>2
  <2>4. SignalSeen'
    <3> SUFFICES ASSUME owed' PROVE \E j \in 1 .. Len(pipe') : pipe'[j] = "signal"
      BY DEF SignalSeen
    <3>1. owed /\ pipe[1] # "signal"
      BY <2>1, <2>3
    <3>2. PICK i \in 1 .. Len(pipe) : pipe[i] = "signal"
      BY <3>1 DEF WInv, SignalSeen
    <3>3. 1 < i
      BY <2>2, <3>1, <3>2
    <3>4. PICK p, q : p = pipe /\ q = pipe'
      OBVIOUS
    <3>5. /\ p \in Seq({"signal", "nudge"}) /\ q \in Seq({"signal", "nudge"}) /\ i \in 1 .. Len(p)
          /\ Len(q) = Len(p) - 1 /\ \A j \in 1 .. Len(q) : q[j] = p[j + 1]
      BY <2>2, <2>3, <3>2, <3>4
    <3>6. \E j \in 1 .. Len(q) : q[j] = p[i]
      BY ONLY <3>3, <3>5, SignalStays
    <3> QED  BY <3>2, <3>4, <3>6
  <2>5. StopperWaits' /\ StopSeen' /\ CallbacksOfScheduled'
    BY <2>1 DEF WInv, StopperWaits, StopSeen, CallbacksOfScheduled
  <2> QED  BY <2>4, <2>5 DEF WInv
<1>10. CASE Recv
  BY <1>10, WakePlain DEF Recv, WInv, StopperWaits, callVars, historyVars
<1>12. CASE RecvInterrupted
  BY <1>12, WakePlain DEF RecvInterrupted, WInv, StopperWaits, callVars, timerVars, historyVars
<1>13. CASE LoopFails
  <2>1. /\ pc' = "failed" /\ stopping # "callback"
        /\ UNCHANGED <<callVars, pipe, timerVars, historyVars>>
    BY <1>13 DEF LoopFails, WInv, StopperWaits, TimedOut
  <2> QED  BY <2>1, WakePlain DEF callVars, timerVars, historyVars
<1>11. CASE CallbackReturns
  BY <1>11, WakePlain DEF CallbackReturns, AfterPipe, WInv, StopperWaits, callVars, timerVars, historyVars
<1> QED  BY <1>1, <1>2, <1>3, <1>4, <1>5, <1>6, <1>7, <1>8, <1>9, <1>10, <1>11, <1>12, <1>13
         DEF LoopStep

\* A byte or more was written behind what the pipe held.
LEMMA Written ==
    ASSUME WInv, IInv', Len(pipe) =< Len(pipe'), \A j \in 1 .. Len(pipe) : pipe'[j] = pipe[j],
           UNCHANGED <<pc, keep_going, taken, fired, timers, top>>,
           \/ stopping' = stopping
           \/ stopping' = "nobody" /\ Len(pipe) < Len(pipe'),
           \/ owed' = owed
           \/ owed' => \E j \in 1 .. Len(pipe') : pipe'[j] = "signal"
    PROVE  WInv'
<1>1. /\ pipe \in Seq({"signal", "nudge"}) /\ pipe' \in Seq({"signal", "nudge"})
      /\ Len(pipe) \in Nat /\ Len(pipe') \in Nat
  <2>1. pipe \in Seq({"signal", "nudge"}) /\ pipe' \in Seq({"signal", "nudge"})
    BY DEF WInv, IInv, TypeOK
  <2> QED  BY <2>1, LenProperties
<1>2. /\ pipe # <<>> => pipe' # <<>>
      /\ Len(pipe) < Len(pipe') => pipe' # <<>>
  BY <1>1, EmptySeq
<1>3. SignalSeen'
  <2>1. CASE owed' /\ owed' = owed
    <3>1. PICK i \in 1 .. Len(pipe) : pipe[i] = "signal"
      BY <2>1 DEF WInv, SignalSeen
    <3>2. PICK p, q : p = pipe /\ q = pipe'
      OBVIOUS
    <3>3. /\ p \in Seq({"signal", "nudge"}) /\ q \in Seq({"signal", "nudge"}) /\ i \in 1 .. Len(p)
          /\ Len(p) \in Nat /\ Len(q) \in Nat /\ Len(p) =< Len(q) /\ \A j \in 1 .. Len(p) : q[j] = p[j]
      BY <1>1, <3>1, <3>2
    <3>4. Len(q) >= Len(p)
      BY ONLY <3>3
    <3>5. \E j \in 1 .. Len(q) : q[j] = p[i]
      BY ONLY <3>3, <3>4, SignalStays
    <3> QED  BY <3>1, <3>2, <3>5 DEF SignalSeen
  <2> QED  BY <2>1 DEF SignalSeen
<1>4. StopperWaits' /\ StopSeen'
  BY <1>2 DEF WInv, StopperWaits, StopSeen, InCallback
<1>5. CallbacksOfScheduled'
  BY DEF WInv, CallbacksOfScheduled
<1> QED  BY <1>3, <1>4, <1>5 DEF WInv

\* One byte written.
LEMMA OneByte ==
    ASSUME TypeOK, NEW b \in {"signal", "nudge"}, pipe' = Append(pipe, b)
    PROVE  /\ Len(pipe) < Len(pipe') /\ Len(pipe) =< Len(pipe')
           /\ \A j \in 1 .. Len(pipe) : pipe'[j] = pipe[j]
<1>1. pipe \in Seq({"signal", "nudge"}) /\ Len(pipe) \in Nat
  BY LenProperties DEF TypeOK
<1>2. Len(pipe') = Len(pipe) + 1 /\ \A j \in 1 .. Len(pipe) : pipe'[j] = pipe[j]
  BY <1>1, AppendProperties
<1> QED  BY <1>1, <1>2

\* Several bytes written.
LEMMA Bytes ==
    ASSUME NEW B, NEW p \in Seq(B), NEW b \in Seq(B), NEW q, q = p \o b
    PROVE  /\ Len(q) = Len(p) + Len(b)
           /\ \A j \in 1 .. Len(p) : q[j] = p[j]
           /\ \A j \in 1 .. Len(b) : q[Len(p) + j] = b[j]
<1>1. Len(p) \in Nat /\ Len(b) \in Nat
  BY LenProperties
<1>2. /\ Len(q) = Len(p) + Len(b)
      /\ \A i \in 1 .. Len(p) + Len(b) : q[i] = IF i =< Len(p) THEN p[i] ELSE b[i - Len(p)]
  BY ConcatProperties
<1>3. ASSUME NEW j \in 1 .. Len(p) PROVE q[j] = p[j]
  <2>1. j \in 1 .. Len(p) + Len(b) /\ j =< Len(p)
    BY <1>1
  <2> QED  BY <1>2, <2>1
<1>4. ASSUME NEW j \in 1 .. Len(b) PROVE q[Len(p) + j] = b[j]
  <2>1. /\ Len(p) + j \in 1 .. Len(p) + Len(b) /\ ~(Len(p) + j =< Len(p))
        /\ (Len(p) + j) - Len(p) = j
    BY <1>1
  <2> QED  BY <1>2, <2>1
<1> QED  BY <1>2, <1>3, <1>4

\* Calls, wake-ups, packets and the clock.
LEMMA WorldWake ==
    ASSUME WInv, IInv', Next, ~LoopStep
    PROVE  WInv'
<1>1. ASSUME NEW t \in Timer, NEW d \in Delay, Schedule(t, d)
      PROVE  WInv'
  <2>1. Push(t, d) /\ UNCHANGED <<pc, pipe, owed, stopping, keep_going, taken, fired>>
    BY <1>1 DEF Schedule, callVars, historyVars
  <2>2. timers \subseteq timers' /\ top' \in timers'
    BY <2>1, PushTypes DEF WInv
  <2> QED  BY <2>1, <2>2, WakePlain DEF WInv, StopperWaits, InCallback
<1>2. ASSUME NEW t \in Timer, Cancel(t) \/ CancelMark(t) \/ CancelSort(t)
      PROVE  WInv'
  <2>1. /\ UNCHANGED <<pc, pipe, owed, stopping, keep_going, taken, fired, timers>>
        /\ top' = top \/ \E c, u : top' \in Firsts(timers, rel, c, u)
    BY <1>2 DEF Cancel, CancelMark, CancelSort, MakeHeap, callVars, historyVars
  <2>2. top' \in timers \/ top' = top
    BY <2>1 DEF Firsts
  <2> QED  BY <2>1, <2>2, WakePlain DEF WInv, StopperWaits, InCallback
<1>3. CASE Stop
  <2>1. /\ keep_going' = FALSE
        /\ (InCallback /\ stopping' = "callback") \/ stopping' = "thread"
        /\ UNCHANGED <<pc, pipe, owed, taken, fired, timers, top>>
    BY <1>3 DEF Stop, timerVars, historyVars
  <2>2. StopperWaits' /\ StopSeen'
    BY <2>1 DEF StopperWaits, StopSeen, InCallback
  <2>3. SignalSeen' /\ CallbacksOfScheduled'
    BY <2>1 DEF WInv, SignalSeen, CallbacksOfScheduled
  <2> QED  BY <2>2, <2>3 DEF WInv
<1>4. CASE StopWake
  <2>1. /\ pipe' = Append(pipe, "nudge") /\ stopping' = "nobody"
        /\ UNCHANGED <<pc, keep_going, owed, taken, fired, timers, top>>
    BY <1>4 DEF StopWake, timerVars, historyVars
  <2>2. /\ Len(pipe) < Len(pipe') /\ Len(pipe) =< Len(pipe')
        /\ \A j \in 1 .. Len(pipe) : pipe'[j] = pipe[j]
    BY <2>1, OneByte DEF WInv, IInv
  <2> QED  BY <2>1, <2>2, Written
<1>5. CASE Interrupt
  <2>1. /\ pipe' = Append(pipe, "nudge")
        /\ UNCHANGED <<pc, keep_going, stopping, owed, taken, fired, timers, top>>
    BY <1>5 DEF Interrupt, timerVars, historyVars, callVars
  <2>2. /\ Len(pipe) < Len(pipe') /\ Len(pipe) =< Len(pipe')
        /\ \A j \in 1 .. Len(pipe) : pipe'[j] = pipe[j]
    BY <2>1, OneByte DEF WInv, IInv
  <2> QED  BY <2>1, <2>2, Written
<1>6. CASE Signal
  <2> DEFINE bytes == [i \in 1 .. Contexts |-> "signal"]
  <2>1. /\ pipe' = pipe \o bytes /\ owed' = (Contexts > 0)
        /\ UNCHANGED <<pc, keep_going, stopping, taken, fired, timers, top>>
    BY <1>6 DEF Signal, timerVars, callVars
  <2>2. bytes \in Seq({"signal", "nudge"}) /\ Len(bytes) = Contexts
    <3>1. \A i \in 1 .. Contexts : "signal" \in {"signal", "nudge"}
      OBVIOUS
    <3> QED  BY <3>1, IsASeq, EventLoopAssumption
  <2>3. \A i \in 1 .. Contexts : bytes[i] = "signal"
    OBVIOUS
  <2>4. pipe \in Seq({"signal", "nudge"}) /\ Len(pipe) \in Nat /\ Contexts \in Nat
    BY LenProperties, EventLoopAssumption DEF WInv, IInv, TypeOK
  <2> HIDE DEF bytes
  <2>5. /\ Len(pipe') = Len(pipe) + Contexts
        /\ \A j \in 1 .. Len(pipe) : pipe'[j] = pipe[j]
        /\ \A j \in 1 .. Contexts : pipe'[Len(pipe) + j] = bytes[j]
    <3>1. PICK p, b, q : p = pipe /\ b = bytes /\ q = pipe'
      OBVIOUS
    <3>2. p \in Seq({"signal", "nudge"}) /\ b \in Seq({"signal", "nudge"}) /\ q = p \o b
      BY <2>1, <2>2, <2>4, <3>1
    <3>3. /\ Len(q) = Len(p) + Len(b)
          /\ \A j \in 1 .. Len(p) : q[j] = p[j]
          /\ \A j \in 1 .. Len(b) : q[Len(p) + j] = b[j]
      BY ONLY <3>2, Bytes
    <3> QED  BY <2>2, <3>1, <3>3
  <2>6. owed' => \E j \in 1 .. Len(pipe') : pipe'[j] = "signal"
    <3> SUFFICES ASSUME owed' PROVE \E j \in 1 .. Len(pipe') : pipe'[j] = "signal"
      OBVIOUS
    <3>1. Contexts > 0
      BY <2>1
    <3>2. 1 \in 1 .. Contexts /\ Len(pipe) + 1 \in 1 .. Len(pipe')
      BY <2>4, <2>5, <3>1
    <3>3. pipe'[Len(pipe) + 1] = "signal"
      BY <2>3, <2>5, <3>2
    <3> QED  BY <3>2, <3>3
  <2>7. Len(pipe) =< Len(pipe')
    BY <2>4, <2>5
  <2> QED  BY <2>1, <2>5, <2>6, <2>7, Written
<1>7. CASE Packet
  BY <1>7, WakePlain DEF Packet, WInv, StopperWaits, InCallback, callVars, timerVars, historyVars
<1>8. CASE Tick
  BY <1>8, WakePlain DEF Tick, WInv, StopperWaits, InCallback, callVars, timerVars, historyVars
<1> QED  BY <1>1, <1>2, <1>3, <1>4, <1>5, <1>6, <1>7, <1>8 DEF Next

LEMMA WakeAlways == Spec => []WInv
<1>1. Init => WInv
  BY InitIInv DEF Init, WInv, StopperWaits, StopSeen, SignalSeen, CallbacksOfScheduled
<1>2. WInv /\ [Next]_vars => WInv'
  <2> SUFFICES ASSUME WInv, [Next]_vars PROVE WInv'
    OBVIOUS
  <2>1. IInv'
    BY NextIInv DEF WInv
  <2>2. CASE LoopStep
    BY <2>1, <2>2, LoopWake
  <2>3. CASE Next /\ ~LoopStep
    BY <2>1, <2>3, WorldWake
  <2>4. CASE UNCHANGED vars
    BY <2>1, <2>4 DEF WInv, StopperWaits, StopSeen, SignalSeen, CallbacksOfScheduled, InCallback,
                      vars, callVars, timerVars, historyVars
  <2> QED  BY <2>2, <2>3, <2>4
<1> QED  BY <1>1, <1>2, PTL DEF Spec

\* No wake-up is lost, whatever threads call and however many signals come:
\* tube_manager_stop cannot fall between the loop's look at keep_going and
\* select, nor a signal's number out of the pipe before its callback runs.
THEOREM NoLostWakeUp == Spec => [](StopSeen /\ SignalSeen)
<1>1. WInv => StopSeen /\ SignalSeen
  BY DEF WInv
<1> QED  BY <1>1, WakeAlways, PTL

\* pending_timers calls no callback but that of a timer that was scheduled: at
\* worst, as FiresOnExpiry's counterexample has it, the wrong one.
THEOREM Callbacks == Spec => []CallbacksOfScheduled
<1>1. WInv => CallbacksOfScheduled
  BY DEF WInv
<1> QED  BY <1>1, WakeAlways, PTL

------------------------------------------------------------------------------
\* The timer that the timeout of select is computed from is not cancelled.
TermLives == pc = "arm" /\ term # None => term \notin cancelled

\* select has not refused its timeout.
NoSelectError == pc # "error"

\* select is never given a time that is not one: as long as no other thread
\* cancels timers, select does not refuse its timeout, whatever other threads
\* schedule and callbacks cancel.
THEOREM SelectSucceeds ==
    ASSUME "cancel" \notin Other
    PROVE  Spec => []NoSelectError
<1> DEFINE EInv == IInv /\ TermLives /\ NoSelectError
<1>1. Init => EInv
  BY InitIInv DEF Init, TermLives, NoSelectError
<1>2. EInv /\ [Next]_vars => EInv'
  <2> SUFFICES ASSUME EInv, [Next]_vars PROVE TermLives' /\ NoSelectError'
    BY NextIInv
  <2>1. ASSUME UNCHANGED <<pc, term, cancelled>> PROVE TermLives' /\ NoSelectError'
    BY <2>1 DEF TermLives, NoSelectError
  <2>2. ASSUME pc' \notin {"arm", "error"} PROVE TermLives' /\ NoSelectError'
    BY <2>2 DEF TermLives, NoSelectError
  <2>3. CASE PeekPending
    <3>1. /\ pc' = "arm" /\ cancelled' = cancelled
          /\ timers # {} => Key(rel, cancelled, top) > 0
          /\ term' = IF timers = {} THEN None ELSE top
      BY <2>3 DEF PeekPending, timerVars
    <3>2. ASSUME timers # {} PROVE top \notin cancelled
      <4>1. top \in Timer /\ 0 < Key(rel, cancelled, top)
        <5>1. top \in Timer
          BY <3>2 DEF IInv, TypeOK, TopOK
        <5>2. Key(rel, cancelled, top) \in Int
          BY <5>1, KeyTypes DEF IInv
        <5> QED  BY <3>1, <3>2, <5>1, <5>2
      <4> QED  BY <4>1, KeyTypes DEF IInv
    <3> QED  BY <3>1, <3>2 DEF TermLives, NoSelectError
  <2>4. CASE Arm
    BY <2>2, <2>4 DEF Arm, TermLives
  <2>5. CASE CheckKeepGoing \/ PopDue \/ Exec \/ SelectTimesOut \/ SelectInterrupted
               \/ SelectReady \/ ReadPipe \/ Recv \/ RecvInterrupted \/ CallbackReturns
               \/ LoopFails
    BY <2>2, <2>5 DEF CheckKeepGoing, PopDue, Exec, SelectTimesOut, SelectInterrupted,
                      SelectReady, ReadPipe, Recv, RecvInterrupted, CallbackReturns, LoopFails,
                      AfterPipe, InCallback
  <2>6. ASSUME NEW t \in Timer, NEW d \in Delay, Schedule(t, d)
        PROVE  TermLives' /\ NoSelectError'
    BY <2>1, <2>6 DEF Schedule, Push, waitVars
  <2>7. ASSUME NEW t \in Timer, Cancel(t)
        PROVE  TermLives' /\ NoSelectError'
    BY <2>2, <2>7 DEF Cancel, InCallback
  <2>8. ASSUME NEW t \in Timer, CancelMark(t) \/ CancelSort(t)
        PROVE  TermLives' /\ NoSelectError'
    BY <2>1, <2>8 DEF CancelMark, CancelSort, waitVars
  <2>9. CASE Stop \/ StopWake \/ Interrupt \/ Signal \/ Packet \/ Tick
    BY <2>1, <2>9 DEF Stop, StopWake, Interrupt, Signal, Packet, Tick, waitVars, timerVars
  <2>10. CASE UNCHANGED vars
    BY <2>1, <2>10 DEF vars, waitVars, timerVars
  <2> QED  BY <2>3, <2>4, <2>5, <2>6, <2>7, <2>8, <2>9, <2>10 DEF Next, LoopStep
<1>3. EInv => NoSelectError
  OBVIOUS
<1> QED  BY <1>1, <1>2, <1>3, PTL DEF Spec
=============================================================================
