--------------------------- MODULE Library_proofs ---------------------------
(***************************************************************************)
(* Proofs about the smaller parts: the contexts of the log (LogContext),   *)
(* the life of a manager (ManagerLife), addresses and packets (Datagram),  *)
(* the queue (Queue); and about the library in which these, the tables,    *)
(* the pools and the events stand side by side (MC_Library).               *)
(***************************************************************************)
EXTENDS MC_Library, Htable_proofs, Pool_proofs, TubeEvents_proofs

------------------------------------------------------------------------------
\* LogContext

\* The depth counts the contexts, whose ids were all given out.
Counted ==
    /\ ndcDepth = Len(ndc)
    /\ ndcDepth =< ndcCount
    /\ \A i \in 1 .. Len(ndc) : ndc[i] \in 1 .. ndcCount

\* The context of a handle, while it is there, is at the depth of the handle,
\* and what is there or above was pushed no earlier.
HandlesFit ==
    \A h \in handles :
        /\ h.id =< ndcCount
        /\ h.depth = 0 <=> h.id = NoContext
        /\ \A i \in 1 .. Len(ndc) :
            /\ ndc[i] = h.id => i = h.depth
            /\ h.depth =< i => ndc[i] >= h.id

\* The context of the last pop has ended.
PoppedEnded == \A i \in 1 .. Len(ndc) : ndc[i] # popped.id

\* The inductive invariant.
LogInv == LogTypeOK /\ Counted /\ HandlesFit /\ PoppedEnded

\* The first n contexts.
LEMMA Prefix ==
    ASSUME NEW S, NEW s \in Seq(S), NEW n \in Nat, n =< Len(s)
    PROVE  /\ SubSeq(s, 1, n) \in Seq(S)
           /\ Len(SubSeq(s, 1, n)) = n
           /\ \A i \in 1 .. n : SubSeq(s, 1, n)[i] = s[i]
OBVIOUS

\* ls_log_push_ndc keeps the invariant.
LEMMA PushStep ==
    ASSUME LogInv, PushNdc
    PROVE  LogInv' /\ Len(ndc') = Len(ndc) + 1
<1> USE LogAssumption
<1> DEFINE id == ndcCount + 1
           h == [depth |-> ndcDepth + 1, id |-> ndcCount + 1]
<1>1. /\ ndcCount < MaxPushes /\ ndcCount' = id /\ ndc' = Append(ndc, id)
      /\ ndcDepth' = ndcDepth + 1 /\ handles' = handles \cup {h} /\ popped' = popped
  BY DEF PushNdc
<1>2. /\ ndcCount \in Nat /\ id \in 1 .. MaxPushes /\ ndcDepth \in Nat
      /\ ndc \in Seq(1 .. MaxPushes) /\ Len(ndc) \in Nat /\ ndcDepth = Len(ndc)
  BY <1>1 DEF LogInv, LogTypeOK, Counted
<1>3. /\ ndc' \in Seq(1 .. MaxPushes) /\ Len(ndc') = Len(ndc) + 1
      /\ \A i \in 1 .. Len(ndc) : ndc'[i] = ndc[i]
      /\ ndc'[Len(ndc) + 1] = id
  BY <1>1, <1>2
<1>4. ndcDepth =< ndcCount /\ \A i \in 1 .. Len(ndc) : ndc[i] \in 1 .. ndcCount
  BY DEF LogInv, Counted
<1>5. Counted'
  BY <1>1, <1>2, <1>3, <1>4 DEF Counted
<1>6. \A g \in handles : /\ g.id \in Nat /\ g.depth \in Nat /\ g.id =< ndcCount
  BY <1>2 DEF LogInv, LogTypeOK, HandlesFit
<1>7. HandlesFit'
  <2>1. ASSUME NEW g \in handles
        PROVE  /\ g.id =< ndcCount'
               /\ g.depth = 0 <=> g.id = NoContext
               /\ \A i \in 1 .. Len(ndc') :
                    /\ ndc'[i] = g.id => i = g.depth
                    /\ g.depth =< i => ndc'[i] >= g.id
    BY <1>1, <1>2, <1>3, <1>6, <2>1 DEF LogInv, HandlesFit
  <2>2. /\ h.id =< ndcCount'
        /\ h.depth = 0 <=> h.id = NoContext
        /\ \A i \in 1 .. Len(ndc') :
             /\ ndc'[i] = h.id => i = h.depth
             /\ h.depth =< i => ndc'[i] >= h.id
    BY <1>1, <1>2, <1>3, <1>4 DEF NoContext
  <2> QED BY <1>1, <2>1, <2>2 DEF HandlesFit
<1>8. popped.id =< ndcCount /\ popped.id \in Nat
  BY <1>2, <1>6 DEF LogInv, LogTypeOK, Failed, NoContext
<1>9. PoppedEnded'
  BY <1>1, <1>2, <1>3, <1>8 DEF LogInv, PoppedEnded
<1>10. LogTypeOK'
  <2>1. h \in [depth : 0 .. MaxPushes, id : 0 .. MaxPushes] /\ ndcDepth + 1 \in 0 .. MaxPushes
    BY <1>1, <1>2 DEF LogInv, Counted
  <2> QED BY <1>1, <1>2, <1>3, <2>1 DEF LogInv, LogTypeOK
<1> QED BY <1>3, <1>5, <1>7, <1>9, <1>10 DEF LogInv

\* ls_log_pop_ndc keeps the invariant, and takes away the context of its handle
\* and later ones.
LEMMA PopStep ==
    ASSUME LogInv, NEW h \in handles, PopNdc(h)
    PROVE  /\ LogInv'
           /\ Len(ndc') < Len(ndc) =>
                /\ ndc' = SubSeq(ndc, 1, Len(ndc'))
                /\ \A i \in Len(ndc') + 1 .. Len(ndc) : ndc[i] >= popped'.id
<1> USE LogAssumption
<1>1. /\ popped' = h /\ ndcCount' = ndcCount /\ handles' = handles
      /\ ndc' = IF h.depth = 0 THEN ndc ELSE CutTo(ndc, ndcDepth, h.depth)
      /\ ndcDepth' = IF h.depth = 0 \/ h.depth > ndcDepth THEN ndcDepth ELSE h.depth - 1
  BY DEF PopNdc
<1>2. /\ ndcCount \in Nat /\ ndcDepth \in Nat /\ ndc \in Seq(1 .. MaxPushes)
      /\ Len(ndc) \in Nat /\ ndcDepth = Len(ndc) /\ ndcDepth =< ndcCount
      /\ \A i \in 1 .. Len(ndc) : ndc[i] \in 1 .. ndcCount
      /\ h.depth \in 0 .. MaxPushes /\ h.id \in 0 .. MaxPushes
  BY DEF LogInv, LogTypeOK, Counted
<1>3. /\ h.depth = 0 <=> h.id = 0
      /\ \A i \in 1 .. Len(ndc) : /\ ndc[i] = h.id => i = h.depth
                                  /\ h.depth =< i => ndc[i] >= h.id
  BY DEF LogInv, HandlesFit, NoContext
<1>4. \E n \in 0 .. Len(ndc) :
        /\ ndc' \in Seq(1 .. MaxPushes) /\ Len(ndc') = n /\ ndcDepth' = n
        /\ \A i \in 1 .. n : ndc'[i] = ndc[i]
        /\ n = Len(ndc) \/ (n = h.depth - 1 /\ ndc' = SubSeq(ndc, 1, n))
        /\ h.depth = 0 \/ n < h.depth
  <2>1. CASE h.depth = 0 \/ h.depth > ndcDepth
    <3>1. ndc' = ndc /\ ndcDepth' = ndcDepth
      BY <1>1, <1>2, <2>1 DEF CutTo
    <3> QED BY <1>2, <2>1, <3>1
  <2>2. CASE h.depth # 0 /\ h.depth =< ndcDepth
    <3>1. ndc' = SubSeq(ndc, 1, h.depth - 1) /\ ndcDepth' = h.depth - 1
      BY <1>1, <1>2, <2>2 DEF CutTo
    <3>2. h.depth - 1 \in Nat /\ h.depth - 1 =< Len(ndc)
      BY <1>2, <2>2
    <3>3. /\ ndc' \in Seq(1 .. MaxPushes) /\ Len(ndc') = h.depth - 1
          /\ \A i \in 1 .. h.depth - 1 : ndc'[i] = ndc[i]
      BY <1>2, <3>1, <3>2, Prefix
    <3>4. h.depth - 1 \in 0 .. Len(ndc) /\ h.depth - 1 < h.depth
      BY <1>2, <3>2
    <3> QED BY <3>1, <3>3, <3>4
  <2>3. (h.depth = 0 \/ h.depth > ndcDepth) \/ (h.depth # 0 /\ h.depth =< ndcDepth)
    BY <1>2
  <2> QED BY <2>1, <2>2, <2>3, Zenon
<1>5. PICK n \in 0 .. Len(ndc) :
        /\ ndc' \in Seq(1 .. MaxPushes) /\ Len(ndc') = n /\ ndcDepth' = n
        /\ \A i \in 1 .. n : ndc'[i] = ndc[i]
        /\ n = Len(ndc) \/ (n = h.depth - 1 /\ ndc' = SubSeq(ndc, 1, n))
        /\ h.depth = 0 \/ n < h.depth
  BY <1>4
<1>6. LogTypeOK'
  BY <1>1, <1>2, <1>5 DEF LogInv, LogTypeOK
<1>7. Counted'
  BY <1>1, <1>2, <1>5 DEF Counted
<1>8. HandlesFit'
  BY <1>1, <1>2, <1>5 DEF LogInv, HandlesFit
<1>9. PoppedEnded'
  <2> SUFFICES ASSUME NEW i \in 1 .. n, ndc[i] = h.id
               PROVE  FALSE
    BY <1>1, <1>5 DEF PoppedEnded
  <2>1. i \in 1 .. Len(ndc) /\ ndc[i] \in 1 .. ndcCount
    BY <1>2
  <2>2. i = h.depth
    BY <1>3, <2>1
  <2> QED BY <1>2, <1>3, <1>5, <2>1, <2>2
<1>10. ASSUME Len(ndc') < Len(ndc)
       PROVE  /\ ndc' = SubSeq(ndc, 1, Len(ndc'))
              /\ \A i \in Len(ndc') + 1 .. Len(ndc) : ndc[i] >= popped'.id
  BY <1>1, <1>2, <1>3, <1>5, <1>10
<1> QED BY <1>6, <1>7, <1>8, <1>9, <1>10 DEF LogInv

\* Every step keeps the invariant and does what PopEndsOwnContext says.
LEMMA LogStep ==
    ASSUME LogInv, [LogNext]_logVars
    PROVE  /\ LogInv'
           /\ Len(ndc') < Len(ndc) =>
                /\ ndc' = SubSeq(ndc, 1, Len(ndc'))
                /\ \A i \in Len(ndc') + 1 .. Len(ndc) : ndc[i] >= popped'.id
<1>1. Len(ndc) \in Nat
  BY DEF LogInv, LogTypeOK
<1>2. CASE PushNdc
  BY <1>1, <1>2, PushStep
<1>3. CASE PushNdcFails
  <2>1. /\ handles' = handles \cup {Failed} /\ ndc' = ndc /\ ndcDepth' = ndcDepth
        /\ ndcCount' = ndcCount /\ popped' = popped
    BY <1>3 DEF PushNdcFails
  <2>2. Counted' /\ PoppedEnded'
    BY <2>1 DEF LogInv, Counted, PoppedEnded
  <2>3. LogTypeOK'
    BY <2>1, LogAssumption DEF LogInv, LogTypeOK, Failed, NoContext
  <2>4. HandlesFit'
    BY <2>1 DEF LogInv, LogTypeOK, Counted, HandlesFit, Failed, NoContext
  <2> QED BY <1>1, <2>1, <2>2, <2>3, <2>4 DEF LogInv
<1>4. CASE \E h \in handles : PopNdc(h)
  BY <1>4, PopStep
<1>5. CASE UNCHANGED logVars
  BY <1>1, <1>5 DEF logVars, LogInv, LogTypeOK, Counted, HandlesFit, PoppedEnded
<1> QED BY <1>2, <1>3, <1>4, <1>5 DEF LogNext

LEMMA LogAlways == LogSpec => []LogInv
<1>1. LogInit => LogInv
  BY LogAssumption DEF LogInit, LogInv, LogTypeOK, Counted, HandlesFit, PoppedEnded, Failed, NoContext
<1>2. LogInv /\ [LogNext]_logVars => LogInv'
  BY LogStep
<1> QED  BY <1>1, <1>2, PTL DEF LogSpec

\* However many contexts are pushed, pushes fail and depths are popped late,
\* twice or not at all: a pop ends the context of its handle and none that was
\* pushed before it.
THEOREM Pops == LogSpec => PopEndsOwnContext
<1>1. LogInv /\ [LogNext]_logVars =>
        [/\ ndcDepth' = Len(ndc')
         /\ \A i \in 1 .. Len(ndc') : ndc'[i] # popped'.id
         /\ Len(ndc') < Len(ndc) =>
              /\ ndc' = SubSeq(ndc, 1, Len(ndc'))
              /\ \A i \in Len(ndc') + 1 .. Len(ndc) : ndc[i] >= popped'.id]_logVars
  BY LogStep DEF LogInv, Counted, PoppedEnded
<1> QED  BY <1>1, LogAlways, PTL DEF LogSpec, PopEndsOwnContext

------------------------------------------------------------------------------
\* ManagerLife

\* The types of LifeTypeOK.
Structure == [at : {"absent", "live"}, kind : {"tube", "stream"},
              initialized : BOOLEAN, pipe : (-1 .. MaxFd) \X (-1 .. MaxFd),
              sock6 : -1 .. MaxFd, sock4 : -1 .. MaxFd,
              max_fd : -1 .. MaxFd, ready : BOOLEAN]
Owner == Manager \X {"pipe", "sock6", "sock4"}
Table == [0 .. MaxFd -> {Closed, Files} \cup Owner]

\* A manager s at m, with memory mem and the descriptors f, is as it should be:
\* besides what AllOrNothing and SelectWatchesAll say, its pipe is within reach
\* of select before tube_manager_socket is called.
Own(mem) == mem \ {"sig_context"}
Sound(m, s, mem, f) ==
    /\ s.at = "absent" => Own(mem) = {} /\ s.ready = FALSE
    /\ s.at = "live" =>
        /\ Own(mem) = Allocated
        /\ s.pipe[1] \in 0 .. MaxFd /\ s.pipe[2] \in 0 .. MaxFd /\ s.pipe[1] # s.pipe[2]
        /\ f[s.pipe[1]] = <<m, "pipe">> /\ f[s.pipe[2]] = <<m, "pipe">>
        /\ s.pipe[1] =< s.max_fd /\ s.pipe[2] =< s.max_fd
    /\ s.ready = TRUE =>
        /\ s.sock6 \in 0 .. MaxFd /\ f[s.sock6] = <<m, "sock6">> /\ s.sock6 =< s.max_fd
        /\ s.sock4 \in 0 .. MaxFd /\ f[s.sock4] = <<m, "sock4">> /\ s.sock4 =< s.max_fd

LifeInv ==
    /\ mgr \in [Manager -> Structure] /\ memory \in [Manager -> SUBSET Blocks] /\ fd \in Table
    /\ signalled \subseteq Manager
    /\ \A m \in Manager : m \in signalled <=> "sig_context" \in memory[m]
    /\ \A m \in Manager : Sound(m, mgr[m], memory[m], fd)

\* The lowest of some descriptors is one of them.
LEMMA LowestOf ==
    ASSUME NEW S, S \subseteq 0 .. MaxFd
    PROVE  /\ S # {} => Lowest(S) \in S
           /\ Lowest(S) >= 0 => Lowest(S) \in S
<1>1. CASE S = {}
  BY <1>1 DEF Lowest
<1>2. CASE S # {}
  <2>1. S \subseteq Nat
    BY LifeAssumption
  <2>2. \E x \in S : \A y \in S : x =< y
    BY <1>2, <2>1, LeastNumber
  <2>3. Min(S) \in S
    BY <2>2 DEF Min
  <2> QED  BY <1>2, <2>3 DEF Lowest
<1> QED  BY <1>1, <1>2

LEMMA FreeFds == FreeFd \subseteq 0 .. MaxFd /\ \A n \in FreeFd : fd[n] = Closed
  BY DEF FreeFd

\* pipe() returns two different free descriptors.
LEMMA PipeIsFree ==
    ASSUME Cardinality(FreeFd) >= 2
    PROVE  \E a, b \in FreeFd : a # b /\ Pipe = <<a, b>>
<1>1. FreeFd \subseteq 0 .. MaxFd /\ IsFiniteSet(FreeFd)
  <2>1. IsFiniteSet(0 .. MaxFd)
    BY LifeAssumption, FS_Interval
  <2> QED  BY <2>1, FreeFds, FS_Subset
<1>2. FreeFd # {}
  BY FS_EmptySet
<1>3. PICK a \in FreeFd : a = Lowest(FreeFd)
  BY <1>1, <1>2, LowestOf
<1>4. Cardinality(FreeFd \ {a}) = Cardinality(FreeFd) - 1 /\ Cardinality(FreeFd) \in Nat
  BY <1>1, FS_RemoveElement, FS_CardinalityType
<1>5. FreeFd \ {a} # {}
  BY <1>4, FS_EmptySet
<1>6. FreeFd \ {a} \subseteq 0 .. MaxFd
  BY <1>1
<1>7. PICK b \in FreeFd \ {a} : b = Lowest(FreeFd \ {a})
  BY <1>5, <1>6, LowestOf
<1>8. Pipe = <<a, b>>
  BY <1>3, <1>7 DEF Pipe
<1> QED  BY <1>7, <1>8

\* What a manager owns is neither closed nor the program's.
LEMMA OwnersOnly == \A o \in Owner : o # Closed /\ o # Files
  BY DEF Owner, Closed, Files

\* A table g in which the owned descriptors of f are still owned.
Stays(f, g) == g \in Table /\ \A n \in 0 .. MaxFd : f[n] \in Owner => g[n] = f[n]

LEMMA SoundStays ==
    ASSUME NEW m \in Manager, NEW s \in Structure, NEW mem, NEW f, NEW g,
           Sound(m, s, mem, f), Stays(f, g)
    PROVE  Sound(m, s, mem, g)
<1>1. <<m, "pipe">> \in Owner /\ <<m, "sock6">> \in Owner /\ <<m, "sock4">> \in Owner
  BY DEF Owner
<1> QED  BY <1>1 DEF Sound, Stays

\* A step that changes the manager at m only.
LEMMA OneManager ==
    ASSUME LifeInv, NEW m \in Manager, NEW s \in Structure, NEW mem \in SUBSET Blocks,
           mgr' = [mgr EXCEPT ![m] = s], memory' = [memory EXCEPT ![m] = mem],
           Stays(fd, fd'), Sound(m, s, mem, fd'), UNCHANGED signalled,
           "sig_context" \in mem <=> "sig_context" \in memory[m]
    PROVE  LifeInv'
<1>1. /\ mgr' \in [Manager -> Structure] /\ memory' \in [Manager -> SUBSET Blocks]
      /\ fd' \in Table /\ signalled' \subseteq Manager
  BY DEF LifeInv, Stays
<1>2. /\ mgr'[m] = s /\ memory'[m] = mem
      /\ \A o \in Manager \ {m} : mgr'[o] = mgr[o] /\ memory'[o] = memory[o]
  BY DEF LifeInv
<1>3. ASSUME NEW o \in Manager
      PROVE  Sound(o, mgr'[o], memory'[o], fd')
  <2>1. Sound(o, mgr[o], memory[o], fd) /\ mgr[o] \in Structure
    BY DEF LifeInv
  <2>2. Sound(o, mgr[o], memory[o], fd')
    BY <2>1, SoundStays
  <2> QED  BY <1>2, <2>2
<1>4. \A o \in Manager : o \in signalled' <=> "sig_context" \in memory'[o]
  BY <1>2 DEF LifeInv
<1> QED  BY <1>1, <1>3, <1>4 DEF LifeInv

\* A step that changes descriptors only.
LEMMA OnlyDescriptors ==
    ASSUME LifeInv, UNCHANGED <<mgr, memory, signalled>>, Stays(fd, fd')
    PROVE  LifeInv'
<1>1. ASSUME NEW o \in Manager
      PROVE  Sound(o, mgr[o], memory[o], fd')
  <2>1. Sound(o, mgr[o], memory[o], fd) /\ mgr[o] \in Structure
    BY DEF LifeInv
  <2> QED  BY <2>1, SoundStays
<1> QED  BY <1>1 DEF LifeInv, Stays

Given(g, n, o) == [g EXCEPT ![n] = o]

\* A free descriptor is given away.
LEMMA GiveAway ==
    ASSUME fd \in Table, NEW g, Stays(fd, g), NEW n \in FreeFd, NEW o \in Owner \cup {Files},
           g[n] \notin Owner, NEW h, h = Given(g, n, o)
    PROVE  Stays(fd, h) /\ h[n] = o
<1>1. n \in 0 .. MaxFd /\ fd[n] = Closed /\ fd[n] \notin Owner
  BY FreeFds, OwnersOnly
<1>2. g \in Table
  BY DEF Stays
<1>3. h = [g EXCEPT ![n] = o]
  BY DEF Given
<1>4. h \in Table
  BY <1>1, <1>2, <1>3 DEF Table
<1> QED  BY <1>1, <1>2, <1>3, <1>4 DEF Stays, Table

LEMMA StaysSame == fd \in Table => Stays(fd, fd)
  BY DEF Stays

LEMMA AppSteps ==
    ASSUME LifeInv, AppOpen \/ \E n \in 0 .. MaxFd : AppClose(n)
    PROVE  LifeInv'
<1>1. fd \in Table /\ Stays(fd, fd)
  BY StaysSame DEF LifeInv
<1>2. CASE AppOpen
  <2>1. PICK n \in FreeFd : n = Lowest(FreeFd)
    BY <1>2, FreeFds, LowestOf DEF AppOpen
  <2>2. fd' = [fd EXCEPT ![n] = Files] /\ UNCHANGED <<mgr, memory, signalled>>
    BY <1>2, <2>1 DEF AppOpen
  <2>3. fd[n] \notin Owner
    BY FreeFds, OwnersOnly
  <2>4. fd' = Given(fd, n, Files)
    BY <2>2 DEF Given
  <2>5. Stays(fd, fd')
    BY <1>1, <2>3, <2>4, GiveAway
  <2> QED  BY <2>2, <2>5, OnlyDescriptors
<1>3. ASSUME NEW n \in 0 .. MaxFd, AppClose(n)
      PROVE  LifeInv'
  <2>1. fd[n] \notin Owner /\ fd' = [fd EXCEPT ![n] = Closed] /\ UNCHANGED <<mgr, memory, signalled>>
    BY <1>3, OwnersOnly DEF AppClose
  <2>2. Stays(fd, fd')
    BY <1>1, <2>1 DEF Stays, Table
  <2> QED  BY <2>1, <2>2, OnlyDescriptors
<1> QED  BY <1>2, <1>3

\* What is made before each step, and by all of them.
LEMMA MadeBeforeIs ==
    /\ \A k : MadeBefore(k) \subseteq Allocated
    /\ MadeBefore(Succeeds) = Allocated
<1>1. \A k : MadeBefore(k) \subseteq Allocated
  BY DEF MadeBefore
<1>2. Len(InitStep) = 10 /\ Succeeds = 11
  BY DEF InitStep, Succeeds
<1>3. /\ InitStep[1] = "struct" /\ InitStep[2] = "mutex" /\ InitStep[3] = "tubes"
      /\ InitStep[4] = "dispatcher" /\ InitStep[6] = "timer_q"
  BY DEF InitStep
<1>4. {1, 2, 3, 4, 6} \subseteq 1 .. Succeeds - 1
  BY <1>2
<1>5. Allocated \subseteq {InitStep[i] : i \in 1 .. Succeeds - 1}
  <2> HIDE DEF InitStep
  <2> QED  BY <1>3, <1>4 DEF Allocated
<1> QED  BY <1>1, <1>5 DEF MadeBefore

\* A failed create gives back all it allocated, and a destroy everything.
LEMMA FinalizeFreesAll ==
    /\ \A made \in SUBSET Allocated : made \ (Finalize(made) \cup {"struct"}) = {}
  BY DEF Allocated, Finalize

\* Opening the pipe.
LEMMA PipeOpens ==
    ASSUME LifeInv, NEW m \in Manager, Cardinality(FreeFd) >= 2
    PROVE  \E a, b \in 0 .. MaxFd :
            /\ a # b /\ Pipe = <<a, b>>
            /\ Stays(fd, WithPipe(m, Pipe))
            /\ WithPipe(m, Pipe)[a] = <<m, "pipe">> /\ WithPipe(m, Pipe)[b] = <<m, "pipe">>
<1>1. PICK a, b \in FreeFd : a # b /\ Pipe = <<a, b>>
  BY PipeIsFree
<1>2. /\ fd \in Table /\ Stays(fd, fd) /\ <<m, "pipe">> \in Owner
      /\ a \in 0 .. MaxFd /\ b \in 0 .. MaxFd /\ fd[a] \notin Owner /\ fd[b] \notin Owner
  BY StaysSame, FreeFds, OwnersOnly DEF LifeInv, Owner
<1> PICK o \in Owner : o = <<m, "pipe">>
  BY <1>2
<1>3. PICK g : g = Given(fd, a, o)
  OBVIOUS
<1>4. Stays(fd, g) /\ g[a] = <<m, "pipe">> /\ g[b] \notin Owner
  <2>1. g[b] = fd[b]
    BY <1>1, <1>2, <1>3 DEF Given, Table
  <2> QED  BY <1>2, <1>3, <2>1, GiveAway
<1>5. PICK h : h = Given(g, b, o)
  OBVIOUS
<1>6. Stays(fd, h) /\ h[b] = <<m, "pipe">>
  BY <1>2, <1>4, <1>5, GiveAway
<1>7. h[a] = <<m, "pipe">>
  BY <1>1, <1>2, <1>4, <1>5 DEF Given, Stays, Table
<1>8. WithPipe(m, Pipe) = h
  BY <1>1, <1>3, <1>5 DEF Given, WithPipe
<1> QED  BY <1>1, <1>2, <1>6, <1>7, <1>8

\* The structures that the steps make.
With6(s, n, x) == [s EXCEPT !.sock6 = n, !.max_fd = x]
With4(s, n, x) == [s EXCEPT !.sock4 = n, !.max_fd = x, !.ready = TRUE]
Made(kind, a, b) == [Absent EXCEPT !.at = "live", !.kind = kind, !.initialized = TRUE,
                                   !.pipe = <<a, b>>, !.max_fd = Higher(a, b)]

LEMMA Structures ==
    ASSUME NEW s \in Structure, NEW n \in -1 .. MaxFd, NEW x \in -1 .. MaxFd
    PROVE  With6(s, n, x) \in Structure /\ With4(s, n, x) \in Structure
  BY DEF With6, With4, Structure

LEMMA StructureMade ==
    ASSUME NEW kind \in {"tube", "stream"}, NEW a \in 0 .. MaxFd, NEW b \in 0 .. MaxFd
    PROVE  Made(kind, a, b) \in Structure
<1>1. PICK x \in -1 .. MaxFd : x = Higher(a, b)
  BY LifeAssumption DEF Higher
<1>2. a \in -1 .. MaxFd /\ b \in -1 .. MaxFd /\ -1 \in -1 .. MaxFd
  BY LifeAssumption
<1>3. <<a, b>> \in (-1 .. MaxFd) \X (-1 .. MaxFd)
  BY <1>2
<1>4. PICK p \in (-1 .. MaxFd) \X (-1 .. MaxFd) : p = <<a, b>>
  BY <1>3
<1>5. Made(kind, a, b) = [at |-> "live", kind |-> kind, initialized |-> TRUE, pipe |-> p,
                          sock6 |-> -1, sock4 |-> -1, max_fd |-> x, ready |-> FALSE]
  <2>1. Made(kind, a, b) = [Absent EXCEPT !.at = "live", !.kind = kind, !.initialized = TRUE,
                                          !.pipe = p, !.max_fd = x]
    BY <1>1, <1>4 DEF Made
  <2> QED  BY <2>1, Zenon DEF Absent
<1> QED  BY <1>2, <1>5 DEF Structure

LEMMA CreateStep ==
    ASSUME LifeInv, NEW m \in Manager, NEW kind \in {"tube", "stream"}, NEW k \in 1 .. Succeeds,
           Create(m, kind, k)
    PROVE  LifeInv'
<1>1. mgr[m].at = "absent" /\ Sound(m, mgr[m], memory[m], fd) /\ mgr[m] \in Structure
  BY DEF Create, LifeInv
<1>2. /\ Own(memory[m]) = {} /\ memory[m] \in SUBSET Blocks
      /\ memory[m] \cup {} = memory[m] /\ UNCHANGED signalled
  BY <1>1 DEF Sound, LifeInv, Create
<1>3. Succeeds > StepOf("pipe") /\ StepOf("pipe") \in Nat
  <2>1. Len(InitStep) = 10 /\ Succeeds = 11 /\ 8 \in 1 .. 10 /\ InitStep[8] = "pipe"
    BY DEF InitStep, Succeeds
  <2>2. StepOf("pipe") \in 1 .. 10
    BY <2>1 DEF StepOf
  <2> QED  BY <2>1, <2>2
<1>4. Stays(fd, fd')
  <2>1. CASE k > StepOf("pipe")
    BY <2>1, PipeOpens DEF Create
  <2>2. CASE ~(k > StepOf("pipe"))
    BY <2>2, StaysSame DEF Create, LifeInv
  <2> QED  BY <2>1, <2>2
<1>5. CASE k = Succeeds
  <2>1. Cardinality(FreeFd) >= 2 /\ fd' = WithPipe(m, Pipe)
    BY <1>3, <1>5 DEF Create
  <2>2. PICK a, b \in 0 .. MaxFd :
            /\ a # b /\ Pipe = <<a, b>>
            /\ fd'[a] = <<m, "pipe">> /\ fd'[b] = <<m, "pipe">>
    BY <2>1, PipeOpens
  <2>3. PICK s : s = Whole(kind, <<a, b>>)
    OBVIOUS
  <2>4. /\ mgr' = [mgr EXCEPT ![m] = s]
        /\ memory' = [memory EXCEPT ![m] = memory[m] \cup Allocated]
    BY <1>5, <2>2, <2>3, MadeBeforeIs DEF Create
  <2>5. /\ s.at = "live" /\ s.kind = kind /\ s.pipe = <<a, b>> /\ s.ready = FALSE
        /\ s.max_fd = Higher(a, b)
    BY <2>3 DEF Whole, Absent
  <2>6. Higher(a, b) \in 0 .. MaxFd /\ a =< Higher(a, b) /\ b =< Higher(a, b)
    BY LifeAssumption DEF Higher
  <2>7. s \in Structure
    <3>1. s = Made(kind, a, b)
      BY <2>3 DEF Whole, Made
    <3> QED  BY <3>1, StructureMade
  <2>8. PICK mem \in SUBSET Blocks : mem = memory[m] \cup Allocated
    BY <1>2 DEF Blocks
  <2>9. Own(mem) = Allocated /\ ("sig_context" \in mem <=> "sig_context" \in memory[m])
    BY <1>2, <2>8 DEF Own, Allocated
  <2>10. Sound(m, s, mem, fd')
    BY <2>2, <2>5, <2>6, <2>9 DEF Sound
  <2> QED  BY <1>2, <1>4, <2>4, <2>7, <2>8, <2>9, <2>10, OneManager
<1>6. CASE k # Succeeds
  <2>1. memory' = [memory EXCEPT ![m] = memory[m] \cup {}] /\ mgr' = mgr
    BY <1>6, MadeBeforeIs, FinalizeFreesAll DEF Create
  <2>2. memory' = memory
    BY <1>2, <2>1 DEF LifeInv
  <2> QED  BY <1>2, <1>4, <2>1, <2>2, OnlyDescriptors
<1> QED  BY <1>5, <1>6

LEMMA DestroyStep ==
    ASSUME LifeInv, NEW m \in Manager, Destroy(m)
    PROVE  LifeInv'
<1>1. /\ memory[m] \in SUBSET Blocks /\ Stays(fd, fd') /\ mgr' = [mgr EXCEPT ![m] = Absent]
      /\ UNCHANGED signalled
  BY StaysSame DEF LifeInv, Destroy
<1>2. memory' = [memory EXCEPT ![m] = memory[m] \ (Finalize(memory[m]) \cup {"struct"})]
  BY DEF Destroy
<1>3. Absent \in Structure
  BY LifeAssumption DEF Absent, Structure
<1>4. PICK s \in Structure, mem \in SUBSET Blocks :
        s = Absent /\ mem = memory[m] \ (Finalize(memory[m]) \cup {"struct"})
  BY <1>1, <1>3
<1>5. Own(mem) = {} /\ ("sig_context" \in mem <=> "sig_context" \in memory[m])
  BY <1>1, <1>4 DEF Own, Finalize, Blocks, Allocated
<1>6. Sound(m, s, mem, fd')
  BY <1>4, <1>5 DEF Sound, Absent
<1> QED  BY <1>1, <1>2, <1>4, <1>5, <1>6, OneManager

LEMMA SignalStep ==
    ASSUME LifeInv, NEW m \in Manager, Signal(m)
    PROVE  LifeInv'
<1>1. /\ mgr' = mgr /\ fd' = fd /\ signalled' = signalled \cup {m}
      /\ memory' = [memory EXCEPT ![m] = memory[m] \cup {"sig_context"}]
  BY DEF Signal
<1>2. memory' \in [Manager -> SUBSET Blocks] /\ signalled' \subseteq Manager
  BY <1>1 DEF LifeInv, Blocks
<1>3. /\ memory'[m] = memory[m] \cup {"sig_context"}
      /\ \A o \in Manager \ {m} : memory'[o] = memory[o]
  BY <1>1 DEF LifeInv
<1>4. \A o \in Manager : o \in signalled' <=> "sig_context" \in memory'[o]
  BY <1>1, <1>3 DEF LifeInv
<1>5. \A o \in Manager : Own(memory'[o]) = Own(memory[o])
  BY <1>3 DEF Own
<1>6. ASSUME NEW o \in Manager
      PROVE  Sound(o, mgr'[o], memory'[o], fd')
  <2>1. Sound(o, mgr[o], memory[o], fd)
    BY DEF LifeInv
  <2> QED  BY <1>1, <1>5, <2>1 DEF Sound
<1> QED  BY <1>1, <1>2, <1>4, <1>6 DEF LifeInv

LEMMA SocketStep ==
    ASSUME LifeInv, NEW m \in Manager,
           NEW fails \in {"socket6", "setup6", "socket4", "setup4", "no"}, Socket(m, fails)
    PROVE  LifeInv'
<1>1. /\ mgr[m].at = "live" /\ Sound(m, mgr[m], memory[m], fd)
      /\ mgr[m] \in Structure /\ memory[m] \in SUBSET Blocks /\ fd \in Table
      /\ mgr[m].max_fd \in -1 .. MaxFd /\ memory \in [Manager -> SUBSET Blocks]
      /\ UNCHANGED signalled
  BY DEF Socket, LifeInv, Structure
<1>2. PICK s : s = [mgr[m] EXCEPT !.ready = FALSE]
  OBVIOUS
<1>3. PICK n6 : n6 = Lowest(FreeFd)
  OBVIOUS
<1>4. PICK n4 : n4 = Lowest(FreeFd \ {n6})
  OBVIOUS
<1>5. PICK f6 : f6 = [fd EXCEPT ![n6] = <<m, "sock6">>] /\ f6 = Given(fd, n6, <<m, "sock6">>)
  BY DEF Given
<1>6. PICK f4 : f4 = [f6 EXCEPT ![n4] = <<m, "sock4">>] /\ f4 = Given(f6, n4, <<m, "sock4">>)
  BY DEF Given
<1>7. /\ s \in Structure /\ s.at = "live" /\ s.ready = FALSE
      /\ s.pipe = mgr[m].pipe /\ s.max_fd = mgr[m].max_fd
  BY <1>1, <1>2 DEF Structure
<1>8. memory' = [memory EXCEPT ![m] = memory[m]]
  BY <1>1 DEF Socket
<1>9. /\ Own(memory[m]) = Allocated
      /\ s.pipe[1] \in 0 .. MaxFd /\ s.pipe[2] \in 0 .. MaxFd /\ s.pipe[1] # s.pipe[2]
      /\ fd[s.pipe[1]] = <<m, "pipe">> /\ fd[s.pipe[2]] = <<m, "pipe">>
      /\ s.pipe[1] =< s.max_fd /\ s.pipe[2] =< s.max_fd
  BY <1>1, <1>7 DEF Sound
<1>10. /\ Stays(fd, fd) /\ <<m, "sock6">> \in Owner /\ <<m, "sock4">> \in Owner
       /\ <<m, "pipe">> \in Owner
  BY <1>1, StaysSame DEF Owner
<1>11. n6 >= 0 => n6 \in FreeFd /\ Stays(fd, f6) /\ f6[n6] = <<m, "sock6">>
  <2> SUFFICES ASSUME n6 >= 0
               PROVE  n6 \in FreeFd /\ Stays(fd, f6) /\ f6[n6] = <<m, "sock6">>
    OBVIOUS
  <2>1. n6 \in FreeFd
    BY <1>3, FreeFds, LowestOf
  <2>2. fd[n6] \notin Owner
    BY <2>1, FreeFds, OwnersOnly
  <2>3. PICK o \in Owner : o = <<m, "sock6">>
    BY <1>10
  <2>4. f6 = Given(fd, n6, o)
    BY <1>5, <2>3
  <2>5. Stays(fd, f6) /\ f6[n6] = o
    BY <1>1, <1>10, <2>1, <2>2, <2>4, GiveAway
  <2> QED  BY <2>1, <2>3, <2>5
<1>12. n6 >= 0 /\ n4 >= 0 =>
            n4 \in FreeFd /\ Stays(fd, f4) /\ f4[n4] = <<m, "sock4">> /\ f4[n6] = <<m, "sock6">>
  <2> SUFFICES ASSUME n6 >= 0, n4 >= 0
               PROVE  /\ n4 \in FreeFd /\ Stays(fd, f4)
                      /\ f4[n4] = <<m, "sock4">> /\ f4[n6] = <<m, "sock6">>
    OBVIOUS
  <2>1. n4 \in FreeFd \ {n6}
    <3>1. FreeFd \ {n6} \subseteq 0 .. MaxFd
      BY FreeFds
    <3> QED  BY <1>4, <3>1, LowestOf
  <2>2. n6 \in 0 .. MaxFd /\ n4 \in 0 .. MaxFd /\ n4 # n6 /\ f6 \in Table
    BY <1>11, <2>1, FreeFds DEF Stays
  <2>3. f6[n4] \notin Owner
    <3>1. f6[n4] = fd[n4]
      BY <1>1, <1>5, <2>2 DEF Table
    <3> QED  BY <2>1, <3>1, FreeFds, OwnersOnly
  <2>4. Stays(fd, f4) /\ f4[n4] = <<m, "sock4">>
    <3>1. PICK o \in Owner : o = <<m, "sock4">>
      BY <1>10
    <3>2. f4 = Given(f6, n4, o) /\ n4 \in FreeFd /\ Stays(fd, f6)
      BY <1>6, <1>11, <2>1, <3>1
    <3>3. Stays(fd, f4) /\ f4[n4] = o
      BY <1>1, <2>3, <3>2, GiveAway
    <3> QED  BY <3>1, <3>3
  <2>5. f4[n6] = f6[n6]
    BY <1>6, <2>2 DEF Table
  <2> QED  BY <1>11, <2>1, <2>4, <2>5
\* A call that does not succeed leaves pipe and memory alone.
<1>13. ASSUME NEW t \in Structure, mgr' = [mgr EXCEPT ![m] = t],
              t.at = "live", t.ready = FALSE, t.pipe = s.pipe, s.max_fd =< t.max_fd,
              Stays(fd, fd')
       PROVE  LifeInv'
  <2>1. fd'[s.pipe[1]] = <<m, "pipe">> /\ fd'[s.pipe[2]] = <<m, "pipe">>
    BY <1>9, <1>10, <1>13 DEF Stays
  <2>2. t.max_fd \in Int /\ s.max_fd \in Int
    BY <1>7, <1>13 DEF Structure
  <2>3. s.pipe[1] =< t.max_fd /\ s.pipe[2] =< t.max_fd
    BY <1>9, <1>13, <2>2
  <2>4. Sound(m, t, memory[m], fd')
    BY <1>9, <1>13, <2>1, <2>3 DEF Sound
  <2> QED  BY <1>1, <1>8, <1>13, <2>4, OneManager
<1>14. CASE fails = "socket6"
  <2>1. PICK t : t = [s EXCEPT !.sock6 = -1]
    OBVIOUS
  <2>2. mgr' = [mgr EXCEPT ![m] = t] /\ fd' = fd
    BY <1>2, <1>14, <2>1 DEF Socket
  <2>3. /\ t \in Structure /\ t.at = "live" /\ t.ready = FALSE /\ t.pipe = s.pipe
        /\ s.max_fd =< t.max_fd
    BY <1>7, <2>1, LifeAssumption DEF Structure
  <2> QED  BY <1>10, <1>13, <2>2, <2>3
<1>15. CASE fails = "setup6"
  <2>1. PICK t : t = [s EXCEPT !.sock6 = n6]
    OBVIOUS
  <2>2. mgr' = [mgr EXCEPT ![m] = t] /\ fd' = f6 /\ n6 >= 0
    BY <1>2, <1>3, <1>5, <1>15, <2>1 DEF Socket
  <2>3. n6 \in 0 .. MaxFd
    BY <1>11, <2>2, FreeFds
  <2>4. /\ t \in Structure /\ t.at = "live" /\ t.ready = FALSE /\ t.pipe = s.pipe
        /\ s.max_fd =< t.max_fd
    BY <1>7, <2>1, <2>3, LifeAssumption DEF Structure
  <2> QED  BY <1>11, <1>13, <2>2, <2>4
<1>16. PICK s6 : s6 = [s EXCEPT !.sock6 = n6, !.max_fd = Opened(@, n6)]
  OBVIOUS
<1>17. n6 >= 0 => /\ s6 \in Structure /\ s6.at = "live" /\ s6.ready = FALSE /\ s6.pipe = s.pipe
                  /\ s6.sock6 = n6 /\ s.max_fd =< s6.max_fd /\ n6 =< s6.max_fd
  <2> SUFFICES ASSUME n6 \in 0 .. MaxFd
               PROVE  /\ s6 \in Structure /\ s6.at = "live" /\ s6.ready = FALSE /\ s6.pipe = s.pipe
                      /\ s6.sock6 = n6 /\ s.max_fd =< s6.max_fd /\ n6 =< s6.max_fd
    BY <1>11, FreeFds
  <2>1. PICK x : x = Opened(s.max_fd, n6)
    OBVIOUS
  <2>2. x \in -1 .. MaxFd /\ s.max_fd =< x /\ n6 =< x
    BY <1>1, <1>7, <2>1, LifeAssumption DEF Opened, Higher
  <2>3. s6 = [s EXCEPT !.sock6 = n6, !.max_fd = x]
    BY <1>16, <2>1
  <2>4. s6 \in Structure
    <3>1. s6 = With6(s, n6, x) /\ n6 \in -1 .. MaxFd
      BY <2>3 DEF With6
    <3> QED  BY <1>7, <2>2, <3>1, Structures
  <2>5. /\ s6.at = "live" /\ s6.ready = FALSE /\ s6.pipe = s.pipe
        /\ s6.sock6 = n6 /\ s6.max_fd = x
    BY <1>7, <2>3 DEF Structure
  <2> QED  BY <2>2, <2>4, <2>5
<1>18. CASE fails = "socket4"
  <2>1. PICK t : t = [s6 EXCEPT !.sock4 = -1]
    OBVIOUS
  <2>2. mgr' = [mgr EXCEPT ![m] = t] /\ fd' = f6 /\ n6 >= 0
    BY <1>2, <1>3, <1>5, <1>16, <1>18, <2>1 DEF Socket
  <2>3. /\ t \in Structure /\ t.at = "live" /\ t.ready = FALSE /\ t.pipe = s.pipe
        /\ s.max_fd =< t.max_fd
    BY <1>17, <2>1, <2>2, LifeAssumption DEF Structure
  <2> QED  BY <1>11, <1>13, <2>2, <2>3
<1>19. CASE fails = "setup4"
  <2>1. PICK t : t = [s6 EXCEPT !.sock4 = n4]
    OBVIOUS
  <2>2. mgr' = [mgr EXCEPT ![m] = t] /\ fd' = f4 /\ n6 >= 0 /\ n4 >= 0
    BY <1>2, <1>3, <1>4, <1>5, <1>6, <1>16, <1>19, <2>1 DEF Socket
  <2>3. n4 \in 0 .. MaxFd
    BY <1>12, <2>2, FreeFds
  <2>4. /\ t \in Structure /\ t.at = "live" /\ t.ready = FALSE /\ t.pipe = s.pipe
        /\ s.max_fd =< t.max_fd
    BY <1>17, <2>1, <2>2, <2>3, LifeAssumption DEF Structure
  <2> QED  BY <1>12, <1>13, <2>2, <2>4
<1>20. CASE fails = "no"
  <2>1. PICK x : x = Opened(s6.max_fd, n4)
    OBVIOUS
  <2>2. PICK t : t = [s6 EXCEPT !.sock4 = n4, !.max_fd = x, !.ready = TRUE]
    OBVIOUS
  <2>3. mgr' = [mgr EXCEPT ![m] = t] /\ fd' = f4 /\ n6 >= 0 /\ n4 >= 0
    BY <1>2, <1>3, <1>4, <1>5, <1>6, <1>16, <1>20, <2>1, <2>2 DEF Socket
  <2>4. n4 \in 0 .. MaxFd /\ n6 \in 0 .. MaxFd
    BY <1>11, <1>12, <2>3, FreeFds
  <2>5. /\ s6 \in Structure /\ s6.max_fd \in -1 .. MaxFd
        /\ s6.sock6 = n6 /\ s6.pipe = s.pipe /\ s6.at = "live"
    BY <1>17, <2>3 DEF Structure
  <2>6. x \in -1 .. MaxFd /\ s6.max_fd =< x /\ n4 =< x
    BY <2>1, <2>4, <2>5, LifeAssumption DEF Opened, Higher
  <2>7. /\ t \in Structure /\ t.at = "live" /\ t.pipe = s.pipe
        /\ t.sock6 = n6 /\ t.sock4 = n4 /\ t.max_fd = x
    <3>1. t \in Structure
      <4>1. t = With4(s6, n4, x) /\ n4 \in -1 .. MaxFd
        BY <2>2, <2>4 DEF With4
      <4> QED  BY <2>5, <2>6, <4>1, Structures
    <3>2. /\ t.at = "live" /\ t.pipe = s.pipe
          /\ t.sock6 = n6 /\ t.sock4 = n4 /\ t.max_fd = x
      BY <2>2, <2>5 DEF Structure
    <3> QED  BY <3>1, <3>2
  <2>8. s.max_fd \in Int /\ s.max_fd =< x /\ n6 =< x /\ s.pipe[1] =< x /\ s.pipe[2] =< x
    BY <1>1, <1>7, <1>9, <1>17, <2>3, <2>4, <2>5, <2>6
  <2>9. /\ Stays(fd, fd') /\ fd'[n4] = <<m, "sock4">> /\ fd'[n6] = <<m, "sock6">>
        /\ fd'[s.pipe[1]] = <<m, "pipe">> /\ fd'[s.pipe[2]] = <<m, "pipe">>
    BY <1>9, <1>10, <1>12, <2>3 DEF Stays
  <2>10. Sound(m, t, memory[m], fd')
    BY <1>9, <2>4, <2>6, <2>7, <2>8, <2>9 DEF Sound
  <2> QED  BY <1>1, <1>8, <2>3, <2>7, <2>9, <2>10, OneManager
<1> QED  BY <1>14, <1>15, <1>18, <1>19, <1>20

LEMMA LifeInitInv == LifeInit => LifeInv
<1> SUFFICES ASSUME LifeInit
             PROVE  LifeInv
  OBVIOUS
<1>1. Absent \in Structure
  BY LifeAssumption DEF Absent, Structure
<1>2. mgr \in [Manager -> Structure] /\ memory \in [Manager -> SUBSET Blocks] /\ fd \in Table
  BY <1>1 DEF LifeInit, Table
<1>3. ASSUME NEW m \in Manager
      PROVE  Sound(m, mgr[m], memory[m], fd)
  BY DEF LifeInit, Sound, Absent, Own
<1>4. /\ signalled \subseteq Manager
      /\ \A m \in Manager : m \in signalled <=> "sig_context" \in memory[m]
  BY DEF LifeInit
<1> QED  BY <1>2, <1>3, <1>4 DEF LifeInv

LEMMA LifeNextInv == LifeInv /\ [LifeNext]_lifeVars => LifeInv'
<1> SUFFICES ASSUME LifeInv, [LifeNext]_lifeVars
             PROVE  LifeInv'
  OBVIOUS
<1>1. CASE UNCHANGED lifeVars
  BY <1>1, StaysSame, OnlyDescriptors DEF lifeVars, LifeInv
<1> QED  BY <1>1, AppSteps, CreateStep, DestroyStep, SignalStep, SocketStep DEF LifeNext

LEMMA LifeAlways == LifeSpec => []LifeInv
  BY LifeInitInv, LifeNextInv, PTL DEF LifeSpec

\* However tube_manager_create fails, and whenever tube_manager_destroy is
\* called, no memory of a manager is left but the contexts of its signals, which
\* always are; a living manager is whole.  For any number of managers and
\* descriptors.
THEOREM Complete == LifeSpec => []AllOrNothing
<1>1. LifeInv => AllOrNothing
  <2> SUFFICES ASSUME LifeInv, NEW m \in Manager
               PROVE  LET contexts == IF m \in signalled THEN {"sig_context"} ELSE {} IN
                      IF mgr[m].at = "absent" THEN memory[m] = contexts
                      ELSE /\ memory[m] = Allocated \cup contexts
                           /\ mgr[m].pipe[1] # mgr[m].pipe[2]
                           /\ \A i \in 1 .. 2 : fd[mgr[m].pipe[i]] = <<m, "pipe">>
    BY DEF AllOrNothing
  <2>1. Sound(m, mgr[m], memory[m], fd) /\ mgr[m].at \in {"absent", "live"}
    BY DEF LifeInv, Structure
  <2>2. memory[m] = Own(memory[m]) \cup (IF m \in signalled THEN {"sig_context"} ELSE {})
    BY DEF LifeInv, Own
  <2> QED  BY <2>1, <2>2 DEF Sound
<1> QED  BY <1>1, LifeAlways, PTL

\* After a successful tube_manager_socket, whatever failed before and in
\* whatever order descriptors were given out, select watches all descriptors.
THEOREM Watched == LifeSpec => []SelectWatchesAll
<1>1. LifeInv => SelectWatchesAll
  <2> SUFFICES ASSUME LifeInv, NEW m \in Manager, mgr[m].ready
               PROVE  LET s == mgr[m] IN
                      /\ fd[s.sock6] = <<m, "sock6">> /\ s.sock6 <= s.max_fd
                      /\ fd[s.sock4] = <<m, "sock4">> /\ s.sock4 <= s.max_fd
                      /\ s.pipe[1] <= s.max_fd
    BY DEF SelectWatchesAll
  <2>1. /\ Sound(m, mgr[m], memory[m], fd) /\ mgr[m].at \in {"absent", "live"}
        /\ mgr[m].ready = TRUE
    BY DEF LifeInv, Structure
  <2> QED  BY <2>1 DEF Sound
<1> QED  BY <1>1, LifeAlways, PTL

------------------------------------------------------------------------------
\* Datagram

\* The types of DatagramTypeOK, and of what is on its way.
TubeAtEnd == [state : {"none", "opening", "running", "unknown"},
              sock : Family \cup {"none"}, peer : Address \cup {Nowhere},
              pktinfo : {NoInfo} \cup [kind : Family, addr : Address]]
Commands == {"data", "open", "close", "ack"}

\* A tube t with the ID id at end e, opened to a: it is addressed as it should
\* be, un being the IDs accepted without a report.
Addressed(e, id, t, a, un) ==
    /\ t \in TubeAtEnd
    /\ t # NoTube =>
        /\ t.state # "none"
        /\ a \in Address /\ a.end = "responder"
        /\ t.sock = a.fam
        /\ t.peer \in Address /\ t.peer.fam = a.fam /\ t.peer.end = Other(e)
        /\ e = "client" => t.peer = a /\ t.pktinfo = NoInfo
        /\ e = "responder" => \/ t.pktinfo = PktinfoSet(a)
                              \/ t.pktinfo = NoInfo /\ id \in un

\* A datagram d on its way, of a tube opened to a.
Traced(d, a, un) ==
    /\ d.id \in Id
    /\ a \in Address /\ a.end = "responder"
    /\ d.from \in Address /\ d.to \in Address
    /\ d.from.fam = a.fam /\ d.to.fam = a.fam /\ d.from.end = Other(d.to.end)
    /\ d.to.end = "responder" => d.to = a
    /\ d.from.end = "responder" => d.from = a \/ d.id \in un

DatagramInv ==
    /\ DatagramTypeOK
    /\ \A e \in End, id \in Id : Addressed(e, id, tubeAt[e][id], asked[id], unreported)
    /\ \A d \in net : Traced(d, asked[d.id], unreported)

LEMMA Ends ==
    /\ Other("client") = "responder" /\ Other("responder") = "client"
    /\ "client" \in End /\ "responder" \in End
    /\ \A e \in End : e = "client" \/ e = "responder"
<1>1. \A e \in End : Other(e) \in End /\ Other(e) # e
  BY DEF Other, End
<1> QED  BY <1>1 DEF End

LEMMA Addresses ==
    \A a \in Address : a.end \in End /\ a.fam \in Family /\ a # Nowhere
  BY Ends DEF Address, Nowhere, End

LEMMA NotNoInfo ==
    \A a \in Address : /\ PktinfoSet(a) # NoInfo /\ PktinfoSet(a).kind = a.fam
                       /\ PktinfoSet(a).addr = a
                       /\ PktinfoSet(a) \in [kind : Family, addr : Address]
  BY Addresses DEF PktinfoSet, NoInfo, Family

\* What a tube that is addressed as it should be sends can be traced.
LEMMA SendTraced ==
    ASSUME NEW e \in End, NEW id \in Id, NEW t, NEW a, NEW un,
           Addressed(e, id, t, a, un), t # NoTube,
           NEW cmd \in Commands, NEW adec \in BOOLEAN, NEW pdec \in BOOLEAN, NEW body,
           NEW d \in TubeSend(e, id, t, cmd, adec, pdec, body)
    PROVE  d.id = id /\ Traced(d, a, un)
<1>1. /\ a \in Address /\ a.end = "responder" /\ t.sock = a.fam
      /\ t.peer \in Address /\ t.peer.fam = a.fam /\ t.peer.end = Other(e)
  BY DEF Addressed
<1>2. PICK f \in Sources(e, t) :
        /\ d.id = id
        /\ d.from = f /\ d.to = t.peer
  BY DEF TubeSend
<1>3. /\ f \in Address /\ f.fam = a.fam /\ f.end = e
      /\ e = "responder" => f = a \/ id \in un
  <2>1. CASE e = "client"
    <3>1. t.pktinfo = NoInfo /\ a.fam \in Family /\ NoInfo.kind \notin Family
      BY <1>1, <2>1, Addresses DEF Addressed, NoInfo, Family
    <3>2. f \in AddrOf(e, t.sock)
      BY <1>1, <1>2, <3>1 DEF Sources
    <3> QED  BY <1>1, <2>1, <3>2 DEF AddrOf
  <2>2. CASE e = "responder" /\ t.pktinfo = PktinfoSet(a)
    <3>1. t.pktinfo.kind = t.sock /\ t.pktinfo.addr = a
      BY <1>1, <2>2, NotNoInfo
    <3> QED  BY <1>1, <1>2, <2>2, <3>1 DEF Sources
  <2>3. CASE e = "responder" /\ t.pktinfo = NoInfo /\ id \in un
    <3>1. a.fam \in Family /\ NoInfo.kind \notin Family
      BY <1>1, Addresses DEF NoInfo, Family
    <3>2. f \in AddrOf(e, t.sock)
      BY <1>1, <1>2, <2>3, <3>1 DEF Sources
    <3> QED  BY <1>1, <2>3, <3>2 DEF AddrOf
  <2> QED  BY <2>1, <2>2, <2>3, Ends DEF Addressed
<1>4. d.to.end = "responder" => d.to = a
  BY <1>1, <1>2, Ends DEF Addressed
<1>5. d.from.end = Other(d.to.end)
  BY <1>1, <1>2, <1>3, Ends
<1> QED  BY <1>1, <1>2, <1>3, <1>4, <1>5 DEF Traced

\* The tubes and datagrams there are stay as they should be.
LEMMA StaysAddressed ==
    ASSUME NEW e, NEW id, NEW t, NEW a, NEW b, NEW un, NEW vn, un \subseteq vn,
           Addressed(e, id, t, a, un), b = a \/ a = Nowhere
    PROVE  Addressed(e, id, t, b, vn)
  BY Addresses DEF Addressed

LEMMA StaysTraced ==
    ASSUME NEW d, NEW a, NEW b, NEW un, NEW vn, un \subseteq vn,
           Traced(d, a, un), b = a \/ a = Nowhere
    PROVE  Traced(d, b, vn)
<1>1. a # Nowhere
  BY Addresses DEF Traced
<1> QED  BY <1>1 DEF Traced

\* What every step does to the rest of the state.
Grows ==
    /\ info' \in {NoInfo} \cup [kind : Family, addr : Address]
    /\ asked' \in [Id -> Address \cup {Nowhere}]
    /\ \A id \in Id : asked'[id] = asked[id] \/ asked[id] = Nowhere
    /\ unreported \subseteq unreported' /\ unreported' \subseteq Id
    /\ \A d \in net' : d \in net \/ (d.id \in Id /\ Traced(d, asked'[d.id], unreported'))

LEMMA KeepsDatagrams ==
    ASSUME DatagramInv, Grows
    PROVE  \A d \in net' : Traced(d, asked'[d.id], unreported')
<1> SUFFICES ASSUME NEW d \in net'
             PROVE  Traced(d, asked'[d.id], unreported')
  OBVIOUS
<1>1. CASE d \in net
  <2>1. Traced(d, asked[d.id], unreported) /\ d.id \in Id
    BY <1>1 DEF DatagramInv, Traced
  <2> QED  BY <2>1, StaysTraced DEF Grows
<1> QED  BY <1>1 DEF Grows

\* A step that changes one tube.
LEMMA OneTube ==
    ASSUME DatagramInv, Grows, NEW e \in End, NEW id \in Id, NEW t,
           tubeAt' = [tubeAt EXCEPT ![e] = [@ EXCEPT ![id] = t]],
           Addressed(e, id, t, asked'[id], unreported')
    PROVE  DatagramInv'
<1>1. tubeAt \in [End -> [Id -> TubeAtEnd]] /\ t \in TubeAtEnd
  BY DEF DatagramInv, DatagramTypeOK, TubeAtEnd, Addressed
<1>2. tubeAt' \in [End -> [Id -> TubeAtEnd]]
  BY <1>1
<1>3. \A x \in End, y \in Id : tubeAt'[x][y] = IF x = e /\ y = id THEN t ELSE tubeAt[x][y]
  BY <1>1
<1>4. DatagramTypeOK'
  BY <1>2 DEF DatagramTypeOK, Grows, TubeAtEnd
<1>5. ASSUME NEW x \in End, NEW y \in Id
      PROVE  Addressed(x, y, tubeAt'[x][y], asked'[y], unreported')
  <2>1. Addressed(x, y, tubeAt[x][y], asked[y], unreported)
    BY DEF DatagramInv
  <2>2. Addressed(x, y, tubeAt[x][y], asked'[y], unreported')
    BY <2>1, StaysAddressed DEF Grows
  <2> QED  BY <1>3, <2>2
<1> QED  BY <1>4, <1>5, KeepsDatagrams DEF DatagramInv, Grows

\* A step that changes no tube.
LEMMA NoTubeChanges ==
    ASSUME DatagramInv, Grows, tubeAt' = tubeAt
    PROVE  DatagramInv'
<1>1. DatagramTypeOK'
  BY DEF DatagramInv, DatagramTypeOK, Grows
<1>2. ASSUME NEW x \in End, NEW y \in Id
      PROVE  Addressed(x, y, tubeAt'[x][y], asked'[y], unreported')
  <2>1. Addressed(x, y, tubeAt[x][y], asked[y], unreported)
    BY DEF DatagramInv
  <2> QED  BY <2>1, StaysAddressed DEF Grows
<1> QED  BY <1>1, <1>2, KeepsDatagrams DEF DatagramInv, Grows

\* What a tube sends may be added to the net.
LEMMA SendsTraced ==
    ASSUME NEW e \in End, NEW id \in Id, NEW t, Addressed(e, id, t, asked'[id], unreported'),
           t # NoTube, NEW cmd \in Commands, NEW adec \in BOOLEAN, NEW pdec \in BOOLEAN, NEW body,
           Sends(e, id, t, cmd, adec, pdec, body)
    PROVE  \A d \in net' : d \in net \/ (d.id \in Id /\ Traced(d, asked'[d.id], unreported'))
<1>1. PICK d \in TubeSend(e, id, t, cmd, adec, pdec, body) : net' = net \cup {d}
  BY DEF Sends
<1>2. d.id = id /\ Traced(d, asked'[id], unreported')
  BY SendTraced
<1> QED  BY <1>1, <1>2

LEMMA OpenToStep ==
    ASSUME DatagramInv, NEW id \in Id, NEW dest \in Address, dest.end = "responder",
           OpenTo(id, dest)
    PROVE  DatagramInv'
<1>1. PICK t : t = [NoTube EXCEPT !.state = "opening", !.sock = dest.fam, !.peer = dest]
  OBVIOUS
<1>2. /\ asked[id] = Nowhere /\ asked' = [asked EXCEPT ![id] = dest] /\ unreported' = unreported
      /\ tubeAt' = [tubeAt EXCEPT !["client"] = [@ EXCEPT ![id] = t]]
      /\ Sends("client", id, t, "open", FALSE, FALSE, Nothing)
      /\ info' = info
  BY <1>1 DEF OpenTo
<1>3. t.state = "opening" /\ t.sock = dest.fam /\ t.peer = dest /\ t.pktinfo = NoInfo
  BY <1>1 DEF NoTube
<1>4. t \in TubeAtEnd /\ t # NoTube
  <2>1. t # NoTube
    BY <1>3 DEF NoTube
  <2>2. dest.fam \in Family
    BY Addresses
  <2> QED  BY <1>1, <2>1, <2>2 DEF NoTube, TubeAtEnd
<1>5. asked \in [Id -> Address \cup {Nowhere}]
  BY DEF DatagramInv, DatagramTypeOK
<1>6. asked'[id] = dest /\ asked' \in [Id -> Address \cup {Nowhere}]
  BY <1>2, <1>5
<1>7. Addressed("client", id, t, asked'[id], unreported')
  BY <1>3, <1>4, <1>6, Ends DEF Addressed
<1>8. \A d \in net' : d \in net \/ (d.id \in Id /\ Traced(d, asked'[d.id], unreported'))
  <2>1. "open" \in Commands /\ FALSE \in BOOLEAN /\ "client" \in End
    BY Ends DEF Commands
  <2> QED  BY <1>2, <1>4, <1>7, <2>1, SendsTraced
<1>9. Grows
  BY <1>2, <1>5, <1>6, <1>8 DEF Grows, DatagramInv, DatagramTypeOK
<1> QED  BY <1>2, <1>7, <1>9, Ends, OneTube

LEMMA SendBodyStep ==
    ASSUME DatagramInv, NEW e \in End, NEW id \in Id, NEW adec \in BOOLEAN, NEW body \in Bodies,
           SendBody(e, id, adec, body)
    PROVE  DatagramInv'
<1>1. PICK pdec \in BOOLEAN : pdec = (body.what = "declaration")
  OBVIOUS
<1>2. /\ tubeAt[e][id] # NoTube
      /\ Sends(e, id, tubeAt[e][id], "data", adec, pdec, body)
      /\ tubeAt' = tubeAt /\ info' = info /\ asked' = asked /\ unreported' = unreported
  BY <1>1 DEF SendBody
<1>3. Addressed(e, id, tubeAt[e][id], asked'[id], unreported')
  BY <1>2 DEF DatagramInv
<1>4. \A d \in net' : d \in net \/ (d.id \in Id /\ Traced(d, asked'[d.id], unreported'))
  <2>1. "data" \in Commands
    BY DEF Commands
  <2> QED  BY <1>2, <1>3, <2>1, SendsTraced
<1>5. Grows
  BY <1>2, <1>4 DEF Grows, DatagramInv, DatagramTypeOK
<1> QED  BY <1>2, <1>5, NoTubeChanges

\* A tube's state alone changes.
LEMMA StateChanges ==
    ASSUME NEW e, NEW id, NEW t, NEW a, NEW un, Addressed(e, id, t, a, un), t # NoTube,
           NEW s \in {"running", "unknown"}, NEW u, u = [t EXCEPT !.state = s]
    PROVE  u # NoTube /\ Addressed(e, id, u, a, un)
<1>1. t \in TubeAtEnd
  BY DEF Addressed
<1>2. /\ u \in TubeAtEnd /\ u.state = s /\ u.sock = t.sock /\ u.peer = t.peer
      /\ u.pktinfo = t.pktinfo
  BY <1>1 DEF TubeAtEnd
<1>3. u # NoTube
  BY <1>2 DEF NoTube
<1> QED  BY <1>2, <1>3 DEF Addressed

LEMMA CloseTubeStep ==
    ASSUME DatagramInv, NEW e \in End, NEW id \in Id, CloseTube(e, id)
    PROVE  DatagramInv'
<1>1. PICK t : t = tubeAt[e][id]
  OBVIOUS
<1>2. PICK u : u = [t EXCEPT !.state = "unknown"]
  OBVIOUS
<1>3. /\ t # NoTube
      /\ tubeAt' = [tubeAt EXCEPT ![e] = [@ EXCEPT ![id] = u]]
      /\ Sends(e, id, t, "close", FALSE, FALSE, Nothing)
      /\ info' = info /\ asked' = asked /\ unreported' = unreported
  BY <1>1, <1>2 DEF CloseTube
<1>4. Addressed(e, id, t, asked'[id], unreported')
  BY <1>1, <1>3 DEF DatagramInv
<1>5. Addressed(e, id, u, asked'[id], unreported')
  BY <1>2, <1>3, <1>4, StateChanges
<1>6. \A d \in net' : d \in net \/ (d.id \in Id /\ Traced(d, asked'[d.id], unreported'))
  <2>1. "close" \in Commands /\ FALSE \in BOOLEAN
    BY DEF Commands
  <2> QED  BY <1>3, <1>4, <2>1, SendsTraced
<1>7. Grows
  BY <1>3, <1>6 DEF Grows, DatagramInv, DatagramTypeOK
<1> QED  BY <1>3, <1>5, <1>7, OneTube

LEMMA ReceiveDatagramStep ==
    ASSUME DatagramInv, NEW e \in End, NEW d \in net, NEW reported \in BOOLEAN,
           ReceiveDatagram(e, d, reported)
    PROVE  DatagramInv'
<1>1. PICK noted : noted = Noted(d, reported)
  OBVIOUS
<1>2. PICK t : t = tubeAt[e][d.id]
  OBVIOUS
<1>3. PICK new : new = [state |-> "running", sock |-> d.to.fam, peer |-> d.from, pktinfo |-> noted]
  OBVIOUS
<1>4. PICK left : left = {net \ {d}, net}
  OBVIOUS
<1>5. Traced(d, asked[d.id], unreported)
  BY DEF DatagramInv
<1>6. /\ d.id \in Id /\ asked[d.id] \in Address /\ asked[d.id].end = "responder"
      /\ d.from \in Address /\ d.to \in Address
      /\ d.from.fam = asked[d.id].fam /\ d.to.fam = asked[d.id].fam
      /\ d.from.end = Other(d.to.end)
      /\ d.to.end = "responder" => d.to = asked[d.id]
  BY <1>5 DEF Traced
<1>7. /\ noted = IF reported THEN PktinfoSet(d.to) ELSE NoInfo
      /\ noted \in {NoInfo} \cup [kind : Family, addr : Address]
  BY <1>1, <1>6, NotNoInfo DEF Noted
<1>8. /\ asked' = asked /\ d.to.end = e
      /\ info' \in {NoInfo} \cup [kind : Family, addr : Address]
  BY <1>1, <1>7 DEF ReceiveDatagram, DatagramInv, DatagramTypeOK
<1>9. Addressed(e, d.id, t, asked'[d.id], unreported)
  BY <1>2, <1>6, <1>8 DEF DatagramInv
\* Most packets are only taken from the net.
<1>10. ASSUME net' \in left, unreported' = unreported
       PROVE  Grows
  <2>1. net' \subseteq net
    BY <1>4, <1>10
  <2> QED  BY <1>8, <1>10, <2>1 DEF Grows, DatagramInv, DatagramTypeOK
<1>11. CASE net' \in left /\ tubeAt' = tubeAt /\ unreported' = unreported
  BY <1>10, <1>11, NoTubeChanges
<1>12. CASE /\ tubeAt' = [tubeAt EXCEPT ![e] = [@ EXCEPT ![d.id] = NoTube]]
            /\ net' \in left /\ unreported' = unreported
  <2>1. Grows
    BY <1>10, <1>12
  <2>2. Addressed(e, d.id, NoTube, asked'[d.id], unreported')
    BY DEF Addressed, TubeAtEnd, NoTube
  <2> QED  BY <1>6, <1>12, <2>1, <2>2, OneTube
<1>13. CASE /\ t # NoTube
            /\ tubeAt' = [tubeAt EXCEPT ![e] = [@ EXCEPT ![d.id] = [t EXCEPT !.state = "running"]]]
            /\ net' \in left /\ unreported' = unreported
  <2>1. Grows
    BY <1>10, <1>13
  <2>2. PICK u : u = [t EXCEPT !.state = "running"]
    OBVIOUS
  <2>3. Addressed(e, d.id, u, asked'[d.id], unreported)
    BY <1>9, <1>13, <2>2, StateChanges
  <2> QED  BY <1>6, <1>13, <2>1, <2>2, <2>3, OneTube
\* An OPEN is accepted.
<1>14. CASE /\ e = "responder"
            /\ tubeAt' = [tubeAt EXCEPT ![e] = [@ EXCEPT ![d.id] = new]]
            /\ unreported' = IF reported THEN unreported ELSE unreported \cup {d.id}
            /\ \E a \in TubeSend(e, d.id, new, "ack", FALSE, FALSE, Nothing), rest \in left :
                  net' = rest \cup {a}
  <2>1. /\ new.state = "running" /\ new.sock = asked[d.id].fam /\ new.peer = d.from
        /\ new.pktinfo = noted /\ d.to = asked[d.id]
    BY <1>3, <1>6, <1>8, <1>14
  <2>2. new \in TubeAtEnd
    <3>1. d.to.fam \in Family
      BY <1>6, Addresses
    <3> QED  BY <1>3, <1>6, <1>7, <3>1 DEF TubeAtEnd
  <2>3. new # NoTube
    BY <2>1 DEF NoTube
  <2>4. noted = PktinfoSet(asked[d.id]) \/ (noted = NoInfo /\ d.id \in unreported')
    BY <1>7, <1>14, <2>1
  <2>5. Addressed(e, d.id, new, asked'[d.id], unreported')
    BY <1>6, <1>8, <1>14, <2>1, <2>2, <2>4 DEF Addressed
  <2>6. PICK a \in TubeSend(e, d.id, new, "ack", FALSE, FALSE, Nothing), rest \in left :
            net' = rest \cup {a}
    BY <1>14
  <2>7. a.id = d.id /\ Traced(a, asked'[d.id], unreported')
    <3>1. "ack" \in Commands /\ FALSE \in BOOLEAN
      BY DEF Commands
    <3> QED  BY <1>6, <2>3, <2>5, <3>1, SendTraced
  <2>8. \A x \in net' : x \in net \/ (x.id \in Id /\ Traced(x, asked'[x.id], unreported'))
    BY <1>4, <1>6, <2>6, <2>7
  <2>9. unreported \subseteq unreported' /\ unreported' \subseteq Id
    BY <1>6, <1>14 DEF DatagramInv, DatagramTypeOK
  <2>10. Grows
    BY <1>8, <1>14, <2>8, <2>9 DEF Grows, DatagramInv, DatagramTypeOK
  <2> QED  BY <1>6, <1>14, <2>5, <2>10, OneTube
<1>15. [tubeAt EXCEPT ![e][d.id].state = "running"]
        = [tubeAt EXCEPT ![e] = [@ EXCEPT ![d.id] = [t EXCEPT !.state = "running"]]]
  BY <1>2
<1> QED  BY <1>1, <1>2, <1>3, <1>4, <1>11, <1>12, <1>13, <1>14, <1>15 DEF ReceiveDatagram

LEMMA DatagramInitInv == DatagramInit => DatagramInv
<1> SUFFICES ASSUME DatagramInit
             PROVE  DatagramInv
  OBVIOUS
<1>1. NoTube \in TubeAtEnd
  BY DEF NoTube, TubeAtEnd
<1>2. DatagramTypeOK
  BY <1>1 DEF DatagramInit, DatagramTypeOK, TubeAtEnd
<1>3. \A e \in End, id \in Id : Addressed(e, id, tubeAt[e][id], asked[id], unreported)
  BY <1>1 DEF DatagramInit, Addressed
<1> QED  BY <1>2, <1>3 DEF DatagramInit, DatagramInv

LEMMA DatagramNextInv == DatagramInv /\ [DatagramNext]_datagramVars => DatagramInv'
<1> SUFFICES ASSUME DatagramInv, [DatagramNext]_datagramVars
             PROVE  DatagramInv'
  OBVIOUS
<1>1. CASE UNCHANGED datagramVars
  BY <1>1, NoTubeChanges DEF datagramVars, Grows, DatagramInv, DatagramTypeOK
<1>2. CASE LoseDatagram
  <2>1. Grows /\ tubeAt' = tubeAt
    BY <1>2 DEF LoseDatagram, Grows, DatagramInv, DatagramTypeOK
  <2> QED  BY <2>1, NoTubeChanges
<1> QED  BY <1>1, <1>2, OpenToStep, SendBodyStep, CloseTubeStep, ReceiveDatagramStep
         DEF DatagramNext

LEMMA DatagramAlways == DatagramSpec => []DatagramInv
  BY DatagramInitInv, DatagramNextInv, PTL DEF DatagramSpec

\* Whatever datagrams are lost or duplicated, wherever they were addressed, and
\* whatever the kernel does not report: an accepted tube answers from where it
\* was asked, through the right socket.  For any number of tubes and addresses.
THEOREM Answers == DatagramSpec => []AnswersFromWhereAsked
<1>1. DatagramInv => AnswersFromWhereAsked
  <2> SUFFICES ASSUME DatagramInv
               PROVE  AnswersFromWhereAsked
    OBVIOUS
  <2>1. ASSUME NEW id \in Id, tubeAt["responder"][id].state # "none"
        PROVE  LET t == tubeAt["responder"][id] IN
               /\ t.pktinfo = PktinfoSet(asked[id]) \/ (t.pktinfo = NoInfo /\ id \in unreported)
               /\ t.sock = t.peer.fam
    <3>1. PICK t : t = tubeAt["responder"][id]
      OBVIOUS
    <3>2. Addressed("responder", id, t, asked[id], unreported) /\ t # NoTube
      BY <2>1, <3>1, Ends DEF DatagramInv, NoTube
    <3> QED  BY <3>1, <3>2 DEF Addressed
  <2>2. ASSUME NEW d \in net
        PROVE  /\ d.from.fam = d.to.fam /\ d.from.end = Other(d.to.end)
               /\ d.from.end = "responder" => d.from = asked[d.id] \/ d.id \in unreported
    BY DEF DatagramInv, Traced
  <2> QED  BY <2>1, <2>2 DEF AnswersFromWhereAsked
<1> QED  BY <1>1, DatagramAlways, PTL

------------------------------------------------------------------------------
\* Queue

(***************************************************************************)
(* The inductive invariant: some sequence p of different addresses, those  *)
(* of the allocated nodes, is what the pointers link from head to tail,    *)
(* and each of its nodes holds a value.                                    *)
(***************************************************************************)
Linked(p) ==
    /\ p \in Seq(Addr)
    /\ \A i, j \in 1..Len(p) : p[i] = p[j] => i = j
    /\ used = {p[i] : i \in 1..Len(p)}
    /\ p = <<>> => head = 0 /\ tail = 0
    /\ p # <<>> => /\ head = p[1]
                   /\ tail = p[Len(p)]
                   /\ next[p[Len(p)]] = 0
    /\ \A i \in 1..Len(p) - 1 : next[p[i]] = p[i + 1]
    /\ \A i \in 1..Len(p) : \E v \in Item : val[p[i]] = <<v>>

QueueInv == QueueTypeOK /\ held \notin used /\ \E p : Linked(p)

\* There are no more nodes in the list than there are addresses, and as many
\* as are allocated.
LEMMA LinkedLength ==
    ASSUME NEW p, Linked(p)
    PROVE  Len(p) \in 0..MaxNodes /\ Len(p) = Cardinality(used)
<1> DEFINE D == 1..Len(p)
<1>0. MaxNodes \in Nat /\ Len(p) \in Nat /\ p \in [D -> Addr]
  BY QueueAssumption DEF Linked
<1>1. /\ p \in Injection(D, Addr)
      /\ p \in Bijection(D, used)
  <2>1. \A i, j \in D : p[i] = p[j] => i = j
    BY DEF Linked
  <2>2. used = {p[i] : i \in D}
    BY DEF Linked
  <2>3. p \in [D -> used]
    BY <1>0, <2>2
  <2>4. \A u \in used : \E i \in D : p[i] = u
    BY <2>2
  <2>5. IsInjective(p)
    BY <1>0, <2>1 DEF IsInjective
  <2>6. p \in Injection(D, Addr) /\ p \in Injection(D, used)
    BY <1>0, <2>3, <2>5 DEF Injection
  <2>7. p \in Surjection(D, used)
    BY <2>3, <2>4 DEF Surjection
  <2> QED  BY <2>6, <2>7 DEF Bijection
<1>2. /\ IsFiniteSet(Addr) /\ Cardinality(Addr) = MaxNodes
      /\ IsFiniteSet(D) /\ Cardinality(D) = Len(p)
  <2>1. ASSUME NEW n \in Nat
        PROVE  IsFiniteSet(1..n) /\ Cardinality(1..n) = n
    <3>1. 1 \in Int /\ n \in Int
      OBVIOUS
    <3>2. IsFiniteSet(1..n) /\ Cardinality(1..n) = IF 1 > n THEN 0 ELSE n - 1 + 1
      BY <3>1, FS_Interval
    <3> QED  BY <3>2
  <2> QED  BY <1>0, <2>1 DEF Addr
<1> HIDE DEF D
<1>3. Cardinality(D) =< Cardinality(Addr)
  BY <1>1, <1>2, FS_Injection
<1>4. ExistsBijection(D, used)
  BY <1>1 DEF ExistsBijection
<1>5. Cardinality(used) = Cardinality(D)
  BY <1>2, <1>4, FS_Bijection
<1> QED  BY <1>0, <1>2, <1>3, <1>5

\* Following the pointers from head on, as Path does, leads along the list.
LEMMA PathIs ==
    ASSUME NEW p, Linked(p)
    PROVE  Path = p
<1> DEFINE Step(f, i) ==
             IF i = 0 THEN <<>>
             ELSE LET a == IF i = 1 THEN head
                           ELSE IF Len(f[i - 1]) < i - 1 THEN 0
                           ELSE next[f[i - 1][i - 1]]
                  IN IF a = 0 THEN f[i - 1] ELSE Append(f[i - 1], a)
           Solves(f) == f = [i \in 0..MaxNodes |-> Step(f, i)]
           Upto(i) == IF i =< Len(p) THEN SubSeq(p, 1, i) ELSE p
           g == [i \in 0..MaxNodes |-> Upto(i)]
<1>0. /\ MaxNodes \in Nat /\ Len(p) \in 0..MaxNodes
      /\ p \in Seq(Addr) /\ \A i \in 1..Len(p) : p[i] \in Addr /\ p[i] # 0
  <2>1. p \in Seq(Addr) /\ MaxNodes \in Nat
    BY QueueAssumption DEF Linked
  <2>2. \A i \in 1..Len(p) : p[i] \in Addr
    BY <2>1
  <2> QED  BY <2>1, <2>2, LinkedLength DEF Addr
<1>1. ASSUME NEW f, NEW i \in 1..MaxNodes, f[i - 1] = Upto(i - 1)
      PROVE  Step(f, i) = Upto(i)
  <2> DEFINE a == IF i = 1 THEN head
                  ELSE IF Len(f[i - 1]) < i - 1 THEN 0
                  ELSE next[f[i - 1][i - 1]]
  <2>1. CASE i =< Len(p)
    <3>1. /\ f[i - 1] = SubSeq(p, 1, i - 1)
          /\ Len(f[i - 1]) = i - 1
          /\ i > 1 => f[i - 1][i - 1] = p[i - 1]
      BY <1>0, <1>1, <2>1, SubSeqProperties
    <3>2. a = p[i] /\ a # 0
      <4>1. CASE i = 1
        BY <1>0, <2>1, <4>1 DEF Linked
      <4>2. CASE i > 1
        BY <1>0, <2>1, <3>1, <4>2 DEF Linked
      <4> QED  BY <4>1, <4>2
    <3>3. Append(SubSeq(p, 1, i - 1), p[i]) = SubSeq(p, 1, i)
      BY <1>0, <2>1
    <3> QED  BY <2>1, <3>1, <3>2, <3>3
  <2>2. CASE i > Len(p)
    <3>1. f[i - 1] = p
      <4>1. SubSeq(p, 1, Len(p)) = p
        BY <1>0
      <4> QED  BY <1>0, <1>1, <2>2, <4>1
    <3>2. a = 0
      <4>1. CASE i = 1
        BY <1>0, <2>2, <4>1 DEF Linked
      <4>2. CASE i > 1 /\ Len(p) < i - 1
        BY <1>0, <3>1, <4>2
      <4>3. CASE i > 1 /\ Len(p) = i - 1
        BY <1>0, <3>1, <4>3 DEF Linked
      <4> QED  BY <1>0, <2>2, <4>1, <4>2, <4>3
    <3> QED  BY <2>2, <3>1, <3>2
  <2> QED  BY <1>0, <2>1, <2>2
<1>2. Upto(0) = <<>>
  BY <1>0
<1>3. Upto(MaxNodes) = p
  BY <1>0
<1>4. Solves(g)
  <2>1. ASSUME NEW i \in 0..MaxNodes
        PROVE  Upto(i) = Step(g, i)
    <3>1. CASE i = 0
      BY <1>2, <3>1
    <3>2. CASE i \in 1..MaxNodes
      <4>1. g[i - 1] = Upto(i - 1)
        BY <1>0, <3>2
      <4> HIDE DEF Step, Upto, g
      <4> QED  BY <1>1, <3>2, <4>1
    <3> QED  BY <1>0, <3>1, <3>2
  <2> HIDE DEF Step, Upto
  <2> QED  BY <2>1
<1>5. ASSUME NEW f, Solves(f)
      PROVE  f[MaxNodes] = p
  <2> DEFINE T == {i \in Nat : i =< MaxNodes => f[i] = Upto(i)}
  <2>1. \A i \in 0..MaxNodes : f[i] = Step(f, i)
    <3> HIDE DEF Step
    <3> QED  BY <1>5
  <2>2. 0 \in T
    <3>1. f[0] = Step(f, 0)
      BY <1>0, <2>1
    <3> HIDE DEF Upto
    <3> QED  BY <1>2, <3>1
  <2>3. ASSUME NEW i \in Nat, i \in T
        PROVE  i + 1 \in T
    <3> HIDE DEF Step, Upto
    <3> SUFFICES ASSUME i + 1 =< MaxNodes
                 PROVE  f[i + 1] = Upto(i + 1)
      OBVIOUS
    <3>1. f[i] = Upto(i) /\ i + 1 \in 1..MaxNodes /\ (i + 1) - 1 = i
      BY <1>0, <2>3
    <3>2. Step(f, i + 1) = Upto(i + 1)
      BY <1>1, <3>1
    <3> QED  BY <2>1, <3>1, <3>2
  <2> HIDE DEF T
  <2>4. \A i \in Nat : i \in T
    BY <2>2, <2>3, Induction
  <2> HIDE DEF Upto, Solves
  <2> QED  BY <1>0, <1>3, <2>4 DEF T
<1> DEFINE F == CHOOSE f : Solves(f)
<1>6. Path = F[MaxNodes]
  BY DEF Path
<1> HIDE DEF Solves, g
<1>7. Solves(F)
  BY <1>4
<1> HIDE DEF F
<1> QED  BY <1>5, <1>6, <1>7

\* Its nodes are allocated, at addresses that are not NULL.
LEMMA LinkedNodes ==
    ASSUME NEW p, Linked(p)
    PROVE  /\ p \in Seq(Addr) /\ Len(p) \in Nat /\ DOMAIN p = 1..Len(p)
           /\ \A i \in 1..Len(p) : p[i] \in Addr /\ p[i] \in used
           /\ 0 \notin Addr
<1>1. p \in Seq(Addr) /\ used = {p[i] : i \in 1..Len(p)}
  BY DEF Linked
<1>2. Len(p) \in Nat /\ DOMAIN p = 1..Len(p) /\ \A i \in 1..Len(p) : p[i] \in Addr
  BY <1>1
<1>3. \A i \in 1..Len(p) : p[i] \in used
  BY <1>1
<1> QED  BY <1>1, <1>2, <1>3, QueueAssumption DEF Addr

\* ls_queue_enq links a new node behind the last.
LEMMA EnqLinks ==
    ASSUME NEW p, QueueTypeOK, Linked(p), NEW v \in Item, QueueEnq(v)
    PROVE  /\ QueueTypeOK'
           /\ \E n : /\ Linked(Append(p, n))' /\ val' = [val EXCEPT ![n] = <<v>>]
                     /\ n \in Addr \ used
           /\ held' = held /\ (held \notin used => held' \notin used')
<1>0. /\ p \in Seq(Addr) /\ Len(p) \in Nat /\ DOMAIN p = 1..Len(p)
      /\ \A i \in 1..Len(p) : p[i] \in Addr /\ p[i] \in used
      /\ 0 \notin Addr
  BY LinkedNodes
<1>1. PICK n \in Addr \ used :
        /\ n # held
        /\ used' = used \cup {n}
        /\ val' = [val EXCEPT ![n] = <<v>>]
        /\ next' = [a \in Addr |-> IF a = n THEN 0
                                   ELSE IF a = tail THEN n ELSE next[a]]
        /\ head' = IF tail = 0 THEN n ELSE head
        /\ tail' = n
  BY DEF QueueEnq
<1> DEFINE q == Append(p, n)
<1>2. /\ q \in Seq(Addr) /\ Len(q) = Len(p) + 1 /\ q[Len(p) + 1] = n
      /\ \A i \in 1..Len(p) : q[i] = p[i]
  BY <1>0
<1>3. QueueTypeOK'
  <2>1. val' \in [Addr -> Seq(Item)]
    BY <1>1 DEF QueueTypeOK
  <2> QED  BY <1>1, <2>1 DEF QueueTypeOK, QueueEnq
<1>6. held' = held /\ (held \notin used => held' \notin used')
  BY <1>1 DEF QueueEnq
<1> HIDE DEF q
<1>4. q # <<>> /\ q[Len(q)] = n /\ q[1] = (IF p = <<>> THEN n ELSE p[1])
  BY <1>0, <1>2
<1>5. Linked(q)'
  <2>1. \A i, j \in 1..Len(q) : q[i] = q[j] => i = j
    BY <1>0, <1>1, <1>2 DEF Linked
  <2>2. used' = {q[i] : i \in 1..Len(q)}
    <3>1. used = {p[i] : i \in 1..Len(p)}
      BY DEF Linked
    <3>2. ASSUME NEW u \in used'
          PROVE  \E i \in 1..Len(q) : q[i] = u
      <4>1. CASE u = n
        BY <1>0, <1>2, <4>1
      <4>2. CASE u \in used
        <5>1. PICK i \in 1..Len(p) : p[i] = u
          BY <3>1, <4>2
        <5>2. i \in 1..Len(q) /\ q[i] = u
          BY <1>0, <1>2, <5>1
        <5> QED  BY <5>2
      <4> QED  BY <1>1, <4>1, <4>2
    <3>3. ASSUME NEW i \in 1..Len(q)
          PROVE  q[i] \in used'
      BY <1>0, <1>1, <1>2
    <3> QED  BY <3>2, <3>3
  <2>3. head' = q[1] /\ tail' = q[Len(q)] /\ next'[q[Len(q)]] = 0
    BY <1>0, <1>1, <1>4 DEF Linked
  <2>4. \A i \in 1..Len(q) - 1 : next'[q[i]] = q[i + 1]
    <3> SUFFICES ASSUME NEW i \in 1..Len(p)
                 PROVE  next'[p[i]] = q[i + 1]
      BY <1>0, <1>2
    <3>1. p[i] # n /\ p[i] \in Addr /\ p # <<>>
      BY <1>0, <1>1
    <3>2. CASE i = Len(p)
      <4>1. tail = p[i]
        BY <3>1, <3>2 DEF Linked
      <4>2. q[i + 1] = n
        BY <1>2, <3>2
      <4> QED  BY <1>1, <3>1, <4>1, <4>2
    <3>3. CASE i < Len(p)
      <4>0. i \in 1 .. Len(p) - 1 /\ Len(p) \in 1 .. Len(p) /\ i # Len(p)
        <5>1. Len(p) \in Nat
          BY <1>0
        <5>2. i \in 1 .. Len(p)
          OBVIOUS
        <5> QED  BY ONLY <3>3, <5>1, <5>2
      <4>1. p[i] # p[Len(p)] /\ next[p[i]] = p[i + 1]
        <5>1. \A j \in 1 .. Len(p) - 1 : next[p[j]] = p[j + 1]
          BY DEF Linked
        <5>2. \A j, k \in 1 .. Len(p) : p[j] = p[k] => j = k
          BY DEF Linked
        <5> QED  BY <4>0, <5>1, <5>2
      <4>2. q[i + 1] = p[i + 1] /\ p[i] # tail
        BY <1>0, <1>2, <3>1, <3>3, <4>1 DEF Linked
      <4>3. next'[p[i]] = next[p[i]]
        BY <1>1, <3>1, <4>2
      <4> QED  BY <4>1, <4>2, <4>3
    <3>4. i = Len(p) \/ i < Len(p)
      <4>1. Len(p) \in Nat
        BY <1>0
      <4> QED  BY <4>1
    <3> QED  BY <3>2, <3>3, <3>4
  <2>5. \A i \in 1..Len(q) : \E w \in Item : val'[q[i]] = <<w>>
    <3>1. \A i \in 1..Len(p) : val'[q[i]] = val[p[i]]
      BY <1>0, <1>1, <1>2 DEF QueueTypeOK
    <3>2. val'[q[Len(p) + 1]] = <<v>>
      BY <1>1, <1>2 DEF QueueTypeOK
    <3>3. \A i \in 1..Len(p) : \E w \in Item : val'[q[i]] = <<w>>
      <4>1. \A i \in 1..Len(p) : \E w \in Item : val[p[i]] = <<w>>
        BY DEF Linked
      <4> QED  BY <3>1, <4>1
    <3>4. \A i \in 1..Len(q) : i \in 1..Len(p) \/ i = Len(p) + 1
      BY <1>0, <1>2
    <3> QED  BY <3>2, <3>3, <3>4
  <2> QED  BY <1>2, <1>4, <2>1, <2>2, <2>3, <2>4, <2>5 DEF Linked
<1> QED  BY <1>1, <1>3, <1>5, <1>6 DEF q

\* deq takes the first node away.
LEMMA DeqLinks ==
    ASSUME NEW p, QueueTypeOK, Linked(p), Deq
    PROVE  p # <<>> /\ Linked(Tail(p))'
<1>0. /\ p \in Seq(Addr) /\ Len(p) \in Nat /\ DOMAIN p = 1..Len(p)
      /\ \A i \in 1..Len(p) : p[i] \in Addr /\ p[i] \in used
      /\ 0 \notin Addr
  BY LinkedNodes
<1>1. p # <<>> /\ Len(p) > 0 /\ head = p[1]
  BY <1>0 DEF Deq, Linked
<1> DEFINE q == Tail(p)
<1>2. /\ q \in Seq(Addr) /\ Len(q) = Len(p) - 1
      /\ \A i \in 1..Len(p) - 1 : q[i] = p[i + 1]
  BY <1>0, <1>1
<1> HIDE DEF q
<1>3. Linked(q)'
  <2>1. \A i, j \in 1..Len(q) : q[i] = q[j] => i = j
    BY <1>0, <1>2 DEF Linked
  <2>2. used' = {q[i] : i \in 1..Len(q)}
    <3>1. used = {p[i] : i \in 1..Len(p)} /\ used' = used \ {p[1]}
      BY <1>1 DEF Linked, Deq
    <3>2. ASSUME NEW u \in used'
          PROVE  \E i \in 1..Len(q) : q[i] = u
      <4>1. PICK j \in 1..Len(p) : p[j] = u /\ j # 1
        BY <3>1
      <4>2. j - 1 \in 1..Len(q) /\ q[j - 1] = u
        BY <1>0, <1>2, <4>1
      <4> QED  BY <4>2
    <3>3. ASSUME NEW i \in 1..Len(q)
          PROVE  q[i] \in used'
      <4>1. q[i] = p[i + 1] /\ i + 1 \in 1..Len(p) /\ i + 1 # 1 /\ 1 \in 1..Len(p)
        BY <1>0, <1>1, <1>2
      <4>2. p[i + 1] # p[1]
        BY <4>1 DEF Linked
      <4> QED  BY <3>1, <4>1, <4>2
    <3> QED  BY <3>2, <3>3
  <2>3. CASE Len(p) = 1
    <3>1. head' = 0 /\ tail' = 0
      BY <1>0, <1>1, <2>3 DEF Deq, Linked
    <3>2. q = <<>> /\ Len(q) = 0
      BY <1>0, <1>2, <2>3
    <3>3. 1..Len(q) = {} /\ 1..Len(q) - 1 = {}
      BY <3>2
    <3> QED  BY <1>2, <3>3, <2>1, <2>2, <3>1, <3>2 DEF Linked
  <2>4. CASE Len(p) > 1
    <3>1. q # <<>> /\ q[1] = p[2] /\ q[Len(q)] = p[Len(p)]
      BY <1>0, <1>2, <2>4
    <3>2. next[p[1]] = p[2] /\ p[2] # 0
      BY <1>0, <2>4 DEF Linked
    <3>3. head' = q[1] /\ tail' = q[Len(q)] /\ next' = next /\ val' = val
      BY <1>1, <3>1, <3>2 DEF Deq, Linked
    <3>4. next'[q[Len(q)]] = 0
      BY <1>1, <3>1, <3>3 DEF Linked
    <3>5. \A i \in 1..Len(q) - 1 : next'[q[i]] = q[i + 1]
      BY <1>0, <1>2, <3>3 DEF Linked
    <3>6. \A i \in 1..Len(q) : \E w \in Item : val'[q[i]] = <<w>>
      BY <1>0, <1>2, <3>3 DEF Linked
    <3> QED  BY <1>2, <2>1, <2>2, <3>1, <3>3, <3>4, <3>5, <3>6 DEF Linked
  <2> QED  BY <1>0, <1>1, <2>3, <2>4
<1> QED  BY <1>1, <1>3 DEF q

\* deq keeps the types.
LEMMA DeqTypes ==
    ASSUME QueueTypeOK, held \notin used, Deq, qat' = qat, held' \in {held, head}
    PROVE  QueueTypeOK' /\ held' \notin used'
  BY DEF QueueTypeOK, Deq

LEMMA QueueInitInv == QueueInit => QueueInv /\ Linked(<<>>)
<1> SUFFICES ASSUME QueueInit
             PROVE  QueueTypeOK /\ Linked(<<>>)
  BY DEF QueueInv, QueueInit
<1>1. QueueTypeOK
  <2>1. <<>> \in Seq(Item)
    OBVIOUS
  <2> QED  BY <2>1 DEF QueueInit, QueueTypeOK
<1>2. Linked(<<>>)
  <2>1. <<>> \in Seq(Addr) /\ Len(<<>>) = 0 /\ 1..0 = {} /\ 1..0 - 1 = {}
    OBVIOUS
  <2> QED  BY <2>1 DEF QueueInit, Linked
<1> QED  BY <1>1, <1>2

\* A step that leaves the list alone.
LEMMA KeptLinks ==
    ASSUME NEW p, Linked(p), UNCHANGED <<head, tail, next, val, used>>
    PROVE  Linked(p)'
  BY DEF Linked

LEMMA QueueNextInv == QueueInv /\ [QueueNext]_queueVars => QueueInv'
<1> SUFFICES ASSUME QueueInv, [QueueNext]_queueVars
             PROVE  QueueInv'
  OBVIOUS
<1>0. PICK p : QueueTypeOK /\ Linked(p) /\ held \notin used
  BY DEF QueueInv
<1>1. ASSUME NEW v \in Item, QueueEnq(v)
      PROVE  QueueInv'
  BY <1>0, <1>1, EnqLinks DEF QueueInv
<1>2. CASE Deq /\ qat' = qat /\ held' \in {held, head}
  BY <1>0, <1>2, DeqLinks, DeqTypes DEF QueueInv
<1>3. CASE QueueClose \/ QueueCleaned \/ QueueClosed \/ UNCHANGED queueVars
  <2>1. UNCHANGED <<head, tail, next, val, used>>
    BY <1>3 DEF QueueClose, QueueCleaned, QueueClosed, queueVars
  <2>2. QueueTypeOK' /\ held' \notin used'
    <3>1. held' \in {held, 0} /\ used' = used /\ 0 \notin Addr
      BY <1>3, QueueAssumption DEF QueueClose, QueueCleaned, QueueClosed, queueVars, Addr
    <3> QED  BY <1>0, <1>3, <3>1
             DEF QueueTypeOK, QueueClose, QueueCleaned, QueueClosed, queueVars
  <2>3. Linked(p)'
    BY <1>0, <2>1, KeptLinks
  <2> QED  BY <2>2, <2>3 DEF QueueInv
<1> QED  BY <1>1, <1>2, <1>3 DEF QueueNext, QueueDeq, QueueCleans

\* Whatever is enqueued and dequeued, and whichever addresses malloc hands out
\* again, by the owner of the queue and by the cleaner that ls_queue_destroy
\* calls, the list from q->head to q->tail holds exactly the allocated nodes that
\* deq has not returned, for every number of nodes: none is lost, none is freed
\* while it is linked, and q->tail is its end, or NULL.
THEOREM Lists == QueueSpec => []ListSound
<1>1. QueueInit => QueueInv
  BY QueueInitInv
<1>2. QueueInv /\ [QueueNext]_queueVars => QueueInv'
  BY QueueNextInv
<1>3. QueueInv => ListSound
  <2> SUFFICES ASSUME NEW p, Linked(p), held \notin used
               PROVE  ListSound
    BY DEF QueueInv
  <2>1. Path = p
    BY PathIs
  <2>2. DOMAIN p = 1..Len(p) /\ Len(p) = Cardinality(used)
    BY LinkedNodes, LinkedLength
  <2>3. {p[i] : i \in DOMAIN p} = used
    BY <2>2 DEF Linked
  <2>4. tail = IF p = <<>> THEN 0 ELSE p[Len(p)]
    BY DEF Linked
  <2> QED  BY <2>1, <2>2, <2>3, <2>4 DEF ListSound
<1> QED  BY <1>1, <1>2, <1>3, PTL DEF QueueSpec

------------------------------------------------------------------------------
(***************************************************************************)
(* Queue implements Fifo.                                                  *)
(***************************************************************************)

\* The values in the nodes of p.
Held(p) == [i \in DOMAIN p |-> Head(val[p[i]])]

LEMMA ItemsAre ==
    ASSUME NEW p, Linked(p)
    PROVE  /\ InOrder!vars = <<Held(p), out>>
           /\ InOrder!Init <=> Held(p) = <<>> /\ out = <<>>
           /\ InOrder!Leave <=> /\ Held(p) # <<>>
                                /\ out' = <<Head(Held(p))>>
                                /\ [i \in DOMAIN Path |-> Head(val[Path[i]])]' = Tail(Held(p))
  BY PathIs DEF Held, InOrder!vars, InOrder!Init, InOrder!Leave

\* Held is a sequence as long as p.
LEMMA HeldSeq ==
    ASSUME NEW p, Linked(p)
    PROVE  /\ Held(p) \in Seq(Item) /\ Len(Held(p)) = Len(p)
           /\ \A i \in 1..Len(p) : val[p[i]] = <<Held(p)[i]>>
<1>1. Len(p) \in Nat /\ DOMAIN p = 1..Len(p)
  BY LinkedNodes
<1>2. \A i \in 1..Len(p) : \E v \in Item : val[p[i]] = <<v>>
  BY DEF Linked
<1>3. \A i \in 1..Len(p) : val[p[i]] = <<Head(val[p[i]])>> /\ Head(val[p[i]]) \in Item
  <2>1. ASSUME NEW i \in 1..Len(p)
        PROVE  val[p[i]] = <<Head(val[p[i]])>> /\ Head(val[p[i]]) \in Item
    <3>1. PICK v \in Item : val[p[i]] = <<v>>
      BY <1>2
    <3>2. Head(<<v>>) = v
      OBVIOUS
    <3> QED  BY <3>1, <3>2
  <2> QED  BY <2>1
<1>4. \A i \in 1..Len(p) : Held(p)[i] = Head(val[p[i]])
  BY <1>1 DEF Held
<1>5. Held(p) \in [1..Len(p) -> Item]
  BY <1>1, <1>3 DEF Held
<1> QED  BY <1>1, <1>3, <1>4, <1>5

\* The same holds after a step.
LEMMA PathNext == ASSUME NEW q PROVE Linked(q)' => (Path = q)'
<1>1. Linked(q) => Path = q
  BY PathIs
<1> QED  BY <1>1, PTL

\* The sequence that Queue shows as Fifo's items, before and after a step.
LEMMA ShownAs ==
    ASSUME NEW p, Linked(p), NEW q, Linked(q)'
    PROVE  /\ InOrder!vars = <<Held(p), out>> /\ InOrder!vars' = <<Held(q), out>>'
           /\ \A v : InOrder!Enter(v) <=> Held(q)' = Append(Held(p), v) /\ out' = out
           /\ InOrder!Leave <=> /\ Held(p) # <<>>
                                /\ out' = <<Head(Held(p))>>
                                /\ Held(q)' = Tail(Held(p))
<1>1. Path = p
  BY PathIs
<1>2. Path' = q
  BY PathNext
<1> QED  BY <1>1, <1>2 DEF Held, InOrder!vars, InOrder!Enter, InOrder!Leave

\* What Append and Tail do, element by element.
LEMMA AppendFun ==
    ASSUME NEW S, NEW s \in Seq(S), NEW v \in S
    PROVE  /\ Append(s, v) \in [1..Len(s) + 1 -> S]
           /\ Append(s, v)[Len(s) + 1] = v
           /\ \A i \in 1..Len(s) : Append(s, v)[i] = s[i]
<1>1. Append(s, v) \in Seq(S) /\ Len(Append(s, v)) = Len(s) + 1
  OBVIOUS
<1>2. Append(s, v) \in [1..Len(Append(s, v)) -> S]
  BY <1>1, LenProperties
<1>3. /\ Append(s, v)[Len(s) + 1] = v
      /\ \A i \in 1..Len(s) : Append(s, v)[i] = s[i]
  OBVIOUS
<1> QED  BY <1>1, <1>2, <1>3

LEMMA TailFun ==
    ASSUME NEW S, NEW s \in Seq(S), s # <<>>
    PROVE  /\ Tail(s) \in [1..Len(s) - 1 -> S]
           /\ \A i \in 1..Len(s) - 1 : Tail(s)[i] = s[i + 1]
<1>1. Tail(s) \in Seq(S) /\ Len(Tail(s)) = Len(s) - 1
  OBVIOUS
<1>2. Tail(s) \in [1..Len(Tail(s)) -> S]
  BY <1>1, LenProperties
<1>3. \A i \in 1..Len(s) - 1 : Tail(s)[i] = s[i + 1]
  OBVIOUS
<1> QED  BY <1>1, <1>2, <1>3

\* Behind a new node the values are the ones before and the new one.
LEMMA EnqHolds ==
    ASSUME NEW p, QueueTypeOK, Linked(p), NEW v \in Item, QueueEnq(v)
    PROVE  InOrder!Enter(v)
<1>1. PICK n : /\ Linked(Append(p, n))'
               /\ val' = [val EXCEPT ![n] = <<v>>]
               /\ n \in Addr \ used
  BY EnqLinks
<1>2. /\ p \in Seq(Addr) /\ Len(p) \in Nat /\ DOMAIN p = 1..Len(p)
      /\ \A i \in 1..Len(p) : p[i] \in Addr /\ p[i] \in used
  BY LinkedNodes
<1> DEFINE q == Append(p, n)
<1>3. /\ Len(q) = Len(p) + 1 /\ DOMAIN q = 1..Len(p) + 1 /\ q[Len(p) + 1] = n
      /\ \A i \in 1..Len(p) : q[i] = p[i]
  BY <1>1, <1>2
<1> HIDE DEF q
<1>4. val'[n] = <<v>> /\ \A i \in 1..Len(p) : val'[p[i]] = val[p[i]]
  BY <1>1, <1>2 DEF QueueTypeOK
<1>5. /\ Held(p) \in Seq(Item) /\ Len(Held(p)) = Len(p)
      /\ \A i \in 1..Len(p) : Held(p)[i] = Head(val[p[i]])
  BY <1>2, HeldSeq DEF Held
<1>6. Held(q)' = [i \in 1..Len(p) + 1 |-> Head(val'[q[i]])]
  BY <1>3 DEF Held
<1>7. Held(q)' = Append(Held(p), v)
  <2> DEFINE h == Append(Held(p), v)
  <2>1. h \in [1..Len(p) + 1 -> Item] /\ h[Len(p) + 1] = v
        /\ \A i \in 1..Len(p) : h[i] = Held(p)[i]
    BY <1>5, AppendFun
  <2>2. ASSUME NEW i \in 1..Len(p) + 1
        PROVE  h[i] = Head(val'[q[i]])
    <3>1. CASE i = Len(p) + 1
      <4>1. Head(<<v>>) = v
        OBVIOUS
      <4> HIDE DEF h
      <4> QED  BY <1>3, <1>4, <2>1, <3>1, <4>1
    <3>2. CASE i \in 1..Len(p)
      <4> HIDE DEF h
      <4> QED  BY <1>3, <1>4, <1>5, <2>1, <3>2
    <3>3. i = Len(p) + 1 \/ i \in 1..Len(p)
      BY <1>2
    <3> QED  BY <3>1, <3>2, <3>3
  <2> HIDE DEF h
  <2>3. h = [i \in 1..Len(p) + 1 |-> Head(val'[q[i]])]
    BY <2>1, <2>2
  <2> QED  BY <1>6, <2>3 DEF h
<1>8. Linked(q)'
  BY <1>1 DEF q
<1>9. out' = out
  BY DEF QueueEnq
<1> QED  BY <1>7, <1>8, <1>9, ShownAs

\* The first node's value leaves.
LEMMA DeqHolds ==
    ASSUME NEW p, QueueTypeOK, Linked(p), Deq
    PROVE  InOrder!Leave
<1>1. p # <<>> /\ Linked(Tail(p))'
  BY DeqLinks
<1>2. /\ p \in Seq(Addr) /\ Len(p) \in Nat /\ DOMAIN p = 1..Len(p) /\ Len(p) > 0
  BY <1>1, LinkedNodes
<1> DEFINE q == Tail(p)
<1>3. /\ Len(q) = Len(p) - 1 /\ DOMAIN q = 1..Len(p) - 1
      /\ \A i \in 1..Len(p) - 1 : q[i] = p[i + 1]
  BY <1>1, <1>2
<1>4. Linked(q)'
  BY <1>1
<1> HIDE DEF q
<1>5. /\ Held(p) \in Seq(Item) /\ Len(Held(p)) = Len(p)
      /\ \A i \in 1..Len(p) : Held(p)[i] = Head(val[p[i]])
      /\ val[p[1]] = <<Held(p)[1]>>
  <2>1. 1 \in 1..Len(p)
    BY <1>2
  <2>2. \A i \in 1..Len(p) : Held(p)[i] = Head(val[p[i]])
    BY <1>2 DEF Held
  <2> QED  BY <2>1, <2>2, HeldSeq
<1>6. out' = <<Head(Held(p))>> /\ Held(p) # <<>>
  <2>1. out' = val[p[1]]
    BY <1>1 DEF Deq, Linked
  <2>2. Held(p) # <<>> /\ Head(Held(p)) = Held(p)[1]
    BY <1>2, <1>5
  <2> QED  BY <1>5, <2>1, <2>2
<1>7. Held(q)' = [i \in 1..Len(p) - 1 |-> Head(val[q[i]])]
  BY <1>3 DEF Held, Deq
<1>8. Held(q)' = Tail(Held(p))
  <2> DEFINE h == Tail(Held(p))
  <2>1. h \in [1..Len(p) - 1 -> Item] /\ \A i \in 1..Len(p) - 1 : h[i] = Held(p)[i + 1]
    BY <1>5, <1>6, TailFun
  <2> HIDE DEF h
  <2>2. \A i \in 1..Len(p) - 1 : h[i] = Head(val[q[i]])
    BY <1>2, <1>3, <1>5, <2>1
  <2>3. h = [i \in 1..Len(p) - 1 |-> Head(val[q[i]])]
    BY <2>1, <2>2
  <2> QED  BY <1>7, <2>3 DEF h
<1> QED  BY <1>4, <1>6, <1>8, ShownAs

\* Values leave the queue in the order of their ls_queue_enq, to ls_queue_deq
\* and in the end to the cleaner, for every number of nodes: the linked nodes
\* implement a queue of values.
THEOREM InsAndOuts == QueueSpec => KeepsOrder
<1>1. QueueInit => InOrder!Init
  <2> SUFFICES ASSUME QueueInit
               PROVE  InOrder!Init
    OBVIOUS
  <2>1. Linked(<<>>)
    BY QueueInitInv
  <2>2. Held(<<>>) = <<>>
    BY DEF Held
  <2>3. out = <<>>
    BY DEF QueueInit
  <2> QED  BY <2>1, <2>2, <2>3, ItemsAre
<1>2. QueueInv /\ [QueueNext]_queueVars
        => [(\E v \in Item : InOrder!Enter(v)) \/ InOrder!Leave]_(InOrder!vars)
  <2> SUFFICES ASSUME NEW p, QueueTypeOK, Linked(p), [QueueNext]_queueVars
               PROVE  \/ (\E v \in Item : InOrder!Enter(v)) \/ InOrder!Leave
                      \/ UNCHANGED InOrder!vars
    BY DEF QueueInv
  <2>1. ASSUME NEW v \in Item, QueueEnq(v)
        PROVE  InOrder!Enter(v)
    BY <2>1, EnqHolds
  <2>2. CASE Deq
    BY <2>2, DeqHolds
  <2>3. CASE QueueClose \/ QueueCleaned \/ QueueClosed \/ UNCHANGED queueVars
    <3>1. UNCHANGED <<head, tail, next, val, used, out>>
      BY <2>3 DEF QueueClose, QueueCleaned, QueueClosed, queueVars
    <3>2. Linked(p)'
      BY <3>1, KeptLinks
    <3>3. Held(p)' = Held(p)
      BY <3>1 DEF Held
    <3> QED  BY <3>1, <3>2, <3>3, ShownAs
  <2> QED  BY <2>1, <2>2, <2>3 DEF QueueNext, QueueDeq, QueueCleans
<1>3. QueueInit => QueueInv
  BY QueueInitInv
<1>4. QueueInv /\ [QueueNext]_queueVars => QueueInv'
  BY QueueNextInv
<1> QED  BY <1>1, <1>2, <1>3, <1>4, PTL DEF QueueSpec, KeepsOrder, InOrder!Spec
------------------------------------------------------------------------------
\* The parts side by side

\* Every step of the library is a step of one part and leaves the others alone.
LEMMA LibraryStep ==
    ASSUME [Next]_allVars
    PROVE  /\ [HtableNext]_htableVars /\ [QueueNext]_queueVars /\ [PoolNext]_poolVars
           /\ [TubeEventsNext]_eventsVars /\ [LifeNext]_lifeVars
           /\ [DatagramNext]_datagramVars /\ [LogNext]_logVars
<1>1. CASE UNCHANGED allVars
  BY <1>1 DEF allVars
<1>2. CASE StepHtable
  BY <1>2 DEF StepHtable
<1>3. CASE StepQueue
  BY <1>3 DEF StepQueue
<1>4. CASE StepPool
  BY <1>4 DEF StepPool
<1>5. CASE StepEvents
  BY <1>5 DEF StepEvents
<1>6. CASE StepManager
  BY <1>6 DEF StepManager
<1>7. CASE StepDatagram
  BY <1>7 DEF StepDatagram
<1>8. CASE StepLog
  BY <1>8 DEF StepLog
<1> QED  BY <1>1, <1>2, <1>3, <1>4, <1>5, <1>6, <1>7, <1>8 DEF Next

\* A behaviour of the library is a behaviour of each of its parts, so that
\* what is proved of a part alone holds of it here.
THEOREM PartsAlone ==
    Spec => /\ HtableSpec /\ QueueSpec /\ PoolSpec /\ TubeEventsSpec
            /\ LifeSpec /\ DatagramSpec /\ LogSpec
<1>1. Init => /\ HtableInit /\ QueueInit /\ PoolInit /\ TubeEventsInit
              /\ LifeInit /\ DatagramInit /\ LogInit
  BY DEF Init
<1>2. [Next]_allVars => [HtableNext]_htableVars
  BY LibraryStep
<1>3. [Next]_allVars => [QueueNext]_queueVars
  BY LibraryStep
<1>4. [Next]_allVars => [PoolNext]_poolVars
  BY LibraryStep
<1>5. [Next]_allVars => [TubeEventsNext]_eventsVars
  BY LibraryStep
<1>6. [Next]_allVars => [LifeNext]_lifeVars
  BY LibraryStep
<1>7. [Next]_allVars => [DatagramNext]_datagramVars
  BY LibraryStep
<1>8. [Next]_allVars => [LogNext]_logVars
  BY LibraryStep
<1> QED  BY <1>1, <1>2, <1>3, <1>4, <1>5, <1>6, <1>7, <1>8, PTL
         DEF Spec, HtableSpec, QueueSpec, PoolSpec, TubeEventsSpec, LifeSpec, DatagramSpec, LogSpec

\* The memory pools keep their types: whatever is allocated is of a kind that
\* ls_pool_destroy knows how to free.
LEMMA PoolTypes == PoolSpec => []PoolTypeOK
<1>1. PoolInv => PoolTypeOK
  <2> SUFFICES ASSUME PoolInv
               PROVE  PoolTypeOK
    OBVIOUS
  <2>1. /\ pat \in {"none", "open", "closing"} /\ paging \in BOOLEAN
        /\ pool \in PoolRecord /\ todo \in Seq(Cleaner)
    BY DEF PoolInv
  <2>2. /\ pool.size \in Nat /\ pool.page_size \in Nat /\ pool.direct \in Nat
        /\ pool.cleaners \in Seq(Cleaner) /\ pool.pages \in Seq(Page)
    BY <2>1 DEF PoolRecord
  <2>3. given \subseteq Piece
    BY DEF PoolInv, Carved
  <2>4. heap \subseteq Memory
    <3>1. CASE pat = "none"
      BY <3>1 DEF PoolInv
    <3>2. CASE pat = "open"
      BY <3>2, OwnsTypes DEF PoolInv
    <3>3. CASE pat = "closing"
      BY <3>3, OwnsTypes DEF PoolInv
    <3> QED  BY <2>1, <3>1, <3>2, <3>3
  <2> QED  BY <2>1, <2>2, <2>3, <2>4 DEF PoolTypeOK
<1> QED  BY <1>1, PoolAlways, PTL

\* For every value of the constants: the tables, queues, pools, events,
\* managers, datagrams and log contexts keep their types, and a table calls a
\* cleaner only for a value that ls_htable_put was given one for.
THEOREM LibraryTypes == Spec => []LibraryTypeOK
<1>1. QueueSpec => []QueueTypeOK
  <2>1. QueueInit => QueueInv
    BY QueueInitInv
  <2>2. QueueInv => QueueTypeOK
    BY DEF QueueInv
  <2> QED  BY <2>1, <2>2, QueueNextInv, PTL DEF QueueSpec
<1>2. TubeEventsSpec => []TubeEventsTypeOK
  <2>1. HistoryInv => TubeEventsTypeOK
    BY DEF HistoryInv
  <2> QED  BY <2>1, HistoryAlways, PTL
<1>3. LifeSpec => []LifeTypeOK
  <2>1. LifeInv => LifeTypeOK
    BY DEF LifeInv, LifeTypeOK, Structure, Table, Owner
  <2> QED  BY <2>1, LifeAlways, PTL
<1>4. DatagramSpec => []DatagramTypeOK
  <2>1. DatagramInv => DatagramTypeOK
    BY DEF DatagramInv
  <2> QED  BY <2>1, DatagramAlways, PTL
<1>5. LogSpec => []LogTypeOK
  <2>1. LogInv => LogTypeOK
    BY DEF LogInv
  <2> QED  BY <2>1, LogAlways, PTL
<1>6. HtableTypeOK /\ QueueTypeOK /\ PoolTypeOK /\ TubeEventsTypeOK
        /\ LifeTypeOK /\ DatagramTypeOK /\ LogTypeOK => LibraryTypeOK
  BY DEF LibraryTypeOK
<1> QED  BY <1>1, <1>2, <1>3, <1>4, <1>5, <1>6, TypesHold, PoolTypes, PartsAlone, PTL

\* What the run on the library checks, for every value of the constants: all
\* that is proved of the parts holds of the library in which they stand side
\* by side.
THEOREM LibraryCorrect ==
    Spec => /\ [](/\ LibraryTypeOK
                  /\ TableSound /\ KeysLive /\ WalkFaults /\ IterationCovers /\ WalkCovers
                  /\ ListSound
                  /\ PiecesDisjoint /\ CleanersSeeMemory /\ NothingLeaks
                  /\ ToldOfAll /\ FreedOnlyByCallback
                  /\ AllOrNothing /\ SelectWatchesAll
                  /\ AnswersFromWhereAsked)
            /\ BehavesAsMap /\ KeepsOrder /\ EventsInOrder /\ PopEndsOwnContext
<1>1. HtableSpec => /\ [](TableSound /\ KeysLive /\ WalkFaults /\ IterationCovers /\ WalkCovers)
                    /\ BehavesAsMap
  BY Sorted, NoKeyDies, FreedOnlyByOthers, IterationComplete, WalkComplete, IsMap, PTL
<1>2. QueueSpec => []ListSound /\ KeepsOrder
  BY Lists, InsAndOuts, PTL
<1>3. PoolSpec => [](PiecesDisjoint /\ CleanersSeeMemory /\ NothingLeaks)
  BY Disjoint, Seen, Leaks, PTL
<1>4. TubeEventsSpec => [](ToldOfAll /\ FreedOnlyByCallback) /\ EventsInOrder
  BY Told, Freed, Order, PTL
<1>5. LifeSpec => [](AllOrNothing /\ SelectWatchesAll)
  BY Complete, Watched, PTL
<1> QED  BY <1>1, <1>2, <1>3, <1>4, <1>5, Answers, Pops, LibraryTypes, PartsAlone, PTL
==============================================================================
