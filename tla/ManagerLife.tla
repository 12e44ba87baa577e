---------------------------- MODULE ManagerLife ----------------------------
(***************************************************************************)
(* The life of the tube managers of one program: creating one, opening its *)
(* sockets, registering for signals, destroying it, with every point at    *)
(* which creating and opening can fail (src/src/tube_manager.c,            *)
(* src/src/tube_stream.c).  A stream manager is a tube manager with three  *)
(* more events.                                                            *)
(*                                                                         *)
(* The kernel gives the lowest free descriptor; the program opens and      *)
(* closes files of its own, so the descriptors of a manager come in any    *)
(* order.  select looks at the descriptors 0..max_fd of the manager.       *)
(***************************************************************************)
EXTENDS Integers, Sequences, FiniteSetsExt

CONSTANTS
    Manager,    \* the places where the program keeps a manager
    MaxFd       \* bound: the highest descriptor the process may have

ASSUME LifeAssumption == MaxFd \in Nat

VARIABLES
    mgr,        \* mgr[m]: the manager at m
    memory,     \* memory[m]: what was allocated for m and not yet freed
    fd,         \* fd[n]: what descriptor n refers to
    signalled   \* history: the places of managers that registered for a signal

lifeVars == <<mgr, memory, fd, signalled>>

\* _tube_manager_init in order, the allocation of the structure before it and
\* the events of a stream manager after it: where creating a manager can fail.
InitStep == <<"struct", "mutex", "tubes", "dispatcher", "events", "timer_q",
              "time", "pipe", "nonblock", "streamEvents">>
Allocated == {"struct", "mutex", "tubes", "dispatcher", "timer_q"}
Blocks == Allocated \cup {"sig_context"}
MadeBefore(k) == {InitStep[i] : i \in 1 .. k - 1} \cap Allocated
StepOf(name) == CHOOSE i \in 1 .. Len(InitStep) : InitStep[i] = name
Succeeds == Len(InitStep) + 1

Absent == [at |-> "absent", kind |-> "tube", initialized |-> FALSE,
           pipe |-> <<-1, -1>>, sock6 |-> -1, sock4 |-> -1, max_fd |-> -1, ready |-> FALSE]

\* A descriptor that is closed, or is a file of the program itself.
Closed == <<"none", "closed">>
Files == <<"program", "file">>
FreeFd == {n \in 0 .. MaxFd : fd[n] = Closed}
Lowest(S) == IF S = {} THEN -1 ELSE Min(S)
Higher(a, b) == IF a > b THEN a ELSE b

LifeTypeOK ==
    /\ mgr \in [Manager -> [at : {"absent", "live"}, kind : {"tube", "stream"},
                            initialized : BOOLEAN, pipe : (-1 .. MaxFd) \X (-1 .. MaxFd),
                            sock6 : -1 .. MaxFd, sock4 : -1 .. MaxFd,
                            max_fd : -1 .. MaxFd, ready : BOOLEAN]]
    /\ memory \in [Manager -> SUBSET Blocks]
    /\ fd \in [0 .. MaxFd -> {Closed, Files} \cup (Manager \X {"pipe", "sock6", "sock4"})]
    /\ signalled \subseteq Manager

LifeInit ==
    /\ mgr = [m \in Manager |-> Absent]
    /\ memory = [m \in Manager |-> {}]
    /\ fd = [n \in 0 .. MaxFd |-> Closed]
    /\ signalled = {}

------------------------------------------------------------------------------
\* The program opens or closes a file of its own.
AppOpen ==
    /\ FreeFd # {}
    /\ fd' = [fd EXCEPT ![Lowest(FreeFd)] = Files]
    /\ UNCHANGED <<mgr, memory, signalled>>

AppClose(n) ==
    /\ fd[n] = Files
    /\ fd' = [fd EXCEPT ![n] = Closed]
    /\ UNCHANGED <<mgr, memory, signalled>>

\* Mutant of Finalize: the timer queue is left behind.
FinalizeKeepsTimers(made) == {"mutex"} \cup (made \cap {"tubes", "dispatcher"})

\* _tube_manager_finalize: the mutex always, the rest where the pointer is set.
\* No descriptor is closed.
Finalize(made) == {"mutex"} \cup (made \cap {"tubes", "dispatcher", "timer_q"})

Pipe == LET r == Lowest(FreeFd) IN <<r, Lowest(FreeFd \ {r})>>

WithPipe(m, p) == [fd EXCEPT ![p[1]] = <<m, "pipe">>, ![p[2]] = <<m, "pipe">>]

Whole(kind, p) == [Absent EXCEPT !.at = "live", !.kind = kind, !.initialized = TRUE,
                                 !.pipe = p, !.max_fd = Higher(p[1], p[2])]

\* tube_manager_create and tube_stream_manager_create, failing at step k of
\* InitStep.  A pipe that was made stays open when a later step fails.
Create(m, kind, k) ==
    /\ mgr[m].at = "absent"
    /\ UNCHANGED signalled
    /\ kind = "tube" => k # StepOf("streamEvents")
    /\ k > StepOf("pipe") => Cardinality(FreeFd) >= 2
    /\ fd' = IF k > StepOf("pipe") THEN WithPipe(m, Pipe) ELSE fd
    /\ IF k = Succeeds
       THEN /\ mgr' = [mgr EXCEPT ![m] = Whole(kind, Pipe)]
            /\ memory' = [memory EXCEPT ![m] = @ \cup MadeBefore(k)]
       ELSE /\ memory' = [memory EXCEPT ![m] =
                           @ \cup (MadeBefore(k) \ (Finalize(MadeBefore(k)) \cup {"struct"}))]
            /\ UNCHANGED mgr

\* tube_manager_destroy, tube_stream_manager_destroy.  An initialized manager
\* writes a byte to its pipe first.  Its signal contexts stay in sig_contexts.
Destroy(m) ==
    /\ mgr[m].at = "live"
    /\ memory' = [memory EXCEPT ![m] = @ \ (Finalize(@) \cup {"struct"})]
    /\ mgr' = [mgr EXCEPT ![m] = Absent]
    /\ UNCHANGED <<fd, signalled>>

\* tube_manager_signal: a context, on the list of the program.  Without memory
\* or with a signal that cannot be caught nothing changes.
Signal(m) ==
    /\ mgr[m].at = "live"
    /\ memory' = [memory EXCEPT ![m] = @ \cup {"sig_context"}]
    /\ signalled' = signalled \cup {m}
    /\ UNCHANGED <<mgr, fd>>

\* Mutant of Opened: max_fd is taken to be the descriptor opened last.
OpenedLast(max, n) == n

\* A socket n was opened, configured and bound: max_fd, at the very end of its
\* half of tube_manager_socket.
Opened(max, n) == Higher(max, n)

\* tube_manager_socket: IPv6 first, then IPv4; may be called again, after a
\* failure or after a success, and forgets the sockets it had.  Each half fails
\* when there is no socket to be had, which leaves -1, or when the socket
\* cannot be configured or bound, which leaves it in its field.
Socket(m, fails) ==
    LET s == [mgr[m] EXCEPT !.ready = FALSE]
        n6 == Lowest(FreeFd)
        n4 == Lowest(FreeFd \ {n6})
        open6 == [fd EXCEPT ![n6] = <<m, "sock6">>]
        open4 == [open6 EXCEPT ![n4] = <<m, "sock4">>]
        s6 == [s EXCEPT !.sock6 = n6, !.max_fd = Opened(@, n6)]
    IN
    /\ s.at = "live"
    /\ \/ /\ fails = "socket6"
          /\ mgr' = [mgr EXCEPT ![m] = [s EXCEPT !.sock6 = -1]]
          /\ UNCHANGED fd
       \/ /\ fails = "setup6" /\ n6 >= 0
          /\ mgr' = [mgr EXCEPT ![m] = [s EXCEPT !.sock6 = n6]]
          /\ fd' = open6
       \/ /\ fails = "socket4" /\ n6 >= 0
          /\ mgr' = [mgr EXCEPT ![m] = [s6 EXCEPT !.sock4 = -1]]
          /\ fd' = open6
       \/ /\ fails = "setup4" /\ n6 >= 0 /\ n4 >= 0
          /\ mgr' = [mgr EXCEPT ![m] = [s6 EXCEPT !.sock4 = n4]]
          /\ fd' = open4
       \/ /\ fails = "no" /\ n6 >= 0 /\ n4 >= 0
          /\ mgr' = [mgr EXCEPT ![m] = [s6 EXCEPT !.sock4 = n4, !.max_fd = Opened(@, n4),
                                                  !.ready = TRUE]]
          /\ fd' = open4
    /\ UNCHANGED <<memory, signalled>>

LifeNext ==
    \/ AppOpen
    \/ \E n \in 0 .. MaxFd : AppClose(n)
    \/ \E m \in Manager :
        \/ \E kind \in {"tube", "stream"}, k \in 1 .. Succeeds : Create(m, kind, k)
        \/ Destroy(m)
        \/ Signal(m)
        \/ \E fails \in {"socket6", "setup6", "socket4", "setup4", "no"} : Socket(m, fails)

LifeSpec == LifeInit /\ [][LifeNext]_lifeVars

------------------------------------------------------------------------------
\* A create that fails, at whichever step, returns all memory it took, and a
\* destroy all but the contexts of signals the manager registered for: these
\* stay on sig_contexts, although tube_manager_destroy is documented to free all
\* associated data.  A manager that lives has every part, and a pipe of its own
\* for the byte that its destruction writes.
AllOrNothing ==
    \A m \in Manager :
        LET contexts == IF m \in signalled THEN {"sig_context"} ELSE {} IN
        IF mgr[m].at = "absent" THEN memory[m] = contexts
        ELSE /\ memory[m] = Allocated \cup contexts
             /\ mgr[m].pipe[1] # mgr[m].pipe[2]
             /\ \A i \in 1 .. 2 : fd[mgr[m].pipe[i]] = <<m, "pipe">>

\* After a successful tube_manager_socket, whatever calls failed before it,
\* select watches the pipe and both sockets of the manager: they are open, its
\* own, and not above max_fd.
SelectWatchesAll ==
    \A m \in Manager :
        LET s == mgr[m] IN
        s.ready => /\ fd[s.sock6] = <<m, "sock6">> /\ s.sock6 <= s.max_fd
                   /\ fd[s.sock4] = <<m, "sock4">> /\ s.sock4 <= s.max_fd
                   /\ s.pipe[1] <= s.max_fd
=============================================================================
