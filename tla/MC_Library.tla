----------------------------- MODULE MC_Library -----------------------------
(***************************************************************************)
(* The containers and the parts around the tube manager that do not share  *)
(* state, side by side: a behaviour is one of the component that subject   *)
(* names, and leaves the others where they start.                          *)
(***************************************************************************)
EXTENDS Htable, Queue, Pool, TubeEvents, ManagerLife, Datagram, LogContext

VARIABLE subject

mcKey == {<<97>>, <<65>>, <<98>>, <<100>>}
mcHosts == [client |-> 1, responder |-> 2]

\* Values with a cleaner are interchangeable, and so are tube IDs.
Symmetry == Permutations(Owned) \cup Permutations(Id)

Init ==
    /\ subject \in {"htable", "queue", "pool", "events", "manager", "datagram", "log"}
    /\ HtableInit /\ QueueInit /\ PoolInit /\ TubeEventsInit /\ LifeInit
    /\ DatagramInit /\ LogInit

StepHtable ==
    /\ subject = "htable" /\ HtableNext
    /\ UNCHANGED <<queueVars, poolVars, eventsVars, lifeVars, datagramVars, logVars>>
StepQueue ==
    /\ subject = "queue" /\ QueueNext
    /\ UNCHANGED <<htableVars, poolVars, eventsVars, lifeVars, datagramVars, logVars>>
StepPool ==
    /\ subject = "pool" /\ PoolNext
    /\ UNCHANGED <<htableVars, queueVars, eventsVars, lifeVars, datagramVars, logVars>>
StepEvents ==
    /\ subject = "events" /\ TubeEventsNext
    /\ UNCHANGED <<htableVars, queueVars, poolVars, lifeVars, datagramVars, logVars>>
StepManager ==
    /\ subject = "manager" /\ LifeNext
    /\ UNCHANGED <<htableVars, queueVars, poolVars, eventsVars, datagramVars, logVars>>
StepDatagram ==
    /\ subject = "datagram" /\ DatagramNext
    /\ UNCHANGED <<htableVars, queueVars, poolVars, eventsVars, lifeVars, logVars>>
StepLog ==
    /\ subject = "log" /\ LogNext
    /\ UNCHANGED <<htableVars, queueVars, poolVars, eventsVars, lifeVars, datagramVars>>

Next ==
    /\ UNCHANGED subject
    /\ \/ StepHtable \/ StepQueue \/ StepPool \/ StepEvents
       \/ StepManager \/ StepDatagram \/ StepLog

allVars == <<subject, htableVars, queueVars, poolVars, eventsVars, lifeVars,
             datagramVars, logVars>>

Spec == Init /\ [][Next]_allVars

\* The type invariants of the components, among them that a table calls a
\* cleaner only for a value that was put with one.
LibraryTypeOK ==
    /\ HtableTypeOK /\ QueueTypeOK /\ PoolTypeOK /\ TubeEventsTypeOK
    /\ LifeTypeOK /\ DatagramTypeOK /\ LogTypeOK
=============================================================================
