----------------------------- MODULE TubeEvents -----------------------------
(***************************************************************************)
(* A tube manager and its event dispatcher together: what happens when the *)
(* callbacks of tube events call the manager (src/src/tube_manager.c) that *)
(* is in the middle of handling a packet or a call.                        *)
(*                                                                         *)
(* An event triggered while no event runs is delivered, with everything    *)
(* its callbacks trigger, before ls_event_trigger returns to the manager;  *)
(* triggered in a callback, it waits and the call goes on at once          *)
(* (Eventing has this in detail).  So at most one call of the manager      *)
(* waits for a trigger to return: frame.  Memory does not run out here and *)
(* sends succeed; TubeManager has those failures.  Each event has one      *)
(* callback, which uses its tube.                                          *)
(***************************************************************************)
EXTENDS Naturals, Sequences

CONSTANTS
    Tube,       \* tube structures, each created once
    MaxMoments  \* bound: events waiting at one time

ASSUME TubeEventsAssumption == MaxMoments \in Nat

VARIABLES
    ts,         \* ts[t]: the tube's state; "new": not created, "freed": destroyed
    frame,      \* what waits for ls_event_trigger to return, and its tube
    moments,    \* the events waiting, the one that runs first
    inCb,       \* a callback is running
    told,       \* history: told[t]: the last event of t delivered
    efault,     \* a freed tube was used
    cbRemoved   \* history: a callback called tube_manager_remove

eventsVars == <<ts, frame, moments, inCb, told, efault, cbRemoved>>

TubeState == {"new", "opening", "running", "unknown", "freed"}
Live(t) == ts[t] \in {"opening", "running", "unknown"}
EventName == {"add", "running", "data", "close", "remove"}
NoFrame == <<>>

TubeEventsTypeOK ==
    /\ ts \in [Tube -> TubeState]
    /\ frame \in {NoFrame} \cup ((EventName \cup {"accept"}) \X Tube)
    /\ moments \in Seq(EventName \X Tube)
    /\ inCb \in BOOLEAN /\ efault \in BOOLEAN /\ cbRemoved \in BOOLEAN
    /\ told \in [Tube -> EventName \cup {"nothing"}]

TubeEventsInit ==
    /\ ts = [t \in Tube |-> "new"]
    /\ frame = NoFrame
    /\ moments = <<>>
    /\ inCb = FALSE
    /\ told = [t \in Tube |-> "nothing"]
    /\ efault = FALSE
    /\ cbRemoved = FALSE

------------------------------------------------------------------------------
\* The application runs: in a callback, or in a timer's or outside the loop.
Idle == frame = NoFrame /\ moments = <<>> /\ ~efault
AppRuns == (Idle \/ inCb) /\ ~efault

\* Mutant of Trigger: the events of a callback are delivered last one first.
TriggerBackwards(e, t, f) ==
    /\ Len(moments) < MaxMoments
    /\ IF inCb THEN /\ moments' = <<Head(moments), <<e, t>>>> \o Tail(moments)
                    /\ UNCHANGED frame
       ELSE moments' = <<<<e, t>>>> /\ frame' = <<f, t>>

\* ls_event_trigger of event e about tube t, in a call that will go on as f.
Trigger(e, t, f) ==
    /\ Len(moments) < MaxMoments
    /\ moments' = Append(moments, <<e, t>>)
    /\ frame' = IF inCb THEN frame ELSE <<f, t>>

\* tube_manager_open_tube.  The tube is in the table, OPENING, when "add" is
\* triggered, and the OPEN is sent afterwards.
OpenTube(t) ==
    /\ AppRuns
    /\ ts[t] = "new"
    /\ Trigger("add", t, "add")
    /\ ts' = [ts EXCEPT ![t] = "opening"]
    /\ UNCHANGED <<inCb, told, efault, cbRemoved>>

\* tube_close
TubeClose(t) ==
    /\ AppRuns
    /\ Live(t)
    /\ ts' = [ts EXCEPT ![t] = "unknown"]
    /\ UNCHANGED <<frame, moments, inCb, told, efault, cbRemoved>>

\* tube_manager_remove: "remove", then the entry goes and with it the tube;
\* in a callback both at once.
TubeManagerRemove(t) ==
    /\ AppRuns
    /\ Live(t)
    /\ Trigger("remove", t, "remove")
    /\ ts' = IF inCb THEN [ts EXCEPT ![t] = "freed"] ELSE ts
    /\ cbRemoved' = (cbRemoved \/ inCb)
    /\ UNCHANGED <<inCb, told, efault>>

------------------------------------------------------------------------------
(***************************************************************************)
(* The loop's handling of packets.                                         *)
(***************************************************************************)

\* An OPEN of an unknown tube: added, then RUNNING, then the ACK.
HandleNew(t) ==
    /\ Idle
    /\ ts[t] = "new"
    /\ Trigger("add", t, "accept")
    /\ ts' = [ts EXCEPT ![t] = "unknown"]
    /\ UNCHANGED <<inCb, told, efault, cbRemoved>>

\* An ACK counts only for a tube that is OPENING.
HandleAck(t) ==
    /\ Idle
    /\ ts[t] = "opening"
    /\ ts' = [ts EXCEPT ![t] = "running"]
    /\ Trigger("running", t, "running")
    /\ UNCHANGED <<inCb, told, efault, cbRemoved>>

\* DATA counts only for a tube that is RUNNING.
HandleData(t) ==
    /\ Idle
    /\ ts[t] = "running"
    /\ Trigger("data", t, "data")
    /\ UNCHANGED <<ts, inCb, told, efault, cbRemoved>>

\* Mutant of HandleClose: the tube is taken out before "close" is triggered.
HandleCloseLate(t) ==
    /\ Idle
    /\ ts[t] \in {"opening", "running"}
    /\ ts' = [ts EXCEPT ![t] = "freed"]
    /\ Trigger("close", t, "data")
    /\ UNCHANGED <<inCb, told, efault, cbRemoved>>

\* A CLOSE: UNKNOWN, "close", then tube_manager_remove.
HandleClose(t) ==
    /\ Idle
    /\ ts[t] \in {"opening", "running"}
    /\ ts' = [ts EXCEPT ![t] = "unknown"]
    /\ Trigger("close", t, "close")
    /\ UNCHANGED <<inCb, told, efault, cbRemoved>>

------------------------------------------------------------------------------
\* The callback of the first waiting event is called, and uses its tube.
Deliver ==
    /\ moments # <<>> /\ ~inCb /\ ~efault
    /\ LET t == Head(moments)[2] IN
        /\ inCb' = TRUE
        /\ told' = [told EXCEPT ![t] = Head(moments)[1]]
        /\ efault' = (ts[t] = "freed")
    /\ UNCHANGED <<ts, frame, moments, cbRemoved>>

CallbackReturns ==
    /\ inCb /\ ~efault
    /\ inCb' = FALSE
    /\ moments' = Tail(moments)
    /\ UNCHANGED <<ts, frame, told, efault, cbRemoved>>

\* Mutant of FrameReturns: no tube_manager_remove after "close".
FrameReturnsKeeps ==
    /\ frame # NoFrame /\ moments = <<>> /\ ~inCb /\ ~efault
    /\ LET t == frame[2] IN
        /\ ts' = [ts EXCEPT ![t] = CASE frame[1] = "accept" -> "running"
                                     [] frame[1] \in {"remove", "close"} -> "freed"
                                     [] OTHER -> @]
        /\ frame' = NoFrame
    /\ UNCHANGED <<moments, inCb, told, efault, cbRemoved>>

\* Every waiting event has been delivered: ls_event_trigger returns, and the
\* call that triggered goes on with its tube.
FrameReturns ==
    /\ frame # NoFrame /\ moments = <<>> /\ ~inCb /\ ~efault
    /\ LET t == frame[2] IN
        \/ \* tube_send of the OPEN or the ACK, or tube_manager_remove, with a
           \* tube that is gone
           /\ ts[t] = "freed"
           /\ frame[1] \in {"add", "accept", "close", "remove"}
           /\ efault' = TRUE
           /\ UNCHANGED <<ts, frame, moments>>
        \/ /\ ts[t] # "freed" \/ frame[1] \in {"running", "data"}
           /\ ts' = [ts EXCEPT ![t] = CASE frame[1] = "accept" -> "running"
                                        [] frame[1] = "remove" -> "freed"
                                        [] OTHER -> @]
           /\ IF frame[1] = "close"
              THEN Trigger("remove", t, "remove")
              ELSE frame' = NoFrame /\ UNCHANGED moments
           /\ UNCHANGED efault
    /\ UNCHANGED <<inCb, told, cbRemoved>>

TubeEventsNext ==
    \/ \E t \in Tube :
        \/ OpenTube(t) \/ TubeClose(t) \/ TubeManagerRemove(t)
        \/ HandleNew(t) \/ HandleAck(t) \/ HandleData(t) \/ HandleClose(t)
    \/ Deliver \/ CallbackReturns \/ FrameReturns

TubeEventsSpec == TubeEventsInit /\ [][TubeEventsNext]_eventsVars

------------------------------------------------------------------------------
\* The order in which the events of a tube may follow each other.
Follows(e, f) ==
    CASE f = "add" -> e = "nothing"
      [] f = "running" -> e = "add"
      [] f = "data" -> e \in {"add", "running", "data"}
      [] f = "close" -> e \in {"add", "running", "data"}
      [] f = "remove" -> e \notin {"nothing", "remove"}

\* Whatever callbacks do, an application hears of a tube first by "add" and
\* last by "remove", by neither of them nor by "running" or "close" twice, and
\* of no "running" or "data" after "close".  Only "remove" may come again, for a
\* tube that was removed once more in the callback of its "remove" and is freed.
EventsInOrder ==
    [][~inCb /\ inCb' =>
        LET e == Head(moments)[1]
            t == Head(moments)[2]
        IN Follows(told[t], e) \/ (e = "remove" /\ told[t] = e /\ ts[t] = "freed")]_eventsVars

\* Whenever the manager has nothing under way, the tubes an application was
\* told of, by "add" and "remove", are exactly the ones the manager holds.
ToldOfAll == Idle => \A t \in Tube : Live(t) <=> told[t] \notin {"nothing", "remove"}

\* A freed tube is used only if a callback called tube_manager_remove: opening
\* and closing tubes in callbacks, this one's and others, is safe, and so is
\* removing them anywhere else.
FreedOnlyByCallback == efault => cbRemoved
=============================================================================
