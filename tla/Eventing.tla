------------------------------ MODULE Eventing ------------------------------
(***************************************************************************)
(* An event dispatcher (src/src/ls_eventing.c): callbacks are bound to     *)
(* events, triggering an event calls them in order, and an event triggered *)
(* from a callback waits in a queue of "moments" until the running event   *)
(* is done.  Everything happens on one thread, but a callback may call the *)
(* API again, so that a trigger is many steps.                             *)
(*                                                                         *)
(* A binding node is named by its event and its callback.  A moment keeps  *)
(* the address of the node that was first when the event was triggered;    *)
(* stale says that the node has been freed since.  An allocation that      *)
(* fails makes the call return false with nothing changed, so such calls   *)
(* are not steps of the model.                                             *)
(***************************************************************************)
EXTENDS Naturals, Sequences, SequencesExt

CONSTANTS
    Ev,         \* event names
    Cb,         \* callback functions
    None,       \* NULL
    MaxQueue    \* bound: moments queued at once

ASSUME EventingAssumption == None \notin Ev \cup Cb /\ MaxQueue \in Nat

VARIABLES
    events,     \* dispatch->events
    binds,      \* binds[e]: event->bindings, as a sequence
    queue,      \* dispatch->next_moment and what follows it
    running,    \* dispatch->running
    pc,         \* where the dispatching is
    binding,    \* the node _handle_trigger_int looks at
    destroy_pending,
    fault,      \* which freed or absent node was used, if one was
    called,     \* history: the callbacks called for this moment, in order
    atStart,    \* history: the callbacks bound when this moment began
    wanted      \* history: wanted[e]: what the API calls ask to be bound

vars == <<events, binds, queue, running, pc, binding, destroy_pending, fault,
          called, atStart, wanted>>

Binding == [cb : Cb, unbound : BOOLEAN, normal_bound : BOOLEAN]
Moment == [ev : Ev, head : Cb \cup {None}, stale : BOOLEAN]

(***************************************************************************)
(* "idle": no ls_event_trigger call is on the stack.  "dispatch": at the   *)
(* while of _dispatch_trigger.  "fetch": at the for of _handle_trigger_int.*)
(* "calling": in a callback.  "result": in the result callback.            *)
(***************************************************************************)
PC == {"idle", "dispatch", "fetch", "calling", "result", "destroyed"}

TypeOK ==
    /\ events \in SUBSET Ev
    /\ binds \in [Ev -> Seq(Binding)]
    /\ queue \in Seq(Moment)
    /\ running \in Ev \cup {None}
    /\ pc \in PC
    /\ binding \in Cb \cup {None}
    /\ destroy_pending \in BOOLEAN
    /\ fault \in {"none", "unbind", "moment"}
    /\ called \in Seq(Cb)
    /\ atStart \in Seq(Cb)
    /\ wanted \in [Ev -> SUBSET Cb]

\* ls_event_dispatcher_create
Init ==
    /\ events = {}
    /\ binds = [e \in Ev |-> <<>>]
    /\ queue = <<>>
    /\ running = None
    /\ pc = "idle"
    /\ binding = None
    /\ destroy_pending = FALSE
    /\ fault = "none"
    /\ called = <<>>
    /\ atStart = <<>>
    /\ wanted = [e \in Ev |-> {}]

------------------------------------------------------------------------------
\* Application code is running: outside any trigger, or in a callback.
AppRuns == pc \in {"idle", "calling", "result"} /\ fault = "none"

Callbacks(bs) == [i \in DOMAIN bs |-> bs[i].cb]
IsBound(e, cb) == cb \in Range(Callbacks(binds[e]))
Position(e, cb) == CHOOSE i \in DOMAIN binds[e] : binds[e][i].cb = cb

\* The node after callback cb's, and the first node, of event e.
After(e, cb) ==
    LET i == Position(e, cb) + 1 IN
    IF i \in DOMAIN binds[e] THEN binds[e][i].cb ELSE None
First(e) == IF binds[e] = <<>> THEN None ELSE binds[e][1].cb

\* The callbacks of event e whose unbind is pending.
Unbound(e) == {b.cb : b \in {x \in Range(binds[e]) : x.unbound}}

\* The list bs without the nodes of callbacks cbs.
Without(bs, cbs) ==
    LET kept[i \in 0 .. Len(bs)] ==
            IF i = 0 THEN <<>>
            ELSE IF bs[i].cb \in cbs THEN kept[i - 1] ELSE Append(kept[i - 1], bs[i])
    IN kept[Len(bs)]

\* Freeing the nodes of callbacks cbs of event e: the moments of q that start
\* at one of them now hold a stale address.
Freed(q, e, cbs) ==
    [i \in DOMAIN q |->
        [q[i] EXCEPT !.stale = @ \/ (q[i].ev = e /\ q[i].head \in cbs)]]

------------------------------------------------------------------------------
\* ls_event_dispatcher_create_event; a name that exists is an error.
CreateEvent(e) ==
    /\ AppRuns
    /\ e \notin events
    /\ events' = events \cup {e}
    /\ UNCHANGED <<binds, queue, running, pc, binding, destroy_pending, fault,
                   called, atStart, wanted>>

\* Mutant of Bind: normal_bound is left uninitialized.
BindUninitialized(e, cb) ==
    /\ AppRuns
    /\ e \in events
    /\ ~IsBound(e, cb)
    /\ binds' = [binds EXCEPT ![e] = Append(@,
                    [cb |-> cb, unbound |-> FALSE, normal_bound |-> None])]
    /\ wanted' = [wanted EXCEPT ![e] = @ \cup {cb}]
    /\ UNCHANGED <<events, queue, running, pc, binding, destroy_pending, fault,
                   called, atStart>>

\* Mutant of Bind: a new binding takes part at once.
BindAtOnce(e, cb) ==
    /\ AppRuns
    /\ e \in events
    /\ ~IsBound(e, cb)
    /\ binds' = [binds EXCEPT ![e] = Append(@,
                    [cb |-> cb, unbound |-> FALSE, normal_bound |-> TRUE])]
    /\ wanted' = [wanted EXCEPT ![e] = @ \cup {cb}]
    /\ UNCHANGED <<events, queue, running, pc, binding, destroy_pending, fault,
                   called, atStart>>

\* Mutant of Bind: a binding whose unbind is pending is found and left as it is.
BindKeepsUnbound(e, cb) ==
    /\ AppRuns
    /\ e \in events
    /\ binds' = IF IsBound(e, cb) THEN binds
                ELSE [binds EXCEPT ![e] = Append(@,
                        [cb |-> cb, unbound |-> FALSE, normal_bound |-> FALSE])]
    /\ wanted' = [wanted EXCEPT ![e] = @ \cup {cb}]
    /\ UNCHANGED <<events, queue, running, pc, binding, destroy_pending, fault,
                   called, atStart>>

\* ls_event_bind: a known callback keeps its place and its normal_bound, a new
\* one goes to the end.
Bind(e, cb) ==
    /\ AppRuns
    /\ e \in events
    /\ IF IsBound(e, cb)
       THEN binds' = [binds EXCEPT ![e][Position(e, cb)].unbound = FALSE]
       ELSE binds' = [binds EXCEPT ![e] = Append(@,
                        [cb |-> cb, unbound |-> FALSE, normal_bound |-> FALSE])]
    /\ wanted' = [wanted EXCEPT ![e] = @ \cup {cb}]
    /\ UNCHANGED <<events, queue, running, pc, binding, destroy_pending, fault,
                   called, atStart>>

\* Mutant of Unbind: the binding goes at once, whatever is running.
UnbindNow(e, cb) ==
    /\ AppRuns
    /\ e \in events
    /\ wanted' = [wanted EXCEPT ![e] = @ \ {cb}]
    /\ binds' = [binds EXCEPT ![e] = Without(@, {cb})]
    /\ queue' = Freed(queue, e, {cb})
    /\ UNCHANGED <<events, running, pc, binding, destroy_pending, fault, called, atStart>>

\* ls_event_unbind: at once, unless the event is running.
Unbind(e, cb) ==
    /\ AppRuns
    /\ e \in events
    /\ wanted' = [wanted EXCEPT ![e] = @ \ {cb}]
    /\ \/ /\ e # running
          /\ binds' = [binds EXCEPT ![e] = Without(@, {cb})]
          /\ queue' = Freed(queue, e, {cb})
          /\ UNCHANGED fault
       \/ /\ e = running
          /\ IsBound(e, cb)
          /\ binds' = [binds EXCEPT ![e][Position(e, cb)].unbound = TRUE]
          /\ UNCHANGED <<queue, fault>>
       \/ \* the walk runs off the end of the list
          /\ e = running
          /\ ~IsBound(e, cb)
          /\ fault' = "unbind"
          /\ UNCHANGED <<binds, queue>>
    /\ UNCHANGED <<events, running, pc, binding, destroy_pending, called, atStart>>

\* ls_event_trigger and ls_event_trigger_prepared: _trigger_prepared, and
\* _dispatch_trigger up to its loop.
Trigger(e) ==
    /\ AppRuns
    /\ e \in events
    /\ Len(queue) < MaxQueue
    /\ queue' = Append(queue, [ev |-> e, head |-> First(e), stale |-> FALSE])
    /\ pc' = IF running = None THEN "dispatch" ELSE pc
    /\ UNCHANGED <<events, binds, running, binding, destroy_pending, fault,
                   called, atStart, wanted>>

\* Everything the dispatcher owns is freed.
FreeDispatcher ==
    /\ pc' = "destroyed"
    /\ queue' = <<>>
    /\ events' = {}
    /\ binds' = [e \in Ev |-> <<>>]
    /\ wanted' = [e \in Ev |-> {}]

\* ls_event_dispatcher_destroy, called by the application.
Destroy ==
    /\ AppRuns
    /\ IF running = None
       THEN FreeDispatcher /\ UNCHANGED destroy_pending
       ELSE /\ destroy_pending' = TRUE
            /\ UNCHANGED <<pc, queue, events, binds, wanted>>
    /\ UNCHANGED <<running, binding, fault, called, atStart>>

------------------------------------------------------------------------------
\* Mutant of StartMoment: the while does not look at destroy_pending.
StartMomentAnyway ==
    /\ pc = "dispatch"
    /\ queue # <<>>
    /\ LET m == Head(queue) IN
        /\ running' = m.ev
        /\ binds' = [binds EXCEPT ![m.ev] =
                        [i \in DOMAIN @ |-> [@[i] EXCEPT !.normal_bound = TRUE]]]
        /\ binding' = m.head
        /\ fault' = IF m.stale THEN "moment" ELSE "none"
        /\ atStart' = Callbacks(binds[m.ev])
    /\ called' = <<>>
    /\ pc' = "fetch"
    /\ UNCHANGED <<events, queue, destroy_pending, wanted>>

\* _handle_trigger_int up to its for: _set_bind_status, and the first node.
StartMoment ==
    /\ pc = "dispatch"
    /\ queue # <<>>
    /\ ~destroy_pending
    /\ LET m == Head(queue) IN
        /\ running' = m.ev
        /\ binds' = [binds EXCEPT ![m.ev] =
                        [i \in DOMAIN @ |-> [@[i] EXCEPT !.normal_bound = TRUE]]]
        /\ binding' = m.head
        /\ fault' = IF m.stale THEN "moment" ELSE "none"
        /\ atStart' = Callbacks(binds[m.ev])
    /\ called' = <<>>
    /\ pc' = "fetch"
    /\ UNCHANGED <<events, queue, destroy_pending, wanted>>

\* Mutant of Fetch: the walk does not move on from a node it passes over.
FetchStuck ==
    /\ pc = "fetch" /\ fault = "none"
    /\ binding # None
    /\ binds[running][Position(running, binding)].normal_bound
    /\ pc' = "calling"
    /\ called' = Append(called, binding)
    /\ UNCHANGED <<events, binds, queue, running, binding, destroy_pending, fault,
                   atStart, wanted>>

\* A node that was bound during this moment is passed over.
Fetch ==
    /\ pc = "fetch" /\ fault = "none"
    /\ binding # None
    /\ IF binds[running][Position(running, binding)].normal_bound
       THEN /\ pc' = "calling"
            /\ called' = Append(called, binding)
            /\ UNCHANGED binding
       ELSE /\ binding' = After(running, binding)
            /\ UNCHANGED <<pc, called>>
    /\ UNCHANGED <<events, binds, queue, running, destroy_pending, fault, atStart, wanted>>

\* The callback returns.
CallbackReturns ==
    /\ pc = "calling" /\ fault = "none"
    /\ binding' = After(running, binding)
    /\ pc' = "fetch"
    /\ UNCHANGED <<events, binds, queue, running, destroy_pending, fault,
                   called, atStart, wanted>>

\* The last node is done: the moment's result callback is called.
ReportResult ==
    /\ pc = "fetch" /\ fault = "none"
    /\ binding = None
    /\ pc' = "result"
    /\ UNCHANGED <<events, binds, queue, running, binding, destroy_pending, fault,
                   called, atStart, wanted>>

\* _process_pending_unbinds, and the moment is destroyed.
EndMoment ==
    /\ pc = "result" /\ fault = "none"
    /\ binds' = [binds EXCEPT ![running] = Without(@, Unbound(running))]
    /\ queue' = Freed(Tail(queue), running, Unbound(running))
    /\ running' = None
    /\ pc' = "dispatch"
    /\ UNCHANGED <<events, binding, destroy_pending, fault, called, atStart, wanted>>

\* The while of _dispatch_trigger is left.
EndDispatch ==
    /\ pc = "dispatch"
    /\ queue = <<>> \/ destroy_pending
    /\ IF destroy_pending
       THEN FreeDispatcher
       ELSE /\ pc' = "idle"
            /\ UNCHANGED <<queue, events, binds, wanted>>
    /\ UNCHANGED <<running, binding, destroy_pending, fault, called, atStart>>

Dispatching == StartMoment \/ Fetch \/ CallbackReturns \/ ReportResult \/ EndMoment
                 \/ EndDispatch

Next ==
    \/ \E e \in Ev :
        \/ CreateEvent(e)
        \/ Trigger(e)
        \/ \E cb \in Cb : Bind(e, cb) \/ Unbind(e, cb)
    \/ Destroy
    \/ Dispatching

Spec == Init /\ [][Next]_vars

\* Callbacks return, and the dispatching code between them runs on.
FairSpec == Spec /\ WF_vars(Dispatching)

------------------------------------------------------------------------------
\* While a callback runs, the node that holds it is in the list, and so are
\* the nodes the walk will still visit: ls_event_unbind and ls_event_bind,
\* called by the callback, take nothing away under _handle_trigger_int.
WalkIsSafe ==
    pc \in {"fetch", "calling"} /\ fault = "none" /\ binding # None
        => IsBound(running, binding)

\* A moment calls the callbacks that were bound when it began, all of them,
\* in order and once each, whatever they bind and unbind meanwhile: what
\* they bind waits for the next time.  (An event that had no callback when it
\* was triggered calls none.)
CallsEachOnce ==
    pc = "result" => called = IF Head(queue).head = None THEN <<>> ELSE atStart

\* The lists hold what the application asked for: an unbind that had to wait
\* is not lost, nor is a bind that followed it.
BindingsMatchApi ==
    \A e \in Ev :
        /\ Range(Callbacks(binds[e])) \ Unbound(e) = wanted[e]
        /\ e # running => Unbound(e) = {}

\* ls_event_unbind does nothing when the callback is not bound.
UnbindIsHarmless == fault # "unbind"

\* An event that waits in the queue is fired on bindings that still exist.
QueuedMomentsAreSound == fault # "moment"

\* ls_event_dispatcher_destroy from a callback is carried out once the
\* running event is done, however many events are queued.
DestroyHappens ==
    (destroy_pending /\ fault = "none") ~> (pc = "destroyed" \/ fault # "none")

\* A trigger returns to its caller, unless callbacks go on triggering: from
\* when they have stopped for good, the moments that are queued are worked off
\* and the while of _dispatch_trigger ends, whatever the callbacks bind, unbind
\* and destroy.
EventEnds ==
    <>[][running # None => \A e \in Ev : ~Trigger(e)]_vars
        => (pc # "idle") ~> (pc \in {"idle", "destroyed"} \/ fault # "none")
=============================================================================
