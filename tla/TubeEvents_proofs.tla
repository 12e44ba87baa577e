-------------------------- MODULE TubeEvents_proofs --------------------------
(***************************************************************************)
(* Proofs about TubeEvents: for any number of tubes and of waiting events, *)
(* what an application is told of its tubes, in which order, and when a    *)
(* freed tube may be used.                                                 *)
(***************************************************************************)
EXTENDS TubeEvents, TLAPS

\* Event e of tube t waits and its callback has not been called.
Pending(e, t) ==
    \E i \in 1 .. Len(moments) : moments[i] = <<e, t>> /\ (i > 1 \/ ~inCb)

\* A callback runs for the first moment; moments are delivered for a call of
\* the manager; behind the first there are only events that callbacks trigger.
Shape ==
    /\ inCb => moments # <<>>
    /\ moments # <<>> => frame # NoFrame
    /\ \A i \in 2 .. Len(moments) : moments[i][1] \in {"add", "remove"}

\* Nothing of a tube waits behind its "remove" but another "remove".
RemoveLast ==
    \A i, j \in 1 .. Len(moments) :
        i < j /\ moments[i][1] = "remove" /\ moments[j][2] = moments[i][2]
            => moments[j][1] = "remove"

\* "add" is triggered once per tube.
AddOnce ==
    \A i, j \in 1 .. Len(moments) :
        i # j /\ moments[i][1] = "add" => moments[j] # moments[i]

\* Of a tube that was not created nothing is known.
NewUnheard ==
    \A t \in Tube : ts[t] = "new" =>
        /\ told[t] = "nothing"
        /\ \A i \in 1 .. Len(moments) : moments[i][2] # t
        /\ \A f \in EventName \cup {"accept"} : frame # <<f, t>>

\* Until it is told of a tube, the application has its "add" to come.
AddToCome ==
    \A t \in Tube :
        /\ ts[t] # "new" /\ told[t] = "nothing" => Pending("add", t)
        /\ Pending("add", t) => told[t] = "nothing"

\* "remove" is triggered for a tube that is freed, or about to be.
RemoveToCome ==
    \A t \in Tube :
        /\ told[t] = "remove" \/ Pending("remove", t) =>
              ts[t] = "freed" \/ frame = <<"remove", t>>
        /\ ts[t] = "freed" \/ frame = <<"remove", t>> =>
              told[t] = "remove" \/ Pending("remove", t)
        /\ told[t] = "remove" => \A e \in EventName : Pending(e, t) => e = "remove"

\* What the loop triggers itself fits the tube's state and what was told of it.
HeadFits ==
    moments # <<>> /\ ~inCb /\ moments[1][1] \in {"running", "data", "close"} =>
        LET e == moments[1][1]
            t == moments[1][2]
        IN /\ frame = <<e, t>>
           /\ ts[t] = IF e = "close" THEN "unknown" ELSE "running"
           /\ told[t] \in IF e = "running" THEN {"add"} ELSE {"add", "running", "data"}

\* The states a tube may be in, by what was told of it.
Stages ==
    \A t \in Tube :
        /\ ts[t] = "opening" \/ frame = <<"accept", t>> => told[t] \in {"nothing", "add", "remove"}
        /\ told[t] = "close" => ts[t] \in {"unknown", "freed"}

History ==
    /\ Shape /\ RemoveLast /\ AddOnce /\ NewUnheard
    /\ AddToCome /\ RemoveToCome /\ HeadFits /\ Stages

\* The inductive invariant.
HistoryInv == TubeEventsTypeOK /\ (~efault => History)

\* A "remove" that waits behind another moment, or comes a second time, is of a
\* tube that a callback removed and so freed.
Gone(t) ==
    ts[t] # "freed" =>
        /\ \A i \in 2 .. Len(moments) : moments[i] # <<"remove", t>>
        /\ moments # <<>> /\ ~inCb /\ moments[1] = <<"remove", t>> => told[t] # "remove"
FreedAtOnce == ~efault => \A t \in Tube : Gone(t)

\* Without a remove in a callback, no freed tube is about to be used.
NoneFreed ==
    ~cbRemoved =>
        /\ ~efault
        /\ \A i \in 1 .. Len(moments) : ts[moments[i][2]] # "freed"
        /\ frame # NoFrame => ts[frame[2]] # "freed"

------------------------------------------------------------------------------
(***************************************************************************)
(* Sequences of moments.                                                   *)
(***************************************************************************)

\* Triggering puts one moment behind the others.
LEMMA AppendAt ==
    ASSUME NEW S, NEW s \in Seq(S), NEW x \in S
    PROVE  /\ Append(s, x) \in Seq(S)
           /\ Len(s) \in Nat
           /\ Len(Append(s, x)) = Len(s) + 1
           /\ \A i \in 1 .. Len(s) : Append(s, x)[i] = s[i]
           /\ Append(s, x)[Len(s) + 1] = x
           /\ Append(s, x) # <<>>
    OBVIOUS

\* A callback that returns takes the first moment away.
LEMMA TailAt ==
    ASSUME NEW S, NEW s \in Seq(S), s # <<>>
    PROVE  /\ Tail(s) \in Seq(S)
           /\ Len(s) \in Nat /\ Len(s) > 0
           /\ Len(Tail(s)) = Len(s) - 1
           /\ \A i \in 1 .. Len(s) - 1 : Tail(s)[i] = s[i + 1]
    OBVIOUS

\* The moments of a well-typed state.
LEMMA MomentTypes ==
    ASSUME TubeEventsTypeOK
    PROVE  /\ Len(moments) \in Nat
           /\ moments = <<>> <=> Len(moments) = 0
           /\ \A i \in 1 .. Len(moments) :
                /\ moments[i] \in EventName \X Tube
                /\ moments[i][1] \in EventName /\ moments[i][2] \in Tube
                /\ moments[i] = <<moments[i][1], moments[i][2]>>
    BY DEF TubeEventsTypeOK

\* What is to come after a trigger.
LEMMA Appended ==
    ASSUME TubeEventsTypeOK, inCb => moments # <<>>,
           NEW e \in EventName, NEW t \in Tube,
           moments' = Append(moments, <<e, t>>), inCb' = inCb
    PROVE  \A a \in EventName, u \in Tube :
              Pending(a, u)' <=> (Pending(a, u) \/ (a = e /\ u = t))
<1> USE DEF TubeEventsTypeOK
<1>1. /\ Len(moments) \in Nat /\ Len(moments') = Len(moments) + 1
      /\ \A i \in 1 .. Len(moments) : moments'[i] = moments[i]
      /\ moments'[Len(moments) + 1] = <<e, t>>
  BY AppendAt
<1>2. inCb => Len(moments) > 0
  BY MomentTypes
<1> TAKE a \in EventName, u \in Tube
<1>3. ASSUME NEW i \in 1 .. Len(moments), moments[i] = <<a, u>>, i > 1 \/ ~inCb
      PROVE  Pending(a, u)'
  <2>1. i \in 1 .. Len(moments') /\ moments'[i] = <<a, u>>
    BY <1>1, <1>3
  <2>2. i > 1 \/ ~inCb'
    BY <1>3, Zenon
  <2> QED BY <2>1, <2>2, Zenon DEF Pending
<1>4. (a = e /\ u = t) => Pending(a, u)'
  <2>1. /\ Len(moments) + 1 \in 1 .. Len(moments')
        /\ moments'[Len(moments) + 1] = <<e, t>>
        /\ inCb => Len(moments) + 1 > 1
    BY <1>1, <1>2
  <2>2. Len(moments) + 1 > 1 \/ ~inCb'
    BY <2>1, Zenon
  <2> QED BY <2>1, <2>2, Zenon DEF Pending
<1>5. ASSUME NEW i \in 1 .. Len(moments'), moments'[i] = <<a, u>>, i > 1 \/ ~inCb'
      PROVE  Pending(a, u) \/ (a = e /\ u = t)
  <2>1. CASE i = Len(moments) + 1
    BY <2>1, <1>1, <1>5
  <2>2. CASE i \in 1 .. Len(moments)
    <3>1. moments[i] = <<a, u>>
      BY <2>2, <1>1, <1>5
    <3>2. i > 1 \/ ~inCb
      BY <1>5, Zenon
    <3> QED BY <2>2, <3>1, <3>2, Zenon DEF Pending
  <2> QED BY <2>1, <2>2, <1>1
<1> QED BY <1>3, <1>4, <1>5, Zenon DEF Pending

\* Nothing is lost when a callback returns.
LEMMA Popped ==
    ASSUME TubeEventsTypeOK, inCb, moments # <<>>, moments' = Tail(moments), inCb' = FALSE
    PROVE  \A a \in EventName, u \in Tube : Pending(a, u)' <=> Pending(a, u)
<1>1. /\ Len(moments) \in Nat /\ Len(moments) > 0 /\ Len(moments') = Len(moments) - 1
      /\ \A i \in 1 .. Len(moments) - 1 : moments'[i] = moments[i + 1]
  BY TailAt DEF TubeEventsTypeOK
<1> TAKE a \in EventName, u \in Tube
<1>2. Pending(a, u)' => Pending(a, u)
  BY <1>1 DEF Pending
<1>3. Pending(a, u) => Pending(a, u)'
  <2> SUFFICES ASSUME NEW i \in 1 .. Len(moments), moments[i] = <<a, u>>, i > 1
               PROVE  Pending(a, u)'
    BY DEF Pending
  <2>1. i - 1 \in 1 .. Len(moments') /\ moments'[i - 1] = <<a, u>>
    BY <1>1
  <2> QED BY <2>1 DEF Pending
<1> QED BY <1>2, <1>3

\* A delivery settles the first moment and no other.
LEMMA Delivered ==
    ASSUME TubeEventsTypeOK, ~inCb, moments # <<>>, moments' = moments, inCb' = TRUE
    PROVE  \A a \in EventName, u \in Tube :
              /\ Pending(a, u)' <=> \E i \in 2 .. Len(moments) : moments[i] = <<a, u>>
              /\ Pending(a, u) <=> (Pending(a, u)' \/ moments[1] = <<a, u>>)
<1>1. Len(moments) \in Nat /\ Len(moments) > 0
  BY MomentTypes
<1> QED BY <1>1 DEF Pending

\* Nothing is to come when nothing waits.
LEMMA NonePending ==
    ASSUME TubeEventsTypeOK, moments = <<>>
    PROVE  \A a \in EventName, u \in Tube : ~Pending(a, u)
BY MomentTypes DEF Pending

------------------------------------------------------------------------------
(***************************************************************************)
(* Steps.  A trigger changes the moments in the same way in every action;  *)
(* the actions differ in the tube's state and in what goes on.             *)
(***************************************************************************)

\* The moments and the frame after a trigger.
LEMMA Triggered ==
    ASSUME TubeEventsTypeOK, Shape, RemoveLast, AddOnce,
           NEW e \in EventName, NEW t \in Tube, NEW f \in EventName \cup {"accept"},
           Trigger(e, t, f), inCb' = inCb,
           inCb => e \in {"add", "remove"},
           ~inCb => moments = <<>>,
           e = "remove" \/ \A i \in 1 .. Len(moments) : moments[i][2] # t
    PROVE  /\ Shape' /\ RemoveLast' /\ AddOnce'
           /\ moments' \in Seq(EventName \X Tube)
           /\ frame' \in {NoFrame} \cup ((EventName \cup {"accept"}) \X Tube)
           /\ \A a \in EventName, u \in Tube :
                Pending(a, u)' <=> (Pending(a, u) \/ (a = e /\ u = t))
           /\ \A u \in Tube : (\A i \in 1 .. Len(moments) : moments[i][2] # u) /\ u # t
                => \A i \in 1 .. Len(moments') : moments'[i][2] # u
           /\ inCb => frame' = frame
           /\ ~inCb => frame' = <<f, t>>
           /\ ~inCb => moments'[1] = <<e, t>>
<1>1. moments' = Append(moments, <<e, t>>)
  BY DEF Trigger
<1>2. /\ moments' \in Seq(EventName \X Tube)
      /\ Len(moments) \in Nat /\ Len(moments') = Len(moments) + 1
      /\ \A i \in 1 .. Len(moments) : moments'[i] = moments[i]
      /\ moments'[Len(moments) + 1] = <<e, t>>
      /\ moments' # <<>>
  BY <1>1, AppendAt DEF TubeEventsTypeOK
<1>3. inCb => frame' = frame
  BY Zenon DEF Trigger
<1>4. ~inCb => frame' = <<f, t>>
  BY Zenon DEF Trigger
<1>5. frame' \in {NoFrame} \cup ((EventName \cup {"accept"}) \X Tube)
  BY <1>3, <1>4 DEF TubeEventsTypeOK
<1>6. \A a \in EventName, u \in Tube :
         Pending(a, u)' <=> (Pending(a, u) \/ (a = e /\ u = t))
  BY <1>1, Appended DEF Shape
<1>7. inCb => frame # NoFrame
  BY Zenon DEF Shape
<1>8. frame' # NoFrame
  <2>1. <<f, t>> # NoFrame
    BY DEF NoFrame
  <2> QED BY <1>3, <1>4, <1>7, <2>1, Zenon
<1>9. \A i \in 2 .. Len(moments') : moments'[i][1] \in {"add", "remove"}
  <2>1. Len(moments) > 0 => e \in {"add", "remove"}
    BY MomentTypes
  <2> QED BY <1>2, <2>1 DEF Shape
<1>10. Shape'
  BY <1>2, <1>8, <1>9 DEF Shape
<1>11. RemoveLast'
  <2> SUFFICES ASSUME NEW i \in 1 .. Len(moments'), NEW j \in 1 .. Len(moments'), i < j,
                      moments'[i][1] = "remove", moments'[j][2] = moments'[i][2]
               PROVE  moments'[j][1] = "remove"
    BY DEF RemoveLast
  <2>1. i \in 1 .. Len(moments) /\ moments'[i] = moments[i]
    BY <1>2
  <2>2. CASE j \in 1 .. Len(moments)
    BY <2>1, <2>2, <1>2 DEF RemoveLast
  <2>3. CASE j = Len(moments) + 1
    BY <2>1, <2>3, <1>2
  <2> QED BY <2>2, <2>3, <1>2
<1>12. AddOnce'
  <2> SUFFICES ASSUME NEW i \in 1 .. Len(moments'), NEW j \in 1 .. Len(moments'), i # j,
                      moments'[i][1] = "add", moments'[j] = moments'[i]
               PROVE  FALSE
    BY DEF AddOnce
  <2>1. CASE i \in 1 .. Len(moments) /\ j \in 1 .. Len(moments)
    BY <2>1, <1>2 DEF AddOnce
  <2>2. CASE i = Len(moments) + 1 /\ j \in 1 .. Len(moments)
    BY <2>2, <1>2
  <2>3. CASE j = Len(moments) + 1 /\ i \in 1 .. Len(moments)
    BY <2>3, <1>2
  <2> QED BY <2>1, <2>2, <2>3, <1>2
<1>13. \A u \in Tube : (\A i \in 1 .. Len(moments) : moments[i][2] # u) /\ u # t
         => \A i \in 1 .. Len(moments') : moments'[i][2] # u
  BY <1>2
<1>14. ~inCb => moments'[1] = <<e, t>>
  <2>1. moments = <<>> => moments'[1] = <<e, t>>
    BY <1>2, MomentTypes
  <2> QED BY <2>1, Zenon
<1> QED BY <1>2, <1>3, <1>4, <1>5, <1>6, <1>10, <1>11, <1>12, <1>13, <1>14

\* Every event has been delivered and no "remove" is under way: the manager is
\* idle, or goes on after a trigger.
Quiet == moments = <<>> /\ ~inCb /\ ~efault /\ \A u \in Tube : frame # <<"remove", u>>

LEMMA QuietKnown ==
    ASSUME HistoryInv, Quiet
    PROVE  /\ \A a \in EventName, u \in Tube : ~Pending(a, u)
           /\ \A i \in 1 .. Len(moments) : FALSE
           /\ \A u \in Tube : /\ ts[u] = "new" <=> told[u] = "nothing"
                              /\ ts[u] = "freed" <=> told[u] = "remove"
<1>1. TubeEventsTypeOK /\ NewUnheard /\ AddToCome /\ RemoveToCome
  BY Zenon DEF HistoryInv, History, Quiet
<1>2. /\ \A a \in EventName, u \in Tube : ~Pending(a, u)
      /\ \A i \in 1 .. Len(moments) : FALSE
      /\ \A u \in Tube : frame # <<"remove", u>>
  BY <1>1, NonePending, MomentTypes DEF Quiet
<1>3. \A u \in Tube : ts[u] = "new" <=> told[u] = "nothing"
  BY <1>1, <1>2 DEF NewUnheard, AddToCome, EventName
<1>4. \A u \in Tube : ts[u] = "freed" <=> told[u] = "remove"
  BY <1>1, <1>2 DEF RemoveToCome, EventName
<1> QED BY <1>2, <1>3, <1>4

LEMMA IdleIsQuiet ==
    ASSUME HistoryInv, Idle
    PROVE  Quiet
<1>1. frame = NoFrame /\ moments = <<>> /\ ~efault
  BY DEF Idle
<1>2. ~inCb
  BY <1>1, Zenon DEF HistoryInv, History, Shape
<1>3. \A u \in Tube : frame # <<"remove", u>>
  BY <1>1 DEF NoFrame
<1> QED BY <1>1, <1>2, <1>3 DEF Quiet

\* What the manager may trigger on its own: e about t, which is then in state
\* x, in a call that goes on as f.
MayTrigger(e, t, f, x) ==
    \/ /\ e = "add" /\ ts[t] = "new"
       /\ f \in {"add", "accept"} /\ x \in {"opening", "unknown"}
    \/ /\ e = "running" /\ ts[t] = "opening" /\ f = e /\ x = "running"
    \/ /\ e = "data" /\ ts[t] = "running" /\ f = e /\ x = "running"
    \/ /\ e = "close" /\ ts[t] \in {"opening", "running"} /\ f = e /\ x = "unknown"
    \/ /\ e = "remove" /\ Live(t) /\ f = e /\ x = ts[t]

\* A trigger of the manager's own keeps the history.
LEMMA QuietTrigger ==
    ASSUME HistoryInv, Quiet, NEW e \in EventName, NEW t \in Tube,
           NEW f \in EventName \cup {"accept"}, NEW x \in {"opening", "running", "unknown"},
           MayTrigger(e, t, f, x), Trigger(e, t, f), ts' = [ts EXCEPT ![t] = x],
           inCb' = inCb, told' = told, efault' = efault, cbRemoved' \in BOOLEAN
    PROVE  HistoryInv'
<1>1. /\ TubeEventsTypeOK /\ Shape /\ RemoveLast /\ AddOnce /\ NewUnheard
      /\ AddToCome /\ RemoveToCome /\ HeadFits /\ Stages
      /\ ~inCb /\ ~efault /\ moments = <<>>
  BY Zenon DEF HistoryInv, History, Quiet
<1>2. /\ \A a \in EventName, u \in Tube : ~Pending(a, u)
      /\ \A i \in 1 .. Len(moments) : FALSE
      /\ \A u \in Tube : /\ ts[u] = "new" <=> told[u] = "nothing"
                         /\ ts[u] = "freed" <=> told[u] = "remove"
  BY QuietKnown
<1>3. /\ Shape' /\ RemoveLast' /\ AddOnce'
      /\ moments' \in Seq(EventName \X Tube)
      /\ frame' \in {NoFrame} \cup ((EventName \cup {"accept"}) \X Tube)
      /\ \A a \in EventName, u \in Tube :
           Pending(a, u)' <=> (Pending(a, u) \/ (a = e /\ u = t))
      /\ \A u \in Tube : (\A i \in 1 .. Len(moments) : moments[i][2] # u) /\ u # t
           => \A i \in 1 .. Len(moments') : moments'[i][2] # u
      /\ frame' = <<f, t>> /\ moments'[1] = <<e, t>>
  BY <1>1, <1>2, Triggered
<1>4. TubeEventsTypeOK'
  BY <1>1, <1>3 DEF TubeEventsTypeOK, TubeState
<1>5. /\ ts'[t] = x /\ \A u \in Tube : u # t => ts'[u] = ts[u]
      /\ ts[t] \in TubeState /\ told[t] \in EventName \cup {"nothing"}
  BY <1>1 DEF TubeEventsTypeOK
<1>6. NewUnheard'
  BY <1>2, <1>3, <1>5 DEF NewUnheard
<1>7. \A a \in EventName, u \in Tube : Pending(a, u)' <=> (a = e /\ u = t)
  BY <1>2, <1>3
<1>8. AddToCome'
  BY <1>2, <1>5, <1>7 DEF AddToCome, MayTrigger, Live, EventName
<1>9. RemoveToCome'
  BY <1>2, <1>3, <1>5, <1>7 DEF RemoveToCome, MayTrigger, Live, EventName
<1>10. ts[t] = "opening" => told[t] = "add"
  BY <1>1, <1>2 DEF Stages
<1>11. ts[t] = "running" => told[t] \in {"add", "running", "data"}
  BY <1>1, <1>2, <1>5 DEF Stages, EventName
<1>12. HeadFits'
  BY <1>3, <1>5, <1>10, <1>11 DEF HeadFits, MayTrigger
<1>13. Stages'
  BY <1>1, <1>2, <1>3, <1>5, <1>10, <1>11 DEF Stages, MayTrigger, Live
<1> QED BY <1>3, <1>4, <1>6, <1>8, <1>9, <1>12, <1>13 DEF HistoryInv, History

\* A trigger in a callback, by tube_manager_open_tube or tube_manager_remove,
\* keeps the history.
LEMMA CallbackTrigger ==
    ASSUME HistoryInv, inCb, ~efault, NEW t \in Tube,
           NEW e \in {"add", "remove"}, NEW x \in {"opening", "freed"},
           \/ e = "add" /\ ts[t] = "new" /\ x = "opening"
           \/ e = "remove" /\ Live(t) /\ x = "freed",
           Trigger(e, t, e), ts' = [ts EXCEPT ![t] = x],
           inCb' = inCb, told' = told, efault' = efault, cbRemoved' \in BOOLEAN
    PROVE  HistoryInv'
<1>1. /\ TubeEventsTypeOK /\ Shape /\ RemoveLast /\ AddOnce /\ NewUnheard
      /\ AddToCome /\ RemoveToCome /\ HeadFits /\ Stages
  BY Zenon DEF HistoryInv, History
<1>2. e \in EventName
  BY DEF EventName
<1>3. e = "add" => told[t] = "nothing" /\ \A i \in 1 .. Len(moments) : moments[i][2] # t
  BY <1>1 DEF NewUnheard, Live
<1>4. /\ Shape' /\ RemoveLast' /\ AddOnce'
      /\ moments' \in Seq(EventName \X Tube)
      /\ frame' \in {NoFrame} \cup ((EventName \cup {"accept"}) \X Tube)
      /\ \A a \in EventName, u \in Tube :
           Pending(a, u)' <=> (Pending(a, u) \/ (a = e /\ u = t))
      /\ \A u \in Tube : (\A i \in 1 .. Len(moments) : moments[i][2] # u) /\ u # t
           => \A i \in 1 .. Len(moments') : moments'[i][2] # u
      /\ frame' = frame
  BY <1>1, <1>2, <1>3, Triggered
<1>5. TubeEventsTypeOK'
  BY <1>1, <1>4 DEF TubeEventsTypeOK, TubeState
<1>6. /\ ts'[t] = x /\ \A u \in Tube : u # t => ts'[u] = ts[u]
      /\ ts[t] \in TubeState
  BY <1>1 DEF TubeEventsTypeOK
<1>7. NewUnheard'
  BY <1>1, <1>4, <1>6 DEF NewUnheard
<1>8. e = "add" => \A a \in EventName : ~Pending(a, t)
  <2> SUFFICES ASSUME e = "add", NEW i \in 1 .. Len(moments), NEW a, moments[i] = <<a, t>>
               PROVE  FALSE
    BY DEF Pending
  <2> QED BY <1>3
<1>9. AddToCome'
  BY <1>1, <1>2, <1>3, <1>4, <1>6, <1>8 DEF AddToCome, Live, EventName
<1>10. RemoveToCome'
  BY <1>1, <1>2, <1>3, <1>4, <1>6, <1>8 DEF RemoveToCome, Live, EventName
<1>11. HeadFits'
  <2>1. inCb'
    BY Zenon
  <2> QED BY <2>1, Zenon DEF HeadFits
<1>12. Stages'
  BY <1>1, <1>3, <1>4, <1>6 DEF Stages
<1> QED BY <1>4, <1>5, <1>7, <1>9, <1>10, <1>11, <1>12 DEF HistoryInv, History

\* tube_close keeps the history.
LEMMA CloseStep ==
    ASSUME HistoryInv, NEW t \in Tube, TubeClose(t)
    PROVE  HistoryInv'
<1>1. /\ TubeEventsTypeOK /\ Shape /\ RemoveLast /\ AddOnce /\ NewUnheard
      /\ AddToCome /\ RemoveToCome /\ HeadFits /\ Stages
  BY Zenon DEF HistoryInv, History, TubeClose, AppRuns
<1>2. /\ ts[t] \in {"opening", "running", "unknown"} /\ ts' = [ts EXCEPT ![t] = "unknown"]
      /\ frame' = frame /\ moments' = moments /\ inCb' = inCb /\ told' = told
      /\ efault' = efault /\ cbRemoved' = cbRemoved
  BY DEF TubeClose, Live
<1>3. ts'[t] = "unknown" /\ \A u \in Tube : u # t => ts'[u] = ts[u]
  BY <1>1, <1>2 DEF TubeEventsTypeOK
<1>4. \A a, u : Pending(a, u)' <=> Pending(a, u)
  BY <1>2, Zenon DEF Pending
<1>5. TubeEventsTypeOK'
  BY <1>1, <1>2 DEF TubeEventsTypeOK, TubeState
<1>6. Shape' /\ RemoveLast' /\ AddOnce'
  BY <1>1, <1>2, Zenon DEF Shape, RemoveLast, AddOnce
<1>7. NewUnheard' /\ AddToCome' /\ RemoveToCome'
  BY <1>1, <1>2, <1>3, <1>4 DEF NewUnheard, AddToCome, RemoveToCome
<1>8. HeadFits'
  <2>1. moments = <<>> \/ inCb
    BY Zenon DEF TubeClose, AppRuns, Idle
  <2>2. moments' = <<>> \/ inCb'
    BY <1>2, <2>1, Zenon
  <2> QED BY <2>2, Zenon DEF HeadFits
<1>9. Stages'
  BY <1>1, <1>2, <1>3 DEF Stages
<1> QED BY <1>5, <1>6, <1>7, <1>8, <1>9 DEF HistoryInv, History

\* Delivering an event keeps the history.
LEMMA DeliverStep ==
    ASSUME HistoryInv, Deliver
    PROVE  HistoryInv'
<1>1. /\ TubeEventsTypeOK /\ Shape /\ RemoveLast /\ AddOnce /\ NewUnheard
      /\ AddToCome /\ RemoveToCome /\ HeadFits /\ Stages
  BY Zenon DEF HistoryInv, History, Deliver
<1>a. /\ Len(moments) \in Nat /\ Len(moments) > 0 /\ moments # <<>>
      /\ \E e \in EventName, t \in Tube : moments[1] = <<e, t>>
      /\ Head(moments) = moments[1]
  BY <1>1, MomentTypes DEF Deliver, TubeEventsTypeOK
<1>b. PICK e \in EventName, t \in Tube : moments[1] = <<e, t>>
  BY <1>a
<1>2. /\ Len(moments) \in Nat /\ Len(moments) > 0 /\ moments # <<>>
      /\ moments[1] = <<e, t>> /\ moments[1][1] = e /\ moments[1][2] = t
      /\ Head(moments) = moments[1]
  BY <1>a, <1>b
<1>3. /\ inCb' = TRUE /\ told' = [told EXCEPT ![t] = e]
      /\ ts' = ts /\ frame' = frame /\ moments' = moments /\ cbRemoved' = cbRemoved
      /\ efault' \in BOOLEAN
  BY <1>2 DEF Deliver
<1>4. ~inCb
  BY DEF Deliver
<1>5. \A a \in EventName, u \in Tube :
         /\ Pending(a, u)' <=> \E i \in 2 .. Len(moments) : moments[i] = <<a, u>>
         /\ Pending(a, u) <=> (Pending(a, u)' \/ moments[1] = <<a, u>>)
  BY <1>1, <1>2, <1>3, <1>4, Delivered
<1>6. told'[t] = e /\ \A u \in Tube : u # t => told'[u] = told[u]
  BY <1>1, <1>2, <1>3 DEF TubeEventsTypeOK
<1>7. e \in {"running", "data", "close"} =>
        /\ frame = <<e, t>>
        /\ ts[t] = IF e = "close" THEN "unknown" ELSE "running"
        /\ told[t] \in {"add", "running", "data"}
  BY <1>1, <1>2, <1>4 DEF HeadFits
<1>8. TubeEventsTypeOK'
  BY <1>1, <1>2, <1>3 DEF TubeEventsTypeOK
<1>9. Shape'
  BY <1>1, <1>2, <1>3 DEF Shape
<1>10. RemoveLast' /\ AddOnce' /\ NewUnheard'
  BY <1>1, <1>2, <1>3, <1>6 DEF RemoveLast, AddOnce, NewUnheard
<1>11. \A a \in EventName, u \in Tube : u # t => (Pending(a, u)' <=> Pending(a, u))
  BY <1>2, <1>5
<1>12. e = "remove" => \A a \in EventName : Pending(a, t)' => a = "remove"
  <2> SUFFICES ASSUME e = "remove", NEW a \in EventName,
                      NEW i \in 2 .. Len(moments), moments[i] = <<a, t>>
               PROVE  a = "remove"
    BY <1>5
  <2>1. 1 \in 1 .. Len(moments) /\ i \in 1 .. Len(moments) /\ 1 < i
    BY <1>2
  <2> QED BY <1>1, <1>2, <2>1 DEF RemoveLast
<1>13. e = "add" => ~Pending("add", t)'
  <2> SUFFICES ASSUME e = "add", NEW i \in 2 .. Len(moments), moments[i] = <<"add", t>>
               PROVE  FALSE
    BY <1>2, <1>5
  <2> QED BY <1>1, <1>2 DEF AddOnce
<1>14. AddToCome'
  <2>1. ~Pending("add", t)'
    BY <1>1, <1>2, <1>5, <1>7, <1>12, <1>13 DEF AddToCome, EventName
  <2> QED BY <1>1, <1>2, <1>3, <1>6, <1>11, <2>1 DEF AddToCome, EventName
<1>15. RemoveToCome'
  <2>1. Pending(e, t)
    BY <1>2, <1>5
  <2>2. told[t] = "remove" => e = "remove"
    BY <1>1, <1>2, <2>1 DEF RemoveToCome
  <2>3. e # "remove" => (Pending("remove", t)' <=> Pending("remove", t))
    BY <1>2, <1>5 DEF EventName
  <2>4. \A u \in Tube : u # t =>
          /\ told'[u] = told[u]
          /\ \A a \in EventName : Pending(a, u)' <=> Pending(a, u)
    BY <1>6, <1>11
  <2>5. "remove" \in EventName
    BY DEF EventName
  <2>6. Pending("remove", t)' => Pending("remove", t)
    BY <1>2, <1>5, <2>5
  <2> QED BY <1>1, <1>2, <1>3, <1>6, <1>12, <2>1, <2>2, <2>3, <2>4, <2>5, <2>6 DEF RemoveToCome
<1>16. HeadFits'
  BY <1>3 DEF HeadFits
<1>17. Stages'
  BY <1>1, <1>2, <1>3, <1>6, <1>7 DEF Stages, EventName
<1> QED BY <1>8, <1>9, <1>10, <1>14, <1>15, <1>16, <1>17 DEF HistoryInv, History

\* The return of a callback keeps the history.
LEMMA ReturnStep ==
    ASSUME HistoryInv, CallbackReturns
    PROVE  HistoryInv'
<1>1. /\ TubeEventsTypeOK /\ Shape /\ RemoveLast /\ AddOnce /\ NewUnheard
      /\ AddToCome /\ RemoveToCome /\ HeadFits /\ Stages
  BY Zenon DEF HistoryInv, History, CallbackReturns
<1>2. /\ inCb /\ inCb' = FALSE /\ moments' = Tail(moments) /\ ts' = ts /\ frame' = frame
      /\ told' = told /\ efault' = efault /\ cbRemoved' = cbRemoved
  BY DEF CallbackReturns
<1>3. moments # <<>> /\ frame # NoFrame
  BY <1>1, <1>2, Zenon DEF Shape
<1>4. /\ moments' \in Seq(EventName \X Tube)
      /\ Len(moments) \in Nat /\ Len(moments) > 0 /\ Len(moments') = Len(moments) - 1
      /\ \A i \in 1 .. Len(moments) - 1 : moments'[i] = moments[i + 1]
  BY <1>1, <1>2, <1>3, TailAt DEF TubeEventsTypeOK
<1>5. \A a \in EventName, u \in Tube : Pending(a, u)' <=> Pending(a, u)
  BY <1>1, <1>2, <1>3, Popped
<1>6. TubeEventsTypeOK'
  BY <1>1, <1>2, <1>4 DEF TubeEventsTypeOK
<1>7. \A i \in 1 .. Len(moments') : moments'[i][1] \in {"add", "remove"}
  BY <1>1, <1>4 DEF Shape
<1>8. Shape'
  BY <1>2, <1>3, <1>4, <1>7 DEF Shape
<1>9. RemoveLast'
  BY <1>1, <1>4 DEF RemoveLast
<1>10. AddOnce'
  BY <1>1, <1>4 DEF AddOnce
<1>11. NewUnheard'
  BY <1>1, <1>2, <1>4 DEF NewUnheard
<1>12. AddToCome' /\ RemoveToCome'
  BY <1>1, <1>2, <1>5 DEF AddToCome, RemoveToCome, EventName
<1>13. HeadFits'
  <2>1. moments' # <<>> => moments'[1][1] \in {"add", "remove"}
    BY <1>4, <1>7
  <2> QED BY <2>1 DEF HeadFits
<1>14. Stages'
  BY <1>1, <1>2 DEF Stages
<1> QED BY <1>6, <1>8, <1>9, <1>10, <1>11, <1>12, <1>13, <1>14 DEF HistoryInv, History

\* The rest of a call of the manager, after its trigger returned, keeps the
\* history.
LEMMA FrameStep ==
    ASSUME HistoryInv, FrameReturns
    PROVE  HistoryInv'
<1>1. /\ TubeEventsTypeOK /\ Shape /\ RemoveLast /\ AddOnce /\ NewUnheard
      /\ AddToCome /\ RemoveToCome /\ HeadFits /\ Stages
      /\ frame # NoFrame /\ moments = <<>> /\ ~inCb /\ ~efault
  BY Zenon DEF HistoryInv, History, FrameReturns
<1>2. \E f \in EventName \cup {"accept"}, t \in Tube : frame = <<f, t>>
  BY <1>1 DEF TubeEventsTypeOK
<1>3. PICK f \in EventName \cup {"accept"}, t \in Tube : frame = <<f, t>>
  BY <1>2
<1>4. /\ frame[1] = f /\ frame[2] = t
      /\ \A g, u : frame = <<g, u>> <=> g = f /\ u = t
  BY <1>3
<1>5. inCb' = inCb /\ told' = told /\ cbRemoved' = cbRemoved
  BY DEF FrameReturns
<1>6. /\ \A a \in EventName, u \in Tube : ~Pending(a, u)
      /\ ts[t] \in TubeState /\ ts[t] # "new" /\ told[t] \in EventName \cup {"nothing"}
  BY <1>1, <1>3, NonePending DEF NewUnheard, TubeEventsTypeOK
<1>7. CASE efault' = TRUE /\ UNCHANGED <<ts, frame, moments>>
  BY <1>1, <1>5, <1>7 DEF HistoryInv, TubeEventsTypeOK
<1>8. CASE /\ ts[t] # "freed" /\ f = "close" /\ efault' = efault
           /\ ts' = [ts EXCEPT ![t] = @] /\ Trigger("remove", t, "remove")
  <2>1. Quiet
    BY <1>1, <1>4, <1>8 DEF Quiet
  <2>2. Live(t) /\ ts[t] \in {"opening", "running", "unknown"}
    BY <1>6, <1>8 DEF Live, TubeState
  <2>3. MayTrigger("remove", t, "remove", ts[t])
    BY <2>2 DEF MayTrigger
  <2>4. cbRemoved' \in BOOLEAN /\ "remove" \in EventName
    BY <1>1, <1>5 DEF TubeEventsTypeOK, EventName
  <2>5. ts' = [ts EXCEPT ![t] = ts[t]]
    BY <1>8
  <2> QED BY <1>5, <1>8, <2>1, <2>2, <2>3, <2>4, <2>5, QuietTrigger
<1>9. CASE /\ ts[t] # "freed" \/ f \in {"running", "data"}
           /\ f # "close" /\ efault' = efault
           /\ ts' = [ts EXCEPT ![t] = CASE f = "accept" -> "running"
                                        [] f = "remove" -> "freed"
                                        [] OTHER -> @]
           /\ frame' = NoFrame /\ moments' = moments
  <2>1. /\ f = "accept" => ts'[t] = "running" /\ ts[t] # "freed"
        /\ f = "remove" => ts'[t] = "freed"
        /\ f \notin {"accept", "remove"} => ts'[t] = ts[t]
        /\ \A u \in Tube : u # t => ts'[u] = ts[u]
        /\ ts' \in [Tube -> TubeState]
    BY <1>1, <1>9 DEF TubeEventsTypeOK, TubeState
  <2>2. TubeEventsTypeOK'
    BY <1>1, <1>5, <1>9, <2>1 DEF TubeEventsTypeOK
  <2>3. \A a, u : Pending(a, u)' <=> Pending(a, u)
    BY <1>5, <1>9, Zenon DEF Pending
  <2>4. \A g, u : frame' # <<g, u>>
    BY <1>9 DEF NoFrame
  <2>5. Shape' /\ RemoveLast' /\ AddOnce' /\ HeadFits'
    <3>1. moments' = <<>> /\ Len(moments') = 0 /\ inCb' = FALSE
      BY <1>1, <1>5, <1>9, MomentTypes DEF TubeEventsTypeOK
    <3> QED BY <3>1 DEF Shape, RemoveLast, AddOnce, HeadFits
  <2>6. NewUnheard'
    BY <1>1, <1>5, <1>6, <1>9, <2>1, <2>4 DEF NewUnheard
  <2>7. AddToCome'
    BY <1>1, <1>5, <1>6, <2>1, <2>3 DEF AddToCome, EventName
  <2>8. RemoveToCome'
    BY <1>1, <1>4, <1>5, <1>6, <2>1, <2>3, <2>4 DEF RemoveToCome, EventName
  <2>9. f = "accept" => told[t] = "add"
    BY <1>1, <1>4, <1>6, <2>1 DEF Stages, AddToCome, RemoveToCome, EventName
  <2>10. Stages'
    BY <1>1, <1>5, <2>1, <2>4, <2>9 DEF Stages
  <2> QED BY <2>2, <2>5, <2>6, <2>7, <2>8, <2>10 DEF HistoryInv, History
<1> QED
  <2>1. \/ efault' = TRUE /\ UNCHANGED <<ts, frame, moments>>
        \/ /\ ts[t] # "freed" \/ f \in {"running", "data"}
           /\ ts' = [ts EXCEPT ![t] = CASE f = "accept" -> "running"
                                        [] f = "remove" -> "freed"
                                        [] OTHER -> @]
           /\ IF f = "close"
              THEN Trigger("remove", t, "remove")
              ELSE frame' = NoFrame /\ moments' = moments
           /\ efault' = efault
    BY <1>4 DEF FrameReturns
  <2>2. CASE f = "close"
    BY <1>7, <1>8, <2>1, <2>2
  <2>3. CASE f # "close"
    BY <1>7, <1>9, <2>1, <2>3
  <2> QED BY <2>2, <2>3

------------------------------------------------------------------------------
(***************************************************************************)
(* Theorems.                                                               *)
(***************************************************************************)

\* Every step keeps the history.
LEMMA HistoryStep ==
    ASSUME HistoryInv, [TubeEventsNext]_eventsVars
    PROVE  HistoryInv'
<1> USE DEF EventName
<1>1. ASSUME NEW t \in Tube, OpenTube(t) PROVE HistoryInv'
  <2>1. /\ ts[t] = "new" /\ Trigger("add", t, "add") /\ ts' = [ts EXCEPT ![t] = "opening"]
        /\ inCb' = inCb /\ told' = told /\ efault' = efault /\ cbRemoved' = cbRemoved
    BY <1>1 DEF OpenTube
  <2>2. (inCb \/ Idle) /\ ~efault
    BY <1>1, Zenon DEF OpenTube, AppRuns
  <2>3. cbRemoved' \in BOOLEAN
    BY <2>1 DEF HistoryInv, TubeEventsTypeOK
  <2>4. CASE inCb
    BY <2>1, <2>2, <2>3, <2>4, CallbackTrigger
  <2>5. CASE Idle
    BY <2>1, <2>3, <2>5, IdleIsQuiet, QuietTrigger DEF MayTrigger
  <2> QED BY <2>2, <2>4, <2>5
<1>2. ASSUME NEW t \in Tube, TubeManagerRemove(t) PROVE HistoryInv'
  <2>1. /\ Live(t) /\ Trigger("remove", t, "remove")
        /\ inCb' = inCb /\ told' = told /\ efault' = efault
    BY <1>2 DEF TubeManagerRemove
  <2>2. (inCb \/ Idle) /\ ~efault
    BY <1>2, Zenon DEF TubeManagerRemove, AppRuns
  <2>3. cbRemoved' \in BOOLEAN
    BY <1>2 DEF TubeManagerRemove
  <2>4. CASE inCb
    <3>1. ts' = [ts EXCEPT ![t] = "freed"]
      BY <1>2, <2>4, Zenon DEF TubeManagerRemove
    <3> QED BY <2>1, <2>2, <2>3, <2>4, <3>1, CallbackTrigger
  <2>5. CASE Idle
    <3>1. Quiet
      BY <2>5, IdleIsQuiet
    <3>2. ts' = ts
      BY <1>2, <3>1, Zenon DEF TubeManagerRemove, Quiet
    <3>3. ts' = [ts EXCEPT ![t] = ts[t]]
      BY <3>2 DEF HistoryInv, TubeEventsTypeOK
    <3>4. ts[t] \in {"opening", "running", "unknown"}
      BY <2>1 DEF Live
    <3> QED BY <2>1, <2>3, <3>1, <3>3, <3>4, QuietTrigger DEF MayTrigger
  <2> QED BY <2>2, <2>4, <2>5
<1>3. ASSUME NEW t \in Tube, HandleNew(t) PROVE HistoryInv'
  <2>1. cbRemoved' \in BOOLEAN
    BY <1>3 DEF HandleNew, HistoryInv, TubeEventsTypeOK
  <2> QED BY <1>3, <2>1, IdleIsQuiet, QuietTrigger DEF HandleNew, MayTrigger
<1>4. ASSUME NEW t \in Tube, HandleAck(t) PROVE HistoryInv'
  <2>1. cbRemoved' \in BOOLEAN
    BY <1>4 DEF HandleAck, HistoryInv, TubeEventsTypeOK
  <2> QED BY <1>4, <2>1, IdleIsQuiet, QuietTrigger DEF HandleAck, MayTrigger
<1>5. ASSUME NEW t \in Tube, HandleData(t) PROVE HistoryInv'
  <2>1. cbRemoved' \in BOOLEAN /\ ts' = [ts EXCEPT ![t] = "running"]
    BY <1>5 DEF HandleData, HistoryInv, TubeEventsTypeOK
  <2> QED BY <1>5, <2>1, IdleIsQuiet, QuietTrigger DEF HandleData, MayTrigger
<1>6. ASSUME NEW t \in Tube, HandleClose(t) PROVE HistoryInv'
  <2>1. cbRemoved' \in BOOLEAN
    BY <1>6 DEF HandleClose, HistoryInv, TubeEventsTypeOK
  <2> QED BY <1>6, <2>1, IdleIsQuiet, QuietTrigger DEF HandleClose, MayTrigger
<1>7. CASE UNCHANGED eventsVars
  <2>1. /\ ts' = ts /\ frame' = frame /\ moments' = moments /\ inCb' = inCb
        /\ told' = told /\ efault' = efault /\ cbRemoved' = cbRemoved
    BY <1>7 DEF eventsVars
  <2>2. \A a, u : Pending(a, u)' <=> Pending(a, u)
    BY <2>1, Zenon DEF Pending
  <2>3. TubeEventsTypeOK'
    BY <2>1 DEF HistoryInv, TubeEventsTypeOK
  <2>4. ~efault' => History
    BY <2>1, Zenon DEF HistoryInv
  <2>5. Shape /\ RemoveLast /\ AddOnce /\ NewUnheard => (Shape /\ RemoveLast /\ AddOnce /\ NewUnheard)'
    <3>1. Shape => Shape'
      BY <2>1, Zenon DEF Shape
    <3>2. RemoveLast /\ AddOnce /\ NewUnheard => (RemoveLast /\ AddOnce /\ NewUnheard)'
      BY <2>1 DEF RemoveLast, AddOnce, NewUnheard
    <3> QED BY <3>1, <3>2, Zenon
  <2>6. AddToCome /\ RemoveToCome => (AddToCome /\ RemoveToCome)'
    BY <2>1, <2>2 DEF AddToCome, RemoveToCome
  <2>7. HeadFits /\ Stages => (HeadFits /\ Stages)'
    BY <2>1, Zenon DEF HeadFits, Stages
  <2> QED BY <2>3, <2>4, <2>5, <2>6, <2>7, Zenon DEF HistoryInv, History
<1> QED BY <1>1, <1>2, <1>3, <1>4, <1>5, <1>6, <1>7, CloseStep, DeliverStep, ReturnStep,
           FrameStep DEF TubeEventsNext

\* The history holds at the start, and so always.
LEMMA HistoryAlways == TubeEventsSpec => []HistoryInv
<1>1. TubeEventsInit => HistoryInv
  <2> SUFFICES ASSUME TubeEventsInit PROVE HistoryInv
    OBVIOUS
  <2>1. TubeEventsTypeOK
    <3>1. /\ ts \in [Tube -> TubeState] /\ told \in [Tube -> EventName \cup {"nothing"}]
          /\ frame \in {NoFrame} \cup ((EventName \cup {"accept"}) \X Tube)
          /\ moments \in Seq(EventName \X Tube)
      BY DEF TubeEventsInit, TubeState
    <3>2. inCb \in BOOLEAN /\ efault \in BOOLEAN /\ cbRemoved \in BOOLEAN
      BY Zenon DEF TubeEventsInit
    <3> QED BY <3>1, <3>2, Zenon DEF TubeEventsTypeOK
  <2>2. Len(moments) = 0 /\ \A a, u : ~Pending(a, u)
    BY DEF TubeEventsInit, Pending
  <2>3. \A g, u : frame # <<g, u>>
    BY DEF TubeEventsInit, NoFrame
  <2>4. Shape /\ RemoveLast /\ AddOnce /\ HeadFits
    BY <2>2 DEF TubeEventsInit, Shape, RemoveLast, AddOnce, HeadFits
  <2>5. NewUnheard /\ AddToCome /\ RemoveToCome /\ Stages
    BY <2>2, <2>3 DEF TubeEventsInit, NewUnheard, AddToCome, RemoveToCome, Stages
  <2> QED BY <2>1, <2>4, <2>5 DEF HistoryInv, History
<1>2. HistoryInv /\ [TubeEventsNext]_eventsVars => HistoryInv'
  BY HistoryStep
<1> QED BY <1>1, <1>2, PTL DEF TubeEventsSpec

\* For any number of tubes: whatever its callbacks do, whenever the manager has
\* nothing under way, an application that follows "add" and "remove" knows
\* exactly the tubes in the manager's table.
THEOREM Told == TubeEventsSpec => []ToldOfAll
<1>1. HistoryInv => ToldOfAll
  <2> SUFFICES ASSUME HistoryInv, Idle, NEW t \in Tube
               PROVE  Live(t) <=> told[t] \notin {"nothing", "remove"}
    BY DEF ToldOfAll
  <2>1. /\ ts[t] = "new" <=> told[t] = "nothing"
        /\ ts[t] = "freed" <=> told[t] = "remove"
    BY IdleIsQuiet, QuietKnown
  <2>2. ts[t] \in TubeState
    BY DEF HistoryInv, TubeEventsTypeOK
  <2> QED BY <2>1, <2>2 DEF Live, TubeState
<1> QED BY <1>1, HistoryAlways, PTL

\* A trigger keeps FreedAtOnce if a "remove" is of a tube that is freed with it,
\* or is the only moment and the first "remove".
LEMMA GoneTrigger ==
    ASSUME TubeEventsTypeOK, \A u \in Tube : Gone(u),
           NEW e \in EventName, NEW t \in Tube, NEW f, Trigger(e, t, f),
           inCb' = inCb, told' = told,
           \A u \in Tube : ts'[u] # "freed" => ts[u] # "freed",
           e = "remove" => ts'[t] = "freed" \/ (moments = <<>> /\ told[t] # "remove")
    PROVE  \A u \in Tube : Gone(u)'
<1>1. /\ Len(moments) \in Nat /\ Len(moments') = Len(moments) + 1
      /\ \A i \in 1 .. Len(moments) : moments'[i] = moments[i]
      /\ moments'[Len(moments) + 1] = <<e, t>>
      /\ moments = <<>> <=> Len(moments) = 0
  BY AppendAt, MomentTypes DEF Trigger, TubeEventsTypeOK
<1> SUFFICES ASSUME NEW u \in Tube, ts'[u] # "freed"
             PROVE  /\ \A i \in 2 .. Len(moments') : moments'[i] # <<"remove", u>>
                    /\ inCb' = FALSE /\ moments'[1] = <<"remove", u>> => told'[u] # "remove"
  BY DEF Gone, TubeEventsTypeOK
<1>2. /\ \A i \in 2 .. Len(moments) : moments[i] # <<"remove", u>>
      /\ moments # <<>> /\ ~inCb /\ moments[1] = <<"remove", u>> => told[u] # "remove"
  BY DEF Gone
<1>3. ASSUME NEW i \in 2 .. Len(moments'), moments'[i] = <<"remove", u>>
      PROVE  FALSE
  <2>1. CASE i = Len(moments) + 1
    <3>1. e = "remove" /\ t = u /\ moments # <<>>
      BY <1>1, <1>3, <2>1
    <3> QED  BY <3>1
  <2>2. CASE i # Len(moments) + 1
    BY <1>1, <1>2, <1>3, <2>2
  <2> QED  BY <2>1, <2>2
<1>4. ASSUME inCb' = FALSE, moments'[1] = <<"remove", u>>
      PROVE  told'[u] # "remove"
  <2>1. CASE moments = <<>>
    <3>1. e = "remove" /\ t = u
      BY <1>1, <1>4, <2>1
    <3> QED  BY <3>1
  <2>2. CASE moments # <<>>
    <3>1. moments[1] = <<"remove", u>>
      BY <1>1, <1>4, <2>2
    <3> QED  BY <1>2, <1>4, <2>2, <3>1
  <2> QED  BY <2>1, <2>2
<1> QED  BY <1>3, <1>4

\* FreedAtOnce is inductive, given the history.
LEMMA GoneStep ==
    ASSUME HistoryInv, FreedAtOnce, [TubeEventsNext]_eventsVars
    PROVE  FreedAtOnce'
<1> SUFFICES ASSUME ~efault'
             PROVE  \A u \in Tube : Gone(u)'
  BY DEF FreedAtOnce
<1>1. TubeEventsTypeOK
  BY DEF HistoryInv
<1>2. CASE UNCHANGED eventsVars
  BY <1>2 DEF eventsVars, FreedAtOnce, Gone
<1>3. ~efault \/ UNCHANGED eventsVars
  BY DEF TubeEventsNext, OpenTube, TubeClose, TubeManagerRemove, HandleNew, HandleAck,
     HandleData, HandleClose, Deliver, CallbackReturns, FrameReturns, AppRuns, Idle
<1> SUFFICES ASSUME ~efault, TubeEventsNext
             PROVE  \A u \in Tube : Gone(u)'
  BY <1>2, <1>3
<1>4. /\ \A u \in Tube : Gone(u)
      /\ RemoveToCome /\ Shape
  BY DEF FreedAtOnce, HistoryInv, History
<1>5. ASSUME NEW t \in Tube, OpenTube(t) \/ HandleNew(t) \/ HandleAck(t) \/ HandleData(t)
                             \/ HandleClose(t)
      PROVE  \A u \in Tube : Gone(u)'
  <2>1. /\ inCb' = inCb /\ told' = told
        /\ \A u \in Tube : ts'[u] # "freed" => ts[u] # "freed"
        /\ \E e \in EventName \ {"remove"} : \E f : Trigger(e, t, f)
    BY <1>1, <1>5 DEF OpenTube, HandleNew, HandleAck, HandleData, HandleClose,
       TubeEventsTypeOK, TubeState, EventName
  <2>2. PICK e \in EventName \ {"remove"} : \E f : Trigger(e, t, f)
    BY <2>1
  <2>3. PICK f : Trigger(e, t, f)
    BY <2>2
  <2> QED  BY <1>1, <1>4, <2>1, <2>3, GoneTrigger
<1>6. ASSUME NEW t \in Tube, TubeManagerRemove(t)
      PROVE  \A u \in Tube : Gone(u)'
  <2>1. /\ inCb' = inCb /\ told' = told /\ Trigger("remove", t, "remove")
        /\ "remove" \in EventName
        /\ \A u \in Tube : ts'[u] # "freed" => ts[u] # "freed"
    BY <1>1, <1>6 DEF TubeManagerRemove, EventName, TubeEventsTypeOK
  <2>2. inCb => ts'[t] = "freed"
    BY <1>1, <1>6 DEF TubeManagerRemove, TubeEventsTypeOK
  <2>3. ~inCb => moments = <<>> /\ told[t] # "remove"
    <3>1. ~inCb => moments = <<>> /\ frame = NoFrame
      BY <1>6 DEF TubeManagerRemove, AppRuns, Idle
    <3>2. ts[t] # "freed"
      BY <1>6 DEF TubeManagerRemove, Live
    <3>3. NoFrame # <<"remove", t>>
      BY DEF NoFrame
    <3> QED  BY <1>4, <3>1, <3>2, <3>3 DEF RemoveToCome
  <2> QED  BY <1>1, <1>4, <2>1, <2>2, <2>3, GoneTrigger
<1>7. ASSUME NEW t \in Tube, TubeClose(t)
      PROVE  \A u \in Tube : Gone(u)'
  <2>1. /\ \A u \in Tube : ts'[u] # "freed" => ts[u] # "freed"
        /\ moments' = moments /\ inCb' = inCb /\ told' = told
    BY <1>1, <1>7 DEF TubeClose, TubeEventsTypeOK, Live
  <2> QED  BY <1>4, <2>1 DEF Gone
<1>8. CASE Deliver
  <2>1. ts' = ts /\ moments' = moments /\ inCb' = TRUE
    BY <1>8 DEF Deliver
  <2> QED  BY <1>4, <2>1 DEF Gone
<1>9. CASE CallbackReturns
  <2>1. ts' = ts /\ moments' = Tail(moments) /\ moments # <<>>
    BY <1>4, <1>9, Zenon DEF CallbackReturns, Shape
  <2>2. /\ Len(moments) \in Nat /\ Len(moments) > 0 /\ Len(moments') = Len(moments) - 1
        /\ \A i \in 1 .. Len(moments) - 1 : moments'[i] = moments[i + 1]
        /\ moments' # <<>> => Len(moments') # 0
    BY <1>1, <2>1, TailAt DEF TubeEventsTypeOK
  <2>3. ASSUME NEW u \in Tube, ts[u] # "freed"
        PROVE  /\ \A i \in 2 .. Len(moments') : moments'[i] # <<"remove", u>>
               /\ moments' # <<>> => moments'[1] # <<"remove", u>>
    <3>1. \A i \in 2 .. Len(moments) : moments[i] # <<"remove", u>>
      BY <1>4, <2>3 DEF Gone
    <3> QED  BY <2>2, <3>1
  <2> QED  BY <2>1, <2>3 DEF Gone
<1>10. CASE FrameReturns
  <2>1. /\ frame # NoFrame /\ moments = <<>> /\ frame[2] \in Tube /\ inCb' = inCb /\ told' = told
        /\ frame = <<frame[1], frame[2]>>
    BY <1>1, <1>10 DEF FrameReturns, TubeEventsTypeOK
  <2>2. CASE frame[1] = "close"
    <3>1. /\ ts[frame[2]] # "freed" /\ ts' = ts /\ Trigger("remove", frame[2], "remove")
          /\ "remove" \in EventName
      BY <1>1, <1>10, <2>1, <2>2 DEF FrameReturns, TubeEventsTypeOK, EventName
    <3>2. told[frame[2]] # "remove"
      BY <1>4, <2>1, <2>2, <3>1 DEF RemoveToCome
    <3> QED  BY <1>1, <1>4, <2>1, <3>1, <3>2, GoneTrigger
  <2>3. CASE frame[1] # "close"
    <3>1. moments' = <<>>
      BY <1>10, <2>1, <2>3 DEF FrameReturns
    <3>2. Len(moments') = 0
      BY <3>1
    <3> QED  BY <3>1, <3>2 DEF Gone
  <2> QED  BY <2>2, <2>3
<1> QED  BY <1>5, <1>6, <1>7, <1>8, <1>9, <1>10 DEF TubeEventsNext

LEMMA GoneAlways == TubeEventsSpec => []FreedAtOnce
<1>1. TubeEventsInit => FreedAtOnce
  <2>1. TubeEventsInit => moments = <<>> /\ Len(moments) = 0
    BY DEF TubeEventsInit
  <2> QED  BY <2>1 DEF FreedAtOnce, Gone
<1>2. HistoryInv /\ FreedAtOnce /\ [TubeEventsNext]_eventsVars => FreedAtOnce'
  BY GoneStep
<1> QED  BY <1>1, <1>2, HistoryAlways, PTL DEF TubeEventsSpec

\* For any number of tubes: events of a tube reach the application in the order
\* of its life, "add" first and "remove" last, none twice but "data" and a
\* "remove" of a freed tube, even those that callbacks trigger for tubes they
\* open and remove.
THEOREM Order == TubeEventsSpec => EventsInOrder
<1> DEFINE Fits(e, t) == Follows(told[t], e) \/ (e = "remove" /\ told[t] = e /\ ts[t] = "freed")
<1>1. ASSUME HistoryInv, FreedAtOnce, [TubeEventsNext]_eventsVars
      PROVE  [~inCb /\ inCb' => Fits(Head(moments)[1], Head(moments)[2])]_eventsVars
  <2>1. CASE Deliver
    <3>1. /\ TubeEventsTypeOK /\ RemoveLast /\ AddToCome /\ HeadFits
          /\ ~inCb /\ moments # <<>>
      BY <2>1, <1>1, Zenon DEF HistoryInv, History, Deliver
    <3>2. /\ Len(moments) \in Nat /\ Len(moments) > 0
          /\ Head(moments) = moments[1]
          /\ \E e \in EventName, t \in Tube : moments[1] = <<e, t>>
      BY <3>1, MomentTypes DEF TubeEventsTypeOK
    <3>3. PICK e \in EventName, t \in Tube : moments[1] = <<e, t>>
      BY <3>2
    <3>4. Head(moments)[1] = e /\ Head(moments)[2] = t
      BY <3>2, <3>3
    <3>6. Pending(e, t)
      BY <3>1, <3>2, <3>3 DEF Pending
    <3>7. e = "add" => told[t] = "nothing"
      BY <3>1, <3>6 DEF AddToCome
    <3>8. e = "remove" => told[t] # "nothing"
      <4> SUFFICES ASSUME e = "remove", Pending("add", t) PROVE FALSE
        <5>1. ts[t] # "new"
          BY <1>1, <2>1, <3>2, <3>3 DEF HistoryInv, History, Deliver, NewUnheard
        <5> QED BY <3>1, <5>1 DEF AddToCome
      <4>1. PICK i \in 1 .. Len(moments) : moments[i] = <<"add", t>>
        BY DEF Pending
      <4>2. i > 1
        BY <3>3, <4>1
      <4> QED BY <3>1, <3>2, <3>3, <4>1, <4>2 DEF RemoveLast
    <3>9. e \in {"running", "data", "close"} =>
            told[t] \in IF e = "running" THEN {"add"} ELSE {"add", "running", "data"}
      BY <3>1, <3>3 DEF HeadFits
    <3>10. e = "remove" /\ told[t] = "remove" => ts[t] = "freed"
      BY <1>1, <2>1, <3>1, <3>3 DEF FreedAtOnce, Gone, Deliver
    <3>11. Fits(e, t)
      <4>1. CASE e = "add"
        BY <3>7, <4>1 DEF Follows
      <4>2. CASE e = "running"
        BY <3>9, <4>2 DEF Follows
      <4>3. CASE e = "data"
        BY <3>9, <4>3 DEF Follows
      <4>4. CASE e = "close"
        BY <3>9, <4>4 DEF Follows
      <4>5. CASE e = "remove"
        BY <3>8, <3>10, <4>5 DEF Follows
      <4> QED BY <4>1, <4>2, <4>3, <4>4, <4>5 DEF EventName
    <3> QED BY <3>4, <3>11
  <2>2. CASE ~Deliver
    <3>1. inCb' => inCb
      BY <1>1, <2>2 DEF TubeEventsNext, eventsVars, OpenTube, TubeClose, TubeManagerRemove,
         HandleNew, HandleAck, HandleData, HandleClose, CallbackReturns, FrameReturns
    <3> QED BY <3>1
  <2> QED BY <2>1, <2>2
<1> QED BY <1>1, HistoryAlways, GoneAlways, PTL DEF TubeEventsSpec, EventsInOrder

\* For any number of tubes: the manager or a callback uses a tube that was freed
\* only if some callback called tube_manager_remove.  NoneFreed is inductive:
\* without such a call a tube is freed when no event waits and its own call ends.
THEOREM Freed == TubeEventsSpec => []FreedOnlyByCallback
<1>1. TubeEventsInit => NoneFreed
  BY DEF TubeEventsInit, NoneFreed, NoFrame
<1>2. ASSUME HistoryInv, NoneFreed, [TubeEventsNext]_eventsVars
      PROVE  NoneFreed'
  <2> SUFFICES ASSUME cbRemoved' = FALSE
               PROVE  /\ efault' = FALSE
                      /\ \A i \in 1 .. Len(moments') : ts'[moments'[i][2]] # "freed"
                      /\ frame' # NoFrame => ts'[frame'[2]] # "freed"
    <3>1. TubeEventsTypeOK'
      BY <1>2, HistoryStep DEF HistoryInv
    <3>2. cbRemoved' \in BOOLEAN
      BY <3>1 DEF TubeEventsTypeOK
    <3> QED BY <3>2 DEF NoneFreed
  <2>1. TubeEventsTypeOK
    BY <1>2 DEF HistoryInv
  <2>2. cbRemoved = FALSE
    BY <1>2, <2>1 DEF TubeEventsNext, eventsVars, OpenTube, TubeClose, TubeManagerRemove,
       HandleNew, HandleAck, HandleData, HandleClose, Deliver, CallbackReturns, FrameReturns,
       TubeEventsTypeOK
  <2>3. /\ efault = FALSE
        /\ \A i \in 1 .. Len(moments) : ts[moments[i][2]] # "freed"
        /\ frame # NoFrame => ts[frame[2]] # "freed"
    BY <1>2, <2>1, <2>2 DEF NoneFreed, TubeEventsTypeOK
  <2>4. ASSUME NEW e \in EventName, NEW t \in Tube, NEW f, Trigger(e, t, f),
               ts' \in [Tube -> TubeState], ts'[t] # "freed",
               \A u \in Tube : ts'[u] = "freed" => ts[u] = "freed"
        PROVE  /\ \A i \in 1 .. Len(moments') : ts'[moments'[i][2]] # "freed"
               /\ frame' # NoFrame => ts'[frame'[2]] # "freed"
    <3>1. /\ Len(moments) \in Nat /\ Len(moments') = Len(moments) + 1
          /\ \A i \in 1 .. Len(moments) : moments'[i] = moments[i] /\ moments[i][2] \in Tube
          /\ moments'[Len(moments) + 1] = <<e, t>>
      BY <2>1, <2>4, AppendAt, MomentTypes DEF Trigger, TubeEventsTypeOK
    <3>2. \A i \in 1 .. Len(moments') : ts'[moments'[i][2]] # "freed"
      BY <2>3, <2>4, <3>1
    <3>3. frame' = frame \/ frame' = <<f, t>>
      BY <2>4 DEF Trigger
    <3>4. frame # NoFrame => frame[2] \in Tube
      BY <2>1 DEF TubeEventsTypeOK
    <3> QED BY <2>3, <2>4, <3>2, <3>3, <3>4
  <2>5. ASSUME NEW t \in Tube, OpenTube(t) \/ HandleNew(t) \/ HandleAck(t) \/ HandleData(t)
                               \/ HandleClose(t)
        PROVE  /\ efault' = FALSE
               /\ \A i \in 1 .. Len(moments') : ts'[moments'[i][2]] # "freed"
               /\ frame' # NoFrame => ts'[frame'[2]] # "freed"
    <3>1. /\ efault' = FALSE /\ ts' \in [Tube -> TubeState] /\ ts'[t] # "freed"
          /\ \A u \in Tube : ts'[u] = "freed" => ts[u] = "freed"
          /\ \E e \in EventName : \E f : Trigger(e, t, f)
      BY <2>1, <2>3, <2>5 DEF OpenTube, HandleNew, HandleAck, HandleData, HandleClose,
         TubeEventsTypeOK, TubeState, EventName
    <3> QED BY <2>4, <3>1
  <2>6. ASSUME NEW t \in Tube, TubeManagerRemove(t)
        PROVE  /\ efault' = FALSE
               /\ \A i \in 1 .. Len(moments') : ts'[moments'[i][2]] # "freed"
               /\ frame' # NoFrame => ts'[frame'[2]] # "freed"
    <3>1. ~inCb
      BY <2>6, <2>2, Zenon DEF TubeManagerRemove
    <3>2. ts' = ts
      BY <2>6, <3>1, Zenon DEF TubeManagerRemove
    <3>3. /\ efault' = FALSE /\ ts[t] # "freed" /\ Trigger("remove", t, "remove")
          /\ "remove" \in EventName
      BY <2>3, <2>6 DEF TubeManagerRemove, Live, EventName
    <3> QED BY <2>1, <2>4, <3>2, <3>3 DEF TubeEventsTypeOK
  <2>7. ASSUME NEW t \in Tube, TubeClose(t)
        PROVE  /\ efault' = FALSE
               /\ \A i \in 1 .. Len(moments') : ts'[moments'[i][2]] # "freed"
               /\ frame' # NoFrame => ts'[frame'[2]] # "freed"
    <3>1. /\ \A u \in Tube : ts'[u] = "freed" => ts[u] = "freed"
          /\ frame' = frame /\ moments' = moments /\ efault' = FALSE
      BY <2>1, <2>3, <2>7 DEF TubeClose, TubeEventsTypeOK
    <3>2. /\ \A i \in 1 .. Len(moments) : moments[i][2] \in Tube
          /\ frame # NoFrame => frame[2] \in Tube
      BY <2>1, MomentTypes DEF TubeEventsTypeOK
    <3> QED BY <2>3, <3>1, <3>2
  <2>8. CASE Deliver
    <3>1. Len(moments) > 0 /\ Head(moments) = moments[1] /\ Len(moments) \in Nat
      BY <2>1, <2>8, MomentTypes DEF Deliver, TubeEventsTypeOK
    <3>2. ts[Head(moments)[2]] # "freed"
      BY <2>3, <3>1
    <3>3. efault' = FALSE
      BY <2>8, <3>2, Zenon DEF Deliver
    <3>4. ts' = ts /\ frame' = frame /\ moments' = moments
      BY <2>8 DEF Deliver
    <3> QED BY <2>3, <3>3, <3>4
  <2>9. CASE CallbackReturns
    <3>1. moments # <<>>
      BY <1>2, <2>9, Zenon DEF HistoryInv, History, Shape, CallbackReturns
    <3>2. /\ Len(moments) \in Nat /\ Len(moments') = Len(moments) - 1
          /\ \A i \in 1 .. Len(moments) - 1 : moments'[i] = moments[i + 1]
      BY <2>1, <2>9, <3>1, TailAt DEF CallbackReturns, TubeEventsTypeOK
    <3> QED BY <2>3, <2>9, <3>2 DEF CallbackReturns
  <2>10. CASE FrameReturns
    <3>1. /\ frame # NoFrame /\ moments = <<>> /\ frame[2] \in Tube /\ ts[frame[2]] # "freed"
          /\ Len(moments) = 0
      BY <2>1, <2>3, <2>10, MomentTypes DEF FrameReturns, TubeEventsTypeOK
    <3>2. efault' = FALSE
      BY <2>3, <2>10, <3>1 DEF FrameReturns
    <3>3. CASE frame[1] = "close"
      <4>1. /\ Trigger("remove", frame[2], "remove") /\ ts' = ts /\ "remove" \in EventName
        BY <2>1, <2>10, <3>1, <3>3 DEF FrameReturns, TubeEventsTypeOK, EventName
      <4> QED BY <2>1, <2>4, <3>1, <3>2, <4>1 DEF TubeEventsTypeOK
    <3>4. CASE frame[1] # "close"
      <4>1. frame' = NoFrame /\ moments' = <<>>
        BY <2>10, <3>1, <3>4 DEF FrameReturns
      <4>2. Len(moments') = 0
        BY <4>1
      <4> QED BY <3>2, <4>1, <4>2
    <3> QED BY <3>3, <3>4
  <2>11. CASE UNCHANGED eventsVars
    BY <2>3, <2>11 DEF eventsVars
  <2> QED BY <1>2, <2>5, <2>6, <2>7, <2>8, <2>9, <2>10, <2>11 DEF TubeEventsNext
<1>3. NoneFreed => FreedOnlyByCallback
  BY Zenon DEF NoneFreed, FreedOnlyByCallback
<1> QED BY <1>1, <1>2, <1>3, HistoryAlways, PTL DEF TubeEventsSpec
=============================================================================
